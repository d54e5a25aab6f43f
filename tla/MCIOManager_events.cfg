\* Two threads of the scheduler and one outside; a reader and a writer of one
\* descriptor beyond the initial table. What the kernel reports must reach the
\* waiting job.
SPECIFICATION FairSpec
CONSTANTS
    Threads = {t1, t2}
    Outside = {o}
    j1 = j1
    j2 = j2
    Jobs = {j1, j2}
    On <- Duplex
    InitSize = 2
    MaxGen = 1
    MaxOps = 2
    MaxHups = 1
    Nobody = Nobody
INVARIANTS
    TypeOK
    PendingMatches
    KernelAgrees
    EventKept
PROPERTY Delivered
