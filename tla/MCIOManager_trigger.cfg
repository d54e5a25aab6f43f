\* Two threads, a reader and a writer of one descriptor.
SPECIFICATION Spec
CONSTANTS
    Threads = {t1, t2}
    Outside = {}
    j1 = j1
    j2 = j2
    Jobs = {j1, j2}
    On <- Duplex
    InitSize = 2
    MaxGen = 1
    MaxOps = 2
    MaxHups = 0
    Nobody = Nobody
INVARIANT TriggersRegistered
