\* One pool thread and the use_caller thread; jobs yield READY, spawn and may be
\* pinned to the latter, and stop() is called at any time.
SPECIFICATION FairSpec
CONSTANTS
    Workers = {w1}
    Caller = {root}
    Jobs = {j1, j2}
    Fibers = {f1, f2, f3}
    AnyThread = AnyThread
    NoFiber = NoFiber
    NoJob = NoJob
    Pins = {root, AnyThread}
    SpawnPins = {AnyThread}
    MaxYields = 1
    MayHold = FALSE
INVARIANTS
    TypeOK
    CountersMatch
    NoAbort
    JobReachable
    StopDrains
PROPERTIES
    StartsOnPin
    StopTerminates
    JobsComplete
