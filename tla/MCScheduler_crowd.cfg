\* Three pool threads race for the fiber of one job.
SPECIFICATION Spec
CONSTANTS
    Workers = {w1, w2, w3}
    Caller = {}
    Jobs = {j1}
    Fibers = {f1}
    AnyThread = AnyThread
    NoFiber = NoFiber
    NoJob = NoJob
    Pins = {AnyThread}
    SpawnPins = {AnyThread}
    MaxYields = 3
    MayHold = TRUE
SYMMETRY Symmetry
INVARIANTS
    CountersMatch
    JobOnce
