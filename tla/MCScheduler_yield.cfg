\* Two pool threads, jobs that hold: the assertion of YieldToReady and YieldToHold.
SPECIFICATION Spec
CONSTANTS
    Workers = {w1, w2}
    Caller = {}
    Jobs = {j1, j2}
    Fibers = {f1, f2, f3}
    AnyThread = AnyThread
    NoFiber = NoFiber
    NoJob = NoJob
    Pins = {AnyThread}
    SpawnPins = {AnyThread}
    MaxYields = 2
    MayHold = TRUE
SYMMETRY Symmetry
INVARIANT YieldsFromExec
