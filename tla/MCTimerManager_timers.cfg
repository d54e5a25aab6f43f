\* Two idle threads and two one-shot timers; one call of cancel, refresh or
\* reset, from any thread.
SPECIFICATION Spec
CONSTANTS
    Timers = {x1, x2}
    Threads = {t1, t2}
    Periods = {0, 2}
    Kinds = {FALSE}
    Start = 0
    MaxClock = 1
    MaxOps = 1
    MaxTimeout = 1
    IntMod = 64
    Hour = 3
    Jumps = {}
    Outside = TRUE
SYMMETRY Symmetry
INVARIANTS
    TypeOK
    FrontCovered
    SleepBounded
    EraseSafe
    OneShot
PROPERTIES
    NeverEarly
CHECK_DEADLOCK FALSE
