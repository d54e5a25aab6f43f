\* One thread owns the manager; the wall clock may be set back past the
\* rollover threshold.
SPECIFICATION FairSpec
CONSTANTS
    Timers = {x1}
    Threads = {t1}
    Periods = {0, 2}
    Kinds = {TRUE, FALSE}
    Start = 0
    MaxClock = 3
    MaxOps = 2
    MaxTimeout = 2
    IntMod = 64
    Hour = 1
    Jumps = {2}
    Outside = FALSE
PROPERTIES
    DueCollected
CHECK_DEADLOCK FALSE
