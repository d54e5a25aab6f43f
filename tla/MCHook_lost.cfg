SPECIFICATION Spec
CONSTANTS
    client = client
    owner = owner
    Fibers = {client, owner}
    Fds = {1}
    ThreadCounts = {2}
    HookModes = {TRUE}
    EarlyTimers = FALSE
    Fionbio = {TRUE}
    May <- CloseRoles
    MaxOpen = 1
    MaxCalls = 2
    MaxData = 1
    NoFiber = NoFiber
INVARIANTS
    TimeoutKept
\* Fibers without a timeout may wait for ever.
CHECK_DEADLOCK FALSE
