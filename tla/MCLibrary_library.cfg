SPECIFICATION LibSpec
CONSTANTS
    \* Hook
    client = client
    owner = owner
    next = next
    Fibers = {client, next, owner}
    Fds = {1, 2}
    ThreadCounts = {1, 2}
    HookModes = {TRUE, FALSE}
    EarlyTimers = FALSE
    Fionbio = {TRUE}
    May <- Roles
    MaxOpen = 2
    MaxCalls = 2
    MaxData = 1
    NoFiber = NoFiber
    \* ByteArray
    BaseSize = 2
    Radix = 2
    VarintBytes = 3
    Numbers = {0, 1, 3, 6}
    Strings <- SomeStrings
    ReadSizes = {1, 2, 3}
    Aligned = TRUE
    MaxBlocks = 3
    MaxBufOps = 4
    \* ConnectionPool
    Users = {u1, u2}
    Conns = {c1, c2}
    NoConn = NoConn
    MaxRequest = 2
    MaxSize = 2
    MaxPoolRequests = 3
    \* HttpReceive
    Messages <- SomeMessages
    HeadSize = 3
    FieldAt = 2
    SizeBytes = 2
    BuffSize = 5
    Pipelined = FALSE
    \* TcpServer
    Socks = {s1, s2, s3}
    BadSocks = {s3}
    Loops = {l1, l2}
    OneThread = TRUE
    Restart = FALSE
    MaxClients = 2
    \* ConfigLoad
    Loaders = {w1}
    Overlap = FALSE
    LoggerNames = {1, 2}
    Levels = {"DEBUG", "INFO", "ERROR"}
    Appenders = {"file", "stdout"}
    Definitions <- SomeDefinitions
    Undefined = Undefined
    Broken = Broken
    MaxTime = 3
    MaxEdits = 2
    \* Daemon
    Launches = {d1, d2, d3}
    Foreground = {}
    NoLaunch = NoLaunch
    MaxCrashes = 2
INVARIANTS
    LibTypeOK
    NoLostWaiter
    
    TimeoutKeptAlone
    CursorAgrees
    AnswersOwn
    OneOwner
    IdleUsable
    TotalCounts
    MessageExact
    NoLoopLeft
    LoggersFollow
    GuardLeft
PROPERTIES
    LooksBlocking
    ConnectTrue
    BehavesFlat
    NumberReadsBack
CHECK_DEADLOCK FALSE
