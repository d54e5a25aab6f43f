SPECIFICATION PoolSpec
CONSTANTS
    Users = {u1, u2}
    Conns = {c1, c2}
    NoConn = NoConn
    MaxRequest = 2
    MaxSize = 1
    MaxPoolRequests = 2
INVARIANT PoolBounded
CHECK_DEADLOCK FALSE
