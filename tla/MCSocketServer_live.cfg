\* Three devices of one user, limit one; the process keeps running.
SPECIFICATION FairSpec
CONSTANTS
    p1 = p1
    p2 = p2
    p3 = p3
    x1 = x1
    u1 = u1
    NoMetaId = NoMetaId
    NoOne = NoOne
    Sock <- MCDevices
    MetaIds = {u1}
    MetaIdOf <- MCMetaIdOfDevices
    TypeOf <- MCTypeOfDevices
    MaxPC = 1
    MaxApp = 1
    StaleAfter = 0
    MaxTime = 1
    ShutdownAllowed = FALSE
PROPERTIES
    ClosedIsForgotten
    EvictedIsDisconnected
    SilentIsDisconnected
CHECK_DEADLOCK FALSE
