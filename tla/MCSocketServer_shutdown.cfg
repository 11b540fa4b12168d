\* Shutdown with connections: DisconnectAll waits for itself.
SPECIFICATION FairSpec
CONSTANTS
    p1 = p1
    p2 = p2
    p3 = p3
    x1 = x1
    u1 = u1
    NoMetaId = NoMetaId
    NoOne = NoOne
    Sock <- MCDevices
    MetaIds = {u1}
    MetaIdOf <- MCMetaIdOfDevices
    TypeOf <- MCTypeOfDevices
    MaxPC = 2
    MaxApp = 1
    StaleAfter = 0
    MaxTime = 1
    ShutdownAllowed = TRUE
PROPERTY ShutdownCompletes
CHECK_DEADLOCK FALSE
