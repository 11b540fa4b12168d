\* Three devices of one user, limit two: eviction, timeouts and shutdown.
SPECIFICATION Spec
CONSTANTS
    p1 = p1
    p2 = p2
    p3 = p3
    x1 = x1
    u1 = u1
    NoMetaId = NoMetaId
    NoOne = NoOne
    Sock <- MCSock
    MetaIds = {u1}
    MetaIdOf <- MCMetaIdOf
    TypeOf <- MCTypeOf
    MaxPC = 2
    MaxApp = 1
    StaleAfter = 0
    MaxTime = 1
    ShutdownAllowed = TRUE
SYMMETRY MCDevicesSymmetry
INVARIANTS
    DeviceLimit
    NewestSurvive
    ClosedIsBeingRemoved
CHECK_DEADLOCK FALSE
