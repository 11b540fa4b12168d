CONSTANTS
    i1 = i1  n1 = n1  n2 = n2  k1 = k1  a1 = a1  r1 = r1  r2 = r2  x1 = x1  q1 = q1
    Chains <- MCChains
    WriterSets <- MCWriterSets
    Readers <- MCReaders
    Modes <- MCModes
    OwnIds <- MCOwnIds
    RemoteIds <- MCRemoteIds
    Field <- MCField
    MaxPolls = 0
    MaxCrashes = 1
    MaxRequests = 2
    NoPin = NoPin
    NoProfile = NoProfile
    NoKey = NoKey
SPECIFICATION MCSpec
INVARIANTS
    StaleIsExplained
    PinsAreKept
    StoredIsFound
CHECK_DEADLOCK FALSE
