\* The engine's goroutines together, the scan with a replay, and one goroutine alone.
SPECIFICATION MCSpec
CONSTANTS
    c = c
    m1 = m1
    m2 = m2
    m3 = m3
    r = r
    NoPin = NoPin
    NoRecord = NoRecord
    Chains <- MCChains
    Op <- MCOp
    Target <- MCTarget
    HasPayload = {c, m1, m2}
    WriterSets <- MCWriterSets
    SortByCreated = FALSE
    MinedAt <- MCMinedAt
    Lookbacks = {1, 3}
    MaxPolls = 2
    MaxCrashes = 1
    o1 = o1
    o2 = o2
    o3 = o3
    Others <- MCOthers
    OwnIds = {"global", "metaid"}
    Stamp <- MCStamp
    SectionLimit = 2
INVARIANTS
    Converges
    ReplayRepairs
    IndexIsCurrent
    SectionIsHonest
CHECK_DEADLOCK FALSE
