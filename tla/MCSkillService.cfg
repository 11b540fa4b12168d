\* The scan goroutine alone and with the mempool goroutine, and a crash.
SPECIFICATION MCSpec
CONSTANTS
    c = c
    m1 = m1
    m2 = m2
    m3 = m3
    m0 = m0
    c0 = c0
    m4 = m4
    r = r
    g0 = g0
    g1 = g1
    NoPin = NoPin
    NoRecord = NoRecord
    NoTime = NoTime
    o1 = o1
    o2 = o2
    o3 = o3
    NoCursor = NoCursor
    Ambiguous = Ambiguous
    HomeChain = "mvc"
    PageSize = 2
    SectionLimit = 1
    Before <- MCBefore
    After <- MCAfter
    Stamp <- MCStamp
    Named = {m1}
    Disabled = {m2}
    Chains <- MCChains
    Op <- MCOp
    Target <- MCTarget
    Rate <- MCRate
    Valid = {c, m1, m2, m3, m4, g0, g1}
    WriterSets <- MCWriterSets
    MaxPolls = 2
    MaxCrashes = 1
INVARIANTS
    ServiceConverges
    ListedUnderCurrent
    RatedAtMostOnce
    ReadersAgree
PROPERTY RevokeIsTerminal
CHECK_DEADLOCK FALSE
