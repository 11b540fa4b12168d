\* One node that restarts, is revoked and comes back; its clock may be ahead.
SPECIFICATION FairSpec
CONSTANTS
    NumNodes = 1
    MaxPeers = 0
    TTL = 1
    Validity = 0
    BackoffBase = 1
    BackoffMax = 2
    ReqTimeout = 1
    MaxSeq = 2
    MaxSkew = 1
    RevokeAllowed = TRUE
    a = a
    b = b
    bot = bot
    LocalEntries <- MCLocal
    ItemsOf <- MCItems
    UserRank <- MCUserRank
    Candidates = {bot}
    HomepagePage = 2
    DefaultScope = "global"
INVARIANTS
    GlobalListIsExact
    VisibleIsRecent
PROPERTIES
    SequenceMonotone
    RegisteredIsSeen
    RevokedDisappears
