\* One goroutine and both, a crash, and a client of each kind.
SPECIFICATION MCSpec
CONSTANTS
    Chains <- MCChains
    WriterSets <- MCWriterSets
    MaxPolls = 2
    MaxCrashes = 1
    Room <- MCRoom
    BlockTime <- MCBlockTime
    Times = {1, 3}
    Valid = {1, 2, 3, 4}
    NewChannel = {6}
    Root = "root"
    PageSize = 1
    NotifyCap = 1
INVARIANTS
    CursorPagesComplete
    TimePagesComplete
    IndexedIsSeen
    PushedIsListed
    ListedOnce
    HomeShowsNewest
CHECK_DEADLOCK FALSE
