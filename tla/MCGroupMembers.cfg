\* The scan goroutine alone and with the mempool goroutine, and a crash.
SPECIFICATION MCSpec
CONSTANTS
    a = a
    b = b
    c = c
    create = create
    join = join
    leave = leave
    admin = admin
    admins = admins
    block = block
    blockA = blockA
    again = again
    chat = chat
    chat2 = chat2
    bad = bad
    nobody = nobody
    NoPin = NoPin
    NoGroup = NoGroup
    NoMember = NoMember
    NoRole = NoRole
    Users = {a, b, c}
    Chains <- MCChains
    Op <- MCOp
    By <- MCBy
    Named <- MCNamed
    Valid = {create, join, leave, admin, admins, block, blockA, again, chat, chat2, nobody}
    WriterSets <- MCWriterSets
    MaxPolls = 2
    MaxCrashes = 1
    NotifyCap = 1
INVARIANTS
    RolesConverge
    MembersConverge
    NotifiedIsApplied
    MessageReachesMembers
CHECK_DEADLOCK FALSE
