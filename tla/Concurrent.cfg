\* Two requests, workers or transactions of each component at a time; the broker may lose a write.
INIT Init
NEXT Next
SYMMETRY Symmetric
CHECK_DEADLOCK FALSE
CONSTANTS
    s1 = s1
    s2 = s2
    t1 = t1
    u1 = u1
    u2 = u2
    \* Outbox
    Producers = {a, b}
    Workers = {r1, r2}
    NoWorker = NoWorker
    NoProducer = NoProducer
    Segments = {s1, s2}
    Topics = {t1}
    TopicOf <- OneTopic
    MaxID = 3
    MaxFaults = 2
    RowLocks = TRUE
    AckedWrites = FALSE
    \* AutoDelivery
    Entries = {a, b, e}
    Txs = {r1, r2}
    \* UserRecords
    Users = {u1, u2}
    Names = {root, bob}
    AdminName = root
    Passes = {pw1, pw2}
    UserReqs = {r1, r2}
    Tokens <- MCTokens
    AdminPass = pw1
    MaxUserEvents = 1
    Listeners = {"gateway", "group"}
    NoUser = NoUser
    \* Operations
    Ops = {o1}
    People = {a, b}
    OpReqs = {r1, r2}
    Operation = {d1, d2}
    Callers <- MCCallers
    OpListeners = {"logistics", "radio"}
    MaxOpEvents = 1
    NoOp = NoOp
    \* Groups
    Groups = {g1}
    GroupOps = {go1}
    GroupUsers = {gu1}
    GroupReqs = {r1, r2}
    GroupCallers <- MCGroupCallers
    MaxGroupEvents = 1
    Global = Global
    NoGroup = NoGroup
    Deleted = Deleted
    \* Sessions
    Holders = {h1}
    HolderPasses = {d1, d2}
    SessionTokens = {a, b}
    GateReqs = {r1, r2}
    NoHolder = NoHolder
    Unused = Unused
    Closed = Closed
    \* Permissions
    Grantees = {gt1}
    Grants = {a, b}
    GrantReqs = {r1, r2}
    Granters <- MCGranters
    MaxGrantEvents = 2
    NoGrantee = NoGrantee
    \* DeliveryMirror
    MirrorDeliveries = {md1}
    MirrorAttempts = {a, b}
    DeliveryOf <- OneDelivery
    MirrorEntries = {me1}
    RecipientOf <- OneRecipient
    TheIntel = TheIntel
    MaxMirrorEvents = 3
    MaxMirrorFaults = 1
INVARIANTS
    TypesOK
    OnlyCommittedLeave
    OneWorkerPerSegment
    
    AdminStands
    MembersAsTold
    GroupsWithinOperation
    SessionsAreCurrent
    
PROPERTIES
    LoneChangeSetsOneEntry
    LoneChangeIsAnnounced
    NobodyEnabledUnasked
