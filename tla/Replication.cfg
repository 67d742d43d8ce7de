\* Two instances, transactions or requests of each part at a time; reads fail, crashes, retries.
INIT Init
NEXT Next
SYMMETRY Symmetric
CHECK_DEADLOCK FALSE
CONSTANTS
    s1 = s1
    s2 = s2
    t1 = t1
    u1 = u1
    u2 = u2
    o1 = o1
    i1 = i1
    \* Inbox
    NoMessage = NoMessage
    Processors = {p1, p2}
    Segments = {s1, s2}
    Topics = {t1}
    TopicOf <- OneTopic
    Poison = {}
    Needs <- NoNeeds
    MaxMessages = 3
    MaxFaults = 2
    MaxCrashes = 1
    \* AddressBook
    BookEntries = {b1}
    BookUsers = {u1, u2}
    BookOps = {o1}
    BookRows <- MCBookRows
    BookCallers <- MCBookCallers
    BookRequests = {r1}
    BookHandlers = {r2}
    None = None
    NoEntry = NoEntry
    RemovedEntry = RemovedEntry
    \* Intel
    IntelIDs = {i1}
    IntelEntries = {e1, e2}
    IntelUsers = {u1, u2}
    IntelMembers <- MCIntelMembers
    IntelCallers <- MCIntelCallers
    IntelTxs = {p1, p2}
    NoIntel = NoIntel
    NoOwner = NoOwner
    GoneEntry = GoneEntry
    \* SearchSync
    Docs = {d1, d2}
    All = All
    Contents = {c1}
    Absent = Absent
    Instances = {p1, p2}
    Nobody = Nobody
    RemainingTries = 2
    BatchSize = 1
    MaxActions = 3
    MaxSearchFaults = 2
INVARIANTS
    TypesOK
    
    SearchFollowsTables
    ShownIsPermitted

    
