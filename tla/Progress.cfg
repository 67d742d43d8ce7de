\* One segment is refused for ever, another one waits for a message of a second topic; a user
\* comes and goes while one notification waits, and both workers may.
SPECIFICATION Spec
CHECK_DEADLOCK FALSE
CONSTANTS
    \* Inbox
    NoMessage = NoMessage
    s1 = s1
    s2 = s2
    s3 = s3
    t1 = t1
    t2 = t2
    p1 = p1
    Processors = {p1}
    Segments = {s1, s2, s3}
    Topics = {t1, t2}
    TopicOf <- TwoTopics
    Poison = {s1}
    Needs <- CrossTopicNeeds
    MaxMessages = 2
    MaxFaults = 1
    MaxCrashes = 0
    \* InAppNotifier
    w1 = w1
    w2 = w2
    n1 = n1
    c1 = c1
    u1 = u1
    Recipients = {u1}
    Notes = {n1}
    NoteOrder <- OneNote
    InAppChannels = {ch1}
    Conns = {c1}
    ConnUser <- OneConn
    Workers = {w1, w2}
    MaxRequests = 2
    MaxHistory = 2
    Nobody = Nobody
INVARIANT
    CommittedIsKept
PROPERTIES
    OthersProgress
    
