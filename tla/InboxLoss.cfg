\* A crash between the commit of the Kafka offset and that of the inbox row.
INIT InboxInit
NEXT InboxNext
CHECK_DEADLOCK FALSE
CONSTANTS
    NoMessage = NoMessage
    s1 = s1
    s2 = s2
    t1 = t1
    Processors = {p1}
    Segments = {s1, s2}
    Topics = {t1}
    TopicOf <- OneTopic
    Poison = {}
    Needs <- NoNeeds
    MaxMessages = 3
    MaxFaults = 0
    MaxCrashes = 1
INVARIANTS
    CommittedIsKept
