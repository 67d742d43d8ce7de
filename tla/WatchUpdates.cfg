\* Clients come and go while deliveries change; retrievals and sends fail; connections end.
SPECIFICATION Spec
CHECK_DEADLOCK FALSE
CONSTANTS
    NoWatcher = NoWatcher
    l1 = l1
    l2 = l2
    l3 = l3
    w1 = w1
    c1 = c1
    c2 = c2
    Listeners = {l1, l2, l3}
    Watchers = {w1}
    MaxChanges = 1
    MaxFaults = 1
    SubOps = {o1, o2}
    MaxAsks = 3
    NoSub = NoSub
    NoOp = NoOp
    HubChannels = {c1, c2}
    MaxForwards = 2
    NoChannel = NoChannel
INVARIANTS
    TypesOK
    NoLostChange
    NoLostList
    ClientKnowsItsSubscriptions
PROPERTIES
    ClientsCatchUp
    ConnectionsEnd
