\* Two sessions replace channels or delete entries while deliveries go on, and transactions fail.
SPECIFICATION DeliverySpec
CONSTANTS
    i1 = i1
    e1 = e1
    c1 = c1
    c2 = c2
    g1 = g1
    Intels = {i1}
    Deliveries = {d1}
    Entries = {e1}
    Channels = {c1, c2}
    Groups = {g1}
    Sessions = {s1, s2}
    Users = {u1}
    NoUser = NoUser
    IntelOf <- OneIntel
    To <- OneRecipient
    Importance <- IntelImportance
    ChannelEntry <- EntryOfChannel
    Priority <- ChannelPriority
    MinImportance <- ChannelMinImportance
    ActiveChannels = {c1, c2}
    ForwardsTo <- GroupsOfChannel
    FirstChannels = {c1}
    MaxAttempts = 2
    MaxFaults = 1
INVARIANTS
    DeliveryTypeOK
    OneActiveAttempt
    ClosedDeliveryHasNoActiveAttempt
PROPERTIES
    FailsOnlyWithoutChannel
    AffectedAreLookedAfter
    EndedAttemptsStayEnded
    DeliveriesEnd
