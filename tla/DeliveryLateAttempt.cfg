\* An attempt created while the channel's attempts are being canceled.
INIT DeliveryInit
NEXT DeliveryNext
CONSTANTS
    i1 = i1
    e1 = e1
    c1 = c1
    c2 = c2
    g1 = g1
    Intels = {i1}
    Deliveries = {d1}
    Entries = {e1}
    Channels = {c1, c2}
    Groups = {g1}
    Sessions = {s1}
    Users = {u1}
    NoUser = NoUser
    IntelOf <- OneIntel
    To <- OneRecipient
    Importance <- IntelImportance
    ChannelEntry <- EntryOfChannel
    Priority <- ChannelPriority
    MinImportance <- ChannelMinImportance
    ActiveChannels = {c1, c2}
    ForwardsTo <- GroupsOfChannel
    FirstChannels = {c1}
    MaxAttempts = 1
    MaxFaults = 0
INVARIANTS
    DeletedAttemptsAreCanceled
