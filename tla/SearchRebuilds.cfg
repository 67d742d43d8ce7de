\* One instance; one document more than a batch has room for.
SPECIFICATION SearchSpec
CHECK_DEADLOCK FALSE
CONSTANTS
    Docs = {d1, d2}
    All = All
    Contents = {c1}
    Absent = Absent
    Instances = {p1}
    Nobody = Nobody
    RemainingTries = 2
    BatchSize = 1
    MaxActions = 3
    MaxSearchFaults = 0
PROPERTY
    RebuildsEnd
