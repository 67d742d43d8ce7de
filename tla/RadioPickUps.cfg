\* Two operators, one of them a manager, and two deliveries.
SPECIFICATION RadioSpec
CHECK_DEADLOCK FALSE
CONSTANTS
    a1 = a1
    a2 = a2
    u1 = u1
    u2 = u2
    Attempts = {a1, a2}
    Operators = {u1, u2}
    Managers = {u2}
    NoOperator = NoOperator
    Checker = Checker
    Importance <- TwoImportances
    CreatedAt <- TwoAges
    MemberSets <- OneJoins
    MaxTx = 2
    MaxOffered = 1
    MaxFaults = 1
INVARIANTS
    RadioTypeOK
    ReleasedIsOffered
PROPERTIES
    HandedOutOnce
    HeldNotForEver
