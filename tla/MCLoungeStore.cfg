CONSTANTS
    Agents = {a1, a2}
    Managers = {}
    Sessions = {s1, s2, s3}
    Keys = {k1, k2}
    Bodies = {b1}
    Operations = {"send", "claim", "ack"}
    MaxClaim = 1
    MaxReceipts = 1
    MaxMessages = 2
    MaxRevisions = 0
    Everyone = Everyone
    Board = Board
    None = None
SPECIFICATION Spec
SYMMETRY Symmetry
INVARIANTS
    TypeOK
    AtLeastOnce
    DeliveredInOrder
    OneMessagePerKey
PROPERTY NeverTakenBack
CHECK_DEADLOCK FALSE
