CONSTANTS
    Agents = {a1, a2}
    Managers = {a1}
    Sessions = {s1, s2}
    Keys = {k1, k2}
    Bodies = {b1}
    Operations = {"heartbeat", "note", "pin"}
    MaxClaim = 1
    MaxReceipts = 1
    MaxMessages = 0
    MaxRevisions = 4
    Everyone = Everyone
    Board = Board
    None = None
SPECIFICATION Spec
SYMMETRY SessionSymmetry
INVARIANTS
    OneOpenSession
    ClosedStaysOffline
    AppliedOnce
    RetryIsRecognized
CHECK_DEADLOCK FALSE
