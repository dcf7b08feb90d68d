CONSTANTS
    Agents = {a1}
    Managers = {}
    Sessions = {s1, s2}
    Keys = {k1}
    Bodies = {b1}
    Operations = {"note"}
    MaxClaim = 1
    MaxReceipts = 1
    MaxMessages = 0
    MaxRevisions = 1
    Everyone = Everyone
    Board = Board
    None = None
SPECIFICATION Spec
PROPERTY SupersededWriterIsFenced
CHECK_DEADLOCK FALSE
