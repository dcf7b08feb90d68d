CONSTANTS
    Ops = {o1, o2}
    Workers = {w1, w2}
    Commands = {"recover"}
    MaxRecords = 1
    MaxFaults = 0
    HostCloses = FALSE
    Close = Close
    None = None
SPECIFICATION Spec
SYMMETRY Symmetry
PROPERTY RecoverOutcomeNeverRevised
