SPECIFICATION Spec
CONSTANTS
    None = None
    Failed = Failed
    w1 = w1
    w2 = w2
    w3 = w3
    p1 = p1
    c1 = c1
    c2 = c2
    t1 = t1
    t2 = t2
CHECK_DEADLOCK FALSE
PROPERTIES EverythingEnds
