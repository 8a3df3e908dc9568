SPECIFICATION Spec
CONSTANTS
    a1 = a1
    a2 = a2
    p1 = p1
    p2 = p2
    p3 = p3
    p4 = p4
    Insureds = {a1}
    Pools = {p1, p2}
    Chartered = {p1}
    Governed = {p2}
    STATUS_MAX = 7
INVARIANTS
    CoverageCanBeCancelled
CHECK_DEADLOCK FALSE
