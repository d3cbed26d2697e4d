SPECIFICATION Spec
CONSTANTS
    l1 = l1
    l2 = l2
    p1 = p1
    p2 = p2
    p3 = p3
    Launchers = {l1, l2}
    Pids = {p1, p2, p3}
    NoPid = NoPid
    Retries = 1
    MaxRuns = 2
    MaxOutside = 1
SYMMETRY Symmetry
CHECK_DEADLOCK FALSE
INVARIANTS
    ForeignUntouched
    OneHub
    OkIsTrue
    RaceLeavesHub
    SelfHealing
