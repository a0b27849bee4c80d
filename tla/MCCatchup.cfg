SPECIFICATION MCSpec
CONSTANTS
    Ops = {o1, o2}
    NoOp = NoOp
    MaxSeq = 2
    SnapIds = {s1, s2}
    NoSnap = NoSnap
    Attempts = {1}
    Builders = {b1}
    Pruners = {p1}
    MaxRevs = 2
    Racers = {}
CONSTRAINT RevBound
SYMMETRY Symm
CHECK_DEADLOCK FALSE
INVARIANT CatchupComplete
