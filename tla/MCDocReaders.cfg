SPECIFICATION MCSpec
CONSTANTS
    Ops = {o1, o2}
    NoOp = NoOp
    MaxSeq = 2
    SnapIds = {s1, s2}
    NoSnap = NoSnap
    Attempts = {1}
    Builders = {b1, b2}
    Pruners = {p1}
    MaxRevs = 2
    Racers = {b2}
CONSTRAINT
    RevBound
SYMMETRY Symm
CHECK_DEADLOCK FALSE
INVARIANTS
    AckedDurable
    FinalizedExact
    RevisionsReconstructable
    HistExactUnlessPruned
    
PROPERTIES
    AnnouncedStaysServable
