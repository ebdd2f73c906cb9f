SPECIFICATION FairSpec
CONSTANTS
    Pollers = {p1, p2}
    Readers = {r1}
    Queues = {q1, q2}
    Counts = {0, 7}
    Cells = {1, 2, 3, 4, 5}
    None = None
    Half = 4
    Targets <- MCTargets
    Sizes <- MCSizes
    MaxChange = 2
INVARIANTS
    TypeOK
    SizedRight
PROPERTIES
    IsAtomic
    EventuallyCurrent
