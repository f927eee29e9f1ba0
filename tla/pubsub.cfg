\* Two publishers and two subscribers; a subscription expires after one tick.
CONSTANTS
    Conns = {c1, c2}
    Data = {d1, d2}
    Publishers = {p1, p2}
    sub_duration = 1
    MaxTime = 4
SPECIFICATION Spec
INVARIANTS
    SubsTypeOK
    IterationStable
PROPERTIES
    LiveSubsKept
