CONSTANTS
    n1 = n1
    e1 = e1
    o1 = o1
    Subs = {n1, e1, o1}
    SubType <- MCSubType
    Publishers = {p1, p2}
    Nobody = Nobody
    MaxSubs = 3
    MaxPubs = 2
SPECIFICATION Spec
SYMMETRY Symmetric
INVARIANTS TypeOK DispatchOrder OneTimeOnce HeardUnlessOvertaken QuietUnlessOvertaken
CHECK_DEADLOCK FALSE
