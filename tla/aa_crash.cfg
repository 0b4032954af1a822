SPECIFICATION Spec
CONSTANTS
    Caller = {p1}
    Candidate = {ca, cb}
    Evaluation = {e1, e2}
    Slot = {s1, s2}
    MaxEvents = 1
    None = None
    p1 = p1
    ca = ca
    cb = cb
    e1 = e1
    e2 = e2
    s1 = s1
    s2 = s2
INVARIANTS
    PromotedIsBound
PROPERTIES
    StoreGrows
    NeverRepaired
    IntactAfterSuccess

CHECK_DEADLOCK FALSE
