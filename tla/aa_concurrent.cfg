SPECIFICATION Spec
CONSTANTS
    Caller = {p1, p2}
    Candidate = {ca}
    Evaluation = {e1, e2}
    Slot = {s1}
    MaxEvents = 1
    None = None
    p1 = p1
    p2 = p2
    ca = ca
    e1 = e1
    e2 = e2
    s1 = s1
INVARIANTS
    RequestIsPromoted
PROPERTIES
    NoRevokedAdoption

CHECK_DEADLOCK FALSE
