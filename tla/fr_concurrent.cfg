SPECIFICATION Spec
CONSTANTS
    Caller = {p1, p2}
    Candidate = {c1, c2}
    Content = {x1, x2}
    MayDelete = FALSE
    None = None
    p1 = p1
    p2 = p2
    c1 = c1
    c2 = c2
    x1 = x1
    x2 = x2
PROPERTY SealsOnce

CHECK_DEADLOCK FALSE
