SPECIFICATION Spec
CONSTANTS
    Caller = {p1}
    Candidate = {c1, c2}
    Content = {x1, x2}
    MayDelete = TRUE
    None = None
    p1 = p1
    c1 = c1
    c2 = c2
    x1 = x1
    x2 = x2
INVARIANT ReferencedKeepsContent

CHECK_DEADLOCK FALSE
