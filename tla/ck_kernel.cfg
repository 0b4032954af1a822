SPECIFICATION FairSpec
CONSTANTS
    Caller = {p1, p2}
    Cap = {"a", "x", "b"}
    Deps <- Shared
    MaxInstances <- Bounds
    None = None
    p1 = p1
    p2 = p2
INVARIANTS TypeOK StateTellsEffects ActiveHasProviders NoStaleEdges
PROPERTY CallsReturn
