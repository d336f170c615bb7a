SPECIFICATION Spec
CONSTANTS
    Processes = {p1}
    Signatures = {s1, s2}
    Tuples = {t1, t2}
    None = None
    TupleIdentity = FALSE
    AutoTrust = {"trusted", "watch"}
    Ops = {"propose", "resolve", "trust", "direct"}
    MaxGroups = 2
    MaxVersion = 2
    MaxResolutions = 2
SYMMETRY Symmetry
INVARIANTS
    ResolvesInspected
PROPERTIES
    DecisionsStand
    DirectWritesAreSeen
CHECK_DEADLOCK FALSE
