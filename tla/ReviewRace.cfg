SPECIFICATION Spec
CONSTANTS
    Processes = {p1, p2}
    Signatures = {s1}
    Tuples = {t1, t2}
    None = None
    TupleIdentity = FALSE
    AutoTrust = {"trusted", "watch"}
    Ops = {"propose", "resolve"}
    MaxGroups = 1
    MaxVersion = 2
    MaxResolutions = 2
SYMMETRY Symmetry
INVARIANTS
    ResolvesInspected
CHECK_DEADLOCK FALSE
