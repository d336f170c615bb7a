SPECIFICATION Spec
CONSTANTS
    Processes = {p1}
    Signatures = {s1}
    Tuples = {t1, t2}
    None = None
    TupleIdentity = FALSE
    AutoTrust = {"trusted", "watch"}
    Ops = {"propose", "resolve", "trust"}
    MaxGroups = 2
    MaxVersion = 2
    MaxResolutions = 2
SYMMETRY Symmetry
INVARIANTS
    ReapprovalResetsTrust
CHECK_DEADLOCK FALSE
