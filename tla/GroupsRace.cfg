SPECIFICATION Spec
CONSTANTS
    Processes = {p1, p2}
    Signatures = {s1}
    Tuples = {t1}
    None = None
    TupleIdentity = TRUE
    AutoTrust = {"trusted"}
    Ops = {"propose", "resolve"}
    MaxGroups = 2
    MaxVersion = 2
    MaxResolutions = 2
SYMMETRY Symmetry
INVARIANTS
    OnePending
    GroupEdgesApproved
CHECK_DEADLOCK FALSE
