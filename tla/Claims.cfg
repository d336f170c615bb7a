SPECIFICATION Spec
CONSTANTS
    None = None
    Processes = {p1}
    Claims = {c1, c2}
    Entities = {e1, e2, e3}
    Groups = {g1}
    Props = {q1, q2}
    Values = {v1, v2}
    FreeStatuses = {"active", "inactive"}
    Keys = {k1}
    MaxAttestations = 2
SYMMETRY Symmetry
CONSTRAINT Focus
INVARIANTS
    SupersessionAcyclic
    DriftIsDivergence
    ReviewIsLastWord
    ObservationsStand
