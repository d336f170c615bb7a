SPECIFICATION Spec
CONSTANTS
    Processes = {p1, p2}
    Records = {r1}
    Documents = {d1, d2}
    None = None
    MaxCalls = 3
    MaxRevisions = 2
    Things = {1, 2}
    Props = {1, 2}
    Payloads <- MCPayloads
    Earlier <- MCEarlier
    Threshold = 2
    MaxRevision = 2
    MaxReloads = 1
    MaxStamps = 2
    Comparisons <- MCComparisons
    Ends <- MCEnds
SYMMETRY Symmetry
INVARIANTS
    DecisionLogHonest
    CitationsHold
    CacheHonest
    DiffExact
CHECK_DEADLOCK FALSE
