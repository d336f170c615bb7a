SPECIFICATION Spec
CONSTANTS
    Processes = {p1, p2}
    None = None
    name = name
    status = status
    weight = weight
    note = note
    v1 = v1
    v2 = v2
    Values = {v1, v2}
    Cells <- MCCells
    EntityCells <- MCEntityCells
    EntityDeltas <- MCEntityDeltas
    EdgeDeltas <- MCEdgeDeltas
    BatchDeltas <- MCBatchDeltas
    WorkflowDelta <- MCWorkflowDelta
    Ops = {"preview", "apply", "batch", "snapshot", "lock", "diff"}
    MaxRevision = 2
    MaxConfig = 2
    MaxBuild = 0
INVARIANTS
    SnapshotChain
    CoordinateGraph
    AppliesThePreviewedPlan
PROPERTY
    NoLostUpdate
SYMMETRY Symmetry
CHECK_DEADLOCK FALSE
