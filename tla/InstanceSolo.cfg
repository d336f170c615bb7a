SPECIFICATION Spec
CONSTANTS
    Processes = {p1}
    None = None
    name = name
    status = status
    weight = weight
    note = note
    v1 = v1
    v2 = v2
    Values = {v1, v2}
    Cells <- MCCells
    EntityCells <- MCEntityCells
    EntityDeltas <- MCEntityDeltas
    EdgeDeltas <- MCEdgeDeltas
    BatchDeltas <- MCBatchDeltas
    WorkflowDelta <- MCWorkflowDelta
    Ops = {"list", "page", "query", "preview", "apply", "add_entity", "add_relationship", "batch", "snapshot", "diff", "lock"}
    MaxRevision = 3
    MaxConfig = 1
    MaxBuild = 0
INVARIANTS
    CacheCoherent
    PagesAgree
    ReceiptsNameTheirState
    AppliesWhatWasPreviewed
CHECK_DEADLOCK FALSE
