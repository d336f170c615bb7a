SPECIFICATION Spec
CONSTANTS
    Subjects = {"telemetry", "relocation", "pull", "query", "workflow", "identity"}
    Surfaces = {a, b, c}
    Flushers = {f, r}
    MaxBuffered = 2
    MaxClock = 4
    MaxEvents = 1
    Instances = {A, B}
    Dirs = {d1, d2, d3, d4}
    MaxWrites = 1
    MaxArtifacts = 2
    Entities = {e1, e2}
    Rules = {k1}
    Content <- MCContent
    Breaking <- MCBreaking
    MaxCrashes = 2
    MaxEdits = 1
    Plans <- MCPlans
    Starts <- MCStarts
    MaxApplies = 2
    MaxOtherWrites = 1
    Tuples = {1, 2}
    TypeOf <- MCTypeOf
    Firsts <- MCFirsts
    MaxThings = 4
    MaxReleases = 5
    MaxMints = 5
    MaxStamps = 1
    None = None
INVARIANTS
    Accounted
    NothingStranded
    PullExplainable
    AnswerAsDeclared
    WorkflowExact
    IdentityHolds
CHECK_DEADLOCK FALSE
