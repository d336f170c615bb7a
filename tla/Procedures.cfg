\* The review of three records that may compete for two names, and runs of one
\* procedure against drifting config, lock and graph, retirement and crashes.
CONSTANTS
    n1 = n1  c1 = c1  c2 = c2  g1 = g1  g2 = g2  a1 = a1
    p1 = p1
    None = None
    ProcedureIds = {p1, p2, p3}
    RunIds = {r1}
    Names = {n1, n2}
    Actors = {alice, bob}
    Configs = {c1, c2}
    Artifacts = {a1, a2}
    Graphs = {g1, g2}
    Definitions <- MCDefinitions
SPECIFICATION FairSpec
CONSTRAINT Focus
INVARIANT OneLivePerName
INVARIANT SupersessionChain
INVARIANT VersionCountsTransitions
INVARIANT ProviderCallsReviewed
INVARIANT LedgerHonest
PROPERTY GovernanceAppendOnly
PROPERTY ImplementsRegister
PROPERTY RetirementStopsRuns
PROPERTY RunsSettle
