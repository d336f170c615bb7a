---------------------------- MODULE MCSubsystems ----------------------------
(* Six subsystems that share no state, on small instances: telemetry,        *)
(* relocation of governed instances, pulls of an overlay, query traversal,   *)
(* the steps of canonical workflows and claim identity.                      *)
(* A behaviour is about one of them, its subject; the others stay put.       *)
EXTENDS Integers, Sequences, FiniteSets

CONSTANTS
    Subjects,                                              \* what a run explores
    Surfaces, Flushers, MaxBuffered, MaxClock, MaxEvents,  \* Telemetry
    Instances, Dirs, MaxWrites, MaxArtifacts,              \* Relocation
    Entities, Rules, Content, Breaking, MaxCrashes, MaxEdits, \* OverlayPull
    Plans, Starts, MaxApplies, MaxOtherWrites,             \* WorkflowSteps
    Tuples, TypeOf, Firsts,                                \* ClaimIdentity
    MaxThings, MaxReleases, MaxMints, MaxStamps,
    None

VARIABLES subject
VARIABLES pending, droppedObs, droppedEvents, flush, stored, storedDrops, clock, kept,
          refused, events, shed
VARIABLES disk, registry, loaded, artifacts, op, acked, lost
VARIABLES tag, releases, current, config, provenance, tracked, lock, graph, receipt,
          receipted, preview, pull, settled, crashes, edits
VARIABLES world, query, step, inputs, walk, truncated, rows, reasons, phase
VARIABLES plan, tables, image, head, sources, run, held, last, others
VARIABLES release, things, published, history, shifted, era, claims, identities, mints,
          followed, stamps

telemetryVars == <<pending, droppedObs, droppedEvents, flush, stored, storedDrops,
                   clock, kept, refused, events, shed>>
relocationVars == <<disk, registry, loaded, artifacts, op, acked, lost>>
pullVars == <<tag, releases, current, config, provenance, tracked, lock, graph, receipt,
              receipted, preview, pull, settled, crashes, edits>>
queryVars == <<world, query, step, inputs, walk, truncated, rows, reasons, phase>>
workflowVars == <<plan, tables, image, head, sources, run, held, last, others>>
identityVars == <<release, things, published, history, shifted, era, claims, identities,
                  mints, followed, stamps>>

-----------------------------------------------------------------------------
\* A process has so many named surfaces and so many threads that flush.
ASSUME TelemetryAssumption == IsFiniteSet(Surfaces) /\ IsFiniteSet(Flushers)

\* The server derives a directory of its own for each id; which one is all the same.
OwnDirectories ==
    {f \in [Instances -> Dirs] : \A x, y \in Instances : f[x] = f[y] => x = y}
MCDefault == CHOOSE f \in OwnDirectories : TRUE
OneId == CHOOSE id \in Instances : TRUE

\* There is room for every instance, and no directory is the absent one.
ASSUME DirectoriesAssumption ==
    /\ OwnDirectories # {}
    /\ None \notin Dirs
    /\ None \notin [of : Instances, writes : 0..MaxWrites]
    /\ MaxWrites \in Nat

\* Releases that drop an entity, bring it back and drop another; the third breaks.
OneEntity == CHOOSE e \in Entities : TRUE
MCContent == <<Entities, Entities \ {OneEntity}, Entities, {OneEntity}>>
MCBreaking == {3}

\* There is a first release; what is absent is neither a release nor a receipt
\* of a pull.
ASSUME ReleasesAssumption ==
    LET known == 1..Len(Content)
    IN  Content \in Seq(SUBSET Entities) /\ Content # <<>> /\ None \notin known /\ None \notin [previous : known, release : known]

\* Four entities with a fork, a bridge and a way back, each relationship
\* present or not; one of them may be hidden, one candidate may be filtered.
MCWorlds ==
    [edges : SUBSET {<<1, 1, 2>>, <<1, 1, 3>>, <<1, 2, 4>>, <<1, 3, 4>>, <<1, 3, 2>>, <<2, 2, 1>>},
     blocked : {{}, {<<1, 3, 4>>}}, retired : {{}, {1}, {2}, {2, 3}, {4}},
     failing : {{}, {2}}, goals : {{2, 4}}]

TStep(rels, depth, required) == [rels |-> rels, depth |-> depth, required |-> required]
Out == <<1, "outgoing">>
Both == <<1, "both">>
Back == <<2, "outgoing">>
Query(shape, dedupe, state, steps, cap, perResult, limit) ==
    [shape |-> shape, dedupe |-> dedupe, state |-> state, steps |-> steps,
     cap |-> cap, perResult |-> perResult, limit |-> limit]
MCQueries ==
    {Query("entity", "entity", "live", <<TStep(<<Out>>, 2, TRUE)>>, 0, 0, 0),
     Query("entity", "entity", "not-live",
           <<TStep(<<Out>>, 1, TRUE), TStep(<<Out, Back>>, 2, TRUE)>>, 0, 0, 1),
     Query("path", "path", "live", <<TStep(<<Out>>, 2, TRUE)>>, 1, 0, 0),
     Query("path", "path", "all",
           <<TStep(<<Out>>, 2, TRUE), TStep(<<Out, Back>>, 1, FALSE)>>, 3, 1, 0),
     Query("path", "entity", "live",
           <<TStep(<<Out>>, 1, FALSE), TStep(<<Out>>, 1, TRUE)>>, 0, 0, 0),
     Query("path", "none", "all",
           <<TStep(<<Out>>, 2, TRUE), TStep(<<Out>>, 1, FALSE)>>, 0, 1, 0),
     Query("relationship", "path", "not-live", <<TStep(<<Both>>, 2, TRUE)>>, 2, 1, 2)}

\* Plans that read their own writes, join complete with cut reads and with rows
\* already made into a set, take values of other steps, pass rows through
\* providers that do or do not list them, and register artifacts; written under
\* config rules or none.
WQuery(limit) == [kind |-> "query", limit |-> limit]
WStep(kind, src) == [kind |-> kind, src |-> src]
WNaming(kind, src, ref) == [kind |-> kind, src |-> src, ref |-> ref]
WTo(kind, src) == WNaming(kind, src, 0)
WJoin(src, right, ref) == [kind |-> "join", src |-> src, right |-> right, ref |-> ref]
WProvider(src, listed) ==
    [kind |-> "provider", src |-> src, listed |-> listed,
     adds |-> <<[id |-> 3, val |-> 1], [id |-> 1, val |-> 0]>>]
WApply(src, rules) == [kind |-> "apply_entities", src |-> src, rules |-> rules]
WLink(src, target, rules) ==
    [kind |-> "apply_relationships", src |-> src, target |-> target, rules |-> rules]
WAll(src, rels, target, rules) ==
    [kind |-> "apply_all", src |-> src, rels |-> rels, target |-> target, rules |-> rules]
WCounted(registering) ==
    <<WQuery(9), WTo("filter", 1), [kind |-> "count", src |-> 2, least |-> 1],
      WStep("register", 2), WNaming("shape", 2, 4), WTo("make", 5), WApply(6, {})>> \o registering
WRules == {{}, {"guarded"}, {"validated"}, {"mint_only"}}
MCPlans ==
    {<<WQuery(9), WStep("not_truncated", 1), WProvider(1, TRUE), WTo("make", 3),
       WApply(4, {}), WQuery(9), WTo("shape", 6), WTo("make", 7), WLink(8, 1, {})>>,
     <<WQuery(1), WTo("shape", 1), WQuery(9), WJoin(3, 2, 0), WStep("not_truncated", 4),
       WTo("make", 4), WAll(6, 6, 1, {})>>,
     <<WQuery(9), WProvider(1, FALSE), WQuery(2), WJoin(2, 3, 1), WStep("not_truncated", 4),
       WTo("make", 4), WStep("register", 4), WAll(6, 6, 3, {"guarded"})>>,
     <<WQuery(1), WProvider(1, FALSE), WQuery(9), WJoin(3, 2, 0), WStep("not_truncated", 4),
       WTo("make", 2), WStep("register", 6), WAll(6, 4, 3, {})>>,
     <<WQuery(1), WTo("make", 1), WQuery(9), WJoin(3, 2, 0), WStep("not_truncated", 4),
       WNaming("filter", 3, 1), WNaming("make", 6, 4), WApply(7, {"upstream_owned"})>>,
     WCounted(<<>>), WCounted(<<WStep("register", 2)>>), WCounted(<<WStep("register", 5)>>)}
    \cup {<<WQuery(2), WProvider(1, TRUE), WQuery(9), WNaming("filter", 2, 3),
            WNaming("make", 4, 3), WApply(5, rules), WLink(5, 1, rules)>> : rules \in WRules}

\* Graphs of one to three entities, without edges, with one, and with one
\* that awaits review.
WGraph(contents, links, awaiting) ==
    [entities |-> contents, edges |-> links, pending |-> awaiting]
WLoop == [e \in {<<2, 1>>} |-> 0]
MCStarts ==
    {WGraph(<<0>>, [e \in {} |-> 0], {}), WGraph(<<0, 1>>, [e \in {} |-> 0], {}),
     WGraph(<<1, 1>>, WLoop, {}), WGraph(<<1, 2>>, WLoop, {<<2, 1>>}),
     WGraph(<<0, 1, 2>>, WLoop, {})}

\* Tuples of different types: parallel edges of the first, or an edge of two.
MCTypeOf == [t \in Tuples |-> t]
MCFirsts == {<<1, 1>>, <<1, 1, 1>>, <<2, 1>>}

\* Images to start from are edges of the tuples there are.
ASSUME TuplesAssumption == Tuples # {} /\ \A first \in Firsts : first \in Seq(Tuples)

-----------------------------------------------------------------------------
Buffer == INSTANCE Telemetry
Moves == INSTANCE Relocation WITH Ids <- Instances, Default <- MCDefault
Overlay == INSTANCE OverlayPull
Engine == INSTANCE QueryTraversal WITH Worlds <- MCWorlds, Queries <- MCQueries
Workflow == INSTANCE WorkflowSteps
    WITH rows <- tables, artifacts <- sources
Identity == INSTANCE ClaimIdentity
    WITH releases <- published, rows <- claims, map <- identities, tracked <- followed

vars == <<subject, telemetryVars, relocationVars, pullVars, queryVars,
          workflowVars, identityVars>>

\* Three subjects start in several states; the others need one of them.
OnePlan == plan = (CHOOSE p \in Plans : TRUE) /\ tables = (CHOOSE g \in Starts : TRUE)
OneUpstream == era = "none" /\ release.image = Identity!Numbered(CHOOSE first \in Firsts : TRUE)
Quiet == lost = {} /\ artifacts = {[id |-> OneId, image |-> [of |-> OneId, writes |-> 0]]}

Init ==
    /\ subject \in Subjects
    /\ Buffer!Init /\ Moves!Init /\ Overlay!Init /\ Engine!Init
    /\ Workflow!Init /\ Identity!Init
    /\ subject # "relocation" => Quiet
    /\ subject # "workflow" => OnePlan
    /\ subject # "identity" => OneUpstream

Next ==
    \/ subject = "telemetry" /\ Buffer!Next
       /\ UNCHANGED <<subject, relocationVars, pullVars, queryVars,
                      workflowVars, identityVars>>
    \/ subject = "relocation" /\ Moves!Next
       /\ UNCHANGED <<subject, telemetryVars, pullVars, queryVars,
                      workflowVars, identityVars>>
    \/ subject = "pull" /\ Overlay!Next
       /\ UNCHANGED <<subject, telemetryVars, relocationVars, queryVars,
                      workflowVars, identityVars>>
    \/ subject = "query" /\ Engine!Next
       /\ UNCHANGED <<subject, telemetryVars, relocationVars, pullVars,
                      workflowVars, identityVars>>
    \/ subject = "workflow" /\ Workflow!Next
       /\ UNCHANGED <<subject, telemetryVars, relocationVars, pullVars, queryVars,
                      identityVars>>
    \/ subject = "identity" /\ Identity!Next
       /\ UNCHANGED <<subject, telemetryVars, relocationVars, pullVars, queryVars,
                      workflowVars>>

Spec == Init /\ [][Next]_vars

-----------------------------------------------------------------------------
\* The plans are what the compiler lets pass, the graphs what the store holds.
ASSUME PlansAssumption == \A p \in Plans : Workflow!Compiled(p)
ASSUME StartsAssumption ==
    \A g \in Starts :
        /\ g = WGraph([k \in DOMAIN g.entities |-> g.entities[k]],
                      [e \in DOMAIN g.edges |-> g.edges[e]], g.pending)
        /\ Workflow!Sound(g)

-----------------------------------------------------------------------------
\* Telemetry: no observation is lost or counted twice across refused flushes.
Accounted == Buffer!Accounted

\* Relocation: a crash at any step leaves each instance registered at its own state.
NothingStranded == Moves!NothingStranded

\* OverlayPull: files, database and bookkeeping of a pull stay explainable.
PullExplainable == Overlay!PullExplainable

\* QueryTraversal: the answer is the declared one, or says that it was cut.
AnswerAsDeclared == Engine!AnswerAsDeclared

\* WorkflowSteps: applied as previewed and stored whole.
WorkflowExact == Workflow!WorkflowExact

\* ClaimIdentity: an id keeps naming the edge it was given to.
IdentityHolds == Identity!IdentityHolds

\* OverlayPull: an applied pull leaves a config that the daemon accepts.
AppliedConfigServes == Overlay!AppliedConfigServes
=============================================================================
