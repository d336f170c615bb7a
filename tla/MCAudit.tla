------------------------------ MODULE MCAudit ------------------------------
(* Decision records, source artifacts, the working set and the state diff  *)
(* side by side, on small instances.  They share no table and no file: a   *)
(* behaviour is about one of them, its subject.                            *)
EXTENDS Integers, Sequences, FiniteSets, TLC

CONSTANTS
    Processes, None,
    Records, MaxCalls,                                 \* DecisionRecords
    Documents, MaxRevisions,                           \* SourceArtifacts
    Things, Props, Payloads, Earlier,                  \* WorkingSet
    Threshold, MaxRevision, MaxReloads, MaxStamps,
    Comparisons, Ends                                  \* StateDiff

\* A record that was never created has no status.
ASSUME NoneAssumption == None \notin {"open", "finalized", "abandoned"}

VARIABLES subject
VARIABLES records, events, operation, calls, returned
VARIABLES file, revisions, call, out
VARIABLES revision, values, digest, reloads, cache, time, capture
VARIABLES comparison, edges, entities

\* Two things with two properties, shown in parts; a first read, or two
\* captures that both found no file and left a thing in it twice.
MCPayloads == {<< <<1, {1}>> >>, << <<1, {2}>>, <<2, {1}>> >>}
MCEarlier == {<<>>, << <<1, {1}>>, <<1, {2}>> >>}

\* What a read shows are properties of things there are.
ASSUME PayloadsAssumption ==
    \A payload \in Payloads \cup Earlier : payload \in Seq(Things \X SUBSET Props)

\* Two relationship types, the first pinned to upstream together with entity 1.
MCEnds == <<{1, 2}, {2, 3}>>
Pinned == [known |-> TRUE, keys |-> {1}, tuples |-> {1}]
Unpinned == [known |-> FALSE, keys |-> {}, tuples |-> {}]

\* Up to two parallel or separate edges: with no, one or the same claim id, in
\* the same state, another one, or one that differs in its annotations only.
EdgeKinds == {<<1, 0, <<1, 1>>>>, <<1, 0, <<2, 1>>>>, <<1, 1, <<1, 1>>>>, <<1, 1, <<1, 2>>>>,
              <<1, 1, <<2, 1>>>>, <<1, 2, <<1, 1>>>>, <<1, 2, <<2, 1>>>>, <<2, 0, <<1, 1>>>>,
              <<2, 1, <<1, 1>>>>}
Edge(kind, pos) == [tuple |-> kind[1], claim |-> kind[2], state |-> kind[3], pos |-> pos]
EdgeSets == {{}} \cup {{Edge(k, 1)} : k \in EdgeKinds}
                \cup {{Edge(j, 1), Edge(k, 2)} : j, k \in EdgeKinds}
Attached(drawn) == UNION {MCEnds[r.tuple] : r \in drawn}
Side(drawn, contents, basis, map) ==
    [rows |-> drawn, entities |-> contents, basis |-> basis, map |-> map]
Between(from, to, wanted) == [from : from, to : to, wanted : {wanted}, wantedKeys : {{1, 2, 3}}]
Plain(drawn) == [k \in Attached(drawn) |-> <<1, 1>>]

\* Edges under equal and changed identity maps, with and without a boundary.
From(basis) == {Side(f, Plain(f), basis, 1) : f \in EdgeSets}
To(map) == {Side(t, Plain(t), Pinned, map) : t \in EdgeSets}
EdgeComparisons ==
    Between(From(Pinned), To(1) \cup To(2), {1, 2}) \cup Between(From(Unpinned), To(2), {1})
\* Entities that are absent, empty or not, with an edge at them or without.
Contents(drawn) ==
    UNION {[ks -> {<<0, 0>>, <<1, 1>>}] : ks \in {x \in SUBSET {1, 2, 3} : Attached(drawn) \subseteq x}}
WithContents(basis) ==
    UNION {{Side(drawn, x, basis, 1) : x \in Contents(drawn)} :
           drawn \in {{}, {Edge(<<1, 1, <<1, 1>>>>, 1)}, {Edge(<<2, 1, <<1, 1>>>>, 1)}}}
EntityComparisons ==
    Between(WithContents(Pinned), WithContents(Pinned) \cup WithContents(Unpinned), {1, 2})
MCComparisons == EdgeComparisons \cup EntityComparisons

Decisions == INSTANCE DecisionRecords WITH call <- operation
Artifacts == INSTANCE SourceArtifacts
Reads == INSTANCE WorkingSet
    WITH Clients <- Processes, file <- cache, call <- capture
Differ == INSTANCE StateDiff

\* A comparison is of two finite images.
ASSUME ComparisonsAssumption == \A c \in Comparisons : Differ!IsComparison(c)

decisionVars == <<records, events, operation, calls, returned>>
artifactVars == <<file, revisions, call, out>>
cacheVars == <<revision, values, digest, reloads, cache, time, capture>>
diffVars == <<comparison, edges, entities>>
vars == <<subject, decisionVars, artifactVars, cacheVars, diffVars>>

Init ==
    /\ subject \in {"decisions", "artifacts", "cache", "diff"}
    /\ Decisions!Init /\ Artifacts!Init /\ Reads!Init /\ Differ!Init
    /\ subject # "cache" => cache = <<>>

Next ==
    \/ subject = "decisions" /\ Decisions!Next
       /\ UNCHANGED <<subject, artifactVars, cacheVars, diffVars>>
    \/ subject = "artifacts" /\ Artifacts!Next
       /\ UNCHANGED <<subject, decisionVars, cacheVars, diffVars>>
    \/ subject = "cache" /\ Reads!Next
       /\ UNCHANGED <<subject, decisionVars, artifactVars, diffVars>>
    \/ subject = "diff" /\ Differ!Next
       /\ UNCHANGED <<subject, decisionVars, artifactVars, cacheVars>>

Spec == Init /\ [][Next]_vars

Symmetry == Permutations(Processes) \cup Permutations(Documents)

\* DecisionRecords: a closed log ends with its closing event, and operations
\* that returned are in it exactly if they said so.
DecisionLogHonest == Decisions!DecisionLogHonest

\* SourceArtifacts: a pinned citation yields its revision's bytes or says it cannot.
CitationsHold == Artifacts!CitationsHold

\* WorkingSet: a cached line that verifies as fresh is, and a refresh makes it so.
CacheHonest == Reads!CacheHonest

\* StateDiff: every row accounted for, nothing paired without evidence.
DiffExact == Differ!DiffExact
=============================================================================
