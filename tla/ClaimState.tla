----------------------------- MODULE ClaimState -----------------------------
(***************************************************************************)
(* The state of one claim (a relationship row) and of an entity: review,   *)
(* lifecycle with its supersession pointers, the drift marker of a group   *)
(* approval, and the attestations about it.                                *)
(*                                                                         *)
(* Every writer is an action: direct writes, workflow apply, group         *)
(* approval, attestations, feedback and the lifecycle verbs.  Feedback     *)
(* and add_relationship load the graph before their transaction and write  *)
(* the row back whole; the others read inside it.                          *)
(*                                                                         *)
(* A claim stands for the one edge of its tuple.                           *)
(***************************************************************************)
EXTENDS Integers, Sequences, FiniteSets, Functions

CONSTANTS
    Processes, Claims, Entities, Groups, None,
    Props, Values,            \* of a claim; a property may also be absent
    FreeStatuses,             \* lifecycle statuses that direct writes carry
    Keys,                     \* idempotency keys, each of one observer
    MaxAttestations           \* bound

Nodes == Claims \cup Entities
Reviews == {"unreviewed", "pending", "approved", "rejected"}
Sources == {"system", "agent", "human", "group"}
Actions == {"accept", "reject", "correct"}
Stances == {"support", "contradict", "unsure"}
Verdicts == {"upheld", "corrected", "invalidated"}
Contents == [Props -> Values \cup {None}]

ASSUME NodesAssumption == Claims \cap Entities = {}
ASSUME NoneAssumption == None \notin Nodes \cup Groups \cup Values \cup Verdicts \cup Keys
\* _refuse_terminal_lifecycle_write: the terminal statuses take a verb.
ASSUME FreeAssumption == FreeStatuses \subseteq {"active", "inactive"}
ASSUME BoundAssumption == MaxAttestations \in Nat

VARIABLES
    claims,         \* [claim -> its row but for the lifecycle, or None]
    life,           \* [node -> status and supersession pointers]
    view,           \* [process -> the claims and lifecycles it has loaded, or None]
    attestations,   \* oldest first, each with its dispositions
    approved,       \* history: [claim -> the content a group approved, until a human corrects it]
    word,           \* history: [claim -> the latest review decision, and the content it proposed]
    acks            \* history: what observers who sent a key were told is on record

vars == <<claims, life, view, attestations, approved, word, acks>>
history == <<approved, word, acks>>

----------------------------------------------------------------------------
(* Rows. *)

Fresh(n) ==
    [status |-> IF n \in Claims THEN "active" ELSE "live",
     supersedes |-> None, supersededBy |-> None]
Active(f, n) == f[n].status = Fresh(n).status

\* relationship_is_live; effective windows are left open.
IsLive(rows, f, c) ==
    /\ rows[c] # None /\ Active(f, c)
    /\ rows[c].review \notin {"pending", "rejected"}

NewRow(props, review, by, group) ==
    [props |-> props, review |-> review, by |-> by, group |-> group, drift |-> None]

Merged(old, updates) == [p \in Props |-> IF p \in DOMAIN updates THEN updates[p] ELSE old[p]]
Updates == UNION {[names -> Values] : names \in SUBSET Props}

\* A decision on the review axis, with the content that it proposes.
Decision(review, by, props) ==
    [review |-> review, by |-> by, props |-> IF review = "pending" THEN props ELSE None]
Word(c, review, by, props) == word' = [word EXCEPT ![c] = Decision(review, by, props)]

----------------------------------------------------------------------------
(* graph/group_drift.py *)

\* Mutant: the marker accumulates, and its baseline moves with every write.
AccumulateDrift(old, new) ==
    LET changed == {p \in Props : new[p] # old.props[p]}
        before == IF old.drift = None THEN {} ELSE DOMAIN old.drift
    IN IF old.group = None \/ changed = {} THEN old.drift
       ELSE [p \in changed \cup before |-> IF p \in changed THEN old.props[p] ELSE old.drift[p]]

\* group_content_drift and stamp_group_approval_drift: the properties that now
\* differ from what the group approved, with the approved values.  A marker
\* names the group of the row: an approval by another group drops it.
DriftAfter(old, new) ==
    LET changed == {p \in Props : new[p] # old.props[p]}
        carried == IF old.drift = None THEN {} ELSE DOMAIN old.drift
        baseline == [p \in changed \cup carried |->
                        IF p \in carried THEN old.drift[p] ELSE old.props[p]]
        divergent == {p \in DOMAIN baseline : new[p] # baseline[p]}
    IN IF old.group = None \/ changed = {} THEN old.drift
       ELSE IF divergent = {} THEN None
       ELSE Restrict(baseline, divergent)

----------------------------------------------------------------------------
(* apply_relationship: direct writes and workflow apply. *)

\* _refuse_write_onto_pending_edge
MayUpdate(row) == row.review # "pending"

\* Mutant: a row with a lifecycle is built anew.
RebuiltRow(old, updates) ==
    LET new == Merged(old.props, updates)
    IN [NewRow(new, "unreviewed", "system", old.group) EXCEPT !.drift = DriftAfter(old, new)]

\* The update branch keeps the assertion but for its lifecycle slice.
UpdatedRow(old, updates) ==
    LET new == Merged(old.props, updates)
    IN [old EXCEPT !.props = new, !.drift = DriftAfter(old, new)]

\* The row and the lifecycle that a write of c leaves, computed on rows.
WriteClaim(rows, f, c, updates, pending, status) ==
    /\ rows[c] # None => ~pending /\ MayUpdate(rows[c])
    /\ LET props == Merged([p \in Props |-> None], updates)
           by == IF pending THEN "agent" ELSE "system"
           review == IF pending THEN "pending" ELSE "unreviewed"
       IN IF rows[c] = None
          THEN /\ claims' = [claims EXCEPT ![c] = NewRow(props, review, by, None)]
               /\ Word(c, review, by, props)
          ELSE /\ claims' = [claims EXCEPT ![c] = UpdatedRow(rows[c], updates)]
               /\ UNCHANGED word
    /\ life' = [life EXCEPT ![c] =
          IF status # None THEN [Fresh(c) EXCEPT !.status = status]
          ELSE IF rows[c] = None THEN Fresh(c)
          ELSE f[c]]
    /\ UNCHANGED <<attestations, approved, acks>>

\* service_add_relationships and service_feedback load the graph, ...
LoadGraph(p) ==
    /\ view[p] = None
    /\ view' = [view EXCEPT ![p] = [claims |-> claims, life |-> life]]
    /\ UNCHANGED <<claims, life, attestations, history>>

\* ... and write the touched rows back in a transaction.
AddRelationship(p, c, updates, pending, status) ==
    /\ view[p] # None
    /\ WriteClaim(view[p].claims, view[p].life, c, updates, pending, status)
    /\ view' = [view EXCEPT ![p] = None]

\* Refused, rolled back, or the process died.
Abandon(p) ==
    /\ view[p] # None
    /\ view' = [view EXCEPT ![p] = None]
    /\ UNCHANGED <<claims, life, attestations, history>>

\* service_batch_direct_write
BatchDirectWrite(c, updates, pending, status) ==
    /\ WriteClaim(claims, life, c, updates, pending, status)
    /\ UNCHANGED view

\* apply_relationships of a canonical workflow skips a row that does not change.
WorkflowApply(c, updates) ==
    /\ claims[c] # None => Merged(claims[c].props, updates) # claims[c].props
    /\ WriteClaim(claims, life, c, updates, FALSE, None)
    /\ UNCHANGED view

----------------------------------------------------------------------------
(* Group approval: the member's row is made, or the row that is there blessed. *)

\* _blessed_metadata_for_existing
Blessed(row, g) ==
    [row EXCEPT !.review = "approved", !.by = "group", !.group = g, !.drift = None]

ApproveGroup(g, c, props) ==
    LET row == IF claims[c] = None THEN NewRow(props, "approved", "group", g)
               ELSE Blessed(claims[c], g)
    IN /\ claims' = [claims EXCEPT ![c] = row]
       /\ life' = IF claims[c] = None THEN [life EXCEPT ![c] = Fresh(c)] ELSE life
       /\ approved' = [approved EXCEPT ![c] = row.props]
       /\ Word(c, "approved", "group", row.props)
       /\ UNCHANGED <<view, attestations, acks>>

----------------------------------------------------------------------------
(* service_feedback and service_feedback_batch: all of acts or none. *)

\* apply_feedback
Judged(row, action, corrections) ==
    [row EXCEPT !.review = IF action = "reject" THEN "rejected" ELSE "approved",
                !.by = "human",
                !.props = IF action = "correct" THEN Merged(row.props, corrections) ELSE row.props]

\* A verdict on a claim that is not there is recorded and moves nothing.
Feedback(p, acts, corrections) ==
    LET seen == view[p].claims
        touched == {c \in DOMAIN acts : seen[c] # None}
        new == [c \in touched |-> Judged(seen[c], acts[c], corrections)]
    IN /\ view[p] # None
       /\ \A c \in DOMAIN acts : acts[c] = "correct" => DOMAIN corrections # {}
       /\ claims' = [c \in Claims |-> IF c \in touched THEN new[c] ELSE claims[c]]
       /\ life' = [n \in Nodes |-> IF n \in touched THEN view[p].life[n] ELSE life[n]]
       /\ word' = [c \in Claims |->
              IF c \in touched
              THEN Decision(new[c].review, "human", new[c].props)
              ELSE word[c]]
       /\ approved' = [c \in Claims |->
              IF c \in touched /\ acts[c] = "correct" THEN None ELSE approved[c]]
       /\ view' = [view EXCEPT ![p] = None]
       /\ UNCHANGED <<attestations, acks>>

----------------------------------------------------------------------------
(* service/artifact_lifecycle.py: each verb is one transaction. *)

\* _require_claim_predecessor_eligible, _require_entity_predecessor_eligible
Eligible(n) ==
    /\ Active(life, n)
    /\ n \in Claims => claims[n] # None /\ claims[n].review \notin {"pending", "rejected"}

\* Mutant: the successor may itself be settled.
AnySuccessor(n) == n \in Claims => claims[n] # None

\* The successor is there and live.
LiveSuccessor(n) == IF n \in Claims THEN IsLive(claims, life, n) ELSE Active(life, n)

\* _refuse_reused_successor: it records one predecessor only.
Unused(n) == life[n].supersedes = None

Supersede(a, b) ==
    /\ a # b /\ (a \in Claims <=> b \in Claims)
    /\ Eligible(a) /\ LiveSuccessor(b) /\ Unused(b)
    /\ life' = [life EXCEPT ![b].supersedes = a,
                            ![a].status = "superseded", ![a].supersededBy = b]
    /\ UNCHANGED <<claims, view, attestations, history>>

\* service_retract_claim and service_retire_entity
Settle(n) ==
    /\ Eligible(n)
    /\ life' = [life EXCEPT ![n].status = IF n \in Claims THEN "retracted" ELSE "retired"]
    /\ UNCHANGED <<claims, view, attestations, history>>

\* A direct write of an entity with the lifecycle "live"; a retired one is refused.
ReviveEntity(e) ==
    /\ life[e].status # "retired"
    /\ life' = [life EXCEPT ![e] = Fresh(e)]
    /\ UNCHANGED <<claims, view, attestations, history>>

----------------------------------------------------------------------------
(* service/attestations.py *)

\* find_idempotent_attestation: the records that the key has minted for c.
Originals(c, key) ==
    {a \in DOMAIN attestations :
        key # None /\ attestations[a].claim = c /\ attestations[a].key = key}

\* Mutant: a reused key is a replay, whatever it carries.
AnyRequest(record, stance) == TRUE

\* _replay_divergences: a reused key must carry the same request.
SameRequest(record, stance) == record.stance = stance

\* An observer who sent a key is told that what it said is on record.
Acknowledge(c, key, stance, content) ==
    acks' = IF key = None THEN acks
            ELSE acks \cup {[claim |-> c, key |-> key, stance |-> stance, content |-> content]}

\* service_attest: a first "support" makes the claim, pending.
Attest(c, stance, props, key) ==
    /\ Len(attestations) < MaxAttestations
    /\ Originals(c, key) = {}
    /\ claims[c] = None => stance = "support"
    /\ IF claims[c] = None
       THEN /\ claims' = [claims EXCEPT ![c] = NewRow(props, "pending", "agent", None)]
            /\ life' = [life EXCEPT ![c] = Fresh(c)]
            /\ Word(c, "pending", "agent", props)
       ELSE UNCHANGED <<claims, life, word>>
    /\ attestations' = Append(attestations,
          [claim |-> c, stance |-> stance, digest |-> claims'[c].props, verdict |-> None,
           key |-> key])
    /\ Acknowledge(c, key, stance, claims'[c].props)
    /\ UNCHANGED <<view, approved>>

\* service_attest again with a key that is used: the original is returned, a
\* request that differs from it is refused.
ReplayAttest(c, stance, key) ==
    /\ \E a \in Originals(c, key) :
          /\ SameRequest(attestations[a], stance)
          /\ Acknowledge(c, key, stance, attestations[a].digest)
    /\ UNCHANGED <<claims, life, view, attestations, approved, word>>

\* service_resolve_attestation: the latest disposition counts.  (A disposition
\* has a verdict, NOT NULL: none yet and a latest verdict NULL are the same.)
ResolveAttestation(a, verdict) ==
    /\ attestations' = [attestations EXCEPT ![a].verdict = verdict]
    /\ UNCHANGED <<claims, life, view, history>>

\* list_open_contradictions
OpenContradictions ==
    {a \in DOMAIN attestations :
        attestations[a].stance = "contradict" /\ attestations[a].verdict = None}

\* service_attestation_queue: on live claims, about their content of now.
AttestationQueue ==
    {c \in Claims :
        /\ IsLive(claims, life, c)
        /\ \E a \in OpenContradictions :
              attestations[a].claim = c /\ attestations[a].digest = claims[c].props}

\* summaries_for_claims: counts by stance, the stale ones apart.
Summary(c) ==
    LET all == {a \in DOMAIN attestations : attestations[a].claim = c}
        fresh == {a \in all : attestations[a].digest = claims[c].props}
        valid == {a \in fresh : attestations[a].verdict # "invalidated"}
    IN [counts |-> [s \in Stances |->
                       Cardinality({a \in valid : attestations[a].stance = s})],
        invalidated |-> Cardinality(fresh \ valid),
        stale |-> Cardinality(all \ fresh),
        openContradiction |-> \E a \in valid :
            attestations[a].stance = "contradict" /\ attestations[a].verdict = None]

----------------------------------------------------------------------------
Init ==
    /\ claims = [c \in Claims |-> None]
    /\ life = [n \in Nodes |-> Fresh(n)]
    /\ view = [p \in Processes |-> None]
    /\ attestations = <<>>
    /\ approved = [c \in Claims |-> None]
    /\ word = [c \in Claims |-> None]
    /\ acks = {}

Write ==
    \E c \in Claims, updates \in Updates, pending \in BOOLEAN, status \in FreeStatuses \cup {None} :
        \/ \E p \in Processes : AddRelationship(p, c, updates, pending, status)
        \/ /\ \E p \in Processes : view[p] = None
           /\ BatchDirectWrite(c, updates, pending, status)

\* The content that comes along counts only if it makes the row.
Offered(c) == IF claims[c] = None THEN Contents ELSE {claims[c].props}

Judge ==
    \E p \in Processes, judged \in (SUBSET Claims) \ {{}} :
        \E acts \in [judged -> Actions] :
            \E corrections \in IF \E c \in judged : acts[c] = "correct" THEN Updates ELSE {<<>>} :
                Feedback(p, acts, corrections)

\* What a process does between loading the graph and writing back is nothing else.
Next ==
    \/ Write \/ Judge
    \/ \E p \in Processes : LoadGraph(p) \/ Abandon(p)
    \/ /\ \E p \in Processes : view[p] = None
       /\ \/ \E c \in Claims, updates \in Updates : WorkflowApply(c, updates)
          \/ \E g \in Groups, c \in Claims : \E props \in Offered(c) : ApproveGroup(g, c, props)
          \/ \E a, b \in Nodes : Supersede(a, b)
          \/ \E n \in Nodes : Settle(n)
          \/ \E e \in Entities : ReviveEntity(e)
          \/ \E c \in Claims, stance \in Stances, key \in Keys \cup {None} :
                \/ \E props \in Offered(c) : Attest(c, stance, props, key)
                \/ ReplayAttest(c, stance, key)
          \/ \E a \in DOMAIN attestations, verdict \in Verdicts : ResolveAttestation(a, verdict)

Spec == Init /\ [][Next]_vars

----------------------------------------------------------------------------
(* Properties. *)

Markers == {m \in UNION {[names -> Values \cup {None}] : names \in SUBSET Props} : DOMAIN m # {}}

ClaimRows ==
    [props : Contents, review : Reviews, by : Sources, group : Groups \cup {None},
     drift : Markers \cup {None}]

Lives ==
    [Nodes -> [status : {"active", "inactive", "live", "superseded", "retracted", "retired"},
               supersedes : Nodes \cup {None}, supersededBy : Nodes \cup {None}]]

Views == [claims : [Claims -> ClaimRows \cup {None}], life : Lives]

\* A row that is not there is not a row.
ASSUME AbsenceAssumption == None \notin Markers /\ None \notin ClaimRows /\ None \notin Views

\* Rows are of their type, a marker names some property of a group's claim, and
\* a pointer leads from claim to claim or from entity to entity.
TypeOK ==
    /\ claims \in [Claims -> ClaimRows \cup {None}]
    /\ life \in Lives
    /\ \A n \in Nodes : life[n].supersededBy # None => (n \in Claims <=> life[n].supersededBy \in Claims)
    /\ \A c \in Claims : claims[c] # None /\ claims[c].drift # None => claims[c].group # None
    /\ view \in [Processes -> {None} \cup Views]
    /\ attestations \in
          Seq([claim : Claims, stance : Stances, digest : Contents,
               verdict : Verdicts \cup {None}, key : Keys \cup {None}])
    /\ \A a \in DOMAIN attestations : claims[attestations[a].claim] # None

\* service/artifact_lifecycle.py: however supersessions, retractions, free
\* lifecycle writes and revivals follow one another, supersededBy leads from
\* settled nodes only and never back to where it started.
SupersessionAcyclic ==
    /\ \A n \in Nodes : life[n].supersededBy # None => life[n].status = "superseded"
    /\ \A S \in (SUBSET Nodes) \ {{}} : \E n \in S : life[n].supersededBy \notin S

\* graph/group_drift.py: the marker of a group-approved claim is exactly its
\* divergence from what the group approved, whatever writes lie between.
DriftIsDivergence ==
    \A c \in Claims : approved[c] # None =>
        LET divergent == {p \in Props : claims[c].props[p] # approved[c][p]}
        IN claims[c].drift = IF divergent = {} THEN None ELSE Restrict(approved[c], divergent)

\* apply_relationship: the review of a claim is its latest review decision,
\* which no content or lifecycle write moves, and a proposal still has the
\* content that was proposed.
ReviewIsLastWord ==
    \A c \in Claims : claims[c] # None =>
        /\ <<claims[c].review, claims[c].by>> = <<word[c].review, word[c].by>>
        /\ claims[c].review = "pending" => claims[c].props = word[c].props

\* service_attest: what an observer was told is on record is there, once, as
\* the observer said it and about the content it saw, however often the call
\* was retried and whatever became of the claim meanwhile; and while a
\* contradiction is unanswered and its claim live with that content, both the
\* attestation queue and the claim's summary show it.
ObservationsStand ==
    \A k \in acks : \E a \in DOMAIN attestations :
        /\ {b \in DOMAIN attestations :
               attestations[b].claim = k.claim /\ attestations[b].key = k.key} = {a}
        /\ attestations[a].stance = k.stance /\ attestations[a].digest = k.content
        /\ ( /\ k.stance = "contradict" /\ attestations[a].verdict = None
             /\ IsLive(claims, life, k.claim) /\ claims[k.claim].props = k.content )
           => k.claim \in AttestationQueue /\ Summary(k.claim).openContradiction

=============================================================================
