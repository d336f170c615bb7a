------------------------------- MODULE Groups -------------------------------
(***************************************************************************)
(* Candidate groups of one relationship type: proposals of edges that are  *)
(* reviewed as a batch, resolved into edges or rejected, and whose trust   *)
(* lets later proposals of the same thesis resolve by themselves.          *)
(*                                                                         *)
(* Several processes share the tables.  A write transaction is one step;   *)
(* each SELECT that a call issues outside a transaction is a step of its   *)
(* own, so what a call has read may be stale when its transaction runs.    *)
(* The only status that is written and never committed is "applying": an   *)
(* approval starts and confirms its resolution in the same transaction.    *)
(*                                                                         *)
(* A group or a resolution is named by its position in its table; 0 names  *)
(* no group, no resolution and no expected version.                        *)
(***************************************************************************)
EXTENDS Integers, Sequences, FiniteSets

CONSTANTS
    Processes,
    Signatures,        \* digests of (relationship_type, thesis_facts)
    Tuples,            \* identities of the edges that may be proposed
    None,
    TupleIdentity,     \* proposal_identity = "relationship_tuple"
    AutoTrust,         \* trust levels that allow auto-resolution
    Ops,               \* the operations the processes are asked for
    MaxGroups, MaxVersion, MaxResolutions   \* bounds of the exploration

Trusts == {"trusted", "watch", "invalidated"}
Modes == {"replace", "retain_missing"}
Actions == {"approve", "reject"}
AllOps == {"propose", "resolve", "trust", "direct"}

\* A stored edge: the group that wrote it (0: a direct write), the resolution
\* it did so under, and whether its review state makes it live.
Edges == [source : 0 .. MaxGroups, resolution : 0 .. MaxResolutions, live : BOOLEAN]
Images == [Tuples -> Edges \cup {None}]

ASSUME NoneAssumption ==
    None \notin Trusts \cup Signatures /\ None \notin Edges /\ None \notin Images
ASSUME PolicyAssumption ==
    TupleIdentity \in BOOLEAN /\ AutoTrust \subseteq Trusts
ASSUME OpsAssumption == Ops \subseteq AllOps
ASSUME BoundsAssumption ==
    MaxGroups \in Nat /\ MaxVersion \in Nat \ {0} /\ MaxResolutions \in Nat

VARIABLES
    groups,       \* candidate_groups with their candidate_members
    resolutions,  \* group_resolutions, in resolved_at order
    edges,        \* [tuple -> the stored edge, or None]
    cache,        \* [process -> its graph cache: stored edges, or None]
    pc, job,      \* [process -> where its call is, and its locals]
    out           \* [process -> what its last call returned]

tables == <<groups, resolutions, edges>>
vars == <<tables, cache, pc, job, out>>

----------------------------------------------------------------------------
(* The stores. *)

\* find_pending_group
FindPendingGroup(sig) ==
    {g \in DOMAIN groups : groups[g].sig = sig /\ groups[g].status = "pending_review"}

\* find_pending_groups_for_tuples, for one tuple
PendingGroupsFor(t) ==
    {g \in DOMAIN groups : groups[g].status = "pending_review" /\ t \in groups[g].members}

ConfirmedApprovals(sig) ==
    {r \in DOMAIN resolutions : /\ resolutions[r].sig = sig
                                /\ resolutions[r].action = "approve"
                                /\ resolutions[r].confirmed}

\* find_resolution(action="approve", confirmed=True): the most recent one.
FindResolution(sig) ==
    LET found == ConfirmedApprovals(sig)
    IN IF found = {} THEN 0 ELSE CHOOSE r \in found : \A q \in found : q <= r

\* The trust of a thesis lives on its latest confirmed approval.
TrustOf(sig) ==
    IF FindResolution(sig) = 0 THEN None ELSE resolutions[FindResolution(sig)].trust

\* list_approved_relationship_tuples
ApprovedTuples(sig) ==
    UNION {groups[g].members : g \in
        {h \in DOMAIN groups :
            /\ groups[h].sig = sig
            /\ groups[h].status = "resolved"
            /\ groups[h].resolution \in ConfirmedApprovals(sig)}}

\* Mutant: no unique index.
NeverClashes(sig, g) == FALSE

\* idx_candidate_groups_pending_unique refuses row g.
PendingClash(sig, g) == FindPendingGroup(sig) \ {g} # {}

\* Mutant: a second approval earns the thesis its trust.
EarnedTrust(sig) == IF FindResolution(sig) = 0 THEN "watch" ELSE "trusted"

\* _carried_trust, called inside the transaction.
CarriedTrust(sig) == IF FindResolution(sig) = 0 THEN "watch" ELSE TrustOf(sig)

----------------------------------------------------------------------------
(* Locals and results of a call.  An argument that a call first looks at   *)
(* in a later step is chosen there; a local that is not used again is      *)
(* dropped.                                                                *)

NoJob == [sig |-> None, members |-> {}, expected |-> 0, image |-> None,
          target |-> 0, version |-> 0, old |-> {}, suppressed |-> {},
          prior |-> None, auto |-> FALSE, action |-> None]

\* What a call did, and (the last three) the row it found when it did so.
NoResult == [op |-> "none", expected |-> 0, members |-> {}, auto |-> FALSE,
             trust |-> None, status |-> None, version |-> 0, found |-> {}]

Init ==
    /\ groups = <<>>
    /\ resolutions = <<>>
    /\ edges = [t \in Tuples |-> None]
    /\ cache = [p \in Processes |-> None]
    /\ pc = [p \in Processes |-> "idle"]
    /\ job = [p \in Processes |-> NoJob]
    /\ out = [p \in Processes |-> NoResult]

Call(p, op, j, next) ==
    /\ pc[p] = "idle"
    /\ op \in Ops
    /\ job' = [job EXCEPT ![p] = j]
    /\ out' = [out EXCEPT ![p] = NoResult]
    /\ pc' = [pc EXCEPT ![p] = next]

Goto(p, j, next) ==
    /\ job' = [job EXCEPT ![p] = j]
    /\ pc' = [pc EXCEPT ![p] = next]
    /\ UNCHANGED out

Return(p, result) ==
    /\ pc' = [pc EXCEPT ![p] = "idle"]
    /\ job' = [job EXCEPT ![p] = NoJob]
    /\ out' = [out EXCEPT ![p] = result]

Refused == [NoResult EXCEPT !.op = "refused"]

\* What the call decided on row g, as the row is at this moment.
Decided(op, j, g, members) ==
    [op |-> op, expected |-> j.expected, members |-> members, auto |-> j.auto,
     trust |-> TrustOf(groups[g].sig), status |-> groups[g].status,
     version |-> groups[g].version, found |-> groups[g].members]

SetCache(p, image) == cache' = [cache EXCEPT ![p] = image]

----------------------------------------------------------------------------
(* service_propose_group.  "members" is what the proposal holds after the  *)
(* decision policies, possibly nothing.                                    *)

StartPropose(p) ==
    /\ \E sig \in Signatures, members \in SUBSET Tuples :
          LET image == IF cache[p] = None THEN edges ELSE cache[p]
          IN /\ Call(p, "propose",
                     [NoJob EXCEPT !.sig = sig, !.members = members, !.image = image],
                     "find_pending")
             /\ SetCache(p, image)
    /\ UNCHANGED tables

\* _validate_expected_pending_version
ExpectedPending(found, expected) ==
    expected = 0 \/ \E g \in found : groups[g].version = expected

FindPending(p) ==
    /\ pc[p] = "find_pending"
    /\ \E expected \in 0 .. MaxVersion :
          LET found == FindPendingGroup(job[p].sig)
          IN \/ /\ ExpectedPending(found, expected)
                /\ \/ found = {} /\ Goto(p, job[p], "filter")
                   \/ \E g \in found :
                         Goto(p, [job[p] EXCEPT !.expected = expected, !.target = g,
                                                !.version = groups[g].version],
                              "old_members")
             \/ /\ ~ExpectedPending(found, expected)
                /\ Return(p, Refused)
    /\ UNCHANGED <<tables, cache>>

ReadOldMembers(p) ==
    /\ pc[p] = "old_members"
    /\ Goto(p, [job[p] EXCEPT !.old = groups[job[p].target].members], "filter")
    /\ UNCHANGED <<tables, cache>>

\* filter_relationship_conflicts: live edges come from the graph loaded at the
\* start of the call, other groups' claims from the store.
FilterConflicts(p) ==
    /\ pc[p] = "filter"
    /\ LET j == job[p]
           conflicts == {t \in j.members :
                            \/ j.image[t] # None /\ j.image[t].live
                            \/ PendingGroupsFor(t) \ {j.target} # {}}
       IN IF TupleIdentity
          THEN Goto(p, [j EXCEPT !.members = j.members \ conflicts,
                                 !.suppressed = conflicts], "prior")
          ELSE Goto(p, j, "prior")
    /\ UNCHANGED <<tables, cache>>

ReadPrior(p) ==
    /\ pc[p] = "prior"
    /\ Goto(p, [job[p] EXCEPT !.prior = TrustOf(job[p].sig)], "approved")
    /\ UNCHANGED <<tables, cache>>

\* should_auto_resolve, as far as the prior approval decides it.
PriorAllows(prior) == prior \in AutoTrust \ {"invalidated"}

\* members_have_active_override
HasOverride(image, members) == \E t \in members : image[t] # None /\ ~image[t].live

\* The delta against what was approved before, and what to do with it.
\* "eligible" says that no policy forces review, the signals satisfy
\* auto_resolve_when and the proposer has the permission tier to resolve.
DecideProposal(p) ==
    /\ pc[p] = "approved"
    /\ \E mode \in Modes, eligible \in BOOLEAN :
       LET j == job[p]
           approved == ApprovedTuples(j.sig)
           delta == j.members \ approved
           suppressed == j.suppressed \cup
                            (IF TupleIdentity THEN j.members \cap approved ELSE {})
           write == [NoJob EXCEPT !.sig = j.sig, !.target = j.target,
                                  !.version = j.version, !.expected = j.expected]
       IN \/ /\ delta = {}
             /\ suppressed # {} \/ j.target = 0
             /\ Return(p, [NoResult EXCEPT !.op = "suppressed"])
          \/ /\ delta = {} /\ suppressed = {} /\ j.target # 0
             /\ mode = "retain_missing"
             /\ Return(p, [NoResult EXCEPT !.op = "unchanged"])
          \/ /\ delta = {} /\ suppressed = {} /\ j.target # 0
             /\ mode = "replace"
             /\ Goto(p, write, "withdraw")
          \/ /\ delta # {} /\ j.target # 0
             /\ Goto(p, [write EXCEPT !.members =
                            IF mode = "retain_missing" THEN j.old \cup delta ELSE delta],
                     "rewrite")
          \/ /\ delta # {} /\ j.target = 0
             /\ Goto(p, [write EXCEPT !.members = delta,
                                      !.auto = /\ eligible
                                               /\ PriorAllows(j.prior)
                                               /\ ~HasOverride(j.image, delta)],
                     "create")
    /\ UNCHANGED <<tables, cache>>

\* _withdraw_pending_group: an UPDATE by id of status and pending_version.
WithdrawPendingGroup(p) ==
    /\ pc[p] = "withdraw"
    /\ LET j == job[p]
       IN /\ j.version < MaxVersion
          /\ groups' = [groups EXCEPT ![j.target].status = "withdrawn",
                                      ![j.target].version = j.version + 1]
          /\ Return(p, Decided("withdraw", j, j.target, {}))
    /\ SetCache(p, None)
    /\ UNCHANGED <<resolutions, edges>>

\* _group_update_fields and replace_members on row g.
RewrittenRow(g, version, members) ==
    [groups[g] EXCEPT !.status = "pending_review", !.resolution = 0,
                      !.version = version, !.members = members]

\* _rewrite_pending_group: the copy that was read is stored back under the
\* group's id, unless the pending index refuses it.
RewritePendingGroup(p) ==
    /\ pc[p] = "rewrite"
    /\ LET j == job[p]
       IN /\ j.version < MaxVersion
          /\ ~PendingClash(j.sig, j.target)
          /\ groups' = [groups EXCEPT
                          ![j.target] = RewrittenRow(j.target, j.version + 1, j.members)]
          /\ Return(p, Decided("rewrite", j, j.target, j.members))
    /\ SetCache(p, None)
    /\ UNCHANGED <<resolutions, edges>>

\* _auto_resolve_created_group: an ordinary approval of version 1.  Where it
\* is refused, the group stays pending and the call still succeeds.
AutoResolve(g) ==
    [NoJob EXCEPT !.target = g, !.expected = 1, !.action = "approve", !.auto = TRUE]

\* _create_group_or_rewrite_concurrent, the insert; an eligible proposal goes
\* on to approve the group it has just committed.
CreateGroup(p) ==
    /\ pc[p] = "create"
    /\ Len(groups) < MaxGroups
    /\ ~PendingClash(job[p].sig, 0)
    /\ LET j == job[p]
           row == [sig |-> j.sig, status |-> "pending_review", version |-> 1,
                   members |-> j.members, resolution |-> 0]
       IN /\ groups' = Append(groups, row)
          /\ \/ j.auto /\ Goto(p, AutoResolve(Len(groups) + 1), "read_group")
             \/ ~j.auto /\ Return(p, [NoResult EXCEPT !.op = "create"])
    /\ SetCache(p, None)
    /\ UNCHANGED <<resolutions, edges>>

\* ... and the insert that lost the race: the row it met is read inside the
\* transaction and rewritten.
RewriteConcurrent(p) ==
    /\ pc[p] = "create"
    /\ PendingClash(job[p].sig, 0)
    /\ \E g \in FindPendingGroup(job[p].sig), mode \in Modes :
          LET j == job[p]
              kept == IF mode = "retain_missing" THEN groups[g].members ELSE {}
          IN /\ groups[g].version < MaxVersion
             /\ groups' = [groups EXCEPT
                             ![g] = RewrittenRow(g, groups[g].version + 1, j.members \cup kept)]
             /\ Return(p, [NoResult EXCEPT !.op = "converged"])
    /\ SetCache(p, None)
    /\ UNCHANGED <<resolutions, edges>>

----------------------------------------------------------------------------
(* resolve_group_transition: the group and its members are read before the *)
(* transaction; the version is compared with that copy.                    *)

StartResolve(p) ==
    /\ \E g \in DOMAIN groups, action \in Actions, expected \in 1 .. MaxVersion :
          Call(p, "resolve",
               [NoJob EXCEPT !.target = g, !.action = action, !.expected = expected],
               "read_group")
    /\ UNCHANGED <<tables, cache>>

Reviewable(status) == status = "pending_review"

ReadGroup(p) ==
    /\ pc[p] = "read_group"
    /\ LET g == job[p].target
       IN \/ /\ Reviewable(groups[g].status)
             /\ Goto(p, [job[p] EXCEPT !.sig = groups[g].sig,
                                       !.version = groups[g].version], "read_members")
          \/ /\ ~Reviewable(groups[g].status)
             /\ Return(p, Refused)
    /\ UNCHANGED <<tables, cache>>

ReadMembers(p) ==
    /\ pc[p] = "read_members"
    /\ Goto(p, [job[p] EXCEPT !.members = groups[job[p].target].members], "resolve")
    /\ UNCHANGED <<tables, cache>>

\* Mutant: the version is not compared.
AnyVersion(j) == TRUE

\* _validate_resolve_pending_version, against the copy.
VersionMatches(j) == j.version = j.expected

\* _reject_group
RejectGroup(p) ==
    /\ pc[p] = "resolve" /\ job[p].action = "reject"
    /\ LET j == job[p]
       IN /\ VersionMatches(j)
          /\ Len(resolutions) < MaxResolutions
          /\ resolutions' = Append(resolutions, [sig |-> j.sig, action |-> "reject",
                                                 confirmed |-> TRUE, trust |-> "watch"])
          /\ groups' = [groups EXCEPT ![j.target].status = "resolved",
                                      ![j.target].resolution = Len(resolutions) + 1]
          /\ Return(p, Decided("reject", j, j.target, j.members))
    /\ SetCache(p, None)
    /\ UNCHANGED edges

\* Mutant: the resolution is started and never confirmed.
Unconfirmed(sig) ==
    [sig |-> sig, action |-> "approve", confirmed |-> FALSE, trust |-> CarriedTrust(sig)]

\* _start_approval_resolution and _confirm_approval_resolution
ApprovalOf(sig) ==
    [sig |-> sig, action |-> "approve", confirmed |-> TRUE, trust |-> CarriedTrust(sig)]

\* _validate_approval_members: a member that has an edge, live or staged, is
\* not applied.
Existing(members) == {t \in members : edges[t] # None}

\* apply_relationship under group_resolve; a blessed edge looks the same.
ResolvedEdge(g) ==
    [source |-> g, resolution |-> Len(resolutions) + 1, live |-> TRUE]

\* _approve_group: the graph is read in the transaction.  "invalid" are the
\* members that fail validation; an auto-resolution never stamps.
ApproveGroup(p) ==
    /\ pc[p] = "resolve" /\ job[p].action = "approve"
    /\ \E invalid \in SUBSET (job[p].members \ Existing(job[p].members)),
          stamp \in IF job[p].auto THEN {FALSE} ELSE BOOLEAN :
          LET j == job[p]
              existing == Existing(j.members)
              created == j.members \ (existing \cup invalid)
              written == IF stamp THEN created \cup existing ELSE created
          IN /\ VersionMatches(j)
             /\ created \cup existing # {}
             /\ Len(resolutions) < MaxResolutions
             /\ resolutions' = Append(resolutions, ApprovalOf(j.sig))
             /\ groups' = [groups EXCEPT ![j.target].status = "resolved",
                                         ![j.target].resolution = Len(resolutions) + 1]
             /\ edges' = [t \in Tuples |->
                             IF t \in written THEN ResolvedEdge(j.target) ELSE edges[t]]
             /\ SetCache(p, IF written = {} THEN edges ELSE None)
             /\ Return(p, Decided("approve", j, j.target, j.members))

----------------------------------------------------------------------------
(* update_trust_status_transition: the resolution is found to be the       *)
(* latest confirmed approval before the transaction that updates it.       *)

TrustTarget(r) == r = FindResolution(resolutions[r].sig)

StartTrust(p) ==
    /\ \E r \in DOMAIN resolutions :
          /\ TrustTarget(r)
          /\ Call(p, "trust", [NoJob EXCEPT !.target = r, !.sig = resolutions[r].sig],
                  "trust")
    /\ UNCHANGED <<tables, cache>>

UpdateTrust(p) ==
    /\ pc[p] = "trust"
    /\ LET j == job[p]
       IN /\ \E trust \in Trusts :
                resolutions' = [resolutions EXCEPT ![j.target].trust = trust]
          /\ Return(p, [NoResult EXCEPT !.op = "trust", !.expected = j.target,
                                        !.version = FindResolution(j.sig)])
    /\ SetCache(p, None)
    /\ UNCHANGED <<groups, edges>>

----------------------------------------------------------------------------
(* A direct write of one edge (batch_direct_write: everything is read in   *)
(* its transaction).  Every pending group that claims the tuple is         *)
(* annotated, which moves its pending_version.                             *)

\* Mutant: only the newest group is told.
AnnotateNewest(t) ==
    [g \in DOMAIN groups |->
        IF g \in PendingGroupsFor(t) /\ \A h \in PendingGroupsFor(t) : h <= g
        THEN [groups[g] EXCEPT !.version = @ + 1] ELSE groups[g]]

\* _annotate_direct_write_conflict_groups
AnnotateConflictGroups(t) ==
    [g \in DOMAIN groups |->
        IF g \in PendingGroupsFor(t)
        THEN [groups[g] EXCEPT !.version = @ + 1] ELSE groups[g]]

\* A new edge, live or staged for review, or an update of a live one.  (A
\* proposal_only write policy leaves only the staged ones.)
DirectWrite(p) ==
    /\ pc[p] = "idle" /\ "direct" \in Ops
    /\ \E t \in Tuples, staged \in BOOLEAN :
          /\ \A g \in PendingGroupsFor(t) : groups[g].version < MaxVersion
          /\ \/ /\ edges[t] = None
                /\ edges' = [edges EXCEPT ![t] =
                                [source |-> 0, resolution |-> 0, live |-> ~staged]]
             \/ /\ edges[t] # None /\ edges[t].live /\ ~staged
                /\ UNCHANGED edges
          /\ groups' = AnnotateConflictGroups(t)
          /\ out' = [out EXCEPT ![p] = [NoResult EXCEPT !.op = "direct", !.members = {t}]]
    /\ SetCache(p, None)
    /\ UNCHANGED <<resolutions, pc, job>>

\* Any refusal or failure inside a write transaction: rollback.
Rollback(p) ==
    /\ pc[p] \in {"withdraw", "rewrite", "create", "resolve", "trust"}
    /\ SetCache(p, None)
    /\ Return(p, Refused)
    /\ UNCHANGED tables

\* The process dies between two steps and is started again.
Restart(p) ==
    /\ pc[p] # "idle"
    /\ SetCache(p, None)
    /\ Return(p, NoResult)
    /\ UNCHANGED tables

Propose(p) ==
    \/ StartPropose(p) \/ FindPending(p) \/ ReadOldMembers(p) \/ FilterConflicts(p)
    \/ ReadPrior(p) \/ DecideProposal(p) \/ WithdrawPendingGroup(p)
    \/ RewritePendingGroup(p) \/ CreateGroup(p) \/ RewriteConcurrent(p)

Resolve(p) ==
    \/ StartResolve(p) \/ ReadGroup(p) \/ ReadMembers(p)
    \/ RejectGroup(p) \/ ApproveGroup(p)

Next ==
    \E p \in Processes :
        \/ Propose(p) \/ Resolve(p)
        \/ StartTrust(p) \/ UpdateTrust(p)
        \/ DirectWrite(p) \/ Rollback(p) \/ Restart(p)

Spec == Init /\ [][Next]_vars

----------------------------------------------------------------------------
(* Properties. *)

Statuses == {"pending_review", "resolved", "withdrawn"}
Phases == {"idle", "find_pending", "old_members", "filter", "prior", "approved",
           "withdraw", "rewrite", "create", "read_group", "read_members",
           "resolve", "trust"}
Rows == [sig : Signatures, status : Statuses, version : 1 .. MaxVersion,
         members : SUBSET Tuples, resolution : 0 .. MaxResolutions]
Resolutions == [sig : Signatures, action : Actions, confirmed : BOOLEAN, trust : Trusts]
Jobs == [sig : Signatures \cup {None}, members : SUBSET Tuples,
         expected : 0 .. MaxVersion, image : Images \cup {None}, target : Nat,
         version : 0 .. MaxVersion, old : SUBSET Tuples,
         suppressed : SUBSET Tuples, prior : Trusts \cup {None}, auto : BOOLEAN,
         action : Actions \cup {None}]

\* The tables hold rows of their types; a group's resolution and an edge's
\* resolution are rows of the resolutions table.
TypeOK ==
    /\ groups \in Seq(Rows)
    /\ resolutions \in Seq(Resolutions)
    /\ edges \in Images
    /\ cache \in [Processes -> Images \cup {None}]
    /\ pc \in [Processes -> Phases]
    /\ job \in [Processes -> Jobs]
    /\ Len(groups) <= MaxGroups /\ Len(resolutions) <= MaxResolutions

\* A signature has at most one pending group, whoever proposes it and whatever
\* stale copy is stored back.
OnePending ==
    \A g, h \in DOMAIN groups :
        /\ groups[g].status = "pending_review" /\ groups[h].status = "pending_review"
        /\ groups[g].sig = groups[h].sig
        => g = h

\* An edge that names a group was written by a confirmed approval of that
\* group's thesis, also when reviewers and proposers race.
GroupEdgesApproved ==
    \A t \in Tuples :
        edges[t] # None /\ edges[t].source # 0 =>
            /\ edges[t].source \in DOMAIN groups
            /\ edges[t].resolution \in ConfirmedApprovals(groups[edges[t].source].sig)

\* A step of p approves a group, on a reviewer's word.
Approves(p) == pc[p] = "resolve" /\ ~job[p].auto /\ out'[p].op = "approve"

\* What reviewers decided stands.  A resolved or withdrawn group never changes
\* again, and what the latest confirmed approval of a thesis carries changes only
\* in an update of trust: nobody is promoted or demoted by approving, rejecting,
\* rewriting or withdrawing.  Left open is what becomes of an invalidated thesis
\* that a reviewer approves again: it may go back to "watch", as the guide has it,
\* or stay, as the code has it (ReapprovalResetsTrust).
DecisionsStand ==
    [][/\ \A g \in DOMAIN groups :
             groups[g].status \in {"resolved", "withdrawn"} => groups'[g] = groups[g]
       /\ \A sig \in Signatures :
             TrustOf(sig) # None /\ TrustOf(sig)' # TrustOf(sig) =>
                 \E p \in Processes :
                    \/ pc[p] = "trust" /\ out'[p].op = "trust"
                    \/ TrustOf(sig) = "invalidated" /\ TrustOf(sig)' = "watch" /\ Approves(p)]_vars

\* A reviewer's approval of an invalidated thesis resets its trust to "watch"
\* (docs/state-resolution-and-maintenance.md:84-87); _carried_trust keeps it.
\* Stated for one process, whose last call is then the last resolution.
ReapprovalResetsTrust ==
    \A p \in Processes :
        out[p].op = "approve" /\ ~out[p].auto /\ out[p].trust = "invalidated" =>
            resolutions[Len(resolutions)].trust = "watch"

\* A direct write of a tuple moves the version of every pending group that
\* claims it, so that its reviewer has to look again.
DirectWritesAreSeen ==
    [][\A p \in Processes :
          out'[p].op = "direct" /\ out'[p] # out[p] =>
              \A t \in out'[p].members : \A g \in PendingGroupsFor(t) :
                  groups'[g].version > groups[g].version]_vars

\* A group is resolved at the version the reviewer named, while it is pending,
\* with exactly the members it had then; one that resolves itself does so under
\* a prior approval that is still trusted.
ResolvesInspected ==
    \A p \in Processes :
        out[p].op \in Actions =>
            /\ out[p].status = "pending_review"
            /\ out[p].version = out[p].expected
            /\ out[p].members = out[p].found
            /\ out[p].auto => PriorAllows(out[p].trust)

=============================================================================
