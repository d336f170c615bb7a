---------------------------- MODULE GroupsProofs ----------------------------
(***************************************************************************)
(* Machine-checked proofs about Groups, for every set of processes,        *)
(* theses and tuples, every policy and every bound.                        *)
(*                                                                         *)
(* The first part holds for any number of processes.  The second is about  *)
(* a single process, whose calls do not overlap: what a call has read is   *)
(* then still what the tables hold when its transaction runs.              *)
(***************************************************************************)
EXTENDS Groups, PositionTheorems, TLAPS

-----------------------------------------------------------------------------
(* The inductive invariant. *)

\* The group a call has read is stored and still has the thesis it had then.
NamesGroup(p) ==
    /\ job[p].target \in DOMAIN groups
    /\ groups[job[p].target].sig = job[p].sig

\* What the locals of a call say about the tables, by where the call is.
CallInv(p) ==
    /\ pc[p] \in {"find_pending", "create"} => job[p].sig \in Signatures
    /\ pc[p] = "find_pending" => job[p].target = 0
    /\ pc[p] \in {"old_members", "withdraw", "rewrite", "read_members", "resolve"} =>
          NamesGroup(p)
    /\ pc[p] \in {"filter", "prior", "approved"} =>
          /\ job[p].sig \in Signatures
          /\ job[p].target # 0 => NamesGroup(p)
    /\ pc[p] = "read_group" => job[p].target \in DOMAIN groups
    /\ pc[p] = "trust" => /\ job[p].target \in DOMAIN resolutions
                          /\ job[p].sig = resolutions[job[p].target].sig

JobInv == \A p \in Processes : CallInv(p)

\* Every process has a last result.
OutTotal == out = [p \in Processes |-> out[p]]

IInv ==
    /\ TypeOK
    /\ OutTotal
    /\ JobInv
    /\ OnePending
    /\ GroupEdgesApproved

\* With one process, what a call has read of its group is what is stored.
FreshCall(p) ==
    LET j == job[p]
        read == /\ groups[j.target].status = "pending_review"
                /\ groups[j.target].version = j.version
    IN /\ pc[p] \in {"old_members", "withdraw", "rewrite", "read_members", "resolve"} => read
       /\ pc[p] \in {"filter", "prior", "approved"} /\ j.target # 0 => read
       /\ pc[p] = "resolve" => groups[j.target].members = j.members
       /\ pc[p] = "approved" => j.prior = TrustOf(j.sig)
       /\ pc[p] = "create" /\ j.auto => PriorAllows(TrustOf(j.sig))
       /\ pc[p] \in {"read_group", "read_members", "resolve"} /\ j.auto =>
             PriorAllows(TrustOf(groups[j.target].sig))

JobIsFresh == \A p \in Processes : FreshCall(p)

SoloInv == IInv /\ JobIsFresh /\ ResolvesInspected

-----------------------------------------------------------------------------
(* Types. *)

\* The initial locals are well typed, and a group or a phase is updated
\* within its type.
LEMMA LocalTypes ==
    /\ NoJob \in Jobs
    /\ "idle" \in Phases
    /\ 1 \in 1 .. MaxVersion
  BY BoundsAssumption DEF NoJob, Jobs, Phases

\* The positions of a table.
LEMMA TableDomains ==
    ASSUME TypeOK
    PROVE  /\ DOMAIN groups = 1 .. Len(groups) /\ Len(groups) \in Nat
           /\ DOMAIN resolutions = 1 .. Len(resolutions) /\ Len(resolutions) \in Nat
           /\ \A g \in DOMAIN groups : groups[g] \in Rows
           /\ \A r \in DOMAIN resolutions : resolutions[r] \in Resolutions
  BY DEF TypeOK

-----------------------------------------------------------------------------
(* What a step never does to the tables: a group keeps its thesis, and a   *)
(* resolution everything but its trust.                                    *)

GroupsKept ==
    /\ DOMAIN groups \subseteq DOMAIN groups'
    /\ \A g \in DOMAIN groups : groups'[g].sig = groups[g].sig

ResolutionsKept ==
    /\ DOMAIN resolutions \subseteq DOMAIN resolutions'
    /\ \A r \in DOMAIN resolutions :
          /\ resolutions'[r].sig = resolutions[r].sig
          /\ resolutions'[r].action = resolutions[r].action
          /\ resolutions'[r].confirmed = resolutions[r].confirmed

\* The locals of the other processes stay right.
LEMMA OthersKept ==
    ASSUME NEW q \in Processes, CallInv(q), GroupsKept, ResolutionsKept,
           pc'[q] = pc[q], job'[q] = job[q]
    PROVE  CallInv(q)'
  BY DEF CallInv, NamesGroup, GroupsKept, ResolutionsKept

\* An edge keeps the approval it was written under.
LEMMA EdgesStand ==
    ASSUME IInv, GroupsKept, ResolutionsKept, UNCHANGED edges
    PROVE  GroupEdgesApproved'
  BY DEF IInv, GroupEdgesApproved, ConfirmedApprovals, GroupsKept, ResolutionsKept

\* Process p moves to a phase with locals of its type and sets its cache.
Moves(p) ==
    /\ \E l \in Phases : pc' = [pc EXCEPT ![p] = l]
    /\ \E j \in Jobs : job' = [job EXCEPT ![p] = j]
    /\ \E c \in Images \cup {None} : cache' = [cache EXCEPT ![p] = c]
    /\ out' = out \/ \E r : out' = [out EXCEPT ![p] = r]

\* A move keeps types and the locals of every other process.
LEMMA MoveKeeps ==
    ASSUME IInv, NEW p \in Processes, Moves(p)
    PROVE  /\ cache' \in [Processes -> Images \cup {None}]
           /\ pc' \in [Processes -> Phases]
           /\ job' \in [Processes -> Jobs]
           /\ OutTotal'
           /\ \A q \in Processes : q # p => pc'[q] = pc[q] /\ job'[q] = job[q]
  <1>1. pc' \in [Processes -> Phases]
    BY DEF IInv, TypeOK, Moves
  <1>2. job' \in [Processes -> Jobs]
    BY DEF IInv, TypeOK, Moves
  <1>3. cache' \in [Processes -> Images \cup {None}]
    BY DEF IInv, TypeOK, Moves
  <1>4. OutTotal'
    BY DEF IInv, OutTotal, Moves
  <1>5. \A q \in Processes : q # p => pc'[q] = pc[q] /\ job'[q] = job[q]
    BY DEF IInv, TypeOK, Moves
  <1> QED
    BY <1>1, <1>2, <1>3, <1>4, <1>5

\* A step that moves p and keeps what is never changed preserves the
\* invariant when it does so for the tables and for p's own locals.
LEMMA StepKeeps ==
    ASSUME IInv, NEW p \in Processes, Moves(p),
           groups' \in Seq(Rows), Len(groups') <= MaxGroups,
           resolutions' \in Seq(Resolutions), Len(resolutions') <= MaxResolutions,
           edges' \in Images,
           GroupsKept, ResolutionsKept,
           CallInv(p)', OnePending', GroupEdgesApproved'
    PROVE  IInv'
  <1>1. TypeOK' /\ OutTotal'
    BY MoveKeeps DEF TypeOK
  <1>2. ASSUME NEW q \in Processes PROVE CallInv(q)'
    BY MoveKeeps, OthersKept DEF IInv, JobInv
  <1> QED
    BY <1>1, <1>2 DEF IInv, JobInv

\* A step that leaves the tables alone.
LEMMA ReadStep ==
    ASSUME IInv, NEW p \in Processes, Moves(p), UNCHANGED tables, CallInv(p)'
    PROVE  IInv'
  <1>1. GroupsKept /\ ResolutionsKept
    BY DEF tables, GroupsKept, ResolutionsKept
  <1>2. OnePending' /\ GroupEdgesApproved'
    BY DEF IInv, OnePending, GroupEdgesApproved, ConfirmedApprovals, tables
  <1> QED
    BY <1>1, <1>2, StepKeeps DEF IInv, TypeOK, tables

\* Keeping the cache is setting it to what it was.
LEMMA CacheKept ==
    ASSUME IInv, NEW p \in Processes, UNCHANGED cache
    PROVE  \E c \in Images \cup {None} : cache' = [cache EXCEPT ![p] = c]
  BY DEF IInv, TypeOK

\* A call that ends, or goes on, moves its process.
LEMMA ReturnMoves ==
    ASSUME IInv, NEW p \in Processes, NEW r, Return(p, r),
           NEW c \in Images \cup {None}, SetCache(p, c) \/ UNCHANGED cache
    PROVE  Moves(p) /\ CallInv(p)'
  <1>1. Moves(p)
    BY LocalTypes, CacheKept DEF Return, SetCache, Moves
  <1>2. pc'[p] = "idle"
    BY DEF Return, IInv, TypeOK
  <1> QED
    BY <1>1, <1>2 DEF CallInv

\* A call that goes on to its next step.
LEMMA GotoMoves ==
    ASSUME IInv, NEW p \in Processes, NEW j \in Jobs, NEW l \in Phases, Goto(p, j, l),
           NEW c \in Images \cup {None}, SetCache(p, c) \/ UNCHANGED cache
    PROVE  Moves(p) /\ pc'[p] = l /\ job'[p] = j
  <1>1. Moves(p)
    BY CacheKept DEF Goto, SetCache, Moves
  <1>2. pc'[p] = l /\ job'[p] = j
    BY DEF Goto, IInv, TypeOK
  <1> QED
    BY <1>1, <1>2

\* A call that starts.
LEMMA CallMoves ==
    ASSUME IInv, NEW p \in Processes, NEW op, NEW j \in Jobs, NEW l \in Phases,
           Call(p, op, j, l),
           NEW c \in Images \cup {None}, SetCache(p, c) \/ UNCHANGED cache
    PROVE  Moves(p) /\ pc'[p] = l /\ job'[p] = j
  <1>1. Moves(p)
    BY CacheKept DEF Call, SetCache, Moves
  <1>2. pc'[p] = l /\ job'[p] = j
    BY DEF Call, IInv, TypeOK
  <1> QED
    BY <1>1, <1>2

-----------------------------------------------------------------------------
(* One lemma per step of a call: the reads of a proposal.                  *)

\* A proposal starts on the graph its process has cached, or loads it.
LEMMA StartProposeStep ==
    ASSUME IInv, NEW p \in Processes, StartPropose(p)
    PROVE  IInv'
  <1> DEFINE image == IF cache[p] = None THEN edges ELSE cache[p]
  <1>1. image \in Images
    BY DEF IInv, TypeOK
  <1>2. PICK sig \in Signatures, members \in SUBSET Tuples :
            /\ Call(p, "propose", [NoJob EXCEPT !.sig = sig, !.members = members,
                                                !.image = image], "find_pending")
            /\ SetCache(p, image)
    BY DEF StartPropose
  <1>3. \A i \in Images : [NoJob EXCEPT !.sig = sig, !.members = members, !.image = i] \in Jobs
    BY LocalTypes DEF Jobs
  <1> DEFINE j == [NoJob EXCEPT !.sig = sig, !.members = members, !.image = image]
  <1>4. j \in Jobs /\ j.sig = sig /\ j.target = 0
    BY <1>1, <1>3 DEF NoJob
  <1> HIDE DEF j, image
  <1>5. Moves(p) /\ pc'[p] = "find_pending" /\ job'[p] = j
    BY <1>1, <1>2, <1>4, CallMoves DEF Phases, j, image
  <1>6. CallInv(p)'
    BY <1>4, <1>5 DEF CallInv
  <1> QED
    BY <1>5, <1>6, ReadStep DEF StartPropose

\* The pending group of the thesis is read, or there is none.
LEMMA FindPendingStep ==
    ASSUME IInv, NEW p \in Processes, FindPending(p)
    PROVE  IInv'
  <1>1. UNCHANGED tables /\ UNCHANGED cache /\ pc[p] = "find_pending"
    BY DEF FindPending
  <1>2. job[p] \in Jobs /\ job[p].sig \in Signatures /\ job[p].target = 0
    BY <1>1 DEF IInv, TypeOK, JobInv, CallInv
  <1>3. PICK expected \in 0 .. MaxVersion :
          LET found == FindPendingGroup(job[p].sig)
          IN \/ /\ found = {} /\ ExpectedPending(found, expected)
                /\ Goto(p, job[p], "filter")
             \/ \E g \in found :
                   Goto(p, [job[p] EXCEPT !.expected = expected, !.target = g,
                                          !.version = groups[g].version],
                        "old_members")
             \/ Return(p, Refused)
    BY DEF FindPending
  <1>4. CASE Return(p, Refused)
    BY <1>1, <1>4, ReturnMoves, ReadStep DEF tables
  <1>5. CASE Goto(p, job[p], "filter")
    <2>1. Moves(p) /\ pc'[p] = "filter" /\ job'[p] = job[p]
      BY <1>1, <1>2, <1>5, GotoMoves DEF Phases
    <2>2. CallInv(p)'
      BY <1>2, <2>1 DEF CallInv
    <2> QED
      BY <1>1, <2>1, <2>2, ReadStep
  <1>6. ASSUME NEW g \in FindPendingGroup(job[p].sig),
               Goto(p, [job[p] EXCEPT !.expected = expected, !.target = g,
                                      !.version = groups[g].version], "old_members")
        PROVE  IInv'
    <2> DEFINE j == [job[p] EXCEPT !.expected = expected, !.target = g,
                                   !.version = groups[g].version]
    <2>1. g \in DOMAIN groups /\ groups[g].sig = job[p].sig
      BY DEF FindPendingGroup
    <2>2. g \in Nat /\ groups[g].version \in 0 .. MaxVersion
      BY <2>1, TableDomains, BoundsAssumption DEF IInv, Rows
    <2>3. \A v \in 0 .. MaxVersion :
            [job[p] EXCEPT !.expected = expected, !.target = g, !.version = v] \in Jobs
      BY <1>2, <2>2 DEF Jobs
    <2>4. j \in Jobs /\ j.sig = job[p].sig /\ j.target = g
      BY <1>2, <2>2, <2>3 DEF Jobs
    <2> HIDE DEF j
    <2>5. Moves(p) /\ pc'[p] = "old_members" /\ job'[p] = j
      BY <1>1, <1>6, <2>4, GotoMoves DEF Phases, j
    <2>6. CallInv(p)'
      BY <1>1, <2>1, <2>4, <2>5 DEF CallInv, NamesGroup, tables
    <2> QED
      BY <1>1, <2>5, <2>6, ReadStep
  <1> QED
    BY <1>3, <1>4, <1>5, <1>6

\* Its members are read, if they are to be kept.
LEMMA ReadOldMembersStep ==
    ASSUME IInv, NEW p \in Processes, ReadOldMembers(p)
    PROVE  IInv'
  <1>1. /\ UNCHANGED tables /\ UNCHANGED cache /\ pc[p] = "old_members"
        /\ Goto(p, [job[p] EXCEPT !.old = groups[job[p].target].members], "filter")
    BY DEF ReadOldMembers
  <1>2. job[p] \in Jobs /\ NamesGroup(p)
    BY <1>1 DEF IInv, TypeOK, JobInv, CallInv
  <1> DEFINE m == groups[job[p].target].members
             j == [job[p] EXCEPT !.old = m]
  <1>3. m \in SUBSET Tuples /\ job[p].sig \in Signatures
    BY <1>2, TableDomains DEF IInv, NamesGroup, Rows
  <1> HIDE DEF m
  <1>4. j \in Jobs /\ j.sig = job[p].sig /\ j.target = job[p].target
    BY <1>2, <1>3 DEF Jobs
  <1> HIDE DEF j
  <1>5. Moves(p) /\ pc'[p] = "filter" /\ job'[p] = j
    BY <1>1, <1>4, GotoMoves DEF Phases, j, m
  <1>6. CallInv(p)'
    BY <1>1, <1>2, <1>3, <1>4, <1>5 DEF CallInv, NamesGroup, tables
  <1> QED
    BY <1>1, <1>5, <1>6, ReadStep

\* Conflicting tuples are taken out of the proposal.
LEMMA FilterConflictsStep ==
    ASSUME IInv, NEW p \in Processes, FilterConflicts(p)
    PROVE  IInv'
  <1>1. UNCHANGED tables /\ UNCHANGED cache /\ pc[p] = "filter"
    BY DEF FilterConflicts
  <1>2. /\ job[p] \in Jobs /\ job[p].sig \in Signatures
        /\ job[p].target # 0 => NamesGroup(p)
    BY <1>1 DEF IInv, TypeOK, JobInv, CallInv
  <1>3. PICK conflicts \in SUBSET job[p].members :
          \/ Goto(p, [job[p] EXCEPT !.members = job[p].members \ conflicts,
                                    !.suppressed = conflicts], "prior")
          \/ Goto(p, job[p], "prior")
    BY DEF FilterConflicts
  <1> DEFINE j == [job[p] EXCEPT !.members = job[p].members \ conflicts,
                                 !.suppressed = conflicts]
  <1>4. job[p].members \in SUBSET Tuples
    BY <1>2 DEF Jobs
  <1>5. \A m, c \in SUBSET Tuples : [job[p] EXCEPT !.members = m, !.suppressed = c] \in Jobs
    BY <1>2 DEF Jobs
  <1>6. j \in Jobs /\ j.sig = job[p].sig /\ j.target = job[p].target
    BY <1>2, <1>4, <1>5 DEF Jobs
  <1> HIDE DEF j
  <1>7. /\ Moves(p) /\ pc'[p] = "prior"
        /\ job'[p].sig = job[p].sig /\ job'[p].target = job[p].target
    BY <1>1, <1>2, <1>3, <1>6, GotoMoves DEF Phases, j
  <1>8. CallInv(p)'
    BY <1>1, <1>2, <1>7 DEF CallInv, NamesGroup, tables
  <1> QED
    BY <1>1, <1>7, <1>8, ReadStep

\* find_resolution returns the most recent confirmed approval, or none.
LEMMA FindResolutionIsLatest ==
    ASSUME TypeOK, NEW sig
    PROVE  /\ ConfirmedApprovals(sig) = {} => FindResolution(sig) = 0
           /\ ConfirmedApprovals(sig) # {} =>
                 /\ FindResolution(sig) \in ConfirmedApprovals(sig)
                 /\ FindResolution(sig) # 0
                 /\ \A q \in ConfirmedApprovals(sig) : q <= FindResolution(sig)
  <1>1. ConfirmedApprovals(sig) \in SUBSET (1 .. Len(resolutions)) /\ Len(resolutions) \in Nat
    BY TableDomains DEF ConfirmedApprovals
  <1>2. ConfirmedApprovals(sig) # {} =>
          \E r \in ConfirmedApprovals(sig) : \A q \in ConfirmedApprovals(sig) : q <= r
    BY <1>1, LatestExists
  <1> QED
    BY <1>1, <1>2 DEF FindResolution

\* The trust of a thesis is a trust level, or nothing.
LEMMA TrustType ==
    ASSUME TypeOK, NEW sig
    PROVE  TrustOf(sig) \in Trusts \cup {None} /\ CarriedTrust(sig) \in Trusts
  <1>1. FindResolution(sig) # 0 => FindResolution(sig) \in DOMAIN resolutions
    BY FindResolutionIsLatest DEF ConfirmedApprovals
  <1>2. FindResolution(sig) # 0 => resolutions[FindResolution(sig)].trust \in Trusts
    BY <1>1, TableDomains DEF Resolutions
  <1> QED
    BY <1>2 DEF TrustOf, CarriedTrust, Trusts

\* The trust of the thesis is read.
LEMMA ReadPriorStep ==
    ASSUME IInv, NEW p \in Processes, ReadPrior(p)
    PROVE  IInv'
  <1>1. /\ UNCHANGED tables /\ UNCHANGED cache /\ pc[p] = "prior"
        /\ Goto(p, [job[p] EXCEPT !.prior = TrustOf(job[p].sig)], "approved")
    BY DEF ReadPrior
  <1>2. /\ job[p] \in Jobs /\ job[p].sig \in Signatures
        /\ job[p].target # 0 => NamesGroup(p)
    BY <1>1 DEF IInv, TypeOK, JobInv, CallInv
  <1> DEFINE j == [job[p] EXCEPT !.prior = TrustOf(job[p].sig)]
  <1>3. \A t \in Trusts \cup {None} : [job[p] EXCEPT !.prior = t] \in Jobs
    BY <1>2 DEF Jobs
  <1>4. j \in Jobs /\ j.sig = job[p].sig /\ j.target = job[p].target
    BY <1>2, <1>3, TrustType DEF IInv, Jobs
  <1> HIDE DEF j
  <1>5. Moves(p) /\ pc'[p] = "approved" /\ job'[p] = j
    BY <1>1, <1>4, GotoMoves DEF Phases, j
  <1>6. CallInv(p)'
    BY <1>1, <1>2, <1>4, <1>5 DEF CallInv, NamesGroup, tables
  <1> QED
    BY <1>1, <1>5, <1>6, ReadStep

\* The proposal is suppressed, unchanged, or goes on to its transaction.
LEMMA DecideProposalStep ==
    ASSUME IInv, NEW p \in Processes, DecideProposal(p)
    PROVE  IInv'
  <1>1. UNCHANGED tables /\ UNCHANGED cache /\ pc[p] = "approved"
    BY DEF DecideProposal
  <1>2. /\ job[p] \in Jobs /\ job[p].sig \in Signatures
        /\ job[p].target # 0 => NamesGroup(p)
    BY <1>1 DEF IInv, TypeOK, JobInv, CallInv
  <1> DEFINE write == [NoJob EXCEPT !.sig = job[p].sig, !.target = job[p].target,
                          !.version = job[p].version, !.expected = job[p].expected]
             Same(j) == j \in Jobs /\ j.sig = job[p].sig /\ j.target = job[p].target
  <1>3. Same(write)
    BY <1>2, LocalTypes DEF Jobs, NoJob
  <1>4. \/ \E r : Return(p, r)
        \/ \E j \in Jobs :
              /\ Same(j) /\ job[p].target # 0
              /\ Goto(p, j, "withdraw") \/ Goto(p, j, "rewrite")
        \/ \E j \in Jobs : Same(j) /\ Goto(p, j, "create")
    <2> HIDE DEF write
    <2>1. PICK mode \in Modes, eligible \in BOOLEAN :
       LET j == job[p]
           delta == j.members \ ApprovedTuples(j.sig)
       IN \/ Return(p, [NoResult EXCEPT !.op = "suppressed"])
          \/ Return(p, [NoResult EXCEPT !.op = "unchanged"])
          \/ j.target # 0 /\ Goto(p, write, "withdraw")
          \/ /\ j.target # 0
             /\ Goto(p, [write EXCEPT !.members =
                            IF mode = "retain_missing" THEN j.old \cup delta ELSE delta],
                     "rewrite")
          \/ Goto(p, [write EXCEPT !.members = delta,
                                   !.auto = /\ eligible
                                            /\ PriorAllows(j.prior)
                                            /\ ~HasOverride(j.image, delta)],
                     "create")
      BY DEF DecideProposal, write
    <2>2. job[p].members \in SUBSET Tuples /\ job[p].old \in SUBSET Tuples
      BY <1>2 DEF Jobs
    <2>3. \A m \in SUBSET Tuples : Same([write EXCEPT !.members = m])
      BY <1>3 DEF Jobs
    <2>4. \A m \in SUBSET Tuples, a \in BOOLEAN :
             Same([write EXCEPT !.members = m, !.auto = a])
      BY <1>3 DEF Jobs
    <2> DEFINE delta == job[p].members \ ApprovedTuples(job[p].sig)
               kept == IF mode = "retain_missing" THEN job[p].old \cup delta ELSE delta
               auto == /\ eligible
                       /\ PriorAllows(job[p].prior)
                       /\ ~HasOverride(job[p].image, delta)
    <2>5. delta \in SUBSET Tuples /\ kept \in SUBSET Tuples /\ auto \in BOOLEAN
      BY <2>2
    <2>6. \/ Return(p, [NoResult EXCEPT !.op = "suppressed"])
          \/ Return(p, [NoResult EXCEPT !.op = "unchanged"])
          \/ job[p].target # 0 /\ Goto(p, write, "withdraw")
          \/ job[p].target # 0 /\ Goto(p, [write EXCEPT !.members = kept], "rewrite")
          \/ Goto(p, [write EXCEPT !.members = delta, !.auto = auto], "create")
      BY <2>1
    <2> HIDE DEF delta, kept, auto
    <2>7. /\ Same([write EXCEPT !.members = kept])
          /\ Same([write EXCEPT !.members = delta, !.auto = auto])
      BY <2>3, <2>4, <2>5
    <2> QED
      BY <1>2, <1>3, <2>6, <2>7
  <1>5. ASSUME NEW r, Return(p, r) PROVE IInv'
    BY <1>1, <1>5, ReturnMoves, ReadStep
  <1>6. ASSUME NEW j \in Jobs, Same(j), job[p].target # 0,
               Goto(p, j, "withdraw") \/ Goto(p, j, "rewrite")
        PROVE  IInv'
    <2>1. Moves(p) /\ pc'[p] \in {"withdraw", "rewrite"} /\ job'[p] = j
      BY <1>1, <1>6, GotoMoves DEF Phases
    <2>2. CallInv(p)'
      BY <1>1, <1>2, <1>6, <2>1 DEF CallInv, NamesGroup, tables
    <2> QED
      BY <1>1, <2>1, <2>2, ReadStep
  <1>7. ASSUME NEW j \in Jobs, Same(j), Goto(p, j, "create") PROVE IInv'
    <2>1. Moves(p) /\ pc'[p] = "create" /\ job'[p] = j
      BY <1>1, <1>7, GotoMoves DEF Phases
    <2>2. CallInv(p)'
      BY <1>2, <1>7, <2>1 DEF CallInv
    <2> QED
      BY <1>1, <2>1, <2>2, ReadStep
  <1> QED
    BY <1>4, <1>5, <1>6, <1>7

-----------------------------------------------------------------------------
(* The transactions of a proposal. *)

\* Row g of the groups is replaced by a row of the same thesis.
LEMMA RowReplaced ==
    ASSUME TypeOK, NEW g \in DOMAIN groups, NEW row \in Rows, row.sig = groups[g].sig,
           groups' = [groups EXCEPT ![g] = row]
    PROVE  /\ groups' \in Seq(Rows) /\ Len(groups') = Len(groups)
           /\ DOMAIN groups' = DOMAIN groups
           /\ groups'[g] = row
           /\ \A h \in DOMAIN groups : h # g => groups'[h] = groups[h]
           /\ GroupsKept
  BY DEF TypeOK, GroupsKept

\* A row that stays out of review, or was the pending one of its thesis, or
\* meets no other, leaves at most one pending group.
LEMMA RowKeepsOnePending ==
    ASSUME IInv, NEW g \in DOMAIN groups, NEW row \in Rows, row.sig = groups[g].sig,
           groups' = [groups EXCEPT ![g] = row],
           \/ row.status # "pending_review"
           \/ groups[g].status = "pending_review"
           \/ ~PendingClash(row.sig, g)
    PROVE  OnePending'
  <1>1. /\ DOMAIN groups' = DOMAIN groups
        /\ groups'[g] = row
        /\ \A h \in DOMAIN groups : h # g => groups'[h] = groups[h]
    BY RowReplaced DEF IInv
  <1> QED
    BY <1>1 DEF IInv, OnePending, PendingClash, FindPendingGroup

\* A write of one row, whatever else the tables keep.
LEMMA RowStep ==
    ASSUME IInv, NEW p \in Processes, Moves(p), CallInv(p)',
           NEW g \in DOMAIN groups, NEW row \in Rows, row.sig = groups[g].sig,
           groups' = [groups EXCEPT ![g] = row],
           \/ row.status # "pending_review"
           \/ groups[g].status = "pending_review"
           \/ ~PendingClash(row.sig, g),
           UNCHANGED <<resolutions, edges>>
    PROVE  IInv'
  <1>1. groups' \in Seq(Rows) /\ Len(groups') <= MaxGroups /\ GroupsKept
    BY RowReplaced DEF IInv, TypeOK
  <1>2. ResolutionsKept
    BY DEF ResolutionsKept
  <1>3. GroupEdgesApproved'
    BY <1>1, <1>2, EdgesStand
  <1>4. OnePending'
    BY RowKeepsOnePending
  <1> QED
    BY <1>1, <1>2, <1>3, <1>4, StepKeeps DEF IInv, TypeOK

\* Withdrawing the pending group.
LEMMA WithdrawStep ==
    ASSUME IInv, NEW p \in Processes, WithdrawPendingGroup(p)
    PROVE  IInv'
  <1> DEFINE g == job[p].target
             v == job[p].version + 1
             row == [groups[g] EXCEPT !.status = "withdrawn", !.version = v]
  <1>1. g \in DOMAIN groups /\ groups[g] \in Rows
    BY TableDomains DEF WithdrawPendingGroup, IInv, JobInv, CallInv, NamesGroup
  <1>2. v \in 1 .. MaxVersion
    BY BoundsAssumption DEF WithdrawPendingGroup, IInv, TypeOK, Jobs
  <1>3. \A n \in 1 .. MaxVersion :
          [groups[g] EXCEPT !.status = "withdrawn", !.version = n] \in Rows
    BY <1>1 DEF Rows, Statuses
  <1>4. groups' = [groups EXCEPT ![g] = row]
    BY <1>1 DEF WithdrawPendingGroup
  <1>5. row \in Rows /\ row.sig = groups[g].sig /\ row.status = "withdrawn"
    BY <1>1, <1>2, <1>3 DEF Rows
  <1>6. Moves(p) /\ CallInv(p)'
    BY ReturnMoves DEF WithdrawPendingGroup
  <1> HIDE DEF g, row
  <1> QED
    BY <1>1, <1>4, <1>5, <1>6, RowStep DEF WithdrawPendingGroup

\* A rewritten row is of the same thesis.
LEMMA RewrittenRowType ==
    ASSUME TypeOK, NEW g \in DOMAIN groups, NEW v \in 1 .. MaxVersion,
           NEW m \in SUBSET Tuples
    PROVE  /\ RewrittenRow(g, v, m) \in Rows
           /\ RewrittenRow(g, v, m).sig = groups[g].sig
  <1>1. groups[g] \in Rows /\ 0 \in 0 .. MaxResolutions
    BY TableDomains, BoundsAssumption
  <1> QED
    BY <1>1 DEF RewrittenRow, Rows, Statuses

\* Storing the rewritten copy of the pending group.
LEMMA RewriteStep ==
    ASSUME IInv, NEW p \in Processes, RewritePendingGroup(p)
    PROVE  IInv'
  <1> DEFINE g == job[p].target
             v == job[p].version + 1
             row == RewrittenRow(g, v, job[p].members)
  <1>1. g \in DOMAIN groups /\ groups[g].sig = job[p].sig
    BY DEF RewritePendingGroup, IInv, JobInv, CallInv, NamesGroup
  <1>2. v \in 1 .. MaxVersion /\ job[p].members \in SUBSET Tuples
    BY BoundsAssumption DEF RewritePendingGroup, IInv, TypeOK, Jobs
  <1>3. row \in Rows /\ row.sig = groups[g].sig
    BY <1>1, <1>2, RewrittenRowType DEF IInv
  <1>4. groups' = [groups EXCEPT ![g] = row] /\ ~PendingClash(row.sig, g)
    BY <1>1, <1>3 DEF RewritePendingGroup
  <1>5. Moves(p) /\ CallInv(p)'
    BY ReturnMoves DEF RewritePendingGroup
  <1> HIDE DEF g, row
  <1> QED
    BY <1>1, <1>3, <1>4, <1>5, RowStep DEF RewritePendingGroup

\* The insert that lost the race rewrites the row it met.
LEMMA RewriteConcurrentStep ==
    ASSUME IInv, NEW p \in Processes, RewriteConcurrent(p)
    PROVE  IInv'
  <1>1. PICK g \in FindPendingGroup(job[p].sig), mode \in Modes :
          LET kept == IF mode = "retain_missing" THEN groups[g].members ELSE {}
          IN /\ groups[g].version < MaxVersion
             /\ groups' = [groups EXCEPT
                   ![g] = RewrittenRow(g, groups[g].version + 1, job[p].members \cup kept)]
             /\ Return(p, [NoResult EXCEPT !.op = "converged"])
    BY DEF RewriteConcurrent
  <1> DEFINE v == groups[g].version + 1
             m == job[p].members \cup
                     (IF mode = "retain_missing" THEN groups[g].members ELSE {})
             row == RewrittenRow(g, v, m)
  <1>2. g \in DOMAIN groups /\ groups[g].status = "pending_review" /\ groups[g] \in Rows
    BY TableDomains DEF FindPendingGroup, IInv
  <1>3. v \in 1 .. MaxVersion
    BY <1>1, <1>2, BoundsAssumption DEF Rows
  <1>4. m \in SUBSET Tuples
    BY <1>2 DEF Rows, IInv, TypeOK, Jobs
  <1>5. row \in Rows /\ row.sig = groups[g].sig
    BY <1>2, <1>3, <1>4, RewrittenRowType DEF IInv
  <1>6. groups' = [groups EXCEPT ![g] = row]
    BY <1>1
  <1>7. Moves(p) /\ CallInv(p)'
    BY <1>1, ReturnMoves DEF RewriteConcurrent
  <1> HIDE DEF row
  <1> QED
    BY <1>2, <1>5, <1>6, <1>7, RowStep DEF RewriteConcurrent

\* Inserting a group, and going on to approve it where that is allowed.
LEMMA CreateStep ==
    ASSUME IInv, NEW p \in Processes, CreateGroup(p)
    PROVE  IInv'
  <1> DEFINE n == Len(groups) + 1
             row == [sig |-> job[p].sig, status |-> "pending_review", version |-> 1,
                     members |-> job[p].members, resolution |-> 0]
  <1>1. /\ pc[p] = "create" /\ Len(groups) < MaxGroups /\ ~PendingClash(job[p].sig, 0)
        /\ groups' = Append(groups, row)
        /\ UNCHANGED <<resolutions, edges>>
    BY DEF CreateGroup
  <1>2. job[p].sig \in Signatures /\ job[p].members \in SUBSET Tuples
    BY <1>1 DEF IInv, TypeOK, JobInv, CallInv, Jobs
  <1>3. row \in Rows
    BY <1>2, LocalTypes, BoundsAssumption DEF Rows, Statuses
  <1>4. groups \in Seq(Rows) /\ Len(groups) \in Nat /\ DOMAIN groups = 1 .. Len(groups)
    BY DEF IInv, TypeOK
  <1> HIDE DEF row
  <1>5. /\ groups' \in Seq(Rows) /\ Len(groups') = n /\ DOMAIN groups' = 1 .. n
        /\ groups'[n] = row
        /\ \A g \in DOMAIN groups : groups'[g] = groups[g]
    BY <1>1, <1>3, <1>4
  <1>6. GroupsKept /\ ResolutionsKept /\ Len(groups') <= MaxGroups
    BY <1>1, <1>4, <1>5, BoundsAssumption DEF GroupsKept, ResolutionsKept
  <1>7. OnePending'
    <2>1. ASSUME NEW g \in DOMAIN groups, groups[g].status = "pending_review",
                 groups[g].sig = job[p].sig
          PROVE  FALSE
      BY <1>1, <1>4, <2>1 DEF PendingClash, FindPendingGroup
    <2>2. \A g \in DOMAIN groups' : g \in DOMAIN groups \/ g = n
      BY <1>4, <1>5
    <2>3. row.sig = job[p].sig
      BY DEF row
    <2> QED
      BY <1>5, <2>1, <2>2, <2>3 DEF IInv, OnePending
  <1>8. GroupEdgesApproved'
    BY <1>1, <1>6, EdgesStand
  <1>9. Moves(p) /\ CallInv(p)'
    <2>1. CASE Goto(p, AutoResolve(n), "read_group")
      <3>1. AutoResolve(n) \in Jobs /\ AutoResolve(n).target = n
        <4>1. n \in Nat /\ 1 \in 0 .. MaxVersion /\ "approve" \in Actions
          BY <1>4, BoundsAssumption DEF Actions
        <4>2. \A m \in Nat, e \in 0 .. MaxVersion, a \in Actions :
                LET j == [NoJob EXCEPT !.target = m, !.expected = e, !.action = a,
                                       !.auto = TRUE]
                IN j \in Jobs /\ j.target = m
          BY LocalTypes DEF Jobs, NoJob
        <4> QED
          BY <4>1, <4>2 DEF AutoResolve
      <3>2. Moves(p) /\ pc'[p] = "read_group" /\ job'[p] = AutoResolve(n)
        BY <2>1, <3>1, GotoMoves DEF CreateGroup, Phases
      <3> QED
        BY <1>4, <1>5, <3>1, <3>2 DEF CallInv
    <2>2. CASE Return(p, [NoResult EXCEPT !.op = "create"])
      BY <2>2, ReturnMoves DEF CreateGroup
    <2> QED
      BY <2>1, <2>2 DEF CreateGroup
  <1> QED
    BY <1>1, <1>5, <1>6, <1>7, <1>8, <1>9, StepKeeps DEF IInv, TypeOK

-----------------------------------------------------------------------------
(* A resolution. *)

\* A reviewer names a group, an action and a version.
LEMMA StartResolveStep ==
    ASSUME IInv, NEW p \in Processes, StartResolve(p)
    PROVE  IInv'
  <1>1. PICK g \in DOMAIN groups, action \in Actions, expected \in 1 .. MaxVersion :
          Call(p, "resolve",
               [NoJob EXCEPT !.target = g, !.action = action, !.expected = expected],
               "read_group")
    BY DEF StartResolve
  <1> DEFINE j == [NoJob EXCEPT !.target = g, !.action = action, !.expected = expected]
  <1>2. g \in Nat /\ expected \in 0 .. MaxVersion
    BY TableDomains, BoundsAssumption DEF IInv
  <1>3. j \in Jobs /\ j.target = g
    BY <1>2, LocalTypes DEF Jobs, NoJob
  <1> HIDE DEF j
  <1>4. Moves(p) /\ pc'[p] = "read_group" /\ job'[p] = j
    BY <1>1, <1>3, CallMoves DEF StartResolve, Phases, j
  <1>5. CallInv(p)'
    BY <1>3, <1>4 DEF CallInv, StartResolve, tables
  <1> QED
    BY <1>4, <1>5, ReadStep DEF StartResolve

\* The group is read and found pending, or the call is refused.
LEMMA ReadGroupStep ==
    ASSUME IInv, NEW p \in Processes, ReadGroup(p)
    PROVE  IInv'
  <1>1. UNCHANGED tables /\ UNCHANGED cache /\ pc[p] = "read_group"
    BY DEF ReadGroup
  <1> DEFINE g == job[p].target
             j == [job[p] EXCEPT !.sig = groups[g].sig, !.version = groups[g].version]
  <1>2. job[p] \in Jobs /\ g \in DOMAIN groups /\ groups[g] \in Rows
    BY <1>1, TableDomains DEF IInv, TypeOK, JobInv, CallInv
  <1>3. Goto(p, j, "read_members") \/ Return(p, Refused)
    BY DEF ReadGroup
  <1>4. groups[g].sig \in Signatures /\ groups[g].version \in 0 .. MaxVersion
    BY <1>2, BoundsAssumption DEF Rows
  <1>5. \A s \in Signatures, v \in 0 .. MaxVersion :
           [job[p] EXCEPT !.sig = s, !.version = v] \in Jobs
    BY <1>2 DEF Jobs
  <1>6. j \in Jobs /\ j.sig = groups[g].sig /\ j.target = g
    BY <1>2, <1>4, <1>5 DEF Jobs
  <1> HIDE DEF j
  <1>7. CASE Return(p, Refused)
    BY <1>1, <1>7, ReturnMoves, ReadStep
  <1>8. CASE Goto(p, j, "read_members")
    <2>1. Moves(p) /\ pc'[p] = "read_members" /\ job'[p] = j
      BY <1>1, <1>6, <1>8, GotoMoves DEF Phases
    <2>2. CallInv(p)'
      BY <1>1, <1>2, <1>6, <2>1 DEF CallInv, NamesGroup, tables
    <2> QED
      BY <1>1, <2>1, <2>2, ReadStep
  <1> QED
    BY <1>3, <1>7, <1>8

\* Its members are read.
LEMMA ReadMembersStep ==
    ASSUME IInv, NEW p \in Processes, ReadMembers(p)
    PROVE  IInv'
  <1>1. /\ UNCHANGED tables /\ UNCHANGED cache /\ pc[p] = "read_members"
        /\ Goto(p, [job[p] EXCEPT !.members = groups[job[p].target].members], "resolve")
    BY DEF ReadMembers
  <1>2. job[p] \in Jobs /\ NamesGroup(p)
    BY <1>1 DEF IInv, TypeOK, JobInv, CallInv
  <1> DEFINE m == groups[job[p].target].members
             j == [job[p] EXCEPT !.members = m]
  <1>3. m \in SUBSET Tuples
    BY <1>2, TableDomains DEF IInv, NamesGroup, Rows
  <1> HIDE DEF m
  <1>4. j \in Jobs /\ j.sig = job[p].sig /\ j.target = job[p].target
    BY <1>2, <1>3 DEF Jobs
  <1> HIDE DEF j
  <1>5. Moves(p) /\ pc'[p] = "resolve" /\ job'[p] = j
    BY <1>1, <1>4, GotoMoves DEF Phases, j, m
  <1>6. CallInv(p)'
    BY <1>1, <1>2, <1>4, <1>5 DEF CallInv, NamesGroup, tables
  <1> QED
    BY <1>1, <1>5, <1>6, ReadStep

\* A resolution is appended and its group marked resolved by it.
LEMMA ResolutionRecorded ==
    ASSUME IInv, NEW p \in Processes, pc[p] = "resolve",
           NEW res \in Resolutions, res.sig = job[p].sig,
           Len(resolutions) < MaxResolutions,
           resolutions' = Append(resolutions, res),
           groups' = [groups EXCEPT ![job[p].target].status = "resolved",
                                    ![job[p].target].resolution = Len(resolutions) + 1]
    PROVE  /\ resolutions' \in Seq(Resolutions) /\ Len(resolutions') <= MaxResolutions
           /\ DOMAIN resolutions' = 1 .. Len(resolutions) + 1
           /\ resolutions'[Len(resolutions) + 1] = res
           /\ \A r \in DOMAIN resolutions : resolutions'[r] = resolutions[r]
           /\ groups' \in Seq(Rows) /\ Len(groups') <= MaxGroups
           /\ DOMAIN groups' = DOMAIN groups
           /\ groups'[job[p].target].sig = groups[job[p].target].sig
           /\ groups'[job[p].target].status = "resolved"
           /\ \A h \in DOMAIN groups : h # job[p].target => groups'[h] = groups[h]
           /\ GroupsKept /\ ResolutionsKept /\ OnePending'
  <1> DEFINE g == job[p].target
             k == Len(resolutions) + 1
             row == [groups[g] EXCEPT !.status = "resolved", !.resolution = k]
  <1>1. g \in DOMAIN groups /\ groups[g].sig = job[p].sig /\ groups[g] \in Rows
    BY TableDomains DEF IInv, JobInv, CallInv, NamesGroup
  <1>2. resolutions \in Seq(Resolutions) /\ Len(resolutions) \in Nat
        /\ DOMAIN resolutions = 1 .. Len(resolutions)
    BY DEF IInv, TypeOK
  <1>3. k \in 0 .. MaxResolutions
    BY <1>2, BoundsAssumption
  <1>4. \A n \in 0 .. MaxResolutions :
          [groups[g] EXCEPT !.status = "resolved", !.resolution = n] \in Rows
    BY <1>1 DEF Rows, Statuses
  <1>5. row \in Rows /\ row.sig = groups[g].sig /\ row.status = "resolved"
    BY <1>1, <1>3, <1>4 DEF Rows
  <1>6. groups' = [groups EXCEPT ![g] = row]
    BY <1>1
  <1> HIDE DEF row
  <1>7. /\ resolutions' \in Seq(Resolutions) /\ Len(resolutions') = k
        /\ DOMAIN resolutions' = 1 .. k
        /\ resolutions'[k] = res
        /\ \A r \in DOMAIN resolutions : resolutions'[r] = resolutions[r]
    BY <1>2
  <1>8. ResolutionsKept
    BY <1>2, <1>7 DEF ResolutionsKept
  <1>9. /\ groups' \in Seq(Rows) /\ Len(groups') = Len(groups)
        /\ DOMAIN groups' = DOMAIN groups
        /\ groups'[g] = row
        /\ \A h \in DOMAIN groups : h # g => groups'[h] = groups[h]
        /\ GroupsKept
    BY <1>1, <1>5, <1>6, RowReplaced DEF IInv
  <1>10. OnePending'
    BY <1>1, <1>5, <1>6, RowKeepsOnePending
  <1> QED
    BY <1>3, <1>5, <1>7, <1>8, <1>9, <1>10 DEF IInv, TypeOK

\* Rejecting a group records a rejection and no edge.
LEMMA RejectStep ==
    ASSUME IInv, NEW p \in Processes, RejectGroup(p)
    PROVE  IInv'
  <1> DEFINE res == [sig |-> job[p].sig, action |-> "reject",
                     confirmed |-> TRUE, trust |-> "watch"]
  <1>1. /\ pc[p] = "resolve" /\ Len(resolutions) < MaxResolutions /\ UNCHANGED edges
        /\ resolutions' = Append(resolutions, res)
        /\ groups' = [groups EXCEPT ![job[p].target].status = "resolved",
                                    ![job[p].target].resolution = Len(resolutions) + 1]
    BY DEF RejectGroup
  <1>2. job[p].sig \in Signatures
    BY <1>1, TableDomains DEF IInv, JobInv, CallInv, NamesGroup, Rows
  <1>3. res \in Resolutions /\ res.sig = job[p].sig
    BY <1>2 DEF Resolutions, Actions, Trusts
  <1> HIDE DEF res
  <1>4. /\ resolutions' \in Seq(Resolutions) /\ Len(resolutions') <= MaxResolutions
        /\ groups' \in Seq(Rows) /\ Len(groups') <= MaxGroups
        /\ GroupsKept /\ ResolutionsKept /\ OnePending'
    BY <1>1, <1>3, ResolutionRecorded
  <1>5. GroupEdgesApproved'
    BY <1>1, <1>4, EdgesStand
  <1>6. Moves(p) /\ CallInv(p)'
    BY ReturnMoves DEF RejectGroup
  <1> QED
    BY <1>1, <1>4, <1>5, <1>6, StepKeeps DEF IInv, TypeOK

\* Approving a group records a confirmed approval, and every edge it writes
\* names that group and that approval.
LEMMA ApproveStep ==
    ASSUME IInv, NEW p \in Processes, ApproveGroup(p)
    PROVE  IInv'
  <1> DEFINE g == job[p].target
             k == Len(resolutions) + 1
             res == ApprovalOf(job[p].sig)
  <1>1. PICK invalid \in SUBSET (job[p].members \ Existing(job[p].members)),
             stamp \in IF job[p].auto THEN {FALSE} ELSE BOOLEAN :
          LET existing == Existing(job[p].members)
              created == job[p].members \ (existing \cup invalid)
              written == IF stamp THEN created \cup existing ELSE created
          IN /\ Len(resolutions) < MaxResolutions
             /\ resolutions' = Append(resolutions, res)
             /\ groups' = [groups EXCEPT ![g].status = "resolved", ![g].resolution = k]
             /\ edges' = [t \in Tuples |->
                             IF t \in written THEN ResolvedEdge(g) ELSE edges[t]]
             /\ SetCache(p, IF written = {} THEN edges ELSE None)
             /\ Return(p, Decided("approve", job[p], g, job[p].members))
    BY DEF ApproveGroup
  <1> DEFINE existing == Existing(job[p].members)
             created == job[p].members \ (existing \cup invalid)
             written == IF stamp THEN created \cup existing ELSE created
  <1>a. /\ Len(resolutions) < MaxResolutions
        /\ resolutions' = Append(resolutions, res)
        /\ groups' = [groups EXCEPT ![g].status = "resolved", ![g].resolution = k]
        /\ edges' = [t \in Tuples |->
                        IF t \in written THEN ResolvedEdge(g) ELSE edges[t]]
        /\ SetCache(p, IF written = {} THEN edges ELSE None)
        /\ Return(p, Decided("approve", job[p], g, job[p].members))
    BY <1>1
  <1> HIDE DEF written
  <1>2. pc[p] = "resolve"
    BY DEF ApproveGroup
  <1>3. /\ g \in DOMAIN groups /\ groups[g].sig = job[p].sig /\ groups[g] \in Rows
        /\ job[p].sig \in Signatures
    BY <1>2, TableDomains DEF IInv, JobInv, CallInv, NamesGroup, Rows
  <1>4. /\ res \in Resolutions /\ res.sig = job[p].sig
        /\ res.action = "approve" /\ res.confirmed
    BY <1>3, TrustType DEF IInv, ApprovalOf, Resolutions, Actions
  <1> HIDE DEF res
  <1>5. /\ resolutions' \in Seq(Resolutions) /\ Len(resolutions') <= MaxResolutions
        /\ DOMAIN resolutions' = 1 .. k /\ resolutions'[k] = res
        /\ groups' \in Seq(Rows) /\ Len(groups') <= MaxGroups
        /\ DOMAIN groups' = DOMAIN groups /\ groups'[g].sig = groups[g].sig
        /\ GroupsKept /\ ResolutionsKept /\ OnePending'
    BY <1>a, <1>2, <1>4, ResolutionRecorded
  <1>6. k \in 1 .. k /\ k \in 0 .. MaxResolutions /\ g \in 0 .. MaxGroups
    BY <1>a, <1>3, TableDomains, BoundsAssumption DEF IInv, TypeOK
  <1>7. ResolvedEdge(g) \in Edges
    BY <1>6 DEF ResolvedEdge, Edges
  <1>8. edges' \in Images
    BY <1>a, <1>7 DEF IInv, TypeOK, Images
  <1>9. /\ k \in DOMAIN resolutions' /\ resolutions'[k].sig = groups'[g].sig
        /\ resolutions'[k].action = "approve" /\ resolutions'[k].confirmed
    BY <1>3, <1>4, <1>5, <1>6
  <1>10. GroupEdgesApproved'
    <2> SUFFICES ASSUME NEW t \in Tuples, edges'[t] # None, edges'[t].source # 0
                 PROVE  LET r == edges'[t].resolution
                        IN /\ edges'[t].source \in DOMAIN groups'
                           /\ r \in DOMAIN resolutions'
                           /\ resolutions'[r].sig = groups'[edges'[t].source].sig
                           /\ resolutions'[r].action = "approve"
                           /\ resolutions'[r].confirmed
      BY DEF GroupEdgesApproved, ConfirmedApprovals
    <2>1. CASE t \in written
      <3>1. edges'[t].source = g /\ edges'[t].resolution = k
        BY <1>a, <2>1 DEF ResolvedEdge
      <3> QED
        BY <1>3, <1>5, <1>9, <3>1
    <2>2. CASE t \notin written
      <3>1. edges'[t] = edges[t]
        BY <1>a, <2>2
      <3>2. /\ edges[t].source \in DOMAIN groups
            /\ edges[t].resolution \in ConfirmedApprovals(groups[edges[t].source].sig)
        BY <3>1 DEF IInv, GroupEdgesApproved
      <3> QED
        BY <1>5, <3>1, <3>2 DEF ConfirmedApprovals, GroupsKept, ResolutionsKept
    <2> QED
      BY <2>1, <2>2
  <1>11. Moves(p) /\ CallInv(p)'
    <2>1. (IF written = {} THEN edges ELSE None) \in Images \cup {None}
      BY DEF IInv, TypeOK
    <2> QED
      BY <1>a, <2>1, ReturnMoves
  <1> QED
    BY <1>5, <1>8, <1>10, <1>11, StepKeeps

-----------------------------------------------------------------------------
(* Updates of trust, direct writes, and calls that end without a trace.    *)

\* The latest confirmed approval of a thesis is chosen.
LEMMA StartTrustStep ==
    ASSUME IInv, NEW p \in Processes, StartTrust(p)
    PROVE  IInv'
  <1>1. PICK r \in DOMAIN resolutions :
          Call(p, "trust", [NoJob EXCEPT !.target = r, !.sig = resolutions[r].sig], "trust")
    BY DEF StartTrust
  <1> DEFINE j == [NoJob EXCEPT !.target = r, !.sig = resolutions[r].sig]
  <1>2. r \in Nat /\ resolutions[r].sig \in Signatures
    BY TableDomains DEF IInv, Resolutions
  <1>3. j \in Jobs /\ j.target = r /\ j.sig = resolutions[r].sig
    BY <1>2, LocalTypes DEF Jobs, NoJob
  <1> HIDE DEF j
  <1>4. Moves(p) /\ pc'[p] = "trust" /\ job'[p] = j
    BY <1>1, <1>3, CallMoves DEF StartTrust, Phases, j
  <1>5. CallInv(p)'
    BY <1>3, <1>4 DEF CallInv, StartTrust, tables
  <1> QED
    BY <1>4, <1>5, ReadStep DEF StartTrust

\* Only the trust of a resolution is updated.
LEMMA UpdateTrustStep ==
    ASSUME IInv, NEW p \in Processes, UpdateTrust(p)
    PROVE  IInv'
  <1> DEFINE r == job[p].target
  <1>1. PICK trust \in Trusts : resolutions' = [resolutions EXCEPT ![r].trust = trust]
    BY DEF UpdateTrust
  <1>2. r \in DOMAIN resolutions /\ resolutions[r] \in Resolutions
    BY TableDomains DEF UpdateTrust, IInv, JobInv, CallInv
  <1> DEFINE row == [resolutions[r] EXCEPT !.trust = trust]
  <1>3. /\ row \in Resolutions /\ row.sig = resolutions[r].sig
        /\ row.action = resolutions[r].action /\ row.confirmed = resolutions[r].confirmed
    BY <1>2 DEF Resolutions
  <1>4. resolutions' = [resolutions EXCEPT ![r] = row]
    BY <1>1, <1>2
  <1> HIDE DEF row, r
  <1>5. /\ resolutions' \in Seq(Resolutions) /\ Len(resolutions') <= MaxResolutions
        /\ ResolutionsKept
    BY <1>2, <1>3, <1>4 DEF IInv, TypeOK, ResolutionsKept
  <1>6. UNCHANGED groups /\ UNCHANGED edges
    BY DEF UpdateTrust
  <1>7. GroupsKept /\ OnePending'
    BY <1>6 DEF GroupsKept, IInv, OnePending
  <1>8. GroupEdgesApproved'
    BY <1>5, <1>6, <1>7, EdgesStand
  <1>9. Moves(p) /\ CallInv(p)'
    BY ReturnMoves DEF UpdateTrust
  <1> QED
    BY <1>5, <1>6, <1>7, <1>8, <1>9, StepKeeps DEF IInv, TypeOK

\* Annotating the groups that claim a tuple moves their versions only.
LEMMA AnnotationKeeps ==
    ASSUME IInv, NEW t \in Tuples,
           \A g \in PendingGroupsFor(t) : groups[g].version < MaxVersion,
           groups' = AnnotateConflictGroups(t)
    PROVE  /\ groups' \in Seq(Rows) /\ Len(groups') = Len(groups)
           /\ DOMAIN groups' = DOMAIN groups
           /\ \A g \in DOMAIN groups :
                 /\ groups'[g].sig = groups[g].sig
                 /\ groups'[g].status = groups[g].status
                 /\ groups[g].status # "pending_review" => groups'[g] = groups[g]
           /\ \A g \in PendingGroupsFor(t) : groups'[g].version = groups[g].version + 1
  <1>1. /\ groups \in Seq(Rows) /\ Len(groups) \in Nat
        /\ DOMAIN groups = 1 .. Len(groups) /\ \A g \in DOMAIN groups : groups[g] \in Rows
    BY TableDomains DEF IInv, TypeOK
  <1>2. ASSUME NEW g \in PendingGroupsFor(t)
        PROVE  LET row == [groups[g] EXCEPT !.version = @ + 1]
               IN /\ row \in Rows /\ row.sig = groups[g].sig
                  /\ row.status = groups[g].status /\ row.version = groups[g].version + 1
    <2>1. groups[g] \in Rows /\ groups[g].version < MaxVersion
      BY <1>1 DEF PendingGroupsFor
    <2>2. groups[g].version + 1 \in 1 .. MaxVersion
      BY <2>1, BoundsAssumption DEF Rows
    <2>3. \A v \in 1 .. MaxVersion : [groups[g] EXCEPT !.version = v] \in Rows
      BY <2>1 DEF Rows
    <2> QED
      BY <2>1, <2>2, <2>3 DEF Rows
  <1>3. ASSUME NEW g \in DOMAIN groups
        PROVE  /\ groups'[g] \in Rows /\ groups'[g].sig = groups[g].sig
               /\ groups'[g].status = groups[g].status
               /\ groups[g].status # "pending_review" => groups'[g] = groups[g]
               /\ g \in PendingGroupsFor(t) => groups'[g].version = groups[g].version + 1
    <2>1. CASE g \in PendingGroupsFor(t)
      BY <1>2, <2>1 DEF AnnotateConflictGroups, PendingGroupsFor
    <2>2. CASE g \notin PendingGroupsFor(t)
      BY <1>1, <2>2 DEF AnnotateConflictGroups
    <2> QED
      BY <2>1, <2>2
  <1>4. groups' \in [1 .. Len(groups) -> Rows]
    BY <1>1, <1>3 DEF AnnotateConflictGroups
  <1>5. groups' \in Seq(Rows) /\ Len(groups') = Len(groups) /\ DOMAIN groups' = DOMAIN groups
    BY <1>1, <1>4
  <1> QED
    BY <1>3, <1>5 DEF PendingGroupsFor

\* A direct write stores an edge that names no group.
LEMMA DirectWriteStep ==
    ASSUME IInv, NEW p \in Processes, DirectWrite(p)
    PROVE  IInv'
  <1>1. PICK t \in Tuples, staged \in BOOLEAN :
          /\ \A g \in PendingGroupsFor(t) : groups[g].version < MaxVersion
          /\ \/ edges' = [edges EXCEPT ![t] = [source |-> 0, resolution |-> 0, live |-> ~staged]]
             \/ UNCHANGED edges
          /\ groups' = AnnotateConflictGroups(t)
          /\ out' = [out EXCEPT ![p] = [NoResult EXCEPT !.op = "direct", !.members = {t}]]
    BY DEF DirectWrite
  <1>2. UNCHANGED <<resolutions, pc, job>> /\ SetCache(p, None) /\ pc[p] = "idle"
    BY DEF DirectWrite
  <1>3. /\ groups' \in Seq(Rows) /\ Len(groups') = Len(groups)
        /\ DOMAIN groups' = DOMAIN groups
        /\ \A g \in DOMAIN groups : /\ groups'[g].sig = groups[g].sig
                                    /\ groups'[g].status = groups[g].status
    BY <1>1, AnnotationKeeps
  <1>4. GroupsKept /\ ResolutionsKept
    BY <1>2, <1>3 DEF GroupsKept, ResolutionsKept
  <1>5. OnePending'
    BY <1>3 DEF IInv, OnePending
  <1>6. [source |-> 0, resolution |-> 0, live |-> ~staged] \in Edges
    BY BoundsAssumption DEF Edges
  <1>7. edges' \in Images
    BY <1>1, <1>6 DEF IInv, TypeOK, Images
  <1>8. \A x \in Tuples : edges'[x] = edges[x] \/ edges'[x].source = 0
    BY <1>1 DEF IInv, TypeOK, Images
  <1>9. GroupEdgesApproved'
    BY <1>2, <1>4, <1>8 DEF IInv, GroupEdgesApproved, ConfirmedApprovals, GroupsKept
  <1>10. Moves(p)
    BY <1>1, <1>2, LocalTypes DEF Moves, SetCache, IInv, TypeOK
  <1>11. CallInv(p)'
    BY <1>2 DEF CallInv
  <1> QED
    BY <1>2, <1>3, <1>4, <1>5, <1>7, <1>9, <1>10, <1>11, StepKeeps DEF IInv, TypeOK

\* A rolled back transaction, and a process that dies, change no table.
LEMMA NoTrace ==
    ASSUME IInv, NEW p \in Processes, Rollback(p) \/ Restart(p)
    PROVE  IInv'
  BY ReturnMoves, ReadStep DEF Rollback, Restart

-----------------------------------------------------------------------------
(* The invariant holds. *)

\* Initially all tables are empty and every process is idle.
LEMMA InitInv == Init => IInv
  <1> SUFFICES ASSUME Init PROVE IInv
    OBVIOUS
  <1>1. groups = <<>> /\ resolutions = <<>> /\ Len(groups) = 0 /\ Len(resolutions) = 0
        /\ DOMAIN groups = {}
    BY DEF Init
  <1>2. edges \in Images /\ \A t \in Tuples : edges[t] = None
    BY DEF Init, Images
  <1>3. TypeOK
    BY <1>1, <1>2, LocalTypes, BoundsAssumption DEF Init, TypeOK
  <1>4. OutTotal
    BY DEF Init, OutTotal
  <1>5. JobInv
    BY DEF Init, JobInv, CallInv
  <1> QED
    BY <1>1, <1>2, <1>3, <1>4, <1>5 DEF IInv, OnePending, GroupEdgesApproved

\* Every step preserves it.
LEMMA NextInv == IInv /\ [Next]_vars => IInv'
  <1> SUFFICES ASSUME IInv, [Next]_vars PROVE IInv'
    OBVIOUS
  <1>1. CASE UNCHANGED vars
    BY <1>1 DEF vars, tables, IInv, TypeOK, OutTotal, JobInv, CallInv, NamesGroup,
                OnePending, GroupEdgesApproved, ConfirmedApprovals
  <1>2. ASSUME NEW p \in Processes, Propose(p) PROVE IInv'
    BY <1>2, StartProposeStep, FindPendingStep, ReadOldMembersStep, FilterConflictsStep,
       ReadPriorStep, DecideProposalStep, WithdrawStep, RewriteStep, CreateStep,
       RewriteConcurrentStep
       DEF Propose
  <1>3. ASSUME NEW p \in Processes, Resolve(p) PROVE IInv'
    BY <1>3, StartResolveStep, ReadGroupStep, ReadMembersStep, RejectStep, ApproveStep
       DEF Resolve
  <1> QED
    BY <1>1, <1>2, <1>3, StartTrustStep, UpdateTrustStep, DirectWriteStep, NoTrace
       DEF Next

\* The inductive invariant is an invariant, for any number of processes.
THEOREM Invariance == Spec => []IInv
  BY InitInv, NextInv, PTL DEF Spec

\* The tables and the locals of every call keep their types.
THEOREM TypeCorrect == Spec => []TypeOK
  <1>1. IInv => TypeOK
    BY DEF IInv
  <1> QED
    BY <1>1, Invariance, PTL

\* However many processes propose the same thesis, and whatever stale copy of
\* a group one of them stores back, a thesis has one group in review.
THEOREM OneReviewPerThesis == Spec => []OnePending
  <1>1. IInv => OnePending
    BY DEF IInv
  <1> QED
    BY <1>1, Invariance, PTL

\* An edge that names a group was written by a confirmed approval of that
\* group's thesis, for any number of reviewers and proposers.
THEOREM EdgesComeFromApprovals == Spec => []GroupEdgesApproved
  <1>1. IInv => GroupEdgesApproved
    BY DEF IInv
  <1> QED
    BY <1>1, Invariance, PTL

-----------------------------------------------------------------------------
(* Action properties that hold for any number of processes. *)

\* Process p reports nothing new, or neither a direct write nor a resolution.
Quiet(p) ==
    out' = out \/ \E r : /\ r.op # "direct" /\ r.op # "approve" /\ r.op # "reject"
                         /\ out' = [out EXCEPT ![p] = r]

\* The kind of each result.
LEMMA ResultKinds ==
    /\ NoResult.op = "none" /\ Refused.op = "refused"
    /\ \A o : [NoResult EXCEPT !.op = o].op = o
    /\ \A o, e, v : [NoResult EXCEPT !.op = o, !.expected = e, !.version = v].op = o
    /\ \A op, j, g, m : Decided(op, j, g, m).op = op
  BY DEF NoResult, Refused, Decided

\* Only a direct write, an approval and a rejection report themselves.
LEMMA QuietSteps ==
    ASSUME NEW p \in Processes,
           \/ Propose(p) \/ StartResolve(p) \/ ReadGroup(p) \/ ReadMembers(p)
           \/ StartTrust(p) \/ UpdateTrust(p) \/ Rollback(p) \/ Restart(p)
    PROVE  Quiet(p)
  <1>1. \A r : /\ Return(p, r) /\ r.op # "direct" /\ r.op # "approve" /\ r.op # "reject"
               => Quiet(p)
    BY DEF Return, Quiet
  <1>2. \A j, l : Goto(p, j, l) => Quiet(p)
    BY DEF Goto, Quiet
  <1>3. \A op, j, l : Call(p, op, j, l) => Quiet(p)
    BY ResultKinds DEF Call, Quiet
  <1>a. \A o \in {"suppressed", "unchanged", "create", "converged"} :
           Return(p, [NoResult EXCEPT !.op = o]) => Quiet(p)
    <2> SUFFICES ASSUME NEW o \in {"suppressed", "unchanged", "create", "converged"},
                        Return(p, [NoResult EXCEPT !.op = o])
                 PROVE  Quiet(p)
      OBVIOUS
    <2> DEFINE r == [NoResult EXCEPT !.op = o]
    <2>1. r.op = o
      BY DEF NoResult
    <2> HIDE DEF r
    <2>2. r.op # "direct" /\ r.op # "approve" /\ r.op # "reject"
      BY <2>1
    <2> QED
      BY <1>1, <2>2 DEF r
  <1> USE <1>1, <1>2, <1>3, ResultKinds
  <1>4. StartPropose(p) \/ StartResolve(p) \/ StartTrust(p) => Quiet(p)
    BY DEF StartPropose, StartResolve, StartTrust
  <1>5. FindPending(p) => Quiet(p)
    BY DEF FindPending
  <1>6. DecideProposal(p) => Quiet(p)
    BY <1>a DEF DecideProposal
  <1>7. CreateGroup(p) => Quiet(p)
    BY <1>a DEF CreateGroup
  <1>8. RewriteConcurrent(p) => Quiet(p)
    <2>1. RewriteConcurrent(p) => Return(p, [NoResult EXCEPT !.op = "converged"])
      BY DEF RewriteConcurrent
    <2> QED
      BY <1>a, <2>1
  <1>9. ReadOldMembers(p) \/ FilterConflicts(p) \/ ReadPrior(p) \/ ReadMembers(p) => Quiet(p)
    BY DEF ReadOldMembers, FilterConflicts, ReadPrior, ReadMembers
  <1>10. WithdrawPendingGroup(p) \/ RewritePendingGroup(p) => Quiet(p)
    BY DEF WithdrawPendingGroup, RewritePendingGroup
  <1>11. ReadGroup(p) => Quiet(p)
    BY DEF ReadGroup
  <1>12. UpdateTrust(p) => Quiet(p)
    BY DEF UpdateTrust
  <1>13. Rollback(p) \/ Restart(p) => Quiet(p)
    BY DEF Rollback, Restart
  <1> QED
    BY <1>4, <1>5, <1>6, <1>7, <1>8, <1>9, <1>10, <1>11, <1>12, <1>13 DEF Propose

\* A direct write of a tuple moves the version of every pending group that
\* claims it, so that a reviewer who names the old version is refused.
THEOREM DirectWritesSeen == Spec => DirectWritesAreSeen
  <1>1. ASSUME IInv, [Next]_vars, NEW q \in Processes,
               out'[q].op = "direct", out'[q] # out[q],
               NEW t \in out'[q].members, NEW g \in PendingGroupsFor(t)
        PROVE  groups'[g].version > groups[g].version
    <2>1. PICK p \in Processes : DirectWrite(p)
      <3>1. \A p \in Processes : ~Quiet(p)
        BY <1>1 DEF IInv, OutTotal, Quiet
      <3>2. \A p \in Processes : \A r : r.op # "direct" => ~Return(p, r)
        BY <1>1 DEF IInv, OutTotal, Return
      <3>3. \A p \in Processes : ~RejectGroup(p) /\ ~ApproveGroup(p)
        <4>1. ASSUME NEW p \in Processes, RejectGroup(p) PROVE FALSE
          <5>1. Return(p, Decided("reject", job[p], job[p].target, job[p].members))
            BY <4>1 DEF RejectGroup
          <5> QED
            BY <3>2, <5>1, ResultKinds
        <4>2. ASSUME NEW p \in Processes, ApproveGroup(p) PROVE FALSE
          <5>1. Return(p, Decided("approve", job[p], job[p].target, job[p].members))
            BY <4>2 DEF ApproveGroup
          <5> QED
            BY <3>2, <5>1, ResultKinds
        <4> QED
          BY <4>1, <4>2
      <3> QED
        BY <1>1, <3>1, <3>3, QuietSteps DEF Next, Resolve, vars
    <2>2. PICK x \in Tuples :
            /\ \A h \in PendingGroupsFor(x) : groups[h].version < MaxVersion
            /\ groups' = AnnotateConflictGroups(x)
            /\ out' = [out EXCEPT ![p] = [NoResult EXCEPT !.op = "direct", !.members = {x}]]
      BY <2>1 DEF DirectWrite
    <2>3. q = p /\ out'[q].members = {x}
      BY <1>1, <2>2 DEF IInv, OutTotal, NoResult
    <2>4. groups'[g].version = groups[g].version + 1
      BY <1>1, <2>2, <2>3, AnnotationKeeps
    <2>5. groups[g].version \in Nat
      BY <1>1, TableDomains, BoundsAssumption DEF IInv, PendingGroupsFor, Rows
    <2> QED
      BY <2>4, <2>5
  <1>2. IInv /\ [Next]_vars =>
          [\A p \in Processes :
              out'[p].op = "direct" /\ out'[p] # out[p] =>
                  \A t \in out'[p].members : \A g \in PendingGroupsFor(t) :
                      groups'[g].version > groups[g].version]_vars
    BY <1>1
  <1> QED
    BY <1>2, Invariance, PTL DEF Spec, DirectWritesAreSeen

-----------------------------------------------------------------------------
(* The trust of a thesis, for any number of processes. *)

\* What the latest confirmed approval of a thesis carries changes only in an
\* update of trust.
TrustMovesByUpdate ==
    \A sig \in Signatures :
        TrustOf(sig) # None /\ TrustOf(sig)' # TrustOf(sig) =>
            \E p \in Processes : pc[p] = "trust" /\ out'[p].op = "trust"

\* The latest of a set of positions is the latest of the same set.
LEMMA TrustDependsOn ==
    ASSUME IInv, NEW sig,
           ConfirmedApprovals(sig)' = ConfirmedApprovals(sig),
           \A r \in ConfirmedApprovals(sig) : resolutions'[r] = resolutions[r]
    PROVE  TrustOf(sig)' = TrustOf(sig)
  <1>1. FindResolution(sig)' = FindResolution(sig)
    BY DEF FindResolution
  <1>2. FindResolution(sig) # 0 => FindResolution(sig) \in ConfirmedApprovals(sig)
    BY FindResolutionIsLatest DEF IInv
  <1> QED
    BY <1>1, <1>2 DEF TrustOf

\* A step that leaves the resolutions alone leaves every trust alone.
LEMMA TrustUnchanged ==
    ASSUME UNCHANGED resolutions
    PROVE  \A sig : TrustOf(sig)' = TrustOf(sig)
  BY DEF TrustOf, FindResolution, ConfirmedApprovals

\* A rejection does not move trust.
LEMMA RejectKeepsTrust ==
    ASSUME IInv, NEW p \in Processes, RejectGroup(p), NEW sig
    PROVE  TrustOf(sig)' = TrustOf(sig)
  <1> DEFINE res == [sig |-> job[p].sig, action |-> "reject",
                     confirmed |-> TRUE, trust |-> "watch"]
             k == Len(resolutions) + 1
  <1>1. resolutions' = Append(resolutions, res)
    BY DEF RejectGroup
  <1>2. resolutions \in Seq(Resolutions) /\ DOMAIN resolutions = 1 .. Len(resolutions)
        /\ Len(resolutions) \in Nat
    BY DEF IInv, TypeOK
  <1>3. res.action = "reject"
    OBVIOUS
  <1> HIDE DEF res
  <1>4. /\ DOMAIN resolutions' = DOMAIN resolutions \cup {k} /\ k \notin DOMAIN resolutions
        /\ resolutions'[k] = res
        /\ \A r \in DOMAIN resolutions : resolutions'[r] = resolutions[r]
    BY <1>1, <1>2
  <1> HIDE DEF k
  <1>5. ConfirmedApprovals(sig)' = ConfirmedApprovals(sig)
    BY <1>3, <1>4 DEF ConfirmedApprovals
  <1> QED
    BY <1>4, <1>5, TrustDependsOn DEF ConfirmedApprovals

\* An approval carries the trust its thesis has.
LEMMA ApproveKeepsTrust ==
    ASSUME IInv, NEW p \in Processes, ApproveGroup(p), NEW sig, TrustOf(sig) # None
    PROVE  TrustOf(sig)' = TrustOf(sig)
  <1> DEFINE res == ApprovalOf(job[p].sig)
             k == Len(resolutions) + 1
  <1>1. resolutions' = Append(resolutions, res)
    BY DEF ApproveGroup
  <1>2. resolutions \in Seq(Resolutions) /\ DOMAIN resolutions = 1 .. Len(resolutions)
        /\ Len(resolutions) \in Nat /\ k \in Nat
    BY DEF IInv, TypeOK
  <1>3. /\ res.sig = job[p].sig /\ res.action = "approve" /\ res.confirmed
        /\ res.trust = CarriedTrust(job[p].sig)
    BY DEF ApprovalOf
  <1> HIDE DEF res
  <1>4. /\ DOMAIN resolutions' = 1 .. k
        /\ resolutions'[k] = res
        /\ \A r \in DOMAIN resolutions : resolutions'[r] = resolutions[r]
    BY <1>1, <1>2
  <1>5. \A r : r \in 1 .. k <=> r = k \/ r \in DOMAIN resolutions
    BY <1>2
  <1>6. k \notin DOMAIN resolutions /\ k # 0
    BY <1>2
  <1> HIDE DEF k
  <1>7. CASE sig # job[p].sig
    <2>1. ConfirmedApprovals(sig)' = ConfirmedApprovals(sig)
      BY <1>3, <1>4, <1>5, <1>6, <1>7 DEF ConfirmedApprovals
    <2> QED
      BY <1>4, <2>1, TrustDependsOn DEF ConfirmedApprovals
  <1>8. CASE sig = job[p].sig
    <2> DEFINE A == ConfirmedApprovals(sig)'
    <2>1. A \in SUBSET (1 .. k) /\ k \in A
      BY <1>3, <1>4, <1>5, <1>8 DEF ConfirmedApprovals
    <2>2. FindResolution(sig)' = CHOOSE r \in A : \A q \in A : q <= r
      BY <2>1 DEF FindResolution
    <2> HIDE DEF A
    <2>3. \A x \in A : (\A q \in A : q <= x) => x = k
      BY <1>2, <2>1
    <2>4. FindResolution(sig)' = k
      BY <1>2, <2>1, <2>2, <2>3, LatestChosen
    <2>5. TrustOf(sig)' = CarriedTrust(sig)
      BY <1>3, <1>4, <1>6, <1>8, <2>4 DEF TrustOf
    <2> QED
      BY <2>5 DEF CarriedTrust, TrustOf
  <1> QED
    BY <1>7, <1>8

\* Approving, rejecting, rewriting and withdrawing never move the trust of a
\* thesis, however the calls of several processes interleave.
LEMMA TrustStep ==
    ASSUME IInv, [Next]_vars
    PROVE  TrustMovesByUpdate
  <1> SUFFICES ASSUME NEW sig \in Signatures, TrustOf(sig) # None,
                      TrustOf(sig)' # TrustOf(sig)
               PROVE  \E p \in Processes : pc[p] = "trust" /\ out'[p].op = "trust"
    BY DEF TrustMovesByUpdate
  <1>1. ~UNCHANGED resolutions
    BY TrustUnchanged
  <1>2. PICK p \in Processes : Next /\
          \/ Propose(p) \/ Resolve(p) \/ StartTrust(p) \/ UpdateTrust(p)
          \/ DirectWrite(p) \/ Rollback(p) \/ Restart(p)
    BY <1>1 DEF Next, vars, tables
  <1>3. ~Propose(p)
    BY <1>1 DEF Propose, StartPropose, FindPending, ReadOldMembers, FilterConflicts,
         ReadPrior, DecideProposal, WithdrawPendingGroup, RewritePendingGroup,
         CreateGroup, RewriteConcurrent, tables
  <1>4. ~Resolve(p)
    BY <1>1, RejectKeepsTrust, ApproveKeepsTrust
       DEF Resolve, StartResolve, ReadGroup, ReadMembers, tables
  <1>5. UpdateTrust(p)
    BY <1>1, <1>2, <1>3, <1>4 DEF StartTrust, DirectWrite, Rollback, Restart, tables
  <1>6. pc[p] = "trust"
    BY <1>5 DEF UpdateTrust
  <1>7. \E r : r.op = "trust" /\ out' = [out EXCEPT ![p] = r]
    <2> DEFINE r == [NoResult EXCEPT !.op = "trust", !.expected = job[p].target,
                                     !.version = FindResolution(job[p].sig)]
    <2>1. Return(p, r)
      BY <1>5 DEF UpdateTrust
    <2>2. r.op = "trust"
      BY DEF NoResult
    <2> HIDE DEF r
    <2> QED
      BY <2>1, <2>2 DEF Return
  <1> QED
    BY <1>6, <1>7 DEF IInv, OutTotal

\* The trust of a thesis changes only in an update of trust, for any number
\* of processes: an approval carries it forward, an invalidated one too
\* (_carried_trust; the guide expects "watch" there).
THEOREM TrustStands == Spec => [][TrustMovesByUpdate]_vars
  <1>1. IInv /\ [Next]_vars => [TrustMovesByUpdate]_vars
    BY TrustStep
  <1> QED
    BY <1>1, Invariance, PTL DEF Spec

-----------------------------------------------------------------------------
(* One process. *)

Solo == \A p, q \in Processes : p = q

\* Where a call goes on, and with which locals.
LEMMA GotoEffect ==
    ASSUME IInv, NEW p \in Processes
    PROVE  /\ \A j, l : Goto(p, j, l) => pc'[p] = l /\ job'[p] = j
           /\ \A op, j, l : Call(p, op, j, l) => pc'[p] = l /\ job'[p] = j
           /\ \A r : Return(p, r) => pc'[p] = "idle"
  BY DEF IInv, TypeOK, Goto, Call, Return

\* A call that has ended holds nothing that could be stale.
LEMMA IdleIsFresh ==
    ASSUME NEW p \in Processes, pc'[p] \in {"idle", "find_pending", "trust"}
    PROVE  FreshCall(p)'
  BY DEF FreshCall

\* A step that leaves the resolutions alone: the trust a call refers to is the
\* one those resolutions carry.
LEMMA TrustFrame ==
    ASSUME UNCHANGED resolutions, NEW p
    PROVE  /\ TrustOf(job[p].sig)' = TrustOf(job'[p].sig)
           /\ TrustOf(groups[job[p].target].sig)' = TrustOf(groups'[job'[p].target].sig)
  BY DEF TrustOf, FindResolution, ConfirmedApprovals

\* The reads of a proposal hold what is stored.
LEMMA FreshProposeReads ==
    ASSUME IInv, JobIsFresh, NEW p \in Processes,
           FindPending(p) \/ ReadOldMembers(p) \/ FilterConflicts(p) \/ ReadPrior(p)
    PROVE  FreshCall(p)'
  <1>1. UNCHANGED <<groups, resolutions>>
    BY DEF FindPending, ReadOldMembers, FilterConflicts, ReadPrior, tables
  <1>2. TrustOf(job[p].sig)' = TrustOf(job'[p].sig)
    BY <1>1, TrustFrame
  <1>3. job[p] \in Jobs
    BY DEF IInv, TypeOK
  <1>4. CASE FindPending(p)
    <2>1. pc[p] = "find_pending" /\ job[p].target = 0
      BY <1>4 DEF FindPending, IInv, JobInv, CallInv
    <2>2. PICK expected \in 0 .. MaxVersion :
            \/ Goto(p, job[p], "filter")
            \/ \E g \in FindPendingGroup(job[p].sig) :
                  Goto(p, [job[p] EXCEPT !.expected = expected, !.target = g,
                                         !.version = groups[g].version], "old_members")
            \/ Return(p, Refused)
      BY <1>4 DEF FindPending
    <2>3. CASE Goto(p, job[p], "filter")
      BY <2>1, <2>3, GotoEffect DEF FreshCall
    <2>4. CASE Return(p, Refused)
      BY <2>4, GotoEffect, IdleIsFresh
    <2>5. ASSUME NEW g \in FindPendingGroup(job[p].sig),
                 Goto(p, [job[p] EXCEPT !.expected = expected, !.target = g,
                                        !.version = groups[g].version], "old_members")
          PROVE  FreshCall(p)'
      <3> DEFINE j == [job[p] EXCEPT !.expected = expected, !.target = g,
                                     !.version = groups[g].version]
      <3>1. j.target = g /\ j.version = groups[g].version
        BY <1>3 DEF Jobs
      <3>2. pc'[p] = "old_members" /\ job'[p] = j
        BY <2>5, GotoEffect
      <3> HIDE DEF j
      <3> QED
        BY <1>1, <3>1, <3>2 DEF FreshCall, FindPendingGroup
    <2> QED
      BY <2>2, <2>3, <2>4, <2>5
  <1>5. CASE ReadOldMembers(p)
    <2> DEFINE m == groups[job[p].target].members
               j == [job[p] EXCEPT !.old = m]
    <2>1. pc[p] = "old_members" /\ Goto(p, j, "filter")
      BY <1>5 DEF ReadOldMembers
    <2>2. j.target = job[p].target /\ j.version = job[p].version
      BY <1>3 DEF Jobs
    <2>3. pc'[p] = "filter" /\ job'[p] = j
      BY <2>1, GotoEffect
    <2> HIDE DEF j
    <2> QED
      BY <1>1, <2>1, <2>2, <2>3 DEF FreshCall, JobIsFresh
  <1>6. CASE FilterConflicts(p)
    <2>1. PICK conflicts :
            \/ Goto(p, [job[p] EXCEPT !.members = job[p].members \ conflicts,
                                      !.suppressed = conflicts], "prior")
            \/ Goto(p, job[p], "prior")
      BY <1>6 DEF FilterConflicts
    <2> DEFINE j == [job[p] EXCEPT !.members = job[p].members \ conflicts,
                                   !.suppressed = conflicts]
    <2>2. j.target = job[p].target /\ j.version = job[p].version
      BY <1>3 DEF Jobs
    <2> HIDE DEF j
    <2>3. /\ pc'[p] = "prior"
          /\ job'[p].target = job[p].target /\ job'[p].version = job[p].version
      BY <2>1, <2>2, GotoEffect DEF j
    <2>4. pc[p] = "filter"
      BY <1>6 DEF FilterConflicts
    <2> QED
      BY <1>1, <2>3, <2>4 DEF FreshCall, JobIsFresh
  <1>7. CASE ReadPrior(p)
    <2> DEFINE j == [job[p] EXCEPT !.prior = TrustOf(job[p].sig)]
    <2>1. pc[p] = "prior" /\ Goto(p, j, "approved")
      BY <1>7 DEF ReadPrior
    <2>2. /\ j.target = job[p].target /\ j.version = job[p].version
          /\ j.prior = TrustOf(job[p].sig) /\ j.sig = job[p].sig
      BY <1>3 DEF Jobs
    <2>3. pc'[p] = "approved" /\ job'[p] = j
      BY <2>1, GotoEffect
    <2> HIDE DEF j
    <2>4. job'[p].prior = TrustOf(job[p].sig)'
      BY <1>2, <2>2, <2>3
    <2> QED
      BY <1>1, <2>1, <2>2, <2>3, <2>4 DEF FreshCall, JobIsFresh
  <1> QED
    BY <1>4, <1>5, <1>6, <1>7

\* So does its decision: an automatic approval goes on under a prior approval
\* that is trusted.
LEMMA FreshDecide ==
    ASSUME IInv, JobIsFresh, NEW p \in Processes, DecideProposal(p)
    PROVE  FreshCall(p)'
  <1>1. UNCHANGED <<groups, resolutions>> /\ pc[p] = "approved"
    BY DEF DecideProposal, tables
  <1>2. TrustOf(job[p].sig)' = TrustOf(job'[p].sig)
    BY <1>1, TrustFrame
  <1>3. job[p] \in Jobs /\ job[p].prior = TrustOf(job[p].sig)
        /\ (job[p].target # 0 => /\ groups[job[p].target].status = "pending_review"
                                 /\ groups[job[p].target].version = job[p].version)
    BY <1>1 DEF IInv, TypeOK, JobIsFresh, FreshCall
  <1> DEFINE write == [NoJob EXCEPT !.sig = job[p].sig, !.target = job[p].target,
                          !.version = job[p].version, !.expected = job[p].expected]
             Same(j) == /\ j.target = job[p].target /\ j.version = job[p].version
                        /\ j.sig = job[p].sig
  <1>5. Same(write)
    BY DEF NoJob
  <1>6. \A m : Same([write EXCEPT !.members = m])
    BY DEF NoJob
  <1>7. \A m, a : /\ Same([write EXCEPT !.members = m, !.auto = a])
                  /\ [write EXCEPT !.members = m, !.auto = a].auto = a
    BY DEF NoJob
  <1> HIDE DEF write
  <1>8. \/ \E r : Return(p, r)
        \/ \E j : /\ Same(j) /\ job[p].target # 0
                  /\ Goto(p, j, "withdraw") \/ Goto(p, j, "rewrite")
        \/ \E j : /\ Same(j) /\ (j.auto => PriorAllows(job[p].prior))
                  /\ Goto(p, j, "create")
    <2>1. PICK mode \in Modes, eligible \in BOOLEAN :
       LET j == job[p]
           delta == j.members \ ApprovedTuples(j.sig)
       IN \/ Return(p, [NoResult EXCEPT !.op = "suppressed"])
          \/ Return(p, [NoResult EXCEPT !.op = "unchanged"])
          \/ j.target # 0 /\ Goto(p, write, "withdraw")
          \/ /\ j.target # 0
             /\ Goto(p, [write EXCEPT !.members =
                            IF mode = "retain_missing" THEN j.old \cup delta ELSE delta],
                     "rewrite")
          \/ Goto(p, [write EXCEPT !.members = delta,
                                   !.auto = /\ eligible
                                            /\ PriorAllows(j.prior)
                                            /\ ~HasOverride(j.image, delta)],
                     "create")
      BY DEF DecideProposal, write
    <2> DEFINE delta == job[p].members \ ApprovedTuples(job[p].sig)
               kept == IF mode = "retain_missing" THEN job[p].old \cup delta ELSE delta
               auto == /\ eligible
                       /\ PriorAllows(job[p].prior)
                       /\ ~HasOverride(job[p].image, delta)
    <2>2. \/ Return(p, [NoResult EXCEPT !.op = "suppressed"])
          \/ Return(p, [NoResult EXCEPT !.op = "unchanged"])
          \/ job[p].target # 0 /\ Goto(p, write, "withdraw")
          \/ job[p].target # 0 /\ Goto(p, [write EXCEPT !.members = kept], "rewrite")
          \/ Goto(p, [write EXCEPT !.members = delta, !.auto = auto], "create")
      BY <2>1
    <2>3. auto => PriorAllows(job[p].prior)
      OBVIOUS
    <2> HIDE DEF delta, kept, auto
    <2> QED
      BY <1>5, <1>6, <1>7, <2>2, <2>3
  <1>9. ASSUME NEW j, Same(j), job[p].target # 0,
               Goto(p, j, "withdraw") \/ Goto(p, j, "rewrite")
        PROVE  FreshCall(p)'
    <2>1. pc'[p] \in {"withdraw", "rewrite"} /\ job'[p] = j
      BY <1>9, GotoEffect
    <2> QED
      BY <1>1, <1>3, <1>9, <2>1 DEF FreshCall
  <1>10. ASSUME NEW j, Same(j), j.auto => PriorAllows(job[p].prior), Goto(p, j, "create")
         PROVE  FreshCall(p)'
    <2>1. pc'[p] = "create" /\ job'[p] = j
      BY <1>10, GotoEffect
    <2>2. job'[p].auto => PriorAllows(TrustOf(job[p].sig)')
      BY <1>2, <1>3, <1>10, <2>1
    <2> QED
      BY <2>1, <2>2 DEF FreshCall, PriorAllows
  <1> QED
    BY <1>8, <1>9, <1>10, GotoEffect, IdleIsFresh

\* A created group that resolves itself does so under the trust its thesis has.
LEMMA FreshCreate ==
    ASSUME IInv, JobIsFresh, NEW p \in Processes, CreateGroup(p)
    PROVE  FreshCall(p)'
  <1> DEFINE n == Len(groups) + 1
             row == [sig |-> job[p].sig, status |-> "pending_review", version |-> 1,
                     members |-> job[p].members, resolution |-> 0]
  <1>1. /\ pc[p] = "create" /\ UNCHANGED resolutions /\ groups' = Append(groups, row)
        /\ \/ job[p].auto /\ Goto(p, AutoResolve(n), "read_group")
           \/ Return(p, [NoResult EXCEPT !.op = "create"])
    BY DEF CreateGroup
  <1>2. CASE Return(p, [NoResult EXCEPT !.op = "create"])
    BY <1>2, GotoEffect, IdleIsFresh
  <1>3. CASE job[p].auto /\ Goto(p, AutoResolve(n), "read_group")
    <2>1. pc'[p] = "read_group" /\ job'[p] = AutoResolve(n)
      BY <1>3, GotoEffect
    <2>2. AutoResolve(n).target = n
      BY DEF AutoResolve, NoJob
    <2>3. groups'[n].sig = job[p].sig
      BY <1>1 DEF IInv, TypeOK
    <2>4. PriorAllows(TrustOf(job[p].sig))
      BY <1>1, <1>3 DEF JobIsFresh, FreshCall
    <2>5. PriorAllows(TrustOf(groups[job[p].target].sig)')
      BY <1>1, <2>1, <2>2, <2>3, <2>4, TrustFrame
    <2> QED
      BY <2>1, <2>5 DEF FreshCall, PriorAllows
  <1> QED
    BY <1>1, <1>2, <1>3

\* What a reviewer's call reads is what is stored.
LEMMA FreshResolveReads ==
    ASSUME IInv, JobIsFresh, NEW p \in Processes,
           StartResolve(p) \/ ReadGroup(p) \/ ReadMembers(p)
    PROVE  FreshCall(p)'
  <1>1. UNCHANGED <<groups, resolutions>>
    BY DEF StartResolve, ReadGroup, ReadMembers, tables
  <1>2. TrustOf(groups[job[p].target].sig)' = TrustOf(groups'[job'[p].target].sig)
    BY <1>1, TrustFrame
  <1>3. job[p] \in Jobs
    BY DEF IInv, TypeOK
  <1>4. CASE StartResolve(p)
    <2>1. PICK g \in DOMAIN groups, action \in Actions, expected \in 1 .. MaxVersion :
            Call(p, "resolve",
                 [NoJob EXCEPT !.target = g, !.action = action, !.expected = expected],
                 "read_group")
      BY <1>4 DEF StartResolve
    <2> DEFINE j == [NoJob EXCEPT !.target = g, !.action = action, !.expected = expected]
    <2>2. ~j.auto
      BY DEF NoJob
    <2>3. pc'[p] = "read_group" /\ job'[p] = j
      BY <2>1, GotoEffect
    <2> HIDE DEF j
    <2> QED
      BY <2>2, <2>3 DEF FreshCall
  <1>5. CASE ReadGroup(p)
    <2> DEFINE g == job[p].target
               j == [job[p] EXCEPT !.sig = groups[g].sig, !.version = groups[g].version]
    <2>1. /\ pc[p] = "read_group"
          /\ \/ groups[g].status = "pending_review" /\ Goto(p, j, "read_members")
             \/ Return(p, Refused)
      BY <1>5 DEF ReadGroup, Reviewable
    <2>2. j.target = g /\ j.version = groups[g].version /\ j.auto = job[p].auto
      BY <1>3 DEF Jobs
    <2>3. job[p].auto => PriorAllows(TrustOf(groups[g].sig))
      BY <2>1 DEF JobIsFresh, FreshCall
    <2> HIDE DEF j
    <2>4. CASE groups[g].status = "pending_review" /\ Goto(p, j, "read_members")
      <3>1. pc'[p] = "read_members" /\ job'[p] = j
        BY <2>4, GotoEffect
      <3>2. job'[p].auto => PriorAllows(TrustOf(groups[job[p].target].sig)')
        BY <1>1, <1>2, <2>2, <2>3, <3>1
      <3> QED
        BY <1>1, <2>2, <2>4, <3>1, <3>2 DEF FreshCall, PriorAllows
    <2>5. CASE Return(p, Refused)
      BY <2>5, GotoEffect, IdleIsFresh
    <2> QED
      BY <2>1, <2>4, <2>5
  <1>6. CASE ReadMembers(p)
    <2> DEFINE g == job[p].target
               j == [job[p] EXCEPT !.members = groups[g].members]
    <2>1. pc[p] = "read_members" /\ Goto(p, j, "resolve")
      BY <1>6 DEF ReadMembers
    <2>2. /\ j.target = g /\ j.version = job[p].version /\ j.auto = job[p].auto
          /\ j.members = groups[g].members
      BY <1>3 DEF Jobs
    <2>3. /\ job[p].auto => PriorAllows(TrustOf(groups[g].sig))
          /\ groups[g].status = "pending_review" /\ groups[g].version = job[p].version
      BY <2>1 DEF JobIsFresh, FreshCall
    <2> HIDE DEF j
    <2>4. pc'[p] = "resolve" /\ job'[p] = j
      BY <2>1, GotoEffect
    <2>5. job'[p].auto => PriorAllows(TrustOf(groups[job[p].target].sig)')
      BY <1>1, <1>2, <2>2, <2>3, <2>4
    <2> QED
      BY <1>1, <2>2, <2>3, <2>4, <2>5 DEF FreshCall, PriorAllows
  <1> QED
    BY <1>4, <1>5, <1>6

\* With one process, no other call comes between what a call reads and what
\* it does.
LEMMA FreshStep ==
    ASSUME Solo, IInv, JobIsFresh, [Next]_vars
    PROVE  JobIsFresh'
  <1>1. CASE UNCHANGED vars
    <2>1. UNCHANGED <<groups, resolutions, pc, job>>
      BY <1>1 DEF vars, tables
    <2>2. ASSUME NEW p \in Processes PROVE FreshCall(p)'
      <3>1. FreshCall(p)
        BY DEF JobIsFresh
      <3> QED
        BY <2>1, <3>1, TrustFrame DEF FreshCall, PriorAllows
    <2> QED
      BY <2>2 DEF JobIsFresh
  <1>2. ASSUME NEW p \in Processes,
               \/ Propose(p) \/ Resolve(p) \/ StartTrust(p) \/ UpdateTrust(p)
               \/ DirectWrite(p) \/ Rollback(p) \/ Restart(p)
        PROVE  FreshCall(p)'
    <2>1. CASE StartPropose(p) \/ StartTrust(p)
      <3>1. pc'[p] \in {"find_pending", "trust"}
        BY <2>1, GotoEffect DEF StartPropose, StartTrust
      <3> QED
        BY <3>1, IdleIsFresh
    <2>2. CASE FindPending(p) \/ ReadOldMembers(p) \/ FilterConflicts(p) \/ ReadPrior(p)
      BY <2>2, FreshProposeReads
    <2>3. CASE DecideProposal(p) \/ CreateGroup(p)
      BY <2>3, FreshDecide, FreshCreate
    <2>4. CASE StartResolve(p) \/ ReadGroup(p) \/ ReadMembers(p)
      BY <2>4, FreshResolveReads
    <2>5. CASE \/ WithdrawPendingGroup(p) \/ RewritePendingGroup(p) \/ RewriteConcurrent(p)
               \/ UpdateTrust(p) \/ Rollback(p) \/ Restart(p)
      <3>1. pc'[p] = "idle"
        BY <2>5, GotoEffect DEF WithdrawPendingGroup, RewritePendingGroup,
             RewriteConcurrent, UpdateTrust, Rollback, Restart
      <3> QED
        BY <3>1, IdleIsFresh
    <2>6. CASE RejectGroup(p) \/ ApproveGroup(p)
      <3>1. pc'[p] = "idle"
        BY <2>6, GotoEffect DEF RejectGroup, ApproveGroup
      <3> QED
        BY <3>1, IdleIsFresh
    <2>7. CASE DirectWrite(p)
      BY <2>7, IdleIsFresh DEF DirectWrite
    <2> QED
      BY <1>2, <2>1, <2>2, <2>3, <2>4, <2>5, <2>6, <2>7 DEF Propose, Resolve
  <1> QED
    BY <1>1, <1>2 DEF Next, Solo, JobIsFresh

\* What a resolution reports is what the reviewer named and the row held.
LEMMA InspectedStep ==
    ASSUME Solo, SoloInv, [Next]_vars
    PROVE  ResolvesInspected'
  <1> SUFFICES ASSUME NEW q \in Processes, out'[q].op \in Actions
               PROVE  /\ out'[q].status = "pending_review"
                      /\ out'[q].version = out'[q].expected
                      /\ out'[q].members = out'[q].found
                      /\ out'[q].auto => PriorAllows(out'[q].trust)
    BY DEF ResolvesInspected, PriorAllows
  <1>1. CASE out'[q] = out[q]
    BY <1>1 DEF SoloInv, ResolvesInspected
  <1>2. CASE out'[q] # out[q]
    <2>1. PICK p \in Processes : RejectGroup(p) \/ ApproveGroup(p)
      <3>1. \A p \in Processes : ~Quiet(p)
        BY <1>2 DEF SoloInv, IInv, OutTotal, Quiet, Actions
      <3>2. \A p \in Processes : ~DirectWrite(p)
        <4>1. \A t : [NoResult EXCEPT !.op = "direct", !.members = {t}].op = "direct"
          BY DEF NoResult
        <4> QED
          BY <1>2, <4>1 DEF DirectWrite, SoloInv, IInv, OutTotal, Actions
      <3> QED
        BY <1>2, <3>1, <3>2, QuietSteps DEF Next, Resolve, vars
    <2>2. q = p
      BY DEF Solo
    <2> DEFINE j == job[p]
               g == job[p].target
    <2>3. /\ pc[p] = "resolve" /\ j.version = j.expected
          /\ \E op : Return(p, Decided(op, j, g, j.members))
      BY <2>1 DEF RejectGroup, ApproveGroup, VersionMatches
    <2>4. PICK op : out'[q] = Decided(op, j, g, j.members)
      BY <2>2, <2>3 DEF Return, SoloInv, IInv, OutTotal
    <2>5. /\ groups[g].status = "pending_review" /\ groups[g].version = j.version
          /\ groups[g].members = j.members
          /\ j.auto => PriorAllows(TrustOf(groups[g].sig))
      BY <2>3 DEF SoloInv, JobIsFresh, FreshCall
    <2> QED
      BY <2>3, <2>4, <2>5 DEF Decided
  <1> QED
    BY <1>1, <1>2

\* With one process, the locals of a call are never stale.
LEMMA SoloInvariance == Solo => (Spec => []SoloInv)
  <1> SUFFICES ASSUME Solo PROVE Spec => []SoloInv
    OBVIOUS
  <1>1. Init => SoloInv
    <2>1. Init => JobIsFresh
      BY DEF Init, JobIsFresh, FreshCall
    <2>2. Init => ResolvesInspected
      BY DEF Init, ResolvesInspected, NoResult, Actions
    <2> QED
      BY <2>1, <2>2, InitInv DEF SoloInv
  <1>2. SoloInv /\ [Next]_vars => SoloInv'
    BY NextInv, FreshStep, InspectedStep DEF SoloInv
  <1> QED
    BY <1>1, <1>2, PTL DEF Spec

\* Where one process serves the instance, a group is resolved at the version
\* its reviewer named, while it is pending, with exactly the members it had
\* then, and one that resolves itself does so under a trusted prior approval.
THEOREM ReviewerIsObeyed == Solo => (Spec => []ResolvesInspected)
  <1>1. SoloInv => ResolvesInspected
    BY DEF SoloInv
  <1> QED
    BY <1>1, SoloInvariance, PTL

\* A row that no longer waits for review is not written again.
SettledRowsKept ==
    \A g \in DOMAIN groups :
        groups[g].status \in {"resolved", "withdrawn"} => groups'[g] = groups[g]

\* With one process, every write of a row finds it pending.
LEMMA SettledStep ==
    ASSUME SoloInv, [Next]_vars
    PROVE  SettledRowsKept
  <1>1. CASE UNCHANGED groups
    BY <1>1 DEF SettledRowsKept
  <1>2. ASSUME NEW g \in DOMAIN groups, groups[g].status = "pending_review", NEW row,
               groups' = [groups EXCEPT ![g] = row]
        PROVE  SettledRowsKept
    BY <1>2 DEF SettledRowsKept, SoloInv, IInv, TypeOK
  <1>3. ASSUME NEW p \in Processes, CreateGroup(p) PROVE SettledRowsKept
    <2>1. \E row : groups' = Append(groups, row)
      BY <1>3 DEF CreateGroup
    <2> QED
      BY <2>1 DEF SettledRowsKept, SoloInv, IInv, TypeOK
  <1>4. ASSUME NEW p \in Processes,
               pc[p] \in {"withdraw", "rewrite", "resolve"}
        PROVE  /\ job[p].target \in DOMAIN groups
               /\ groups[job[p].target].status = "pending_review"
    BY <1>4 DEF SoloInv, IInv, JobInv, CallInv, NamesGroup, JobIsFresh, FreshCall
  <1>5. ASSUME NEW p \in Processes, WithdrawPendingGroup(p) \/ RewritePendingGroup(p)
        PROVE  SettledRowsKept
    <2>1. \E row : groups' = [groups EXCEPT ![job[p].target] = row]
      BY <1>5 DEF WithdrawPendingGroup, RewritePendingGroup
    <2>2. pc[p] \in {"withdraw", "rewrite"}
      BY <1>5 DEF WithdrawPendingGroup, RewritePendingGroup
    <2> QED
      BY <1>2, <1>4, <2>1, <2>2
  <1>6. ASSUME NEW p \in Processes, RewriteConcurrent(p) PROVE SettledRowsKept
    <2>1. PICK g \in FindPendingGroup(job[p].sig) :
            \E row : groups' = [groups EXCEPT ![g] = row]
      BY <1>6 DEF RewriteConcurrent
    <2> QED
      BY <1>2, <2>1 DEF FindPendingGroup
  <1>7. ASSUME NEW p \in Processes, RejectGroup(p) \/ ApproveGroup(p)
        PROVE  SettledRowsKept
    <2>1. \E row : groups' = [groups EXCEPT ![job[p].target] = row]
      BY <1>7 DEF RejectGroup, ApproveGroup
    <2>2. pc[p] = "resolve"
      BY <1>7 DEF RejectGroup, ApproveGroup
    <2> QED
      BY <1>2, <1>4, <2>1, <2>2
  <1>8. ASSUME NEW p \in Processes, DirectWrite(p) PROVE SettledRowsKept
    <2>1. PICK t \in Tuples :
            /\ \A g \in PendingGroupsFor(t) : groups[g].version < MaxVersion
            /\ groups' = AnnotateConflictGroups(t)
      BY <1>8 DEF DirectWrite
    <2> QED
      BY <2>1, AnnotationKeeps DEF SettledRowsKept, SoloInv
  <1>9. ASSUME NEW p \in Processes,
               \/ StartPropose(p) \/ FindPending(p) \/ ReadOldMembers(p)
               \/ FilterConflicts(p) \/ ReadPrior(p) \/ DecideProposal(p)
               \/ StartResolve(p) \/ ReadGroup(p) \/ ReadMembers(p)
               \/ StartTrust(p) \/ UpdateTrust(p) \/ Rollback(p) \/ Restart(p)
        PROVE  UNCHANGED groups
    BY <1>9 DEF StartPropose, FindPending, ReadOldMembers, FilterConflicts, ReadPrior,
         DecideProposal, StartResolve, ReadGroup, ReadMembers, StartTrust, UpdateTrust,
         Rollback, Restart, tables
  <1> QED
    BY <1>1, <1>3, <1>5, <1>6, <1>7, <1>8, <1>9 DEF Next, Propose, Resolve, vars, tables

\* What DecisionsStand says of a step.
DecisionsKept ==
    /\ \A g \in DOMAIN groups :
          groups[g].status \in {"resolved", "withdrawn"} => groups'[g] = groups[g]
    /\ \A sig \in Signatures :
          TrustOf(sig) # None /\ TrustOf(sig)' # TrustOf(sig) =>
              \E p \in Processes :
                 \/ pc[p] = "trust" /\ out'[p].op = "trust"
                 \/ TrustOf(sig) = "invalidated" /\ TrustOf(sig)' = "watch" /\ Approves(p)

\* Where one process serves the instance, a resolved or withdrawn group never
\* changes again and no review step moves the trust of a thesis, but for what a
\* reviewer's approval may do to an invalidated one.
THEOREM DecisionsAreFinal == Solo => (Spec => DecisionsStand)
  <1> SUFFICES ASSUME Solo PROVE Spec => DecisionsStand
    OBVIOUS
  <1>1. SoloInv /\ [Next]_vars => [SettledRowsKept /\ TrustMovesByUpdate]_vars
    BY SettledStep, TrustStep DEF SoloInv
  <1>2. SettledRowsKept /\ TrustMovesByUpdate => DecisionsKept
    BY DEF SettledRowsKept, TrustMovesByUpdate, DecisionsKept
  <1>3. [SettledRowsKept /\ TrustMovesByUpdate]_vars => [DecisionsKept]_vars
    BY <1>2
  <1> QED
    BY <1>1, <1>3, SoloInvariance, PTL DEF Spec, DecisionsStand, DecisionsKept

=============================================================================
