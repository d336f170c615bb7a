---------------------- MODULE ResolutionContractsProofs ----------------------
(***************************************************************************)
(* Machine-checked proofs about ResolutionContracts, for every set of      *)
(* subjects, contents, statuses, guards and clocks and every bound: what a *)
(* consumed contract says, what answers stand, and that the contracts are  *)
(* registers of standing answers.  The last part is about one process,     *)
(* whose add_entity calls do not overlap with other writes.                *)
(***************************************************************************)
EXTENDS ResolutionContracts, PositionTheorems, TLAPS

-----------------------------------------------------------------------------
(* The inductive invariant. *)

\* An answer that another one followed is overturned.
FollowedIsOverturned ==
    \A r, q \in DOMAIN resolutions :
        resolutions[r].contract = resolutions[q].contract /\ r < q =>
            Disposition(r) = "overturned"

IInv ==
    /\ TypeOK
    /\ Len(contracts) <= MaxContracts
    /\ PromisedIsAccepted
    /\ FollowedIsOverturned
    /\ EvidenceInTime

-----------------------------------------------------------------------------
(* Stores. *)

\* The positions of the answers of a contract.
LEMMA AnswersArePositions ==
    ASSUME TypeOK, NEW c
    PROVE  /\ Len(resolutions) \in Nat /\ DOMAIN resolutions = 1 .. Len(resolutions)
           /\ ListResolutions(c) \in SUBSET (1 .. Len(resolutions))
           /\ ListResolutions(c) \in SUBSET Nat
  <1>1. Len(resolutions) \in Nat /\ DOMAIN resolutions = 1 .. Len(resolutions)
    BY DEF TypeOK
  <1>2. ListResolutions(c) \in SUBSET (1 .. Len(resolutions))
    BY <1>1 DEF ListResolutions
  <1>3. \A r \in 1 .. Len(resolutions) : r \in Nat
    BY <1>1
  <1> QED
    BY <1>1, <1>2, <1>3

\* Latest is the last of them.
LEMMA LatestIsLast ==
    ASSUME TypeOK, NEW c, ListResolutions(c) # {}
    PROVE  /\ Latest(c) \in ListResolutions(c)
           /\ \A r \in ListResolutions(c) : r <= Latest(c)
           /\ Latest(c) \in 1 .. Len(resolutions) /\ Latest(c) # 0
           /\ resolutions[Latest(c)].contract = c
  <1> DEFINE S == ListResolutions(c)
             x == CHOOSE r \in S : \A q \in S : r >= q
  <1>1. /\ S \in SUBSET (1 .. Len(resolutions)) /\ Len(resolutions) \in Nat /\ S # {}
        /\ S \in SUBSET Nat
    BY AnswersArePositions
  <1>2. PICK m \in S : \A q \in S : q <= m
    <2> HIDE DEF S
    <2> QED
      BY <1>1, LatestExists
  <1>3. \A q \in S : m >= q
    BY <1>1, <1>2
  <1>4. x = m
    <2> HIDE DEF S
    <2> QED
      BY <1>1, <1>3, LatestIs
  <1>5. Latest(c) = m
    BY <1>4 DEF Latest, Max
  <1>6. resolutions[m].contract = c
    BY DEF ListResolutions
  <1> QED
    BY <1>1, <1>2, <1>5, <1>6

\* A position that is no earlier than the others is Latest.
LEMMA LastIsLatest ==
    ASSUME TypeOK, NEW c, NEW m \in ListResolutions(c), \A r \in ListResolutions(c) : r <= m
    PROVE  Latest(c) = m
  <1>1. Latest(c) \in ListResolutions(c) /\ m <= Latest(c)
    BY LatestIsLast
  <1>2. Latest(c) \in Nat /\ m \in Nat
    BY <1>1, AnswersArePositions
  <1> QED
    BY <1>1, <1>2

\* No answers, no latest answer.
LEMMA NoLatest ==
    ASSUME TypeOK, NEW c
    PROVE  Latest(c) = 0 <=> ListResolutions(c) = {}
  BY LatestIsLast DEF Latest

\* In a table where followed answers are overturned, an answer that is not
\* overturned is the latest one of its contract.
LEMMA StandingIsLatest ==
    ASSUME IInv, NEW r \in DOMAIN resolutions, Disposition(r) # "overturned"
    PROVE  r = Latest(resolutions[r].contract)
  <1> DEFINE c == resolutions[r].contract
  <1>1. TypeOK /\ r \in ListResolutions(c) /\ r \in Nat
    BY AnswersArePositions DEF IInv, ListResolutions
  <1>2. ASSUME NEW q \in ListResolutions(c) PROVE q <= r
    <2>1. q \in DOMAIN resolutions /\ resolutions[q].contract = c /\ q \in Nat
      BY <1>1, AnswersArePositions DEF ListResolutions
    <2>2. ~(r < q)
      BY <2>1 DEF IInv, FollowedIsOverturned
    <2> QED
      BY <1>1, <2>1, <2>2
  <1> HIDE DEF c
  <1>3. Latest(c) = r
    BY <1>1, <1>2, LastIsLatest
  <1> QED
    BY <1>3 DEF c

\* A contract has no standing answer exactly when all of them are overturned.
LEMMA OpenIsUnanswered ==
    ASSUME IInv, NEW c
    PROVE  Answerable(c) <=> Unanswered(c)
  <1>1. TypeOK
    BY DEF IInv
  <1>2. ASSUME Unanswered(c) PROVE Answerable(c)
    BY <1>1, <1>2, LatestIsLast, NoLatest DEF Unanswered, Answerable
  <1>3. ASSUME Answerable(c), NEW r \in ListResolutions(c) PROVE Disposition(r) = "overturned"
    <2>1. /\ r \in DOMAIN resolutions /\ resolutions[r].contract = c
          /\ Latest(c) # 0 /\ Disposition(Latest(c)) = "overturned"
      BY <1>1, <1>3, LatestIsLast DEF Answerable, ListResolutions
    <2> QED
      BY <2>1, StandingIsLatest
  <1> QED
    BY <1>2, <1>3 DEF Unanswered

\* The reads of "open" agree.
LEMMA ReadsAgree ==
    ASSUME IInv
    PROVE  OneStandingAnswer
  <1>1. ASSUME NEW c \in DOMAIN contracts
        PROVE  /\ Status(c) = "open" <=> Activated(c) /\ Answerable(c)
               /\ c \in DueQueue <=>
                     Status(c) = "open" /\ Pinned(c).checkAt <= now /\ SubjectIsLive(c)
    <2>1. Status(c) = "open" <=> Activated(c) /\ Answerable(c)
      BY DEF Status, Answerable
    <2> QED
      BY <2>1, OpenIsUnanswered DEF DueQueue
  <1>2. ASSUME NEW r \in ContradictedQueue
        PROVE  r = Latest(resolutions[r].contract) /\ SubjectIsLive(resolutions[r].contract)
    <2>1. r \in DOMAIN resolutions /\ Disposition(r) = None /\ None # "overturned"
      BY NoneAssumption DEF ContradictedQueue, Disposition
    <2> QED
      BY <2>1, StandingIsLatest DEF ContradictedQueue
  <1> QED
    BY <1>1, <1>2 DEF OneStandingAnswer, IInv, FollowedIsOverturned

-----------------------------------------------------------------------------
(* Steps that keep the tables. *)

Worlds ==
    /\ entities \in [Subjects -> Rows \cup {None}]
    /\ life \in Lives
    /\ view \in [Processes -> {None} \cup Views]
    /\ guards \in 0 .. MaxGuards /\ query \in Definitions \cup {None}
    /\ claim \in ClaimContents /\ now \in 0 .. MaxTime

\* A step that leaves the tables alone and the world in its type.
LEMMA TablesKept ==
    ASSUME IInv, UNCHANGED <<contracts, activations, evidence, answers>>, Worlds'
    PROVE  IInv'
  <1>1. /\ contracts' = contracts /\ activations' = activations /\ evidence' = evidence
        /\ resolutions' = resolutions /\ dispositions' = dispositions
    BY DEF answers
  <1>2. TypeOK'
    BY <1>1 DEF IInv, TypeOK, Worlds
  <1>3. PromisedIsAccepted'
    BY <1>1 DEF IInv, PromisedIsAccepted, Pinned
  <1>4. FollowedIsOverturned' /\ EvidenceInTime'
    BY <1>1 DEF IInv, FollowedIsOverturned, Disposition, EvidenceInTime
  <1> QED
    BY <1>1, <1>2, <1>3, <1>4 DEF IInv

\* add_entity loads, or is abandoned.
LEMMA LoadForAddInv ==
    ASSUME IInv, NEW p \in Processes, LoadForAdd(p) \/ AbandonAdd(p)
    PROVE  IInv'
  <1>1. Worlds'
    <2>1. Worlds
      BY DEF IInv, TypeOK, Worlds
    <2>2. CASE LoadForAdd(p)
      <3>1. [rows |-> entities, life |-> life, guards |-> guards] \in Views
        BY <2>1 DEF Worlds, Views
      <3> QED
        BY <2>1, <2>2, <3>1 DEF LoadForAdd, Worlds, config, subjects
    <2>3. CASE AbandonAdd(p)
      BY <2>1, <2>3 DEF AbandonAdd, Worlds, config, subjects
    <2> QED
      BY <2>2, <2>3
  <1> QED
    BY <1>1, TablesKept DEF LoadForAdd, AbandonAdd

\* The claim, the config, the lifecycles and the clock move on.
LEMMA WorldMoves ==
    ASSUME IInv,
           \/ WriteClaim \/ Tick \/ UNCHANGED vars
           \/ \E p \in Processes : ReloadConfig(p)
           \/ \E p \in Processes, s \in Subjects, status \in {"superseded", "retired"} :
                 Settle(p, s, status)
    PROVE  IInv'
  <1>1. Worlds
    BY DEF IInv, TypeOK, Worlds
  <1>2. CASE WriteClaim
    BY <1>1, <1>2, TablesKept DEF WriteClaim, Worlds, config, subjects
  <1>3. CASE Tick
    <2>1. now' \in 0 .. MaxTime
      BY <1>1, <1>3, BoundsAssumption DEF Tick, Worlds
    <2> QED
      BY <1>1, <1>3, <2>1, TablesKept DEF Tick, Worlds, config, subjects
  <1>4. CASE \E p \in Processes : ReloadConfig(p)
    BY <1>1, <1>4, TablesKept DEF ReloadConfig, Worlds, config, subjects
  <1>5. CASE UNCHANGED vars
    BY <1>1, <1>5, TablesKept DEF vars, world, Worlds, config, subjects
  <1>6. ASSUME NEW p \in Processes, NEW s \in Subjects, NEW status \in {"superseded", "retired"},
               Settle(p, s, status)
        PROVE  IInv'
    <2>1. life' \in Lives
      BY <1>1, <1>6 DEF Settle, Worlds, Lives
    <2> QED
      BY <1>1, <1>6, <2>1, TablesKept DEF Settle, Worlds, config
  <1> QED
    BY <1>2, <1>3, <1>4, <1>5, <1>6

-----------------------------------------------------------------------------
(* Contracts and evidence are added, never changed in what they say. *)

\* A table of rows of one type is a table of rows of a larger type.
LEMMA SeqMonotone ==
    ASSUME NEW S, NEW T, S \subseteq T, NEW s \in Seq(S)
    PROVE  s \in Seq(T)
  OBVIOUS

\* A row is added at the end of a table.
LEMMA Appended ==
    ASSUME NEW S, NEW s \in Seq(S), NEW x \in S
    PROVE  /\ Append(s, x) \in Seq(S) /\ Len(s) \in Nat
           /\ Len(Append(s, x)) = Len(s) + 1
           /\ DOMAIN s = 1 .. Len(s) /\ DOMAIN Append(s, x) = 1 .. (Len(s) + 1)
           /\ DOMAIN s \subseteq DOMAIN Append(s, x)
           /\ \A i \in DOMAIN s : Append(s, x)[i] = s[i]
           /\ Append(s, x)[Len(s) + 1] = x
  OBVIOUS

\* The older rows of contracts keep what they say, those of evidence too,
\* except for their usability.
RecordsGrow ==
    /\ contracts' \in Seq(ContractRows) /\ DOMAIN contracts \subseteq DOMAIN contracts'
    /\ \A c \in DOMAIN contracts : contracts'[c] = contracts[c]
    /\ Len(contracts') <= MaxContracts
    /\ evidence' \in Seq(EvidenceRows) /\ DOMAIN evidence \subseteq DOMAIN evidence'
    /\ \A e \in DOMAIN evidence :
          evidence'[e].at = evidence[e].at /\ evidence'[e].says = evidence[e].says

\* What an activation or an answer refers to.
LEMMA References ==
    ASSUME IInv
    PROVE  /\ \A a \in activations : a.contract \in DOMAIN contracts
           /\ \A r \in DOMAIN resolutions :
                 /\ resolutions[r].contract \in DOMAIN contracts
                 /\ resolutions[r].cited \in SUBSET DOMAIN evidence
                 /\ resolutions[r].verdict \in Verdicts
  <1>1. TypeOK
    BY DEF IInv
  <1>2. \A a \in activations : a.contract \in DOMAIN contracts
    BY <1>1 DEF TypeOK
  <1> DEFINE T == [contract : DOMAIN contracts, verdict : Verdicts,
                   cited : SUBSET DOMAIN evidence]
  <1>3. resolutions \in Seq(T)
    BY <1>1 DEF TypeOK
  <1>4. \A r \in DOMAIN resolutions : resolutions[r] \in T
    <2> HIDE DEF T
    <2> QED
      BY <1>3
  <1> QED
    BY <1>2, <1>4

\* A step that only adds contracts or evidence.
LEMMA RecordsStep ==
    ASSUME IInv, RecordsGrow, UNCHANGED <<world, activations, answers>>
    PROVE  IInv'
  <1>1. /\ TypeOK /\ activations' = activations
        /\ resolutions' = resolutions /\ dispositions' = dispositions
    BY DEF IInv, answers
  <1>2. TypeOK'
    <2>1. [contract : DOMAIN contracts, accepted : Rows, at : 0 .. MaxTime] \subseteq
             [contract : DOMAIN contracts', accepted : Rows, at : 0 .. MaxTime]
      BY DEF RecordsGrow
    <2>2. [contract : DOMAIN contracts, verdict : Verdicts, cited : SUBSET DOMAIN evidence]
             \subseteq
          [contract : DOMAIN contracts', verdict : Verdicts, cited : SUBSET DOMAIN evidence']
      BY DEF RecordsGrow
    <2>3. resolutions \in Seq([contract : DOMAIN contracts', verdict : Verdicts,
                               cited : SUBSET DOMAIN evidence'])
      BY <1>1, <2>2, SeqMonotone DEF TypeOK
    <2>4. activations \subseteq [contract : DOMAIN contracts', accepted : Rows, at : 0 .. MaxTime]
      BY <1>1, <2>1 DEF TypeOK
    <2> QED
      BY <1>1, <2>3, <2>4 DEF TypeOK, RecordsGrow, world, config, subjects
  <1>3. PromisedIsAccepted'
    BY <1>1, References DEF IInv, PromisedIsAccepted, Pinned, RecordsGrow
  <1>4. FollowedIsOverturned'
    BY <1>1 DEF IInv, FollowedIsOverturned, Disposition
  <1>5. EvidenceInTime'
    <2> SUFFICES ASSUME NEW r \in DOMAIN resolutions
                 PROVE  LET x == resolutions[r]
                            c == contracts'[x.contract]
                        IN /\ x.verdict # "indeterminate" =>
                                 \A e \in x.cited : /\ evidence'[e].at >= c.openedAt
                                                    /\ evidence'[e].says = x.verdict
                           /\ x.verdict = "satisfied" =>
                                 \E e \in x.cited : evidence'[e].at >= c.declaration.checkAt
      BY <1>1 DEF EvidenceInTime
    <2>1. /\ contracts'[resolutions[r].contract] = contracts[resolutions[r].contract]
          /\ \A e \in resolutions[r].cited :
                evidence'[e].at = evidence[e].at /\ evidence'[e].says = evidence[e].says
      BY References DEF RecordsGrow
    <2> QED
      BY <2>1 DEF IInv, EvidenceInTime
  <1> QED
    BY <1>2, <1>3, <1>4, <1>5 DEF IInv, RecordsGrow

\* A contract is opened.
LEMMA OpenContractInv ==
    ASSUME IInv, NEW s \in Subjects, NEW kind \in Kinds, NEW clock \in Clocks,
           OpenContract(s, kind, clock)
    PROVE  IInv'
  <1> DEFINE row == [subject |-> s, digest |-> entities[s], openedAt |-> now,
                     declaration |-> Declaration(kind, clock)]
  <1>1. /\ entities[s] \in Rows /\ now \in 0 .. MaxTime /\ contracts \in Seq(ContractRows)
        /\ evidence \in Seq(EvidenceRows) /\ query \in Definitions \cup {None}
    BY DEF OpenContract, IInv, TypeOK
  <1>2. clock[1] \in 0 .. MaxTime /\ clock[2] \in 1 .. MaxTime + 1
    BY ClocksAssumption
  <1>3. Declaration(kind, clock) \in [kind : Kinds, definition : Definitions \cup {None},
                    checkAt : 0 .. MaxTime, expiresAt : 1 .. MaxTime + 1]
    BY <1>1, <1>2 DEF Declaration
  <1>4. row \in ContractRows
    BY <1>1, <1>3 DEF ContractRows
  <1>5. /\ contracts' = Append(contracts, row) /\ Len(contracts) < MaxContracts
        /\ UNCHANGED <<world, activations, evidence, answers>>
    BY DEF OpenContract
  <1> HIDE DEF row
  <1>6. RecordsGrow
    BY <1>1, <1>4, <1>5, BoundsAssumption, Appended DEF RecordsGrow
  <1> QED
    BY <1>5, <1>6, RecordsStep

\* Evidence arrives.
LEMMA EvidenceInv ==
    ASSUME IInv, NEW e \in EvidenceRows, Evidence(e)
    PROVE  IInv'
  <1>1. contracts \in Seq(ContractRows) /\ evidence \in Seq(EvidenceRows)
    BY DEF IInv, TypeOK
  <1>2. RecordsGrow
    BY <1>1, Appended DEF Evidence, RecordsGrow, IInv
  <1> QED
    BY <1>2, RecordsStep DEF Evidence

\* A query run and an attestation are rows of evidence.
LEMMA MeasurementInv ==
    ASSUME IInv,
           \/ \E says \in {"satisfied", "contradicted"}, complete \in BOOLEAN : RunQuery(says, complete)
           \/ \E says \in {"satisfied", "contradicted", "unsure"}, at \in 0 .. now : Attest(says, at)
    PROVE  IInv'
  <1>1. /\ query \in Definitions \cup {None} /\ claim \in ClaimContents
        /\ now \in 0 .. MaxTime /\ MaxTime \in Nat
    BY BoundsAssumption DEF IInv, TypeOK
  <1>2. ASSUME NEW says \in {"satisfied", "contradicted"}, NEW complete \in BOOLEAN,
               RunQuery(says, complete)
        PROVE  IInv'
    <2> DEFINE e == [kind |-> "query", basis |-> query, at |-> now, says |-> says,
                     usable |-> complete]
    <2>1. e \in EvidenceRows
      BY <1>1, <1>2 DEF RunQuery, EvidenceRows, Kinds, Verdicts
    <2>2. Evidence(e)
      BY <1>2 DEF RunQuery
    <2> HIDE DEF e
    <2> QED
      BY <2>1, <2>2, EvidenceInv
  <1>3. ASSUME NEW says \in {"satisfied", "contradicted", "unsure"}, NEW at \in 0 .. now,
               Attest(says, at)
        PROVE  IInv'
    <2> DEFINE e == [kind |-> "attestation", basis |-> claim, at |-> at, says |-> says,
                     usable |-> TRUE]
    <2>1. at \in 0 .. MaxTime
      BY <1>1
    <2>2. e \in EvidenceRows
      BY <1>1, <2>1 DEF EvidenceRows, Kinds, Verdicts
    <2>3. Evidence(e)
      BY <1>3 DEF Attest
    <2> HIDE DEF e
    <2> QED
      BY <2>2, <2>3, EvidenceInv
  <1> QED
    BY <1>2, <1>3

\* An attestation is invalidated, or that is lifted.
LEMMA DisposeAttestationInv ==
    ASSUME IInv, NEW e \in DOMAIN evidence, DisposeAttestation(e)
    PROVE  IInv'
  <1>1. contracts \in Seq(ContractRows) /\ evidence \in Seq(EvidenceRows)
    BY DEF IInv, TypeOK
  <1>2. evidence[e] \in EvidenceRows
    BY <1>1
  <1>3. \A u \in BOOLEAN :
           /\ [evidence[e] EXCEPT !.usable = u] \in EvidenceRows
           /\ [evidence[e] EXCEPT !.usable = u].at = evidence[e].at
           /\ [evidence[e] EXCEPT !.usable = u].says = evidence[e].says
    BY <1>2 DEF EvidenceRows
  <1> DEFINE x == [evidence[e] EXCEPT !.usable = ~ evidence[e].usable]
  <1>4. x \in EvidenceRows /\ x.at = evidence[e].at /\ x.says = evidence[e].says
    BY <1>2, <1>3 DEF EvidenceRows
  <1>5. evidence' = [evidence EXCEPT ![e] = x] /\ UNCHANGED <<world, contracts, activations, answers>>
    BY DEF DisposeAttestation
  <1> HIDE DEF x
  <1>6. RecordsGrow
    BY <1>1, <1>4, <1>5 DEF RecordsGrow, IInv
  <1> QED
    BY <1>5, <1>6, RecordsStep

-----------------------------------------------------------------------------
(* Guarded writes. *)

\* The dates of a contract.
LEMMA ContractDates ==
    ASSUME TypeOK, NEW c \in DOMAIN contracts
    PROVE  Pinned(c).expiresAt \in Int /\ Pinned(c).checkAt \in Int
  <1>1. contracts \in Seq(ContractRows)
    BY DEF TypeOK
  <1>2. contracts[c] \in ContractRows
    BY <1>1
  <1>3. contracts[c].declaration \in [kind : Kinds, definition : Definitions \cup {None},
                    checkAt : 0 .. MaxTime, expiresAt : 1 .. MaxTime + 1]
    BY <1>2 DEF ContractRows
  <1> QED
    BY <1>3 DEF Pinned

\* What a permitted write consumes: contracts of the subject, not activated
\* and not expired, that pin the row as it was, and the write does nothing but
\* accept that row.
LEMMA ConsumedFit ==
    ASSUME NEW s, NEW old, NEW new \in Rows, NEW n, NEW consumed \in GuardOutcomes(s, old, new, n),
           NEW c \in consumed
    PROVE  /\ c \in FindEligible(s, old)
           /\ new.status \in Guarded /\ new.tracking = "required"
           /\ [new EXCEPT !.status = old.status] = old
  <1>1. ~(~Transition(old, new) \/ ~InScope(new) \/ n = 0)
    BY DEF GuardOutcomes
  <1>2. /\ new.tracking # "unset" /\ OnlyTransition(old, new)
        /\ consumed = Oldest(FindEligible(s, old), n)
    BY <1>1 DEF GuardOutcomes
  <1>3. new.tracking \in Trackings
    BY DEF Rows
  <1> QED
    BY <1>1, <1>2, <1>3, TrackingAssumption DEF Transition, InScope, OnlyTransition, Oldest

\* A guarded write commits: every contract it consumes is consumed once.
LEMMA CommitWriteInv ==
    ASSUME IInv, NEW s \in Subjects, NEW old, NEW new \in Rows, NEW status, NEW n,
           status \in {"live", "superseded", "retired"},
           CommitWrite(s, old, new, status, n),
           view' \in [Processes -> {None} \cup Views]
    PROVE  IInv'
  <1>1. PICK consumed \in GuardOutcomes(s, old, new, n) :
           activations' = activations \cup
              {[contract |-> c, accepted |-> new, at |-> now] : c \in consumed}
    BY DEF CommitWrite
  <1>2. /\ entities' = [entities EXCEPT ![s] = new]
        /\ life' = [life EXCEPT ![s] = status]
        /\ guards' = guards /\ query' = query /\ claim' = claim /\ now' = now
        /\ contracts' = contracts /\ evidence' = evidence
        /\ resolutions' = resolutions /\ dispositions' = dispositions
    BY DEF CommitWrite, config, answers, subjects
  <1>3. /\ TypeOK /\ now \in 0 .. MaxTime
    BY DEF IInv, TypeOK
  <1>4. ASSUME NEW c \in consumed
        PROVE  /\ c \in DOMAIN contracts /\ contracts[c].digest = old
               /\ Pinned(c).expiresAt > now /\ ~Activated(c)
               /\ new.status \in Guarded /\ new.tracking = "required"
               /\ [new EXCEPT !.status = old.status] = old
    BY ConsumedFit DEF FindEligible
  <1> DEFINE Act(c) == [contract |-> c, accepted |-> new, at |-> now]
  <1>5. /\ \A a \in activations' : a \in activations \/ \E c \in consumed : a = Act(c)
    BY <1>1
  <1>6. \A c : Act(c).contract = c /\ Act(c).accepted = new /\ Act(c).at = now
    OBVIOUS
  <1>7. TypeOK'
    <2>1. \A c \in consumed :
             Act(c) \in [contract : DOMAIN contracts, accepted : Rows, at : 0 .. MaxTime]
      BY <1>3, <1>4
    <2>2. activations' \subseteq [contract : DOMAIN contracts, accepted : Rows, at : 0 .. MaxTime]
      <3> HIDE DEF Act
      <3> QED
        BY <1>3, <1>5, <2>1 DEF TypeOK
    <2> QED
      BY <1>2, <1>3, <2>2 DEF TypeOK, Lives
  <1>8. PromisedIsAccepted'
    <2> SUFFICES ASSUME NEW a \in activations'
                 PROVE  /\ \A b \in activations' : b.contract = a.contract => b = a
                        /\ a.at < Pinned(a.contract).expiresAt
                        /\ a.accepted.status \in Guarded /\ a.accepted.tracking = "required"
                        /\ [a.accepted EXCEPT !.status = contracts[a.contract].digest.status]
                               = contracts[a.contract].digest
      BY <1>2 DEF PromisedIsAccepted, Pinned
    <2>1. CASE a \in activations
      <3>1. ASSUME NEW b \in activations', b.contract = a.contract PROVE b = a
        <4>1. CASE b \in activations
          BY <2>1, <3>1, <4>1 DEF IInv, PromisedIsAccepted
        <4>2. CASE \E c \in consumed : b = Act(c)
          <5>1. PICK c \in consumed : b = Act(c)
            BY <4>2
          <5>2. b.contract = c
            BY <1>6, <5>1
          <5>3. Activated(c)
            BY <2>1, <3>1, <5>2 DEF Activated
          <5> QED
            BY <1>4, <5>3
        <4> QED
          BY <1>5, <4>1, <4>2
      <3> QED
        BY <2>1, <3>1 DEF IInv, PromisedIsAccepted
    <2>2. CASE \E c \in consumed : a = Act(c)
      <3>1. PICK c \in consumed : a = Act(c)
        BY <2>2
      <3>2. a.contract = c /\ a.accepted = new /\ a.at = now
        BY <1>6, <3>1
      <3>3. ASSUME NEW b \in activations', b.contract = a.contract PROVE b = a
        <4>1. b \notin activations
          BY <1>4, <3>2, <3>3 DEF Activated
        <4>2. PICK d \in consumed : b = Act(d)
          BY <1>5, <4>1
        <4>3. d = c
          BY <1>6, <3>2, <3>3, <4>2
        <4> QED
          BY <3>1, <4>2, <4>3
      <3>4. now < Pinned(c).expiresAt
        <4>1. Pinned(c).expiresAt \in Int
          BY <1>3, <1>4, ContractDates
        <4> QED
          BY <1>3, <1>4, <4>1
      <3> QED
        BY <1>4, <3>2, <3>3, <3>4
    <2> QED
      BY <1>5, <2>1, <2>2
  <1>9. FollowedIsOverturned' /\ EvidenceInTime'
    BY <1>2 DEF IInv, FollowedIsOverturned, Disposition, EvidenceInTime
  <1> QED
    BY <1>2, <1>7, <1>8, <1>9 DEF IInv

\* The two kinds of guarded write.
LEMMA WriteInv ==
    ASSUME IInv, Write
    PROVE  IInv'
  <1>1. PICK p \in Processes, s \in Subjects, new \in Rows :
           BatchWrite(p, s, new) \/ AddEntity(p, s, new)
    BY DEF Write
  <1>2. view \in [Processes -> {None} \cup Views]
    BY DEF IInv, TypeOK
  <1>5. ASSUME NEW f \in Lives, NEW status \in LifeAfter(f[s])
        PROVE  status \in {"live", "superseded", "retired"}
    BY <1>5 DEF Lives, LifeAfter
  <1>3. CASE BatchWrite(p, s, new)
    <2>1. PICK status \in LifeAfter(life[s]) : CommitWrite(s, entities[s], new, status, guards)
      BY <1>3 DEF BatchWrite
    <2>2. status \in {"live", "superseded", "retired"}
      BY <1>5, <2>1 DEF IInv, TypeOK
    <2> QED
      BY <1>2, <1>3, <2>1, <2>2, CommitWriteInv DEF BatchWrite
  <1>4. CASE AddEntity(p, s, new)
    <2>1. view' \in [Processes -> {None} \cup Views]
      BY <1>2, <1>4 DEF AddEntity
    <2>2. PICK status \in LifeAfter(view[p].life[s]) :
             CommitWrite(s, view[p].rows[s], new, status, view[p].guards)
      BY <1>4 DEF AddEntity
    <2>3. view[p].life \in Lives
      BY <1>2, <1>4 DEF AddEntity, Views
    <2>4. status \in {"live", "superseded", "retired"}
      BY <1>5, <2>2, <2>3
    <2> QED
      BY <2>1, <2>2, <2>4, CommitWriteInv
  <1> QED
    BY <1>1, <1>3, <1>4

-----------------------------------------------------------------------------
(* Answers and dispositions. *)

\* The tables of answers and of their dispositions.
LEMMA AnswerTables ==
    ASSUME IInv
    PROVE  LET T == [contract : DOMAIN contracts, verdict : Verdicts,
                     cited : SUBSET DOMAIN evidence]
               D == Seq({"upheld", "overturned"})
           IN  /\ resolutions \in Seq(T) /\ dispositions \in Seq(D)
               /\ Len(dispositions) = Len(resolutions) /\ Len(resolutions) \in Nat
               /\ DOMAIN resolutions = 1 .. Len(resolutions)
               /\ DOMAIN dispositions = 1 .. Len(resolutions)
  <1> DEFINE T == [contract : DOMAIN contracts, verdict : Verdicts,
                     cited : SUBSET DOMAIN evidence]
             D == Seq({"upheld", "overturned"})
  <1>1. /\ resolutions \in Seq(T) /\ dispositions \in Seq(D)
        /\ Len(dispositions) = Len(resolutions)
    BY DEF IInv, TypeOK
  <1> HIDE DEF T, D
  <1>2. /\ Len(resolutions) \in Nat /\ DOMAIN resolutions = 1 .. Len(resolutions)
        /\ DOMAIN dispositions = 1 .. Len(dispositions)
    BY <1>1
  <1> QED
    BY <1>1, <1>2 DEF T, D

\* What is appended by an answer.
LEMMA ResolveStep ==
    ASSUME IInv, NEW c \in DOMAIN contracts, NEW verdict \in Verdicts,
           NEW cited \in SUBSET DOMAIN evidence, ResolveOutcome(c, verdict, cited)
    PROVE  LET n == Len(resolutions) + 1
               x == [contract |-> c, verdict |-> verdict, cited |-> cited]
               T == [contract : DOMAIN contracts, verdict : Verdicts,
                     cited : SUBSET DOMAIN evidence]
               D == Seq({"upheld", "overturned"})
           IN  /\ resolutions' \in Seq(T) /\ dispositions' \in Seq(D)
               /\ Len(resolutions') = n /\ Len(dispositions') = n
               /\ DOMAIN resolutions' = 1 .. n /\ n \in Nat
               /\ resolutions'[n] = x /\ dispositions'[n] = <<>>
               /\ x.contract = c /\ x.verdict = verdict /\ x.cited = cited
               /\ \A r \in 1 .. Len(resolutions) :
                     resolutions'[r] = resolutions[r] /\ dispositions'[r] = dispositions[r]
               /\ UNCHANGED <<world, contracts, activations, evidence>>
               /\ Answerable(c)
  <1> DEFINE n == Len(resolutions) + 1
             x == [contract |-> c, verdict |-> verdict, cited |-> cited]
             T == [contract : DOMAIN contracts, verdict : Verdicts,
                     cited : SUBSET DOMAIN evidence]
             D == Seq({"upheld", "overturned"})
  <1>1. /\ resolutions \in Seq(T) /\ dispositions \in Seq(D)
        /\ Len(dispositions) = Len(resolutions) /\ Len(resolutions) \in Nat
        /\ DOMAIN resolutions = 1 .. Len(resolutions)
        /\ DOMAIN dispositions = 1 .. Len(resolutions)
    BY AnswerTables
  <1>2. x \in T /\ x.contract = c /\ x.verdict = verdict /\ x.cited = cited /\ <<>> \in D
    OBVIOUS
  <1>3. /\ resolutions' = Append(resolutions, x) /\ dispositions' = Append(dispositions, <<>>)
        /\ UNCHANGED <<world, contracts, activations, evidence>> /\ Answerable(c)
    BY DEF ResolveOutcome
  <1> HIDE DEF x, T, D
  <1>4. /\ resolutions' \in Seq(T) /\ Len(resolutions') = n /\ DOMAIN resolutions' = 1 .. n
        /\ resolutions'[n] = x /\ \A r \in DOMAIN resolutions : resolutions'[r] = resolutions[r]
    BY <1>1, <1>2, <1>3, Appended
  <1>5. /\ dispositions' \in Seq(D) /\ Len(dispositions') = n /\ dispositions'[n] = <<>>
        /\ \A r \in DOMAIN dispositions : dispositions'[r] = dispositions[r]
    BY <1>1, <1>2, <1>3, Appended
  <1>6. n \in Nat
    BY <1>1
  <1> QED
    BY <1>1, <1>2, <1>3, <1>4, <1>5, <1>6 DEF x, T, D

\* A measurement that backs a verdict was made in time and says that verdict.
LEMMA BackedInTime ==
    ASSUME IInv, NEW c \in DOMAIN contracts, NEW verdict \in Verdicts,
           NEW cited \in SUBSET DOMAIN evidence, ResolveOutcome(c, verdict, cited)
    PROVE  /\ verdict # "indeterminate" =>
                 \A e \in cited : evidence[e].at >= contracts[c].openedAt /\ evidence[e].says = verdict
           /\ verdict = "satisfied" =>
                 \E e \in cited : evidence[e].at >= contracts[c].declaration.checkAt
  <1>1. verdict # "indeterminate" => MeasurementBacks(c, cited, verdict)
    BY DEF ResolveOutcome
  <1>2. verdict # "indeterminate" => Backs(cited, c, verdict)
    BY <1>1 DEF MeasurementBacks
  <1>3. verdict # "indeterminate" =>
           \A e \in cited : ReceiptBacks(e, c, verdict) \/ AttestationBacks(e, c, verdict)
    BY <1>2 DEF Backs
  <1>4. \A e \in cited : ReceiptBacks(e, c, verdict) \/ AttestationBacks(e, c, verdict) =>
           evidence[e].at >= contracts[c].openedAt /\ evidence[e].says = verdict
    BY DEF ReceiptBacks, AttestationBacks, Says, ObservedIn
  <1> QED
    BY <1>1, <1>3, <1>4 DEF MeasurementBacks, Pinned

\* An answer is given: the ones before it are overturned.
LEMMA ResolveOutcomeInv ==
    ASSUME IInv, NEW c \in DOMAIN contracts, NEW verdict \in Verdicts,
           NEW cited \in SUBSET DOMAIN evidence, ResolveOutcome(c, verdict, cited)
    PROVE  IInv'
  <1> DEFINE n == Len(resolutions) + 1
             x == [contract |-> c, verdict |-> verdict, cited |-> cited]
             T == [contract : DOMAIN contracts, verdict : Verdicts,
                   cited : SUBSET DOMAIN evidence]
             D == Seq({"upheld", "overturned"})
  <1>1. /\ resolutions' \in Seq(T) /\ dispositions' \in Seq(D)
        /\ Len(resolutions') = n /\ Len(dispositions') = n
        /\ DOMAIN resolutions' = 1 .. n /\ n \in Nat
        /\ resolutions'[n] = x /\ dispositions'[n] = <<>>
        /\ x.contract = c /\ x.verdict = verdict /\ x.cited = cited
        /\ \A r \in 1 .. Len(resolutions) :
              resolutions'[r] = resolutions[r] /\ dispositions'[r] = dispositions[r]
        /\ UNCHANGED <<world, contracts, activations, evidence>>
        /\ Answerable(c)
    BY ResolveStep
  <1>2. Len(resolutions) \in Nat /\ DOMAIN resolutions = 1 .. Len(resolutions) /\ TypeOK
    BY AnswerTables DEF IInv
  <1>3. TypeOK'
    <2> HIDE DEF n, x
    <2> QED
      BY <1>1, <1>2 DEF TypeOK, world, config, subjects
  <1> HIDE DEF x
  <1>4. \A r \in 1 .. n : r = n \/ r \in 1 .. Len(resolutions)
    BY <1>2
  <1>5. PromisedIsAccepted'
    BY <1>1 DEF IInv, PromisedIsAccepted, Pinned
  <1>6. FollowedIsOverturned'
    <2> SUFFICES ASSUME NEW r \in 1 .. n, NEW q \in 1 .. n,
                        resolutions'[r].contract = resolutions'[q].contract, r < q
                 PROVE  Disposition(r)' = "overturned"
      BY <1>1 DEF FollowedIsOverturned
    <2>1. r \in 1 .. Len(resolutions)
      BY <1>1, <1>4
    <2>2. Disposition(r)' = Disposition(r)
      BY <1>1, <2>1 DEF Disposition
    <2>3. CASE q = n
      <3>1. r \in ListResolutions(c)
        BY <1>1, <1>2, <2>1, <2>3 DEF ListResolutions
      <3>2. Unanswered(c)
        BY <1>1, OpenIsUnanswered
      <3> QED
        BY <2>2, <3>1, <3>2 DEF Unanswered
    <2>4. CASE q \in 1 .. Len(resolutions)
      BY <1>1, <1>2, <2>1, <2>2, <2>4 DEF IInv, FollowedIsOverturned
    <2> QED
      BY <1>4, <2>3, <2>4
  <1>7. EvidenceInTime'
    <2> SUFFICES ASSUME NEW r \in 1 .. n
                 PROVE  LET y == resolutions'[r]
                            d == contracts[y.contract]
                        IN /\ y.verdict # "indeterminate" =>
                                 \A e \in y.cited : /\ evidence[e].at >= d.openedAt
                                                    /\ evidence[e].says = y.verdict
                           /\ y.verdict = "satisfied" =>
                                 \E e \in y.cited : evidence[e].at >= d.declaration.checkAt
      BY <1>1 DEF EvidenceInTime
    <2>1. CASE r = n
      <3>1. resolutions'[r].contract = c /\ resolutions'[r].verdict = verdict
            /\ resolutions'[r].cited = cited
        BY <1>1, <2>1
      <3>2. /\ verdict # "indeterminate" =>
                  \A e \in cited : /\ evidence[e].at >= contracts[c].openedAt
                                   /\ evidence[e].says = verdict
            /\ verdict = "satisfied" =>
                  \E e \in cited : evidence[e].at >= contracts[c].declaration.checkAt
        BY BackedInTime
      <3> QED
        BY <3>1, <3>2
    <2>2. CASE r \in 1 .. Len(resolutions)
      BY <1>1, <1>2, <2>2 DEF IInv, EvidenceInTime
    <2> QED
      BY <1>4, <2>1, <2>2
  <1> QED
    BY <1>1, <1>3, <1>5, <1>6, <1>7 DEF IInv

\* What a reviewer's word changes: only the latest answer of a contract can be
\* disposed of.
LEMMA DisposeStep ==
    ASSUME IInv, NEW r \in DOMAIN resolutions, NEW verdict \in {"upheld", "overturned"},
           DisposeResolution(r, verdict)
    PROVE  /\ r = Latest(resolutions[r].contract)
           /\ dispositions' \in Seq(Seq({"upheld", "overturned"}))
           /\ Len(dispositions') = Len(resolutions)
           /\ Disposition(r)' = verdict
           /\ \A q \in DOMAIN resolutions : q # r => Disposition(q)' = Disposition(q)
           /\ \A q \in DOMAIN resolutions : q # r => dispositions'[q] = dispositions[q]
           /\ dispositions'[r] # <<>> /\ dispositions'[r][Len(dispositions'[r])] = verdict
           /\ UNCHANGED <<world, contracts, activations, evidence, resolutions>>
  <1> DEFINE D == Seq({"upheld", "overturned"})
             x == Append(dispositions[r], verdict)
             c == resolutions[r].contract
  <1>1. /\ dispositions \in Seq(D) /\ Len(dispositions) = Len(resolutions)
        /\ Len(resolutions) \in Nat
        /\ DOMAIN resolutions = 1 .. Len(resolutions) /\ DOMAIN dispositions = DOMAIN resolutions
    BY AnswerTables
  <1>2. dispositions[r] \in D
    <2> HIDE DEF D
    <2> QED
      BY <1>1
  <1>3. x \in D /\ x # <<>> /\ x[Len(x)] = verdict
    BY <1>2
  <1>4. /\ dispositions' = [dispositions EXCEPT ![r] = x] /\ ~AnsweredAfter(r)
        /\ UNCHANGED <<world, contracts, activations, evidence, resolutions>>
    BY DEF DisposeResolution
  <1> HIDE DEF D, x
  <1>5. dispositions' \in Seq(D) /\ Len(dispositions') = Len(resolutions)
    BY <1>1, <1>3, <1>4
  <1>6. dispositions'[r] = x /\ \A q \in DOMAIN resolutions : q # r => dispositions'[q] = dispositions[q]
    BY <1>1, <1>4
  <1>7. Disposition(r)' = verdict
    BY <1>3, <1>6 DEF Disposition
  <1>8. \A q \in DOMAIN resolutions : q # r => Disposition(q)' = Disposition(q)
    BY <1>6 DEF Disposition
  <1>9. r = Latest(c)
    <2>1. TypeOK /\ r \in ListResolutions(c) /\ r \in Nat
      BY <1>1 DEF IInv, ListResolutions
    <2>2. ASSUME NEW q \in ListResolutions(c) PROVE q <= r
      <3>1. q \in DOMAIN resolutions /\ resolutions[q].contract = c /\ q \in Nat
        BY <2>1, AnswersArePositions DEF ListResolutions
      <3>2. ASSUME r < q PROVE FALSE
        <4>1. Disposition(r) = "overturned"
          BY <3>1, <3>2 DEF IInv, FollowedIsOverturned
        <4>2. AnsweredAfter(r)
          BY <2>1, <3>2, <4>1 DEF AnsweredAfter
        <4> QED
          BY <1>4, <4>2
      <3> QED
        BY <2>1, <3>1, <3>2
    <2> HIDE DEF c
    <2> QED
      BY <2>1, <2>2, LastIsLatest
  <1> QED
    BY <1>3, <1>4, <1>5, <1>6, <1>7, <1>8, <1>9 DEF D

\* An answer is upheld or overturned.
LEMMA DisposeResolutionInv ==
    ASSUME IInv, NEW r \in DOMAIN resolutions, NEW verdict \in {"upheld", "overturned"},
           DisposeResolution(r, verdict)
    PROVE  IInv'
  <1>1. /\ r = Latest(resolutions[r].contract)
        /\ dispositions' \in Seq(Seq({"upheld", "overturned"}))
        /\ Len(dispositions') = Len(resolutions)
        /\ \A q \in DOMAIN resolutions : q # r => Disposition(q)' = Disposition(q)
        /\ UNCHANGED <<world, contracts, activations, evidence, resolutions>>
    BY DisposeStep
  <1>2. TypeOK'
    BY <1>1 DEF IInv, TypeOK, world, config, subjects
  <1>3. PromisedIsAccepted' /\ EvidenceInTime'
    BY <1>1 DEF IInv, PromisedIsAccepted, Pinned, EvidenceInTime
  <1>4. FollowedIsOverturned'
    <2> SUFFICES ASSUME NEW i \in DOMAIN resolutions, NEW q \in DOMAIN resolutions,
                        resolutions[i].contract = resolutions[q].contract, i < q
                 PROVE  Disposition(i)' = "overturned"
      BY <1>1 DEF FollowedIsOverturned
    <2>1. i # r
      <3> SUFFICES ASSUME i = r PROVE FALSE
        OBVIOUS
      <3>1. TypeOK /\ q \in ListResolutions(resolutions[r].contract)
        BY DEF IInv, ListResolutions
      <3>2. q <= r
        BY <1>1, <3>1, LatestIsLast
      <3>3. q \in Nat /\ r \in Nat
        BY AnswerTables
      <3> QED
        BY <3>2, <3>3
    <2>2. Disposition(i)' = Disposition(i)
      BY <1>1, <2>1
    <2> QED
      BY <2>2 DEF IInv, FollowedIsOverturned
  <1> QED
    BY <1>1, <1>2, <1>3, <1>4 DEF IInv

-----------------------------------------------------------------------------
(* The invariant. *)

\* The invariant holds initially.
LEMMA InitInv == Init => IInv
  <1> SUFFICES ASSUME Init PROVE IInv
    OBVIOUS
  <1>1. MaxGuards \in Nat /\ MaxTime \in Nat /\ MaxContracts \in Nat
    BY BoundsAssumption
  <1>2. TypeOK
    BY <1>1 DEF Init, TypeOK, Lives
  <1>3. Len(contracts) <= MaxContracts
    BY <1>1 DEF Init
  <1>4. PromisedIsAccepted /\ FollowedIsOverturned /\ EvidenceInTime
    BY DEF Init, PromisedIsAccepted, FollowedIsOverturned, EvidenceInTime
  <1> QED
    BY <1>2, <1>3, <1>4 DEF IInv

\* Every step preserves it.
LEMMA NextInv == IInv /\ [Next]_vars => IInv'
  <1> SUFFICES ASSUME IInv, [Next]_vars PROVE IInv'
    OBVIOUS
  <1>1. CASE Surroundings
    BY <1>1, MeasurementInv, DisposeAttestationInv, WorldMoves DEF Surroundings
  <1> QED
    BY <1>1, OpenContractInv, WriteInv, LoadForAddInv, ResolveOutcomeInv,
       DisposeResolutionInv, WorldMoves DEF Next

\* The inductive invariant holds in every reachable state.
THEOREM Invariance == Spec => []IInv
  BY InitInv, NextInv, PTL DEF Spec

\* Every table holds rows of its type, and every reference names a row.
THEOREM TypeCorrect == Spec => []TypeOK
  <1>1. IInv => TypeOK
    BY DEF IInv
  <1> QED
    BY <1>1, Invariance, PTL

\* A contract is consumed once, in time, and by an acceptance of the very
\* content it was opened against, whatever the other processes write
\* (evaluate_mutation_guards with record_contract_activations).
THEOREM ContractsConsumedOnce == Spec => []PromisedIsAccepted
  <1>1. IInv => PromisedIsAccepted
    BY DEF IInv
  <1> QED
    BY <1>1, Invariance, PTL

\* One answer of a contract stands at a time, every read of "open" agrees on
\* it, and it rests on what was observed in time.
THEOREM OneAnswerStands == Spec => []AnswersStand
  <1>1. IInv => AnswersStand
    BY ReadsAgree DEF IInv, AnswersStand
  <1> QED
    BY <1>1, Invariance, PTL

-----------------------------------------------------------------------------
(* The contracts are registers of standing answers. *)

Standing == [c \in Names |-> StandingOf(c)]
LastGiven == [c \in Names |-> LastOf(c)]

\* Contracts are named within the bound.
LEMMA ContractNames ==
    ASSUME IInv
    PROVE  DOMAIN contracts \subseteq Names
  <1>1. contracts \in Seq(ContractRows) /\ Len(contracts) <= MaxContracts /\ MaxContracts \in Nat
    BY BoundsAssumption DEF IInv, TypeOK
  <1>2. DOMAIN contracts = 1 .. Len(contracts) /\ Len(contracts) \in Nat
    BY <1>1
  <1> QED
    BY <1>1, <1>2 DEF Names

\* A step that adds no answer and no word on one leaves the registers alone.
LEMMA RegistersKept ==
    ASSUME UNCHANGED answers
    PROVE  Standing' = Standing /\ LastGiven' = LastGiven
  <1>1. resolutions' = resolutions /\ dispositions' = dispositions
    BY DEF answers
  <1>2. \A c \in Names : Latest(c)' = Latest(c)
    BY <1>1 DEF Latest, ListResolutions
  <1>3. \A c \in Names : StandingOf(c)' = StandingOf(c) /\ LastOf(c)' = LastOf(c)
    BY <1>1, <1>2 DEF StandingOf, LastOf, Disposition
  <1> QED
    BY <1>3 DEF Standing, LastGiven

\* An answer answers the register of its contract.
LEMMA ResolveRefines ==
    ASSUME IInv, NEW c \in DOMAIN contracts, NEW verdict \in Verdicts,
           NEW cited \in SUBSET DOMAIN evidence, ResolveOutcome(c, verdict, cited)
    PROVE  c \in Names /\ Register!Answer(c, verdict)
  <1> DEFINE n == Len(resolutions) + 1
             x == [contract |-> c, verdict |-> verdict, cited |-> cited]
  <1>1. /\ DOMAIN resolutions' = 1 .. n /\ n \in Nat
        /\ resolutions'[n] = x /\ dispositions'[n] = <<>>
        /\ x.contract = c /\ x.verdict = verdict
        /\ \A r \in 1 .. Len(resolutions) :
              resolutions'[r] = resolutions[r] /\ dispositions'[r] = dispositions[r]
        /\ Answerable(c)
    BY ResolveStep
  <1>2. /\ Len(resolutions) \in Nat /\ DOMAIN resolutions = 1 .. Len(resolutions) /\ TypeOK
        /\ c \in Names
    BY AnswerTables, ContractNames DEF IInv
  <1> HIDE DEF x
  <1>3. \A r : r \in 1 .. n <=> r = n \/ r \in 1 .. Len(resolutions)
    BY <1>2
  <1>4. n \notin 1 .. Len(resolutions) /\ n # 0
    BY <1>2
  <1>5. Latest(c)' = n
    <2> DEFINE S == ListResolutions(c)'
    <2>1. S \in SUBSET Nat /\ n \in S /\ \A q \in S : n >= q
      <3>1. S \in SUBSET (1 .. n) /\ n \in S
        BY <1>1 DEF ListResolutions
      <3>2. \A q \in 1 .. n : q \in Nat /\ n >= q
        BY <1>1
      <3> HIDE DEF S
      <3> QED
        BY <3>1, <3>2
    <2>2. Latest(c)' = IF S = {} THEN 0 ELSE Max(S)
      BY DEF Latest
    <2> HIDE DEF S, n
    <2>3. Max(S) = n
      BY <2>1, LatestIs DEF Max
    <2> QED
      BY <2>1, <2>2, <2>3
  <1> HIDE DEF n
  <1>6. ASSUME NEW d \in Names, d # c
        PROVE  StandingOf(d)' = StandingOf(d) /\ LastOf(d)' = LastOf(d)
    <2>1. ListResolutions(d)' = ListResolutions(d)
      <3>1. \A r : r \in ListResolutions(d)' <=> r \in ListResolutions(d)
        BY <1>1, <1>2, <1>3, <1>4, <1>6 DEF ListResolutions
      <3> QED
        BY <3>1, SetExtensionality DEF ListResolutions
    <2>2. Latest(d)' = Latest(d)
      BY <2>1 DEF Latest
    <2>3. Latest(d) # 0 => Latest(d) \in 1 .. Len(resolutions)
      BY <1>2, LatestIsLast, NoLatest
    <2>4. Latest(d) # 0 => /\ resolutions'[Latest(d)] = resolutions[Latest(d)]
                           /\ dispositions'[Latest(d)] = dispositions[Latest(d)]
      BY <1>1, <2>3
    <2> QED
      BY <2>2, <2>4 DEF StandingOf, LastOf, Disposition
  <1>7. StandingOf(c) = None
    BY <1>1 DEF Answerable, StandingOf
  <1>8. StandingOf(c)' = verdict /\ LastOf(c)' = verdict
    BY <1>1, <1>4, <1>5, NoneAssumption DEF StandingOf, LastOf, Disposition
  <1>9. Standing' = [Standing EXCEPT ![c] = verdict]
    BY <1>2, <1>6, <1>8 DEF Standing
  <1>10. LastGiven' = [LastGiven EXCEPT ![c] = verdict]
    BY <1>2, <1>6, <1>8 DEF LastGiven
  <1>11. Standing[c] = None
    BY <1>2, <1>7 DEF Standing
  <1> QED
    BY <1>2, <1>9, <1>10, <1>11 DEF Register!Answer, Standing, LastGiven

\* A reviewer's word overturns the standing answer, reinstates the last one,
\* or changes neither.
LEMMA DisposeRefines ==
    ASSUME IInv, NEW r \in DOMAIN resolutions, NEW verdict \in {"upheld", "overturned"},
           DisposeResolution(r, verdict)
    PROVE  \/ Standing' = Standing /\ LastGiven' = LastGiven
           \/ \E c \in Names : Register!Overturn(c) \/ Register!Reinstate(c)
  <1>0. PICK c : c = resolutions[r].contract
    OBVIOUS
  <1>1. /\ r = Latest(c)
        /\ \A q \in DOMAIN resolutions : q # r => dispositions'[q] = dispositions[q]
        /\ dispositions'[r] # <<>> /\ dispositions'[r][Len(dispositions'[r])] = verdict
        /\ resolutions' = resolutions
    BY <1>0, DisposeStep
  <1>2. /\ TypeOK /\ c \in Names /\ r # 0 /\ resolutions[r].verdict \in Verdicts
        /\ Len(resolutions) \in Nat /\ DOMAIN resolutions = 1 .. Len(resolutions)
    BY <1>0, References, ContractNames, AnswerTables DEF IInv
  <1>3. \A d : Latest(d)' = Latest(d)
    BY <1>1 DEF Latest, ListResolutions
  <1>4. ASSUME NEW d \in Names PROVE LastOf(d)' = LastOf(d)
    BY <1>1, <1>3 DEF LastOf
  <1>5. LastGiven' = LastGiven
    BY <1>4 DEF LastGiven
  <1>6. ASSUME NEW d \in Names, d # c PROVE StandingOf(d)' = StandingOf(d)
    <2>1. Latest(d) # 0 => /\ Latest(d) \in DOMAIN resolutions
                           /\ resolutions[Latest(d)].contract = d
      BY <1>2, LatestIsLast, NoLatest
    <2>2. Latest(d) # 0 => dispositions'[Latest(d)] = dispositions[Latest(d)]
      BY <1>0, <1>1, <1>6, <2>1
    <2> QED
      BY <1>1, <1>3, <2>2 DEF StandingOf, Disposition
  <1>7. verdict = "overturned" => StandingOf(c)' = None
    BY <1>1, <1>2, <1>3 DEF StandingOf, Disposition
  <1>8. verdict = "upheld" => StandingOf(c)' = resolutions[r].verdict
    BY <1>1, <1>2, <1>3 DEF StandingOf, Disposition
  <1>9. /\ LastOf(c) = resolutions[r].verdict /\ LastOf(c) # None
        /\ StandingOf(c) = None \/ StandingOf(c) = resolutions[r].verdict
    BY <1>1, <1>2, NoneAssumption DEF LastOf, StandingOf
  <1>10. Standing[c] = StandingOf(c) /\ LastGiven[c] = LastOf(c)
    BY <1>2 DEF Standing, LastGiven
  <1>11. ASSUME NEW v, StandingOf(c)' = v PROVE Standing' = [Standing EXCEPT ![c] = v]
    BY <1>2, <1>6, <1>11 DEF Standing
  <1>12. StandingOf(c)' = StandingOf(c) => Standing' = Standing
    BY <1>2, <1>6 DEF Standing
  <1>13. CASE StandingOf(c) # None /\ StandingOf(c)' = None
    <2>1. Register!Overturn(c)
      BY <1>5, <1>10, <1>11, <1>13 DEF Register!Overturn, Standing, LastGiven
    <2> QED
      BY <1>2, <2>1
  <1>14. CASE StandingOf(c) = None /\ StandingOf(c)' = LastOf(c)
    <2>1. Register!Reinstate(c)
      BY <1>5, <1>9, <1>10, <1>11, <1>14 DEF Register!Reinstate, Standing, LastGiven
    <2> QED
      BY <1>2, <2>1
  <1> QED
    BY <1>5, <1>7, <1>8, <1>9, <1>12, <1>13, <1>14

\* Every step is a step of the registers or leaves them alone.
LEMMA StepRefines ==
    IInv /\ [Next]_vars => [Register!Next]_<<Standing, LastGiven>>
  <1> SUFFICES ASSUME IInv, [Next]_vars PROVE [Register!Next]_<<Standing, LastGiven>>
    OBVIOUS
  <1>1. ASSUME UNCHANGED answers PROVE [Register!Next]_<<Standing, LastGiven>>
    BY <1>1, RegistersKept
  <1>2. ASSUME NEW c \in DOMAIN contracts, NEW verdict \in Verdicts,
               NEW cited \in SUBSET DOMAIN evidence, ResolveOutcome(c, verdict, cited)
        PROVE  Register!Next
    BY <1>2, ResolveRefines DEF Register!Next
  <1>3. ASSUME NEW r \in DOMAIN resolutions, NEW verdict \in {"upheld", "overturned"},
               DisposeResolution(r, verdict)
        PROVE  [Register!Next]_<<Standing, LastGiven>>
    BY <1>3, DisposeRefines DEF Register!Next
  <1>4. Write => UNCHANGED answers
    BY DEF Write, BatchWrite, AddEntity, CommitWrite
  <1>5. Surroundings => UNCHANGED answers
    BY DEF Surroundings, RunQuery, Attest, Evidence, DisposeAttestation, ReloadConfig,
       Settle, WriteClaim, Tick
  <1>6. UNCHANGED vars => UNCHANGED answers
    BY DEF vars
  <1>7. ASSUME NEW s, NEW kind, NEW clock, OpenContract(s, kind, clock) PROVE UNCHANGED answers
    BY <1>7 DEF OpenContract
  <1>8. ASSUME NEW p, LoadForAdd(p) \/ AbandonAdd(p) PROVE UNCHANGED answers
    BY <1>8 DEF LoadForAdd, AbandonAdd
  <1> QED
    BY <1>1, <1>2, <1>3, <1>4, <1>5, <1>6, <1>7, <1>8 DEF Next

\* Initially no register holds an answer.
LEMMA RegisterInit == Init => Register!Init
  <1> SUFFICES ASSUME Init PROVE Register!Init
    OBVIOUS
  <1>1. \A c : Latest(c) = 0
    BY DEF Init, Latest, ListResolutions
  <1>2. \A c \in Names : StandingOf(c) = None /\ LastOf(c) = None
    BY <1>1 DEF StandingOf, LastOf
  <1> QED
    BY <1>2 DEF Register!Init

\* The answers of outcome contracts implement the registers: an answer is given
\* when none stands, withdrawn by a reviewer, and only the one given last is
\* ever put back.
THEOREM Refinement == Spec => ImplementsRegister
  BY Invariance, RegisterInit, StepRefines, PTL
    DEF Spec, ImplementsRegister, Register!Spec, Register!vars, Standing, LastGiven

-----------------------------------------------------------------------------
(* One process: what add_entity loaded is what is stored when it writes. *)

\* No two processes work on the instance.
Solo == \A p, q \in Processes : p = q

\* The rows and the guards that a pending add_entity compares are the stored ones.
ViewFresh ==
    \A p \in Processes : view[p] # None => view[p].rows = entities /\ view[p].guards = guards

SoloInv == IInv /\ ViewFresh

\* Contracts are consumed one per guard, by acceptances only.
ConsumedByAcceptance ==
    /\ \A s \in Subjects :
          /\ entities'[s] # None /\ entities'[s].status \in Guarded
          /\ entities[s] = None \/ entities[s].status # entities'[s].status
          /\ entities'[s].tracking # "not_applicable"
          => Cardinality({a \in activations' \ activations :
                              contracts[a.contract].subject = s}) = guards
    /\ \A a \in activations' \ activations :
          LET s == contracts[a.contract].subject
          IN entities[s] # entities'[s] /\ entities'[s] = a.accepted

\* A process that has loaded nothing is alone: nobody has.
LEMMA AllIdle ==
    ASSUME Solo, NEW p \in Processes, view[p] = None
    PROVE  \A q \in Processes : view[q] = None
  BY DEF Solo

\* Every step leaves what was loaded fresh.
LEMMA ViewFreshNext ==
    ASSUME Solo, SoloInv, [Next]_vars
    PROVE  ViewFresh'
  <1>1. view \in [Processes -> {None} \cup Views]
    BY DEF SoloInv, IInv, TypeOK
  <1>2. ASSUME UNCHANGED <<view, entities, guards>> PROVE ViewFresh'
    BY <1>2 DEF SoloInv, ViewFresh
  <1>3. ASSUME NEW p \in Processes, view' = [view EXCEPT ![p] = None] PROVE ViewFresh'
    <2>1. \A q \in Processes : view'[q] = None
      BY <1>1, <1>3 DEF Solo
    <2> QED
      BY <2>1 DEF ViewFresh
  <1>4. ASSUME NEW p \in Processes, view[p] = None, UNCHANGED view PROVE ViewFresh'
    BY <1>4, AllIdle DEF ViewFresh
  <1>5. ASSUME NEW p \in Processes, LoadForAdd(p) PROVE ViewFresh'
    <2>1. view' = [view EXCEPT ![p] = [rows |-> entities, life |-> life, guards |-> guards]]
          /\ entities' = entities /\ guards' = guards
      BY <1>5 DEF LoadForAdd, config, subjects
    <2>2. \A q \in Processes : view'[q] = [rows |-> entities, life |-> life, guards |-> guards]
      BY <1>1, <2>1 DEF Solo
    <2> QED
      BY <2>1, <2>2 DEF ViewFresh
  <1>6. CASE Write
    BY <1>3, <1>4, <1>6 DEF Write, BatchWrite, AddEntity
  <1>7. CASE Surroundings
    BY <1>2, <1>4, <1>7 DEF Surroundings, RunQuery, Attest, Evidence, DisposeAttestation,
       ReloadConfig, Settle, WriteClaim, Tick, world, config, subjects
  <1>8. ASSUME NEW p \in Processes, AbandonAdd(p) PROVE ViewFresh'
    BY <1>3, <1>8 DEF AbandonAdd
  <1>9. ASSUME NEW s, NEW kind, NEW clock, OpenContract(s, kind, clock) PROVE ViewFresh'
    BY <1>2, <1>9 DEF OpenContract, world, config, subjects
  <1>10. ASSUME NEW c, NEW verdict, NEW cited, ResolveOutcome(c, verdict, cited) PROVE ViewFresh'
    BY <1>2, <1>10 DEF ResolveOutcome, world, config, subjects
  <1>11. ASSUME NEW r, NEW verdict, DisposeResolution(r, verdict) PROVE ViewFresh'
    BY <1>2, <1>11 DEF DisposeResolution, world, config, subjects
  <1>12. UNCHANGED vars => ViewFresh'
    BY <1>2 DEF vars, world, config, subjects
  <1> QED
    BY <1>5, <1>6, <1>7, <1>8, <1>9, <1>10, <1>11, <1>12 DEF Next

\* A guarded write that compares the stored row under the stored guards.
LEMMA FreshWrite ==
    ASSUME IInv, NEW s \in Subjects, NEW new \in Rows, NEW status,
           CommitWrite(s, entities[s], new, status, guards)
    PROVE  ConsumedByAcceptance
  <1> DEFINE old == entities[s]
             eligible == FindEligible(s, old)
             Act(c) == [contract |-> c, accepted |-> new, at |-> now]
             Fresh == activations' \ activations
  <1>1. PICK consumed \in GuardOutcomes(s, old, new, guards) :
           activations' = activations \cup {Act(c) : c \in consumed}
    BY DEF CommitWrite
  <1>2. /\ entities' = [entities EXCEPT ![s] = new]
        /\ entities \in [Subjects -> Rows \cup {None}]
        /\ contracts \in Seq(ContractRows) /\ guards \in Nat
    BY BoundsAssumption DEF CommitWrite, IInv, TypeOK
  <1>3. entities'[s] = new
    BY <1>2
  <1>4. \A c \in consumed : c \in eligible
    BY ConsumedFit
  <1>5. \A c \in consumed : contracts[c].subject = s /\ ~Activated(c)
    BY <1>4 DEF FindEligible
  <1>6. \A c : Act(c).contract = c /\ Act(c).accepted = new
    OBVIOUS
  <1>7. \A c \in consumed : Act(c) \notin activations
    BY <1>5, <1>6 DEF Activated
  <1> HIDE DEF Act
  <1>8. Fresh = {Act(c) : c \in consumed}
    BY <1>1, <1>7
  <1>9. \A a \in Fresh : contracts[a.contract].subject = s /\ a.accepted = new
    BY <1>5, <1>6, <1>8
  <1>11. Fresh # {} => old # new
    <2>1. Fresh # {} => \E c : c \in consumed
      BY <1>8
    <2>2. ASSUME ~Transition(old, new) PROVE consumed = {}
      BY <2>2 DEF GuardOutcomes
    <2>3. ASSUME Transition(old, new) PROVE old # new
      BY <2>3, NoneAssumption DEF Transition
    <2> QED
      BY <2>1, <2>2, <2>3
  <1>10. ASSUME NEW t \in Subjects,
                entities'[t] # None, entities'[t].status \in Guarded,
                entities[t] = None \/ entities[t].status # entities'[t].status,
                entities'[t].tracking # "not_applicable"
         PROVE  Cardinality({a \in Fresh : contracts[a.contract].subject = t}) = guards
    <2>1. t = s
      BY <1>2, <1>10
    <2>2. Transition(old, new) /\ InScope(new)
      BY <1>3, <1>10, <2>1 DEF Transition, InScope
    <2>3. {a \in Fresh : contracts[a.contract].subject = t} = Fresh
      BY <1>9, <2>1
    <2>4. Cardinality(consumed) = guards /\ IsFiniteSet(consumed)
      <3>1. CASE guards = 0
        <4>1. consumed = {}
          BY <3>1 DEF GuardOutcomes
        <4> QED
          BY <3>1, <4>1, FS_EmptySet
      <3>2. CASE guards # 0
        <4>1. consumed = Oldest(eligible, guards) /\ Cardinality(eligible) >= guards
          BY <2>2, <3>2 DEF GuardOutcomes
        <4>2. Len(contracts) \in Nat /\ eligible \in SUBSET (1 .. Len(contracts))
          BY <1>2 DEF FindEligible
        <4> HIDE DEF eligible
        <4>3. Oldest(eligible, guards) = Earliest(eligible, guards)
          BY DEF Oldest, Earliest, Rank
        <4>4. IsFiniteSet(eligible) /\ Cardinality(eligible) \in Nat
          <5>1. IsFiniteSet(1 .. Len(contracts))
            BY <4>2, FS_Interval
          <5> QED
            BY <4>2, <5>1, FS_Subset, FS_CardinalityType
        <4>5. Cardinality(Earliest(eligible, guards)) = guards
          BY <1>2, <4>1, <4>2, <4>4, EarliestCount
        <4>6. IsFiniteSet(consumed)
          BY <1>4, <4>4, FS_Subset DEF eligible
        <4> QED
          BY <4>1, <4>3, <4>5, <4>6
      <3> QED
        BY <3>1, <3>2
    <2>5. Cardinality(Fresh) = Cardinality(consumed)
      <3> DEFINE f == [c \in consumed |-> Act(c)]
      <3>1. f \in Bijection(consumed, Fresh)
        <4>1. f \in [consumed -> Fresh]
          BY <1>8
        <4>2. \A c, d \in consumed : f[c] = f[d] => c = d
          BY <1>6
        <4>3. \A a \in Fresh : \E c \in consumed : f[c] = a
          BY <1>8
        <4> HIDE DEF f
        <4> QED
          BY <4>1, <4>2, <4>3 DEF Bijection, Injection, Surjection, IsInjective
      <3>2. ExistsBijection(consumed, Fresh)
        BY <3>1 DEF ExistsBijection
      <3> QED
        BY <2>4, <3>2, FS_Bijection
    <2> QED
      BY <2>3, <2>4, <2>5
  <1> QED
    BY <1>3, <1>9, <1>10, <1>11 DEF ConsumedByAcceptance

\* With one process every step accepts with the contracts that the guards demand.
LEMMA StepAccepts ==
    ASSUME Solo, SoloInv, [Next]_vars
    PROVE  ConsumedByAcceptance
  <1>1. ASSUME UNCHANGED <<entities, activations>> PROVE ConsumedByAcceptance
    BY <1>1 DEF ConsumedByAcceptance
  <1>2. CASE Write
    <2>1. PICK p \in Processes, s \in Subjects, new \in Rows :
             BatchWrite(p, s, new) \/ AddEntity(p, s, new)
      BY <1>2 DEF Write
    <2>2. CASE BatchWrite(p, s, new)
      <3>1. PICK status : CommitWrite(s, entities[s], new, status, guards)
        BY <2>2 DEF BatchWrite
      <3> QED
        BY <3>1, FreshWrite DEF SoloInv
    <2>3. CASE AddEntity(p, s, new)
      <3>1. view[p].rows[s] = entities[s] /\ view[p].guards = guards
        BY <2>3 DEF AddEntity, SoloInv, ViewFresh
      <3>2. PICK status : CommitWrite(s, entities[s], new, status, guards)
        BY <2>3, <3>1 DEF AddEntity
      <3> QED
        BY <3>2, FreshWrite DEF SoloInv
    <2> QED
      BY <2>1, <2>2, <2>3
  <1>3. CASE Surroundings
    BY <1>1, <1>3 DEF Surroundings, RunQuery, Attest, Evidence, DisposeAttestation,
       ReloadConfig, Settle, WriteClaim, Tick, world, subjects
  <1>4. ASSUME NEW p, LoadForAdd(p) \/ AbandonAdd(p) PROVE ConsumedByAcceptance
    BY <1>1, <1>4 DEF LoadForAdd, AbandonAdd, subjects
  <1>5. ASSUME NEW s, NEW kind, NEW clock, OpenContract(s, kind, clock)
        PROVE  ConsumedByAcceptance
    BY <1>1, <1>5 DEF OpenContract, world, subjects
  <1>6. ASSUME NEW c, NEW verdict, NEW cited, ResolveOutcome(c, verdict, cited)
        PROVE  ConsumedByAcceptance
    BY <1>1, <1>6 DEF ResolveOutcome, world, subjects
  <1>7. ASSUME NEW r, NEW verdict, DisposeResolution(r, verdict) PROVE ConsumedByAcceptance
    BY <1>1, <1>7 DEF DisposeResolution, world, subjects
  <1>8. UNCHANGED vars => ConsumedByAcceptance
    BY <1>1 DEF vars, world, subjects
  <1> QED
    BY <1>2, <1>3, <1>4, <1>5, <1>6, <1>7, <1>8 DEF Next

\* With one process the inductive invariant holds together with fresh views.
THEOREM SoloInvariance == Solo => (Spec => []SoloInv)
  <1> SUFFICES ASSUME Solo PROVE Spec => []SoloInv
    OBVIOUS
  <1>1. Init => SoloInv
    BY InitInv DEF Init, SoloInv, ViewFresh
  <1>2. SoloInv /\ [Next]_vars => SoloInv'
    BY NextInv, ViewFreshNext DEF SoloInv
  <1> QED
    BY <1>1, <1>2, PTL DEF Spec

\* A subject of an instance with one process enters a guarded status only with
\* one contract consumed per guard of the config, unless it is declared not to
\* be tracked, and no other step consumes one (evaluate_mutation_guards with
\* record_contract_activations).
THEOREM AcceptanceForced == Solo => (Spec => AcceptanceIsForced)
  <1> SUFFICES ASSUME Solo PROVE Spec => AcceptanceIsForced
    OBVIOUS
  <1>1. SoloInv /\ [Next]_vars => [ConsumedByAcceptance]_vars
    BY StepAccepts
  <1> QED
    BY <1>1, SoloInvariance, PTL DEF Spec, AcceptanceIsForced, ConsumedByAcceptance

=============================================================================
