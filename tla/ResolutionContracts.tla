------------------------ MODULE ResolutionContracts ------------------------
(***************************************************************************)
(* Outcome contracts: opened against a subject's content, consumed by the  *)
(* guarded write that accepts the subject, answered with evidence, and     *)
(* upheld or overturned by a reviewer.                                     *)
(*                                                                         *)
(* Opening, answering and disposing are one transaction each.  A guarded   *)
(* write is one transaction in batch_direct_write and in a workflow apply; *)
(* add_entity reads the graph before its transaction, so there the row     *)
(* that the guard compares may be older than the stored one.               *)
(*                                                                         *)
(* A contract, a piece of evidence and a resolution are named by their     *)
(* positions in their tables.                                              *)
(***************************************************************************)
EXTENDS Integers, Sequences, FiniteSets, FiniteSetsExt

CONSTANTS
    Processes, Subjects, Contents, None,
    Definitions,              \* of the measurement query
    ClaimContents,            \* of the claim that attestations are about
    Statuses, Guarded,        \* lifecycle values; the ones that guards demand a contract for
    Trackings,                \* values of the property that scopes the guards
    MaxGuards,                \* outcome guards a config may declare on the type
    Clocks,                   \* the pairs <<check_at, expires_at>> that are declared
    MaxContracts, MaxEvidence, MaxResolutions, MaxDispositions, MaxTime  \* bounds

Kinds == {"query", "attestation"}
Verdicts == {"satisfied", "contradicted", "indeterminate"}

\* A subject's row.  Its content digest covers every property, hence all of it.
Rows == [content : Contents, status : Statuses, tracking : Trackings]

ASSUME TrackingAssumption == Trackings \subseteq {"required", "not_applicable", "unset"}
ASSUME GuardedAssumption == Guarded \subseteq Statuses
ASSUME NoneAssumption ==
    None \notin Rows \cup ClaimContents \cup Definitions \cup Verdicts
                  \cup {"upheld", "overturned"}
\* ContractDeclaration.validate_clock
ASSUME ClocksAssumption ==
    \A k \in Clocks : k \in (0 .. MaxTime) \X (1 .. MaxTime + 1) /\ k[1] < k[2]
ASSUME BoundsAssumption ==
    {MaxGuards, MaxContracts, MaxEvidence, MaxResolutions, MaxDispositions, MaxTime}
        \subseteq Nat

VARIABLES
    entities,     \* [subject -> its row, or None]
    life,         \* [subject -> its lifecycle status, which its content does not cover]
    view,         \* [process -> the rows and guards that add_entity has loaded, or None]
    guards,       \* config: outcome guards on the type (0: the type is not covered)
    query,        \* config: the definition of the measurement query, or None
    claim,        \* the content of the claim
    now,
    contracts, activations, evidence, resolutions,
    dispositions  \* [resolution -> the verdicts on it, oldest first]

config == <<guards, query>>
subjects == <<entities, life>>
world == <<subjects, view, config, claim, now>>
answers == <<resolutions, dispositions>>
vars == <<world, contracts, activations, evidence, answers>>

----------------------------------------------------------------------------
(* Stores. *)

Pinned(c) == contracts[c].declaration
Activated(c) == \E a \in activations : a.contract = c

\* find_eligible_contracts: unexpired, never activated, pinned to this content.
FindEligible(s, row) ==
    {c \in DOMAIN contracts :
        /\ contracts[c].subject = s
        /\ contracts[c].digest = row
        /\ Pinned(c).expiresAt > now
        /\ ~Activated(c)}

ListResolutions(c) == {r \in DOMAIN resolutions : resolutions[r].contract = c}

\* The highest sequence of a contract's resolutions; 0 when it has none.
Latest(c) == IF ListResolutions(c) = {} THEN 0 ELSE Max(ListResolutions(c))

\* get_dispositions: the verdict with the highest sequence stands.
Disposition(r) ==
    IF dispositions[r] = <<>> THEN None ELSE dispositions[r][Len(dispositions[r])]

----------------------------------------------------------------------------
(* service_open_resolution_contract *)

\* _outcome_guard_covers: some guard of the config would consume the contract.
Covered == guards > 0

\* _build_declaration pins the measurement as the config has it now.
Declaration(kind, clock) ==
    [kind |-> kind, definition |-> IF kind = "query" THEN query ELSE None,
     checkAt |-> clock[1], expiresAt |-> clock[2]]

\* An idempotency key that was used before returns the original contract, or
\* is refused where the declaration differs; neither writes.
OpenContract(s, kind, clock) ==
    /\ Len(contracts) < MaxContracts
    /\ entities[s] # None
    /\ kind = "query" => query # None
    /\ Covered
    /\ contracts' = Append(contracts,
          [subject |-> s, digest |-> entities[s], openedAt |-> now,
           declaration |-> Declaration(kind, clock)])
    /\ UNCHANGED <<world, activations, evidence, answers>>

----------------------------------------------------------------------------
(* Guarded writes of a subject. *)

\* _guard_transition_context: the write moves the property to a guarded value.
Transition(old, new) ==
    new.status \in Guarded /\ (old = None \/ old.status # new.status)

\* The guard's where clause, which fails closed on a property that is not set.
InScope(row) == row.tracking # "not_applicable"

\* Mutant: the content binding is dropped.
AnyEdit(old, new) == TRUE

\* With the guarded value put back the row is the one the contract pinned.
OnlyTransition(old, new) == [new EXCEPT !.status = old.status] = old

\* Mutant: every guard that fires takes the oldest eligible contract.
OldestOnly(eligible, n) == {Min(eligible)}

\* One contract per guard, the oldest first.
Oldest(eligible, n) == {c \in eligible : Cardinality({d \in eligible : d < c}) < n}

\* evaluate_mutation_guards: the sets of contracts that a permitted write
\* activates.  None is permitted where the set of these sets is empty.
GuardOutcomes(s, old, new, n) ==
    LET eligible == FindEligible(s, old)
    IN IF ~Transition(old, new) \/ ~InScope(new) \/ n = 0 THEN {{}}
       ELSE IF /\ new.tracking # "unset" /\ old # None
               /\ OnlyTransition(old, new)
               /\ Cardinality(eligible) >= n
            THEN {Oldest(eligible, n)}
            ELSE {}

\* A write keeps the lifecycle it found, or declares the subject live.
LifeAfter(status) == {status} \cup (IF status = "superseded" THEN {"live"} ELSE {})

\* record_contract_activations and the row, in one transaction.
CommitWrite(s, old, new, status, n) ==
    /\ \E consumed \in GuardOutcomes(s, old, new, n) :
          activations' = activations \cup
              {[contract |-> c, accepted |-> new, at |-> now] : c \in consumed}
    /\ entities' = [entities EXCEPT ![s] = new]
    /\ life' = [life EXCEPT ![s] = status]
    /\ UNCHANGED <<config, claim, now, contracts, evidence, answers>>

\* batch_direct_write, and the entity steps of a workflow apply, which alone
\* writes a retired subject.
BatchWrite(p, s, new) ==
    /\ view[p] = None
    /\ \E status \in LifeAfter(life[s]) :
          /\ entities[s] # new \/ life[s] # status
          /\ CommitWrite(s, entities[s], new, status, guards)
    /\ UNCHANGED view

\* add_entity loads the config and the graph, ...
LoadForAdd(p) ==
    /\ view[p] = None
    /\ view' = [view EXCEPT ![p] = [rows |-> entities, life |-> life, guards |-> guards]]
    /\ UNCHANGED <<subjects, config, claim, now, contracts, activations, evidence, answers>>

\* ... and later evaluates and writes what it made of the row it saw, its
\* lifecycle included; a retired subject is refused.
AddEntity(p, s, new) ==
    /\ view[p] # None
    /\ view[p].life[s] # "retired"
    /\ \E status \in LifeAfter(view[p].life[s]) :
          /\ view[p].rows[s] # new \/ view[p].life[s] # status
          /\ CommitWrite(s, view[p].rows[s], new, status, view[p].guards)
    /\ view' = [view EXCEPT ![p] = None]

\* Refused, rolled back, or the process died.
AbandonAdd(p) ==
    /\ view[p] # None
    /\ view' = [view EXCEPT ![p] = None]
    /\ UNCHANGED <<subjects, config, claim, now, contracts, activations, evidence, answers>>

----------------------------------------------------------------------------
(* The surroundings: lifecycles, evidence, the claim, the config, the clock. *)

\* service_supersede_entity and service_retire_entity
Settle(p, s, status) ==
    /\ view[p] = None
    /\ entities[s] # None
    /\ life[s] = "live"
    /\ life' = [life EXCEPT ![s] = status]
    /\ UNCHANGED <<entities, view, config, claim, now, contracts, activations, evidence, answers>>

Evidence(e) ==
    /\ Len(evidence) < MaxEvidence
    /\ evidence' = Append(evidence, e)
    /\ UNCHANGED <<world, contracts, activations, answers>>

\* A run of the measurement query leaves a receipt: what the expectation makes
\* of its rows, and whether the result was complete.
RunQuery(says, complete) ==
    /\ query # None
    /\ Evidence([kind |-> "query", basis |-> query, at |-> now,
                 says |-> says, usable |-> complete])

\* service_attest on the claim, observed now or earlier.
Attest(says, at) ==
    Evidence([kind |-> "attestation", basis |-> claim, at |-> at,
              says |-> says, usable |-> TRUE])

\* A reviewer's "invalidated" on an attestation, or a later word that lifts it.
DisposeAttestation(e) ==
    /\ evidence[e].kind = "attestation"
    /\ evidence' = [evidence EXCEPT ![e].usable = ~@]
    /\ UNCHANGED <<world, contracts, activations, answers>>

WriteClaim ==
    /\ claim' \in ClaimContents \ {claim}
    /\ UNCHANGED <<subjects, view, config, now, contracts, activations, evidence, answers>>

ReloadConfig(p) ==
    /\ view[p] = None
    /\ guards' \in 0 .. MaxGuards
    /\ query' \in Definitions \cup {None}
    /\ config' # config
    /\ UNCHANGED <<subjects, view, claim, now, contracts, activations, evidence, answers>>

Tick ==
    /\ now < MaxTime
    /\ now' = now + 1
    /\ UNCHANGED <<subjects, view, config, claim, contracts, activations, evidence, answers>>

----------------------------------------------------------------------------
(* service_resolve_outcome *)

\* Mutant: an answer that was upheld may be answered again.
AnswerableAfterReview(c) == Latest(c) # 0 => dispositions[Latest(c)] # <<>>

\* _next_resolution_sequence refuses unless there is no answer or the latest
\* one is overturned.
Answerable(c) == Latest(c) # 0 => Disposition(Latest(c)) = "overturned"

\* The query is no longer the one that was pinned.
Drifted(c) == Pinned(c).kind = "query" /\ Pinned(c).definition # query

\* What the expectation makes of the evidence, and when it was observed.
Says(e, verdict) == evidence[e].says = verdict
ObservedIn(e, c) == evidence[e].at >= contracts[c].openedAt

\* _validate_query_measurement: a complete run, with the pinned options.
ReceiptBacks(e, c, verdict) ==
    evidence[e].kind = "query" /\ evidence[e].usable /\ Says(e, verdict) /\ ObservedIn(e, c)

\* _validate_attestation_measurement: not invalidated, and the claim is as it was.
AttestationBacks(e, c, verdict) ==
    /\ evidence[e].kind = "attestation" /\ evidence[e].usable
    /\ evidence[e].basis = claim
    /\ Says(e, verdict) /\ ObservedIn(e, c)

Backs(cited, c, verdict) ==
    IF Pinned(c).kind = "query"
    THEN Cardinality(cited) = 1 /\ \A e \in cited : ReceiptBacks(e, c, verdict)
    ELSE cited # {} /\ \A e \in cited : AttestationBacks(e, c, verdict)

\* Mutant: the caller's own observed_at settles the clock.
TrustCaller(c, cited, verdict) == Backs(cited, c, verdict)

\* _validate_measurement_evidence
MeasurementBacks(c, cited, verdict) ==
    /\ Backs(cited, c, verdict)
    /\ verdict = "satisfied" => \E e \in cited : evidence[e].at >= Pinned(c).checkAt

\* An indeterminate answer needs no evidence, and is all that drift leaves.
ResolveOutcome(c, verdict, cited) ==
    /\ Len(resolutions) < MaxResolutions
    /\ Activated(c)
    /\ Answerable(c)
    /\ \E observed \in 0 .. now : verdict = "satisfied" => observed >= Pinned(c).checkAt
    /\ \/ verdict = "indeterminate" /\ cited = {}
       \/ /\ verdict # "indeterminate"
          /\ ~Drifted(c)
          /\ MeasurementBacks(c, cited, verdict)
    /\ resolutions' = Append(resolutions,
          [contract |-> c, verdict |-> verdict, cited |-> cited])
    /\ dispositions' = Append(dispositions, <<>>)
    /\ UNCHANGED <<world, contracts, activations, evidence>>

----------------------------------------------------------------------------
(* service_dispose_resolution *)

\* _resolution_answered_after
AnsweredAfter(r) ==
    Disposition(r) = "overturned" /\ \E q \in ListResolutions(resolutions[r].contract) : q > r

DisposeResolution(r, verdict) ==
    /\ Len(dispositions[r]) < MaxDispositions
    /\ ~AnsweredAfter(r)
    /\ dispositions' = [dispositions EXCEPT ![r] = Append(@, verdict)]
    /\ UNCHANGED <<world, contracts, activations, evidence, resolutions>>

----------------------------------------------------------------------------
(* The attention queues and the list. *)

\* list_activated_unresolved: every resolution is overturned.
Unanswered(c) == \A r \in ListResolutions(c) : Disposition(r) = "overturned"

\* _subject_is_live, with the effective window open.
SubjectIsLive(c) ==
    LET s == contracts[c].subject IN entities[s] # None /\ life[s] = "live"

DueQueue ==
    {c \in DOMAIN contracts :
        Activated(c) /\ Pinned(c).checkAt <= now /\ Unanswered(c) /\ SubjectIsLive(c)}

\* list_undisposed_contradictions
ContradictedQueue ==
    {r \in DOMAIN resolutions :
        /\ resolutions[r].verdict = "contradicted" /\ dispositions[r] = <<>>
        /\ SubjectIsLive(resolutions[r].contract)}

\* The status that _build_list_items derives from the latest resolution.
Status(c) ==
    IF ~Activated(c) THEN "prepared"
    ELSE IF Latest(c) # 0 /\ Disposition(Latest(c)) # "overturned" THEN "resolved"
    ELSE "open"

----------------------------------------------------------------------------
Init ==
    /\ entities \in [Subjects -> {None} \cup {r \in Rows : r.status \notin Guarded}]
    /\ life = [s \in Subjects |-> "live"]
    /\ view = [p \in Processes |-> None]
    /\ guards = MaxGuards
    /\ query \in Definitions
    /\ claim \in ClaimContents
    /\ now = 0
    /\ contracts = <<>> /\ activations = {} /\ evidence = <<>>
    /\ resolutions = <<>> /\ dispositions = <<>>

Write ==
    \E p \in Processes, s \in Subjects, new \in Rows :
        BatchWrite(p, s, new) \/ AddEntity(p, s, new)

Surroundings ==
    \/ \E says \in {"satisfied", "contradicted"}, complete \in BOOLEAN : RunQuery(says, complete)
    \/ \E says \in {"satisfied", "contradicted", "unsure"}, at \in 0 .. now : Attest(says, at)
    \/ \E e \in DOMAIN evidence : DisposeAttestation(e)
    \/ \E p \in Processes : ReloadConfig(p)
    \/ \E p \in Processes, s \in Subjects, status \in {"superseded", "retired"} :
          Settle(p, s, status)
    \/ WriteClaim \/ Tick

Next ==
    \/ \E s \in Subjects, kind \in Kinds, clock \in Clocks :
          OpenContract(s, kind, clock)
    \/ Write
    \/ \E p \in Processes : LoadForAdd(p) \/ AbandonAdd(p)
    \/ \E c \in DOMAIN contracts, verdict \in Verdicts, cited \in SUBSET DOMAIN evidence :
          ResolveOutcome(c, verdict, cited)
    \/ \E r \in DOMAIN resolutions, verdict \in {"upheld", "overturned"} :
          DisposeResolution(r, verdict)
    \/ Surroundings

Spec == Init /\ [][Next]_vars

----------------------------------------------------------------------------
(* Properties. *)

ContractRows ==
    [subject : Subjects, digest : Rows, openedAt : 0 .. MaxTime,
     declaration : [kind : Kinds, definition : Definitions \cup {None},
                    checkAt : 0 .. MaxTime, expiresAt : 1 .. MaxTime + 1]]
EvidenceRows ==
    [kind : Kinds, basis : Definitions \cup ClaimContents, at : 0 .. MaxTime,
     says : Verdicts \cup {"unsure"}, usable : BOOLEAN]

Lives == [Subjects -> {"live", "superseded", "retired"}]
Views == [rows : [Subjects -> Rows \cup {None}], life : Lives, guards : 0 .. MaxGuards]

\* Every table holds rows of its type, and every reference names a row.
TypeOK ==
    /\ entities \in [Subjects -> Rows \cup {None}]
    /\ life \in Lives
    /\ view \in [Processes -> {None} \cup Views]
    /\ guards \in 0 .. MaxGuards /\ query \in Definitions \cup {None}
    /\ claim \in ClaimContents /\ now \in 0 .. MaxTime
    /\ contracts \in Seq(ContractRows)
    /\ activations \subseteq [contract : DOMAIN contracts, accepted : Rows, at : 0 .. MaxTime]
    /\ evidence \in Seq(EvidenceRows)
    /\ resolutions \in Seq([contract : DOMAIN contracts, verdict : Verdicts,
                            cited : SUBSET DOMAIN evidence])
    /\ dispositions \in Seq(Seq({"upheld", "overturned"}))
    /\ Len(dispositions) = Len(resolutions)

\* A contract is consumed once, before it expires, and by an acceptance of the
\* very content it was opened against.
PromisedIsAccepted ==
    \A a \in activations :
        /\ \A b \in activations : b.contract = a.contract => b = a
        /\ a.at < Pinned(a.contract).expiresAt
        /\ a.accepted.status \in Guarded /\ a.accepted.tracking = "required"
        /\ [a.accepted EXCEPT !.status = contracts[a.contract].digest.status]
               = contracts[a.contract].digest

\* A subject enters a guarded status only with one contract consumed per guard
\* of the config, unless it is declared not to be tracked; and no other step
\* consumes a contract.
AcceptanceIsForced ==
    [][/\ \A s \in Subjects :
             /\ entities'[s] # None /\ entities'[s].status \in Guarded
             /\ entities[s] = None \/ entities[s].status # entities'[s].status
             /\ entities'[s].tracking # "not_applicable"
             => Cardinality({a \in activations' \ activations :
                                 contracts[a.contract].subject = s}) = guards
       /\ \A a \in activations' \ activations :
             LET s == contracts[a.contract].subject
             IN entities[s] # entities'[s] /\ entities'[s] = a.accepted]_vars

\* One answer of a contract stands at a time, the latest, and the reads of "open"
\* agree on it: the listed status, what resolve accepts, the queue of contradictions
\* and the queue of due contracts, which for a live subject is all of the open ones
\* whose time has come and for any other subject none.
OneStandingAnswer ==
    /\ \A r, q \in DOMAIN resolutions :
          resolutions[r].contract = resolutions[q].contract /\ r < q =>
              Disposition(r) = "overturned"
    /\ \A c \in DOMAIN contracts :
          /\ Status(c) = "open" <=> Activated(c) /\ Answerable(c)
          /\ c \in DueQueue <=>
                Status(c) = "open" /\ Pinned(c).checkAt <= now /\ SubjectIsLive(c)
    /\ \A r \in ContradictedQueue :
          /\ r = Latest(resolutions[r].contract)
          /\ SubjectIsLive(resolutions[r].contract)

\* A satisfied answer rests on an observation that was made after the contract
\* was opened and at or after its check time.
EvidenceInTime ==
    \A r \in DOMAIN resolutions :
        LET x == resolutions[r]
            c == contracts[x.contract]
        IN /\ x.verdict # "indeterminate" =>
                 \A e \in x.cited : evidence[e].at >= c.openedAt /\ evidence[e].says = x.verdict
           /\ x.verdict = "satisfied" => \E e \in x.cited : evidence[e].at >= c.declaration.checkAt

\* The answer of a contract is one answer, in every read of it, and rests on what
\* was observed in time (service/resolution_contracts.py).
AnswersStand == OneStandingAnswer /\ EvidenceInTime

\* The contracts are registers of standing answers.
Names == 1 .. MaxContracts
StandingOf(c) ==
    IF Latest(c) = 0 \/ Disposition(Latest(c)) = "overturned" THEN None
    ELSE resolutions[Latest(c)].verdict
LastOf(c) == IF Latest(c) = 0 THEN None ELSE resolutions[Latest(c)].verdict

Register == INSTANCE AnswerRegister WITH
    Contracts <- Names,
    standing <- [c \in Names |-> StandingOf(c)],
    last <- [c \in Names |-> LastOf(c)]

ImplementsRegister == Register!Spec

=============================================================================
