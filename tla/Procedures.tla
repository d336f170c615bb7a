----------------------------- MODULE Procedures -----------------------------
(***************************************************************************)
(* Governed procedures: the review lifecycle of a procedure definition and *)
(* its budgeted runs.                                                      *)
(*                                                                         *)
(* Lifecycle transitions are single SQLite write transactions (BEGIN       *)
(* IMMEDIATE), so each is one action.  A run is NOT one transaction: its   *)
(* row is inserted in a first one, preflight reads the config and lock     *)
(* FILES outside any transaction, a second transaction authorizes it,      *)
(* providers are called outside any transaction, and a last one finalizes  *)
(* the row together with its receipt.  Everything else (reviews, config    *)
(* edits, lock rebuilds, graph writes, a crash) may happen in between.     *)
(***************************************************************************)
EXTENDS Naturals

CONSTANTS
    ProcedureIds,   \* identities of procedure records ("PRC-...")
    RunIds,         \* identities of procedure runs
    Names,          \* procedure names, the key of the one-live-version law
    Actors,         \* governed actor identities, (org_id, actor_id) pairs
    Configs,        \* contents of config.yaml, identified with their digest
    Artifacts,      \* provider and artifact contents a lock is built over
    Graphs,         \* states of the entity graph a precondition can see
    Definitions,    \* procedure definitions that may be proposed
    None            \* SQL NULL / Python None

READ_ONLY      == 1
GOVERNED_WRITE == 2
GRAPH_WRITE    == 3
ADMIN          == 4
PermissionMode == READ_ONLY..ADMIN

\* A lock file names the config digest it was built from; its own digest
\* covers that and the artifacts, so the record stands for the digest.
Locks == [config : Configs, artifacts : Artifacts]

\* What a plan is compiled against, and what acceptance pins.
Worlds == [config : Configs, lock : Locks]

\* A definition is immutable.  compilesIn: the configs under which it
\* validates and compiles.  precondition: the graphs that satisfy it (all of
\* them when it is empty).  maxCalls: budget.max_provider_calls.
DefinitionType ==
    [name : Names, tier : GOVERNED_WRITE..ADMIN, compilesIn : SUBSET Configs,
     precondition : SUBSET Graphs, maxCalls : Nat]

ASSUME DefinitionsAssumption == Definitions \subseteq DefinitionType

ASSUME WorldAssumption == Configs # {} /\ Artifacts # {} /\ Graphs # {}

VARIABLES
    procedures,  \* table procedures
    runs,        \* table procedure_runs, each row with its receipt
    config,      \* the file config.yaml
    lock,        \* the lock file
    graph,       \* the committed entity graph
    invocation,  \* local state of service_run_procedure, one per run
    calls        \* provider invocations that reached the outside world

vars == <<procedures, runs, config, lock, graph, invocation, calls>>

Statuses == {"absent", "pending", "live", "rejected", "withdrawn", "retired"}
Verdicts == {"succeeded", "failed", "refused", "budget_exceeded"}
Reasons  == {"procedure_not_live", "tier_not_permitted", "preflight_refused",
             "precondition_evaluation_failed", "precondition_unsatisfied"}
Executed == {"succeeded", "failed", "budget_exceeded"}

ASSUME NoneAssumption ==
    /\ None \notin ProcedureIds /\ None \notin Actors /\ None \notin Worlds
    /\ None \notin Definitions /\ None \notin Configs
    /\ None \notin Verdicts /\ None \notin Reasons

ProcedureRecord ==
    [status : Statuses, version : Nat, definition : Definitions \cup {None},
     supersedes : ProcedureIds \cup {None}, proposer : Actors \cup {None},
     reviewer : Actors \cup {None}, pins : Worlds \cup {None}]

AbsentProcedure ==
    [status |-> "absent", version |-> 0, definition |-> None,
     supersedes |-> None, proposer |-> None, reviewer |-> None,
     pins |-> None]

RunRecord ==
    [status : {"absent", "started", "finalized"},
     procedure : ProcedureIds \cup {None}, verdict : Verdicts \cup {None},
     reason : Reasons \cup {None}, accepted : Worlds \cup {None},
     executed : Worlds \cup {None}, spent : Nat, evidence : BOOLEAN]

AbsentRun ==
    [status |-> "absent", procedure |-> None, verdict |-> None,
     reason |-> None, accepted |-> None, executed |-> None, spent |-> 0,
     evidence |-> FALSE]

\* seen: the procedure record read by the first transaction; config, lock:
\* what preflight loaded; expired: the wall-clock budget has run out.
Invocation ==
    [pc : {"idle", "started", "config_loaded", "preflighted", "executing",
           "executed", "returned", "crashed"},
     mode : PermissionMode, procedure : ProcedureIds \cup {None},
     seen : ProcedureRecord, config : Configs \cup {None},
     world : Worlds \cup {None}, expired : BOOLEAN]

IdleInvocation ==
    [pc |-> "idle", mode |-> READ_ONLY, procedure |-> None,
     seen |-> AbsentProcedure, config |-> None, world |-> None,
     expired |-> FALSE]

-----------------------------------------------------------------------------
(* Compiling a definition.  compile_plan_definition refuses a lock that was *)
(* built from another config; the definition-specific checks (providers     *)
(* registered, exported, tier not below the providers') are compilesIn.     *)

CurrentWorld == [config |-> config, lock |-> lock]

Compiles(definition, world) ==
    /\ world.lock.config = world.config
    /\ world.config \in definition.compilesIn

\* ids of live procedures that hold a name
LiveWithName(name) ==
    {q \in ProcedureIds : /\ procedures[q].status = "live"
                          /\ procedures[q].definition.name = name}

-----------------------------------------------------------------------------
(* The store's optimistic transition: only the four legal edges exist.     *)

LegalTransitions ==
    {<<"pending", "live">>, <<"pending", "rejected">>,
     <<"pending", "withdrawn">>, <<"live", "retired">>}

transition_procedure(rec, to) ==
    [rec EXCEPT !.status = to, !.version = @ + 1]

\* Mutated form: a proposal may name any record of the name as superseded.
ProposeProcedure_AnyTarget(p, d, supersedes, actor) ==
    /\ procedures[p].status = "absent"
    /\ supersedes # None =>
          /\ procedures[supersedes].status # "absent"
          /\ procedures[supersedes].definition.name = d.name
    /\ Compiles(d, CurrentWorld)
    /\ procedures' = [procedures EXCEPT ![p] =
          [status |-> "pending", version |-> 1, definition |-> d,
           supersedes |-> supersedes, proposer |-> actor,
           reviewer |-> None, pins |-> None]]
    /\ UNCHANGED <<runs, config, lock, graph, invocation, calls>>

\* service_propose_procedure: a superseded procedure must be live and have
\* the same name, and the definition must compile now.
ProposeProcedure(p, d, supersedes, actor) ==
    /\ procedures[p].status = "absent"
    /\ supersedes # None =>
          /\ procedures[supersedes].status = "live"
          /\ procedures[supersedes].definition.name = d.name
    /\ Compiles(d, CurrentWorld)
    /\ procedures' = [procedures EXCEPT ![p] =
          [status |-> "pending", version |-> 1, definition |-> d,
           supersedes |-> supersedes, proposer |-> actor,
           reviewer |-> None, pins |-> None]]
    /\ UNCHANGED <<runs, config, lock, graph, invocation, calls>>

\* _validate_reviewer_independence
Independent(p, actor) ==
    procedures[p].proposer # None /\ procedures[p].proposer # actor

\* Mutated form: the one-live check is skipped for a declared replacement.
Conflicting_SkippedForReplacement(p) ==
    IF procedures[p].supersedes # None THEN {}
    ELSE LiveWithName(procedures[p].definition.name) \ {p}

\* The live rows that block an acceptance: any holder of the name other than
\* the procedure itself and the one it supersedes.
Conflicting(p) ==
    LiveWithName(procedures[p].definition.name)
        \ {p, procedures[p].supersedes}

\* Mutated forms: the version is not advanced; the pins are cleared; the
\* replaced record goes back to review.
RetireSuperseded_SameVersion(table, q) ==
    IF q # None /\ table[q].status = "live"
    THEN [table EXCEPT ![q].status = "retired"]
    ELSE table
RetireSuperseded_ClearsPins(table, q) ==
    IF q # None /\ table[q].status = "live"
    THEN [table EXCEPT ![q] =
             [transition_procedure(@, "retired") EXCEPT !.pins = None]]
    ELSE table
RetireSuperseded_BackToReview(table, q) ==
    IF q # None /\ table[q].status = "live"
    THEN [table EXCEPT ![q].status = "pending", ![q].version = 1]
    ELSE table

\* _retire_superseded_procedure, in the transaction of the acceptance.  A
\* superseded procedure that is already retired is left alone, one in any
\* other state refuses the acceptance.
RetireSuperseded(table, q) ==
    IF q # None /\ table[q].status = "live"
    THEN [table EXCEPT ![q] = transition_procedure(@, "retired")]
    ELSE table

\* service_accept_procedure
AcceptProcedure(p, actor, expectedVersion) ==
    LET old == procedures[p].supersedes IN
    /\ procedures[p].status = "pending"
    /\ procedures[p].version = expectedVersion
    /\ Independent(p, actor)
    /\ Compiles(procedures[p].definition, CurrentWorld)
    /\ Conflicting(p) = {}
    /\ old # None => procedures[old].status \in {"live", "retired"}
    /\ procedures' = RetireSuperseded(
          [procedures EXCEPT ![p] =
              [transition_procedure(@, "live") EXCEPT
                  !.reviewer = actor, !.pins = CurrentWorld]],
          old)
    /\ UNCHANGED <<runs, config, lock, graph, invocation, calls>>

\* The part of _transition_pending_procedure that reject and withdraw share.
ClosePending(p, to, actor, expectedVersion) ==
    /\ procedures[p].status = "pending"
    /\ procedures[p].version = expectedVersion
    /\ procedures' = [procedures EXCEPT ![p] =
          [transition_procedure(@, to) EXCEPT !.reviewer = actor]]
    /\ UNCHANGED <<runs, config, lock, graph, invocation, calls>>

\* service_reject_procedure: a reviewer's verdict; the reviewer need not be
\* independent of the proposer.
RejectProcedure(p, actor, expectedVersion) ==
    ClosePending(p, "rejected", actor, expectedVersion)

\* service_withdraw_procedure: the author at any tier that reaches the verb,
\* anyone else only with the reviewer tier (_authorize_withdrawal).
WithdrawProcedure(p, actor, mode, expectedVersion) ==
    /\ procedures[p].proposer = actor \/ mode >= GRAPH_WRITE
    /\ ClosePending(p, "withdrawn", actor, expectedVersion)

\* service_retire_procedure
RetireProcedure(p, expectedVersion) ==
    /\ procedures[p].status = "live"
    /\ procedures[p].version = expectedVersion
    /\ procedures' =
          [procedures EXCEPT ![p] = transition_procedure(@, "retired")]
    /\ UNCHANGED <<runs, config, lock, graph, invocation, calls>>

-----------------------------------------------------------------------------
(* service_run_procedure                                                   *)

\* Mutated form: the receipt reports the files as they are at finalization.
FinalizeRun_RereadsWorld(r, verdict, reason, executed, evidence) ==
    /\ runs[r].status = "started" /\ runs[r].verdict = None
    /\ runs' = [runs EXCEPT ![r] =
          [@ EXCEPT !.status = "finalized", !.verdict = verdict,
                    !.reason = reason, !.executed = CurrentWorld,
                    !.accepted = invocation[r].seen.pins,
                    !.spent = calls[r], !.evidence = evidence]]
    /\ invocation' = [invocation EXCEPT ![r].pc = "returned"]

\* finalize_run and save_receipt share a transaction; the update applies to
\* a row that is still started and has no verdict.
FinalizeRun(r, verdict, reason, executed, evidence) ==
    /\ runs[r].status = "started" /\ runs[r].verdict = None
    /\ runs' = [runs EXCEPT ![r] =
          [@ EXCEPT !.status = "finalized", !.verdict = verdict,
                    !.reason = reason, !.executed = executed,
                    !.accepted = invocation[r].seen.pins,
                    !.spent = calls[r], !.evidence = evidence]]
    /\ invocation' = [invocation EXCEPT ![r].pc = "returned"]

\* Transaction 1: the crash-visible row, whatever the procedure's status.
StartRun(r, p, mode) ==
    /\ invocation[r].pc = "idle"
    /\ procedures[p].status # "absent"
    /\ runs' = [runs EXCEPT ![r] =
          [AbsentRun EXCEPT !.status = "started", !.procedure = p]]
    /\ invocation' = [invocation EXCEPT ![r] =
          [IdleInvocation EXCEPT !.pc = "started", !.mode = mode,
                                 !.procedure = p, !.seen = procedures[p]]]
    /\ UNCHANGED <<procedures, config, lock, graph, calls>>

\* Preflight on the record read by transaction 1: only a live one goes on.
RefuseNotLive(r) ==
    /\ invocation[r].pc = "started"
    /\ invocation[r].seen.status # "live"
    /\ FinalizeRun(r, "refused", "procedure_not_live", None, FALSE)
    /\ UNCHANGED <<procedures, config, lock, graph, calls>>

\* Preflight reads config.yaml and the lock file one after the other, outside
\* any transaction.
LoadConfig(r) ==
    /\ invocation[r].pc = "started"
    /\ invocation[r].seen.status = "live"
    /\ invocation' = [invocation EXCEPT ![r].pc = "config_loaded",
                                        ![r].config = config]
    /\ UNCHANGED <<procedures, runs, config, lock, graph, calls>>

LoadedWorld(r) == [config |-> invocation[r].config, lock |-> lock]

\* Mutated form: only the config digest is compared.
PinsMatch_ConfigOnly(r) ==
    /\ invocation[r].seen.pins # None
    /\ invocation[r].seen.pins.config = invocation[r].config

\* _verify_acceptance_pins: a missing pin fails like a mismatched one.
PinsMatch(r) == invocation[r].seen.pins = LoadedWorld(r)

\* validate_procedure_definition_against_config, then the tier, then the
\* pins, then the compilation with the caller's input (inputOk).
PreflightRefusal(r, inputOk) ==
    LET definition == invocation[r].seen.definition IN
    IF invocation[r].config \notin definition.compilesIn
    THEN "preflight_refused"
    ELSE IF invocation[r].mode < definition.tier
    THEN "tier_not_permitted"
    ELSE IF /\ PinsMatch(r)
            /\ Compiles(definition, LoadedWorld(r))
            /\ inputOk
    THEN None
    ELSE "preflight_refused"

RefusePreflight(r, inputOk) ==
    /\ invocation[r].pc = "config_loaded"
    /\ PreflightRefusal(r, inputOk) # None
    /\ FinalizeRun(r, "refused", PreflightRefusal(r, inputOk),
                   LoadedWorld(r), FALSE)
    /\ UNCHANGED <<procedures, config, lock, graph, calls>>

PassPreflight(r) ==
    /\ invocation[r].pc = "config_loaded"
    /\ PreflightRefusal(r, TRUE) = None
    /\ invocation' = [invocation EXCEPT ![r].pc = "preflighted",
                                        ![r].world = LoadedWorld(r)]
    /\ UNCHANGED <<procedures, runs, config, lock, graph, calls>>

\* Mutated form: a procedure that stopped being live is not refused.
AuthorizationRefusals_IgnoresStatus(r) ==
    LET current == procedures[invocation[r].procedure] IN
    IF current.status # "live" THEN {}
    ELSE {"precondition_evaluation_failed"} \cup
         {x \in {"precondition_unsatisfied"} :
             graph \notin current.definition.precondition}

\* Transaction 2 re-reads the procedure and evaluates the precondition on
\* the graph it sees; a refusal is finalized in the same transaction.
AuthorizationRefusals(r) ==
    LET current == procedures[invocation[r].procedure] IN
    IF current.status # "live" THEN {"procedure_not_live"}
    ELSE {"precondition_evaluation_failed"} \cup
         {x \in {"precondition_unsatisfied"} :
             graph \notin current.definition.precondition}

RefuseAuthorization(r) ==
    /\ invocation[r].pc = "preflighted"
    /\ \E reason \in AuthorizationRefusals(r) :
          FinalizeRun(r, "refused", reason, invocation[r].world, FALSE)
    /\ UNCHANGED <<procedures, config, lock, graph, calls>>

\* Mutated form: authorization trusts the record read by transaction 1.
Authorize_TrustsFirstRead(r) ==
    /\ invocation[r].pc = "preflighted"
    /\ invocation[r].seen.status = "live"
    /\ graph \in invocation[r].seen.definition.precondition
    /\ invocation' = [invocation EXCEPT ![r].pc = "executing"]
    /\ UNCHANGED <<procedures, runs, config, lock, graph, calls>>

Authorize(r) ==
    LET current == procedures[invocation[r].procedure] IN
    /\ invocation[r].pc = "preflighted"
    /\ current.status = "live"
    /\ graph \in current.definition.precondition
    /\ invocation' = [invocation EXCEPT ![r].pc = "executing"]
    /\ UNCHANGED <<procedures, runs, config, lock, graph, calls>>

\* The wall clock runs from the first line of the call.
WallClockExpires(r) ==
    /\ invocation[r].pc \notin {"idle", "returned", "crashed"}
    /\ ~ invocation[r].expired
    /\ invocation' = [invocation EXCEPT ![r].expired = TRUE]
    /\ UNCHANGED <<procedures, runs, config, lock, graph, calls>>

\* before_provider_invocation: the clock, then the call budget, then the call.
CallProvider(r) ==
    /\ invocation[r].pc = "executing"
    /\ ~ invocation[r].expired
    /\ calls[r] < invocation[r].seen.definition.maxCalls
    /\ calls' = [calls EXCEPT ![r] = @ + 1]
    /\ UNCHANGED <<procedures, runs, config, lock, graph, invocation>>

\* Any step may raise, and the plan may ask for more than the budgets allow.
\* The verdict is budget_exceeded when the budget raised, and also when the
\* wall clock has run out by the time another failure is classified.
FailExecution(r, budgetRaised) ==
    /\ invocation[r].pc = "executing"
    /\ budgetRaised =>
          \/ invocation[r].expired
          \/ calls[r] >= invocation[r].seen.definition.maxCalls
    /\ FinalizeRun(r,
          IF budgetRaised \/ invocation[r].expired
          THEN "budget_exceeded" ELSE "failed",
          None, invocation[r].world, FALSE)
    /\ UNCHANGED <<procedures, config, lock, graph, calls>>

\* The last wall-clock check of execute_procedure_plan.
CompleteExecution(r) ==
    /\ invocation[r].pc = "executing"
    /\ ~ invocation[r].expired
    /\ invocation' = [invocation EXCEPT ![r].pc = "executed"]
    /\ UNCHANGED <<procedures, runs, config, lock, graph, calls>>

\* Transaction 3.  Evidence rows commit with the finalization, unless storing
\* them fails, which the run survives.
FinalizeSuccess(r, evidenceStored) ==
    /\ invocation[r].pc = "executed"
    /\ FinalizeRun(r, "succeeded", None, invocation[r].world, evidenceStored)
    /\ UNCHANGED <<procedures, config, lock, graph, calls>>

\* The process running the call dies; committed rows stay.
CrashRun(r) ==
    /\ invocation[r].pc \notin {"idle", "returned", "crashed"}
    /\ invocation' = [invocation EXCEPT ![r].pc = "crashed"]
    /\ UNCHANGED <<procedures, runs, config, lock, graph, calls>>

-----------------------------------------------------------------------------
(* The surroundings: an operator edits config.yaml, `cruxible lock` builds *)
(* a lock for the current config, other operations commit graph changes.   *)

EditConfig(c) ==
    /\ config' = c
    /\ UNCHANGED <<procedures, runs, lock, graph, invocation, calls>>

service_lock(a) ==
    /\ lock' = [config |-> config, artifacts |-> a]
    /\ UNCHANGED <<procedures, runs, config, graph, invocation, calls>>

CommitGraph(g) ==
    /\ graph' = g
    /\ UNCHANGED <<procedures, runs, config, lock, invocation, calls>>

-----------------------------------------------------------------------------
Init ==
    /\ procedures = [p \in ProcedureIds |-> AbsentProcedure]
    /\ runs = [r \in RunIds |-> AbsentRun]
    /\ config \in Configs
    /\ lock \in Locks
    /\ graph \in Graphs
    /\ invocation = [r \in RunIds |-> IdleInvocation]
    /\ calls = [r \in RunIds |-> 0]

Lifecycle ==
    \/ \E p \in ProcedureIds, d \in Definitions, a \in Actors,
          s \in ProcedureIds \cup {None} : ProposeProcedure(p, d, s, a)
    \/ \E p \in ProcedureIds, a \in Actors, v \in 1..3 :
          \/ AcceptProcedure(p, a, v)
          \/ RejectProcedure(p, a, v)
          \/ \E m \in GOVERNED_WRITE..ADMIN : WithdrawProcedure(p, a, m, v)
          \/ RetireProcedure(p, v)

\* The steps the code of a call takes by itself once it has started.
RunStep(r) ==
    \/ RefuseNotLive(r)
    \/ LoadConfig(r)
    \/ \E inputOk \in BOOLEAN : RefusePreflight(r, inputOk)
    \/ PassPreflight(r)
    \/ RefuseAuthorization(r)
    \/ Authorize(r)
    \/ CallProvider(r)
    \/ \E budgetRaised \in BOOLEAN : FailExecution(r, budgetRaised)
    \/ CompleteExecution(r)
    \/ \E stored \in BOOLEAN : FinalizeSuccess(r, stored)

Surroundings ==
    \/ \E c \in Configs : EditConfig(c)
    \/ \E a \in Artifacts : service_lock(a)
    \/ \E g \in Graphs : CommitGraph(g)

Next ==
    \/ Lifecycle
    \/ \E r \in RunIds, p \in ProcedureIds, m \in GOVERNED_WRITE..ADMIN :
          StartRun(r, p, m)
    \/ \E r \in RunIds : RunStep(r) \/ WallClockExpires(r) \/ CrashRun(r)
    \/ Surroundings

Spec == Init /\ [][Next]_vars

\* A call that has started is a synchronous function: it keeps taking steps
\* until it returns, unless its process dies.
FairSpec == Spec /\ \A r \in RunIds : WF_vars(RunStep(r))

-----------------------------------------------------------------------------
(* Properties                                                              *)

TypeOK ==
    /\ procedures \in [ProcedureIds -> ProcedureRecord]
    /\ runs \in [RunIds -> RunRecord]
    /\ config \in Configs
    /\ lock \in Locks
    /\ graph \in Graphs
    /\ invocation \in [RunIds -> Invocation]
    /\ calls \in [RunIds -> Nat]

\* The one-live-version law (_transition_pending_procedure): no sequence of
\* proposals, competing replacements, acceptances and retirements leaves two
\* live procedures with one name.
OneLivePerName ==
    \A p, q \in ProcedureIds :
        /\ procedures[p].status = "live" /\ procedures[q].status = "live"
        /\ procedures[p].definition.name = procedures[q].definition.name
        => p = q

\* Supersession is a chain of accepted versions of one name: a procedure that
\* something supersedes has been live, has the same name, and is retired by
\* the time its replacement is live (_retire_superseded_procedure).
SupersessionChain ==
    \A p \in ProcedureIds :
        LET q == procedures[p].supersedes IN
        q # None =>
            /\ q # p
            /\ procedures[q].status \in {"live", "retired"}
            /\ procedures[q].definition.name = procedures[p].definition.name
            /\ procedures[p].status \in {"live", "retired"} =>
                  procedures[q].status = "retired"

\* The optimistic version is the number of transitions a record has made, so
\* an expected version identifies one step of the review and no other.
VersionCountsTransitions ==
    \A p \in ProcedureIds :
        procedures[p].version =
            CASE procedures[p].status = "absent" -> 0
              [] procedures[p].status = "pending" -> 1
              [] procedures[p].status = "retired" -> 3
              [] OTHER -> 2

\* Whatever happens between a run's transactions (reviews, retirement, config
\* edits, lock rebuilds, crashes), a provider is only ever called for a run
\* that has a durable row, of a definition an independent reviewer accepted,
\* against exactly the config and lock that acceptance pinned, by a caller of
\* the declared tier, and within the call budget.
ProviderCallsReviewed ==
    \A r \in RunIds : calls[r] > 0 =>
        LET rec == procedures[invocation[r].procedure] IN
        /\ runs[r].status # "absent"
        /\ runs[r].procedure = invocation[r].procedure
        /\ rec.status \in {"live", "retired"}
        /\ rec.reviewer \notin {None, rec.proposer}
        /\ rec.pins = invocation[r].world
        /\ Compiles(rec.definition, rec.pins)
        /\ invocation[r].mode >= rec.definition.tier
        /\ calls[r] <= rec.definition.maxCalls

\* The run ledger tells what happened: a finalized row reports exactly the
\* provider calls that were made, a refused run made none and says why, a run
\* that executed did so against the pins its procedure still carries, and
\* only a succeeded run has evidence (_persist_built_procedure_receipt_in_uow,
\* finalize_run).
LedgerHonest ==
    \A r \in RunIds : runs[r].status = "finalized" =>
        /\ runs[r].spent = calls[r]
        /\ runs[r].verdict = "refused" <=> runs[r].reason # None
        /\ runs[r].verdict = "refused" => calls[r] = 0
        /\ runs[r].verdict \in Executed =>
              /\ runs[r].executed = runs[r].accepted
              /\ runs[r].executed = procedures[runs[r].procedure].pins
        /\ runs[r].evidence => runs[r].verdict = "succeeded"

\* What a row's status says about its other columns.
RecordInv ==
    \A p \in ProcedureIds :
        LET rec == procedures[p] IN
        /\ rec.status = "absent" => rec = AbsentProcedure
        /\ rec.status # "absent" =>
              rec.definition \in Definitions /\ rec.proposer \in Actors
        /\ rec.status = "pending" => rec.reviewer = None /\ rec.pins = None
        /\ rec.status \in {"rejected", "withdrawn"} => rec.pins = None
        /\ rec.status \in {"live", "retired"} =>
              /\ rec.reviewer \in Actors /\ rec.reviewer # rec.proposer
              /\ rec.pins \in Worlds
              /\ Compiles(rec.definition, rec.pins)

\* What a call's local state says about its row and its procedure: the record
\* read by the first transaction stays true of the procedure, except that a
\* live one may have been retired since.
InvocationInv ==
    \A r \in RunIds :
        LET inv == invocation[r]
            rec == procedures[inv.procedure] IN
        /\ inv.pc = "idle" => runs[r] = AbsentRun /\ calls[r] = 0
        /\ inv.pc # "idle" =>
              /\ inv.procedure \in ProcedureIds
              /\ runs[r].procedure = inv.procedure
              /\ runs[r].status = (IF inv.pc = "returned" THEN "finalized"
                                   ELSE "started")
              /\ runs[r].status = "started" => runs[r].verdict = None
              /\ inv.seen.definition = rec.definition
              /\ inv.seen.definition \in Definitions
              /\ inv.seen.status = "live" =>
                    /\ rec.status \in {"live", "retired"}
                    /\ inv.seen.pins = rec.pins
        /\ inv.pc \in {"config_loaded", "preflighted", "executing", "executed"}
              => inv.seen.status = "live" /\ inv.config \in Configs
        /\ inv.pc \in {"preflighted", "executing", "executed"} \/ calls[r] > 0
              => /\ inv.seen.status = "live"
                 /\ inv.world = inv.seen.pins
                 /\ inv.mode >= inv.seen.definition.tier
        /\ inv.pc \in {"started", "config_loaded", "preflighted"}
              => calls[r] = 0
        /\ calls[r] > 0 => calls[r] <= inv.seen.definition.maxCalls
        /\ runs[r].verdict \in Executed => inv.seen.status = "live"

\* The inductive invariant of the specification.
IInv ==
    /\ TypeOK
    /\ RecordInv
    /\ OneLivePerName
    /\ SupersessionChain
    /\ VersionCountsTransitions
    /\ InvocationInv
    /\ LedgerHonest

\* What a step may do to a stored record.
RecordKept(old, new) ==
    /\ old.status # "absent" =>
          /\ new.definition = old.definition
          /\ new.supersedes = old.supersedes
          /\ new.proposer = old.proposer
    /\ old.reviewer # None =>
          new.reviewer = old.reviewer /\ new.pins = old.pins
    /\ old.status \in {"rejected", "withdrawn", "retired"} => new = old

\* A governance record is append-only: a stored definition, its author and
\* the version it replaces never change, a verdict and its pins are never
\* rewritten, and rejected, withdrawn and retired records never change again.
GovernanceAppendOnly ==
    [][\A p \in ProcedureIds : RecordKept(procedures[p], procedures'[p])]_vars

\* Retiring a procedure stops every run that has not been authorized: such a
\* run never calls a provider, however far its preflight had come.
RetirementStopsRuns ==
    \A r \in RunIds :
        [](/\ invocation[r].pc \in {"started", "config_loaded", "preflighted"}
           /\ procedures[invocation[r].procedure].status = "retired"
           => [](calls[r] = 0))

\* A run that started is finalized, unless its process died; nothing a
\* concurrent reviewer or operator does leaves a live call's row open.
RunsSettle ==
    \A r \in RunIds :
        runs[r].status = "started" ~>
            \/ runs[r].status = "finalized"
            \/ invocation[r].pc = "crashed"

\* The refinement mapping: who holds each name, and who ever did.
Holder(n) ==
    IF LiveWithName(n) = {} THEN None ELSE CHOOSE p \in LiveWithName(n) : TRUE
Holders == [n \in Names |-> Holder(n)]
Installed == {p \in ProcedureIds : procedures[p].status \in {"live", "retired"}}

Register == INSTANCE LiveRegister WITH live <- Holders, spent <- Installed

\* Seen through its live rows, the procedure table behaves like a register of
\* one procedure per name: acceptance swaps the holder in one step, and no
\* procedure becomes live a second time.
ImplementsRegister == Register!LRSpec
=============================================================================
