# Cruxible in TLA+

A verification development for `cruxible_core`, the governed state engine of this
repository. It models the parts in which several actors change shared state, or in which
one algorithm carries the meaning of the stored data, checks them with TLC on small
instances, and proves most of what the runs check with TLAPS, for every size of
instance. Paths below are relative to `src/src/cruxible_core/` unless they start with
`docs/`.

## 1. The system

An *instance* is a directory with one SQLite database `state.db`, one
`config.yaml` and one lock file. It holds an entity graph whose edges are
claims, and around the graph the records that govern how claims come to be:
candidate groups and their resolutions, procedures and their runs, contracts,
attestations, decisions, feedback, snapshots and receipts.

**What runs concurrently.** Operating-system processes: a daemon (FastAPI), CLI
commands and MCP servers may hold a handle on the same instance. The daemon's
routes are `async def` functions that call synchronous services, so one process
runs one handler at a time. Between processes only SQLite serialises anything:
a write transaction opens with `BEGIN IMMEDIATE`. Reads outside a transaction,
the config and lock files, and each handle's graph cache are not covered by it.
The exception is telemetry, which has a thread of its own in every process.

**What fails.** A process may die between any two statements; a transaction may
be refused and roll back; providers (external programs and services) may fail,
or exceed a deadline. There is no network protocol between processes, hence no
lost or duplicated message.

**The recurring hazard** is *check, then act*: a service reads rows, decides,
and opens a transaction that writes what was decided. Whether the transaction
checks again is the difference between most of the passing and most of the
violated properties here.

### 1.1 Inventory

| Component | State it keeps | Operations | Correct when | Module |
| --- | --- | --- | --- | --- |
| Procedures (`service/procedures.py`, `procedure/`) | procedure rows, run rows, receipts | propose, accept, reject, withdraw, retire, run | one live version per name; providers run only what was reviewed; the ledger says what happened; every run settles | `Procedures`, `LiveRegister` |
| Instance handle and storage (`runtime/instance.py`, `storage/sqlite.py`, `service/mutation_receipts.py`) | graph rows, `read_revision`, head snapshot; graph cache per handle | load graph, unit of work, commit, rollback | a commit moves the revision with the graph; a handle does not keep what was rolled back | `InstanceState` |
| Canonical workflows (`service/execution.py`, `workflow/`) | lock file | lock, preview, apply | an apply commits what was previewed | `InstanceState` |
| Direct writes (`service/mutations.py`) | graph rows | add entities, add relationships, batch | no committed write of another process is undone | `InstanceState`, `Groups` |
| Bounded reads (`service/queries.py`, `query/continuation.py`) | none | list, page, query | receipts and pages name the state they show | `InstanceState` |
| State diff (`service/state_diff.py`) | none | read a coordinate | the coordinate names a graph that existed | `InstanceState` |
| Snapshots (`service/snapshots.py`) | snapshot rows, head | create | one linear chain | `InstanceState` |
| Candidate groups (`service/groups.py`, `service/group_transitions.py`, `group/`) | group, member and resolution rows | propose, resolve, update trust | a resolution covers what its reviewer saw; one bucket per thesis; trust is earned | `Groups` |
| Resolution contracts, mutation guards (`service/resolution_contracts.py`, `service/mutation_guards.py`) | contract, activation, evidence, resolution, disposition rows | open, activate, resolve, dispose | one standing answer; a contract is consumed once, with the write it guards | `ResolutionContracts`, `AnswerRegister` |
| Attestations (`service/attestations.py`) | attestation and disposition rows | attest, dispose, queue | what an observer was told is on record stays there, once; open contradictions are shown | `ClaimState` |
| Feedback (`service/feedback.py`) | feedback rows, review state on edges | accept, reject, correct | a review decision is not overwritten by content writes | `ClaimState` |
| Claim and entity lifecycle (`service/artifact_lifecycle.py`) | lifecycle of claims and entities | supersede, retract, retire, revive | no cycle; only settled nodes are superseded | `ClaimState` |
| Group-approval drift (`graph/group_drift.py`) | marker on an edge | recompute per write | marked exactly if the content differs from what was approved | `ClaimState` |
| Decision records (`service/decisions.py`, `decision/store.py`) | record and event rows | open, append, finalize, abandon | one close; a closed log is final; callers are told the truth about it | `DecisionRecords` |
| Source artifacts (`service/source_artifacts.py`) | revisions, chunks, archived bytes | register, cite, dereference | a pinned citation yields its revision or says that it cannot | `SourceArtifacts` |
| Publish, overlay, pull; config mutations and reload (`service/state.py`, `service/lifecycle.py`, `service/config_mutations.py`) | upstream copies, composed config, `instance.json`, graph, lock | publish, preview, apply, repair, reload, add rule | a crash leaves a state that the receipts explain and a repair mends | `OverlayPull` |
| Claim identity (`graph/legacy_identity.py`, `graph/entity_graph.py`, `storage/sqlite.py`) | claim ids, the reconcile map | migrate, backfill, annotate, merge | an id is unique and keeps naming the edge it was given to | `ClaimIdentity` |
| Backup, restore, relocate; registry (`runtime/api.py`, `service/snapshots.py`, `server/registry.py`) | instance directory, registry row, manager slot | as named | an abort leaves a reachable instance; no acknowledged write is lost | `Relocation` |
| Telemetry buffer (`telemetry/`) | pending aggregates, drop counters | add, flush, restore | every call is counted once, or counted as dropped | `Telemetry` |
| Query engine (`query/engine.py`) | none | traverse, dedupe, budget, limit | the answer is the declared one or says that it was cut | `QueryTraversal` |
| Graph diff (`graph/diff.py`) | none | match, cancel, classify | every row accounted for; nothing paired without evidence | `StateDiff` |
| Workflow steps (`workflow/`) | clone of the graph, collected rows | query, transform, provider, guard, register, apply | preview and apply agree; what is collected is what the clone has | `WorkflowSteps` |
| Working set (`working_set.py`, `cli/working_set.py`, `mcp/working_set.py`, `cli/commands/working_set.py`) | JSONL cache of what clients have read | capture, append, compact, clear, refresh, verify | a line that verifies as fresh is | `WorkingSet` |
| Credentials and permissions | credential rows | | | not modelled |
| Config schema and composition, compiler, canonical views | none of their own | pure functions | | not modelled |
| Providers, receipts, server, MCP, CLI, kits, UI | output and adapters | | | not modelled |

`PROJECT.json` gives the reason for each part that is not modelled and, under
`hazards`, the lines where each of these can go wrong.

## 2. The plan

1. `Procedures` with its abstract specification `LiveRegister`, and
   `ProceduresProofs`. Done: checked and proved.
2. `InstanceState`: caches, revisions, workflows, direct writes, reads. Done.
3. `Groups`: propose and resolve across processes. Done.
4. `ResolutionContracts` with its abstract specification `AnswerRegister`. Done.
5. `ClaimState`: feedback, attestation, group approval and lifecycle verbs on the
   rows of claims and entities. Done.
6. `DecisionRecords`, `SourceArtifacts`, `WorkingSet` and `StateDiff`, run by `MCAudit`.
   Done.
7. `Telemetry`, `Relocation`, `OverlayPull`: threads, crashes between file
   operations. Done.
8. Algorithms: `QueryTraversal`, `WorkflowSteps`, `ClaimIdentity`, and `StateDiff`,
   each against a declarative statement of its result. Done.
9. Proofs: `ProceduresProofs`, `GroupsProofs`, `InstanceStateProofs`,
   `ResolutionContractsProofs`, `ClaimStateProofs`, `AuditProofs` and
   `SubsystemsProofs`, over the shared lemmas of `PositionTheorems`. Done for 38 of
   the 40 properties of the passing runs (section 5).

Left of the proofs: `AnswerAsDeclared` and the liveness property `RunsSettle`, which
stay with TLC (section 5); and, for a second process in
`ClaimState` and `InstanceState`, the largest part of a solo property that survives
the race, as `EntityChainsEnd` and `BatchWritesNotLost` do it.

Of the remaining pure code, neighbourhood expansion (`graph/entity_graph.py`), the
predicates of mutation guards and the composition of configs are worth a reference
definition each.

## 3. Modules

### Procedures

State: the tables `procedures` and `runs`, the files `config` and `lock`, the
committed `graph` as far as a precondition sees it, and for every run the local
variables of `service_run_procedure` (`invocation`). `calls` counts the provider
calls that reached the outside world; the code keeps it as the budget's counter.

A lifecycle operation is one transaction and one action (`ProposeProcedure`,
`AcceptProcedure`, `RejectProcedure`, `WithdrawProcedure`, `RetireProcedure`).
A run is not one transaction, and is modelled in the steps it commits in:

| Action | Code |
| --- | --- |
| `StartRun` | first transaction: run row inserted, procedure record read |
| `RefuseNotLive` | refusal of a procedure that was not live when read |
| `LoadConfig`, then `PassPreflight` or `RefusePreflight` | config file read, then lock file read and plan compiled, outside any transaction |
| `Authorize` or `RefuseAuthorization` | second transaction: status and precondition checked again |
| `CallProvider`, `WallClockExpires`, `FailExecution`, `CompleteExecution` | execution under the budget |
| `FinalizeSuccess`, or `FinalizeRun` inside each refusal and failure | last transaction: row and receipt |
| `CrashRun` | the process dies; the row stays `started` |

`EditConfig`, `service_lock` and `CommitGraph` are everybody else. A definition is
abstracted to its name, tier, the configs in which it compiles, the graphs that
satisfy its precondition and its call budget. A file's content is identified
with its digest.

`LiveRegister` is what a caller relies on: a register with at most one
procedure per name, in which acceptance swaps the holder in one step and nobody
enters twice. `Register` in `Procedures` instantiates it with the live rows.

### InstanceState

Processes with private caches over one database. A transaction is one step; a
read outside one is a step of its own, and loading a graph is either a cache hit
(`LoadCached`) or two SELECTs (`LoadEntities`, `LoadRelationships`). The graph
is one entity row and one edge row made of property cells: an update names
cells, but the store writes whole rows, and that difference is the subject.
`history` records what was committed at each revision and is read by no action.

Operations (constant `Ops` selects among them): `list`, `page`, `query`, `diff`,
`preview`, `apply`, `add_entity`, `add_relationship`, `batch`, `snapshot`,
`lock`, plus config reload, rollback of any transaction, and restart of a
process. `apply` takes the steps of `service_apply_workflow`: lock and head,
graph, second preview, digest check, lock check, then the transaction that
recomputes and writes. Its plan is compiled from the config loaded at the start of the
call and under the lock file of the moment; the apply steps load `config.yaml` again
(`workflow/apply.py:322`, `:439`) and the snapshot records the config then on disk
(`runtime/instance.py:586`), so that a config edited meanwhile is validated against and
recorded although the plan came from the one before. `StartDiff`, `ReadClosing` and
`FinishDiff` are the revision sandwich of `state_diff.py` with its one retry.

Left out: the `instance.json` mirror of the head (written, not read back),
schema migrations, and whether an edge's endpoints exist.

### Groups

Tables of candidate groups (with their members) and resolutions, the edges that
they write, and the processes. `propose` is followed SELECT by SELECT
(`FindPending`, `ReadOldMembers`, `FilterConflicts`, `ReadPrior`,
`DecideProposal`) to one of its transactions: create, rewrite, withdraw, or,
after losing on the unique index, `RewriteConcurrent`; an auto-resolving
proposal goes on into a resolution. `resolve` reads the group, then its members,
and then approves or rejects in a transaction. `update_trust` and direct writes
complete the picture. Trust lives on the latest confirmed approval of a thesis
(`TrustOf`).

Left out: signals and decision policies beyond whether they force a review,
review priority, drift marks on edges, the cap of the per-tuple conflict log,
and the retry of a row in status `applying`. No committed row has that status,
since an approval starts and confirms its resolution in one transaction, although
the documentation describes a group left in it by a crash.

### ResolutionContracts

Subjects with their rows, the outcome guards and the measurement query of the
config, and the tables of contracts, activations, evidence, resolutions and
dispositions. `OpenContract`, `ResolveOutcome` and `DisposeResolution` are one
transaction each. A guarded write (`Write`) looks a contract up per guard and
consumes it in the same transaction; for `add_entity` the row that the guard
compares was loaded earlier (`LoadForAdd`), as in `service/mutations.py`.
`Surroundings` is everybody else: the clock, config changes, new evidence, and subjects
that are superseded or retired, which leave the queues (`SubjectIsLive`).
`AnswerRegister` is what a reader of a contract relies on: one standing answer,
given when there is none, withdrawn by a reviewer, and only the last one put back.
Left out: effective windows, which are taken to be open.

### ClaimState

One row per claim (properties, review, who reviewed, approving group, drift
marker), a lifecycle with its supersession pointers per claim and entity, and the
attestations. All writers are here: direct writes and feedback, which load the
graph before their transaction and write the row back whole (`LoadGraph`, `Write`,
`Judge`), workflow apply, group approval, the lifecycle verbs (`Supersede`,
`Settle`, `ReviveEntity`) and attestations, which read inside it and may carry an
idempotency key, with which a call is retried (`ReplayAttest`) or refused. `approved`,
`word` and `acks` are history variables: what a group approved, the latest review
decision, and what observers who sent a key were told.

Left out: effective windows, the actor's permission, outcomes recorded on
decisions.

### DecisionRecords, SourceArtifacts

`DecisionRecords`: an operation that runs in the context of a record commits its
own work (`CommitWork`) and logs it afterwards in a transaction of its own
(`RecordEvent`), best effort; the record may be closed (`CloseRecord`) in between,
and the process may die. `SourceArtifacts`: a registration reads a file and commits
a revision; a read is several SELECTs and a read of the file, and registrations,
edits of the file and other reads come between them. A read may carry the hash that
it expects of its chunk and is then told of a drift that nobody records.

### Telemetry, Relocation, OverlayPull

`Telemetry` has two flushing threads over one buffer: `Drain` takes the pending
aggregates under the lock, `Merge` or `Refuse` is the write outside it, and
`Restore` folds a refused batch back into a buffer that has moved on and may be
full. `Relocation` runs restore and relocate as their steps (`Install`,
`CreateRow` or `Repoint`, `Register`, `RemoveSource`) with a crash of the daemon
between any two, and directories destroyed while it is down. `OverlayPull` is one
overlay with its files (release copies, `current/`, composed config,
`instance.json`, lock) and its database; an apply takes the steps of
`service_pull_state_apply` in their order (`PrePullSnapshot`, `StoreRelease`,
`ReplaceCurrent`, `Compose`, `Commit`, `Track`, `Lock`), each of which a crash may
be the last of, while another process adds and retires local claims and an
operator reloads, adds rules, edits files and repairs.

### QueryTraversal, StateDiff

`QueryTraversal` is the loop of `_execute_step`, one popped frontier entry and one
relationship per step, with its order of candidates left to the storage where the
code leaves it, and then the tail that dedupes, gates and cuts. Its property
compares the rows with the set of paths that the query declares. `StateDiff` is
the comparison of two images in the phases of `diff_edges` (claim ids, conflicts,
cancellation of equal states, residual) and `diff_entities` with the ownership
boundary; rows have a place in load order so that dependence on it would show.

### WorkingSet

A file that client processes append to, rewrite and replace without a lock, and
the state and config they read it from. A capture is five steps, because state,
config and file may move between any two of them: values, revision (before or after
the values, as the surface does it), config digest, the load of the file that
decides between append and rewrite, and the write, which is lost when the file was
replaced after it was opened. `ws refresh` is its own sequence of steps, one fetch
at a time. A record has a ghost, `sure`: it is false when a commit came between
its values and a revision read after them, which no check of the code can see.

### WorkflowSteps

A canonical plan over a clone of the graph: run for a preview, again when the
client asks to apply, and a third time inside the transaction, which stores the
rows that the apply steps collected and a snapshot of the clone. A step takes its rows
from any earlier step that lists some, and its fields, comparisons, keys and properties
may name another one (`ref`, resolved by `Named`). The read metadata that completeness
guards look at is that of the rows' source alone. An apply step says which rules the
config has for what it writes: types owned upstream, property validation, a mutation
guard evaluated over the graph as it would become, a `mint_only` type; each makes it
refuse (`Refuses`, `GuardTrips`, `MintRefuses`), as do a missing endpoint and an edge
that awaits review. `InstanceState` has the caches and concurrent writers around this,
and treats a plan as one delta; `WorkflowSteps` is what justifies that.

Left out: the config does not move during a plan (it does in `InstanceState`). Guards
that consume a resolution contract are in `ResolutionContracts` only; since a preview
consumes nothing, two apply steps that need the same contract pass the preview, and the
second fails in the apply. The same holds for evidence that cites an artifact which the
same plan registers. Rows taken from an apply step's preview resolve to no list and
always fail, so no plan has them. `WorkflowExact` excepts plans that register artifacts
in more than one step (below).

### ClaimIdentity

A publisher whose releases carry no claim ids at first, an overlay that mints
them, and the reconcile map. An edge has a *thing* that the code cannot see: which
edge it really is. `Backfill`, `Annotate`, `RecordMinted`, `LocalOverlay` and
`Merges` are the operations of the code on images; `CreateOverlay`, `Migrate` and
`Pull` use them as `service/state.py` and `storage/sqlite.py` do, the map in the
same transaction as the rows.

### MC modules

`MCInstanceState` and `MCGroups` give constants their values and declare symmetry
sets. `MCProcedures`, `MCContracts` and `MCClaims` have a state constraint `Focus`
that explores parts that do not concern each other one at a time: records compete while
nothing runs, or one procedure runs while the world moves; evidence is not
gathered while two contracts compete for a write; content and attestations vary
while there is one claim, review and lifecycle while there are two. `MCAudit`
holds three stores that share no table and no file, and the state diff; `MCSubsystems`
six subsystems that share no state; a behaviour is about one of them, its `subject`.
What they are instantiated with is a constant of theirs too (`Comparisons`, `Ends`,
`Payloads`, `Earlier`; `Content`, `Breaking`, `Plans`, `Starts`, `Tuples`, `TypeOf`,
`Firsts`), to which the cfg assigns the definition with the prefix `MC`: the proofs know
nothing of those values but the named assumptions. The derived directory of each
instance in `Relocation` is chosen among the injections, so that the proofs hold for all
of them. Worlds and queries of `QueryTraversal` are definitions (`MCWorlds`,
`MCQueries`).

## 4. Runs

| Run | Instance | States | Result |
| --- | --- | --- | --- |
| `procedures` | 3 records, 2 names, 2 actors; 1 run, 2 configs, 2 artifacts, 2 graphs, with fairness | 132 012 | holds |
| `instance_solo` | 1 process, all operations, revisions to 3 | 371 580 | holds |
| `instance_apply` | 2 processes; preview, apply, batch, snapshot, lock, diff; revisions to 2, 2 configs | 1 817 774 | holds |
| `groups_solo` | 1 process, 2 theses, 2 tuples, all operations | 871 458 | holds |
| `groups_race` | 2 processes propose and resolve one thesis under tuple identity | 387 360 | holds |
| `contracts` | 1 subject, 2 contents, up to 2 guards, 2 contracts, 2 answers with 2 dispositions | 167 252 | holds |
| `claims` | 2 claims, 3 entities, 1 group, 2 properties with 2 values, 2 attestations, 1 idempotency key | 18 212 | holds |
| `audit` | 2 processes; 1 record with 3 operations; 2 documents with 2 revisions; a cache of 2 things, 2 captures or refreshes, 1 write, 1 reload; 30 036 pairs of images to compare | 2 586 490 | holds |
| `subsystems` | the six subjects of `MCSubsystems` | 1 785 254 | holds |
| `review_race` | 2 processes on `Groups` | | violated |
| `trust_reset` | 1 process on `Groups`, propose, resolve and trust | | violated |
| `pull_integrity` | `OverlayPull` without crashes, rules and hand edits | | violated |

**What the passing runs show.** `procedures`: competing replacements of
one name, accepted by different reviewers in any order, leave one live version
(`OneLivePerName`); supersession links accepted versions of one name
(`SupersessionChain`); an expected version identifies one step of the review
(`VersionCountsTransitions`); verdicts and pins are not rewritten
(`GovernanceAppendOnly`); and the table implements the register
(`ImplementsRegister`). With config, lock, graph and status
moving between any two steps of a run, providers are called only for reviewed
definitions in the pinned world within budget (`ProviderCallsReviewed`), rows
report what happened (`LedgerHonest`), retirement stops a run that is not yet
authorised (`RetirementStopsRuns`), and a run that does not crash is finalised
(`RunsSettle`).

`instance_solo`: for a single process the promises of the documentation hold: the
cache survives rollbacks and restarts (`CacheCoherent`), pages of one walk agree
(`PagesAgree`), receipts name the state that their call saw
(`ReceiptsNameTheirState`), and an apply commits what was previewed
(`AppliesWhatWasPreviewed`). `instance_apply`: with two processes the snapshot
chain stays linear (`SnapshotChain`), state diff returns no torn graph
(`CoordinateGraph`), the plan that an apply commits is the one
of the previewed config, whoever edits it or rebuilds the lock after the guard
(`AppliesThePreviewedPlan`), and transactions that read inside themselves
lose nothing (`NoLostUpdate`).

`groups_solo`: when nobody races, what is resolved is what was inspected, and what
resolves itself is still trusted (`ResolvesInspected`); resolved groups stay
resolved and no approval, rejection, rewrite or withdrawal promotes or demotes a thesis
(`DecisionsStand`, which leaves open what re-approval of an invalidated one does); a direct
write is shown to every reviewer it concerns (`DirectWritesAreSeen`).
`groups_race`: under races too there is one pending group per thesis (`OnePending`)
and group edges name a confirmed approval (`GroupEdgesApproved`).

`contracts`: a contract is consumed once, unexpired, by the acceptance of the
content it was opened against (`PromisedIsAccepted`), also when the accepting
`add_entity` loaded its row long before; a guarded status is entered only with one
contract consumed per guard (`AcceptanceIsForced`); one answer stands and all reads
of "open" agree on it, the queues for live subjects only, and a satisfied answer rests on
an observation made in time (`AnswersStand`); contracts implement the register (`ImplementsRegister`).

`claims`: supersession stays acyclic and leaves settled nodes only
(`SupersessionAcyclic`), although each check sees one step; the drift marker is
exactly the divergence from what the group approved (`DriftIsDivergence`); no
content or lifecycle write moves the review (`ReviewIsLastWord`); what an
observer was told is on record is there, once and as it was said, through retries with
the same key, edits, retractions and verdicts, and an unanswered contradiction of the
present content is in the queue and in the summary (`ObservationsStand`).
One process holds at most one stale image here: the races between a stale image
and another writer are listed below.

`audit`: whoever closes a decision record, its log ends with the closing event and
operations that returned are in it exactly if they said so (`DecisionLogHonest`);
a pinned citation yields its revision's bytes, the expected ones if the reader said so,
or says that it cannot; a drift of the file that a reader was told of stays on record,
on a revision that it is true of, and drift that is only a wrong expectation leaves none
(`CitationsHold`); whatever clients append,
merge, rewrite and lose in the cache of their reads, a line that verifies as fresh
shows what the state holds, and an undisturbed refresh leaves only such lines
(`CacheHonest`); a diff of two images accounts for every row, can be replayed and pairs
nothing without evidence (`DiffExact`).

`subsystems`: no observation is lost or counted twice across refused flushes
(`Accounted`); wherever a relocation or restore is cut short, an instance is registered
at a directory with every acknowledged write (`NothingStranded`); files, database and
bookkeeping of a pull stay explainable and repairable (`PullExplainable`); a traversal
returns the declared answer or says that it was cut (`AnswerAsDeclared`), over every
graph of six possible relationships; a plan stores exactly what it previewed, in tables
and snapshot, and over the state of its preview nothing but a provider stops it
(`WorkflowExact`); and a claim id keeps naming the edge it was
given to, through migration, edges dropped and restored, a publisher that starts to
assign ids and types changing hands (`IdentityHolds`).

### Where code and documentation disagree

Three disagreements are runs (`findings` in `PROJECT.json`):

- `review_race`: group, members and version are checked before the transaction,
  so a resolution may cover what its reviewer did not see, or come second
  (`service/group_transitions.py:177`,
  `docs/state-resolution-and-maintenance.md:126`).
- `trust_reset`: a thesis is approved, its trust invalidated, and the next proposal
  approved by a reviewer: trust stays `invalidated` (`_carried_trust`,
  `service/group_transitions.py:505`, whose docstring means it so), while the guide says
  that the re-approval resets it to `watch` (`docs/state-resolution-and-maintenance.md:84`).
- `pull_integrity`: reload, preview, pull. The reload records the digest of the active
  config, the pull rewrites the config and leaves the digest (`service/state.py:380`),
  and the overlay refuses its next start as hand-edited (`runtime/instance.py:248`).

Others were met while modelling. The first group can be seen by giving a passing
run of the module a second process and the operation named:

- An apply checks the digest before its transaction; a commit in between is
  applied over without a new preview (`service/execution.py:493`,
  `docs/concepts.md:148`).
- A relationship update is merged into the edge row as read before the transaction
  and overwrites a committed change to another property (`service/mutations.py:1501`).
  Feedback does the same and can revive a claim that was settled meanwhile
  (`service/feedback.py:1222`, `docs/cli-reference.md:634`).
- A query answers from the handle's graph and stamps the revision read afterwards
  (`service/queries.py:380`). In state diff the head is read outside the revision
  sandwich (`service/state_diff.py:338`), so it may be newer than the graph.
  A cached read of this kind verifies as fresh with the values of the revision
  before (`cli/commands/working_set.py:515`), until the next commit.
- A proposer stores back the whole row it read and can bring a withdrawn group
  back to review (`service/groups.py:341`).
- A read of source evidence without a pinned revision can combine one revision's
  row with the next one's chunk. A reader that holds the row of a current revision can
  stamp drift on it after it was superseded, which the comment at
  `service/source_artifacts.py:737` rules out.
- An apply validates against, and its snapshot records, a config that was edited after
  its plan was compiled (`workflow/apply.py:322`, `runtime/instance.py:586`).
- A local claim committed by another process between the pre-pull snapshot and the
  commit of a pull is overwritten (`service/state.py:386`, `docs/kev-guide.md:89`).
- Two processes that add rules to one config can lose one of them.

The second group needs one process only:

- The definition of a contract's measurement query is compared when the answer is
  recorded, not when its evidence was made (`service/resolution_contracts.py:583`,
  `docs/concepts.md:410`).
- A free lifecycle write erases one supersession pointer and leaves its partner
  (`service/artifact_lifecycle.py`); only acyclicity is checked, since pairing does
  not hold.
- `graph/group_drift.py:10` says that every write recomputes the drift marker; a
  feedback correction changes properties and does not. `DriftIsDivergence` therefore
  follows a claim until a human corrects it.
- The event count in a finalize receipt stops at the default limit of the event
  listing (100).
- The telemetry summary flushes first, which does not help when a batch is in flight
  on the other thread or was refused; the module comment says that it
  never lags (`telemetry/buffer.py:12`).
- A pull that is cut short after its commit is repaired by a re-run only with
  `--repair`, and a copy of a release cut short has to be deleted by hand; the
  comment at `service/state.py:480` says "which a re-run repairs".
- A process killed between the save of a config and the commit of the receipt
  leaves a rule that nobody added (`service/config_mutations.py`); rules added to an
  overlay's active config are dropped by the next pull or reload; and saving a rule
  records the digest of a file that may have been edited by hand.
- Two alike parallel edges on one side of a diff: which of them cancels, and even
  whether the other is changed or ambiguous, depends on load order, though
  `graph/diff.py:16` says "Insertion order and edge_key never affect it". `DiffExact`
  claims independence for images without such ties.
- Two registrations of one artifact id in a plan preview as two and apply as one and
  a no-op, or fail when their contents differ (`workflow/step_handlers.py`). The
  apply digest binds counts, not contents (`workflow/apply.py`).
- A completeness guard sees the metadata of a step's rows only. It passes although the
  read was cut that a field, comparison or key names by `$steps` (`workflow/transforms.py:74`,
  `:298`, `docs/config-reference.md:2362`), or one behind a `make` step or a provider
  without listed items (`workflow/apply.py:140`, `workflow/step_helpers.py:154`,
  `docs/config-reference.md:2278`). No property claims the soundness of these guards;
  the plans of the run have each case.
- In a compact query an entity reached from several inputs counts for the first
  only (`query/engine.py:1697`), so an optional step carries the others on as if they
  had found nothing.
- `merge_graphs` refuses an overlay edge on a tuple that is already in the merged graph
  (`graph/entity_graph.py:1436`), a parallel edge of the overlay itself included: an
  overlay that was handed a type with parallel edges can never pull again.
- When a type passes to the publisher, an edge of a migrated overlay can hand its id
  to the publisher's edge of the same tuple, since the migration seeds the map with
  local tuples too (`storage/sqlite.py:1456`). `ClaimIdentity` counts such a tuple as
  shifted, as it does when a head of parallel edges is dropped, the residual that
  `graph/legacy_identity.py:111` documents.
- Not modelled, but seen: `restore_instance` does not compare its target with other
  registered directories; `instance.json` is not written atomically; backups leave
  out `.cruxible/upstream`; the temporary name of a diff artifact is shared by
  processes that persist the same diff (`service/state_diff.py:1120`, whose reader
  re-digests and refuses); a reload checks for stranded rows before it writes the
  config (`service/lifecycle.py:107`), so rows of a removed type can be committed in
  between.

### Bounds

Every bound is a constant. For procedures, instances and groups: the sets of
records, names, actors, runs and processes; `MaxRevision`, `MaxConfig`, `MaxBuild`;
`MaxGroups`, `MaxVersion`, `MaxResolutions`. Guards refuse a step that would pass
them. They are set where the interesting case first happens. Three records are a
live version and two competing replacements. Two processes are a reader and a
writer, or two writers; each check in the code is about one stale read. Two commits
after the first read let a stale read be overtaken and the reader commit after it.
Two groups and two resolutions give a thesis a past. Two tuples distinguish a
changed member set from the same one. `Focus` of `MCProcedures` explores a run with one
procedure and competition for names without runs; nothing in a run looks at another
procedure, and the proofs cover any number of both.

For the other modules:

- `ResolutionContracts`: two contracts compete for one acceptance, two guards each
  need one; two resolutions with two dispositions are answered, overturned, answered
  again, revised; time 0 to 1 has a check time and an expiry on either side.
- `ClaimState`: three entities make a cycle of supersessions longer than one check;
  two properties let one be edited back while the other stays.
- `DecisionRecords` and `SourceArtifacts`: `MaxCalls` 3 is an operation before,
  across and after the close; `MaxRevisions` 2 is a pinned and a current one.
- `WorkingSet`: `MaxStamps` 2 is two captures, or a capture and a refresh, on a file
  that is new or already holds a thing twice; one commit and one reload come at any
  point; `Threshold` 2 lines, so that a file past it is compacted.
- `Telemetry`: three surfaces over `MaxBuffered` 2, so that the cap bites; a clock
  of 4 to tell first and last stamps apart.
- `Relocation`: two instances and four directories; `OverlayPull`: four releases that
  drop an entity, restore it and drop another, one of them breaking, with
  `MaxCrashes` 2 (a crash during repair) and one hand edit.
- `QueryTraversal`: every graph over a fixed set of relationships, seven queries that
  differ in what the code distinguishes. `StateDiff`: up to two edges per side in nine
  kinds, under equal and changed identity maps, and entities with or without edges.
- `WorkflowSteps`: twelve plans, five graphs, `MaxApplies` 2 and one direct write of
  somebody else, between preview and apply or between two applies.
- `ClaimIdentity`: two `Tuples`, of two types, up to three parallel edges, `MaxReleases`
  5 (drop, restore, hand over, return), `MaxMints` 5, one record that names a claim.

Symmetry is used on processes, and on tuples, signatures or contents where the
properties of the run are safety properties or the refinement does not name them.
The exploration stops at its bounds, which is why runs other than those of
procedures and claims set `CHECK_DEADLOCK FALSE`; those two check deadlock.

### Fairness

Only `RunsSettle` needs fairness: `FairSpec` has weak fairness of `RunStep(r)` for
each run. `service_run_procedure` is a synchronous function without waiting on
another actor, so a call that has started keeps executing until it returns or
its process dies, and death is the explicit action `CrashRun`. Nothing is assumed
of reviewers, operators or the clock. `RunsSettle` is thus a statement about the
refusal and failure branches: none of them returns without finalising the row.

## 5. Proofs

Every theorem is for any value of the constants within the named assumptions, which
TLC evaluates in the runs: any number of processes, rows, revisions, and so on. Two
kinds of hypothesis occur. *Any processes* means none. *One process* is
`Solo`, that no two processes work on the instance: the situation the documentation
describes, and the one outside which the code does not keep the promise (section 4
names the race). Where part of a promise survives the race, that part is a theorem
without the hypothesis.

| Module | Theorem | Property | Holds for |
| --- | --- | --- | --- |
| `ProceduresProofs` | `TypeCorrectness` | `TypeOK` | any processes |
| | `OneLiveVersion` | `OneLivePerName` | any |
| | `Supersession` | `SupersessionChain` | any |
| | `HonestLedger` | `LedgerHonest` | any |
| | `ReviewedProviderCalls` | `ProviderCallsReviewed` | any |
| | `AppendOnly` | `GovernanceAppendOnly` | any |
| | `VersionsCount` | `VersionCountsTransitions` | any |
| | `RetirementIsFinal` | `RetirementStopsRuns` | any |
| | `Refinement` | `ImplementsRegister` | any |
| `GroupsProofs` | `TypeCorrect` | `TypeOK` | any |
| | `OneReviewPerThesis` | `OnePending` | any |
| | `EdgesComeFromApprovals` | `GroupEdgesApproved` | any |
| | `DirectWritesSeen` | `DirectWritesAreSeen` | any |
| | `TrustStands` | stronger than the trust half of `DecisionsStand` | any |
| | `ReviewerIsObeyed` | `ResolvesInspected` | one process |
| | `DecisionsAreFinal` | `DecisionsStand` | one process |
| `InstanceStateProofs` | `TypeCorrect` | `TypeOK` | any |
| | `ChainUnbroken` | `SnapshotChain` | any |
| | `SandwichExact` | `CoordinateGraph` | any |
| | `PlanOfThePreview` | `AppliesThePreviewedPlan` | any |
| | `BatchReceiptsExact` | part of `ReceiptsNameTheirState` | any |
| | `BatchWritesNotLost` | `NoLostUpdate` | any, without `add_entity` and `add_relationship` |
| | `SoloWritesNotLost` | `NoLostUpdate` | one process |
| | `CacheIsSound` | `CacheCoherent` | one process |
| | `PagesOfOneGraph` | `PagesAgree` | one process |
| | `ReceiptsExact` | `ReceiptsNameTheirState` | one process |
| | `ApplyAsPreviewed` | `AppliesWhatWasPreviewed` | one process |
| `ResolutionContractsProofs` | `TypeCorrect` | `TypeOK` | any |
| | `ContractsConsumedOnce` | `PromisedIsAccepted` | any |
| | `OneAnswerStands` | `AnswersStand` | any |
| | `Refinement` | `ImplementsRegister` | any |
| | `AcceptanceForced` | `AcceptanceIsForced` | one process |
| `ClaimStateProofs` | `TypeCorrect` | `TypeOK` | any |
| | `ObservationsKept` | `ObservationsStand` | any |
| | `EntityChainsEnd` | entity half of `SupersessionAcyclic` | any |
| | `ChainsEnd` | `SupersessionAcyclic` | one process |
| | `MarkerExact` | `DriftIsDivergence` | one process |
| | `LastWordStands` | `ReviewIsLastWord` | one process |
| `AuditProofs` | `LogsAreHonest` | `DecisionLogHonest` | any |
| | `CitationsStand` | `CitationsHold` | any |
| | `CacheStaysHonest` | `CacheHonest` | any clients, commits, reloads, captures, length of file |
| | `DiffsExact` | `DiffExact` | any two finite images, ownership bases, identity maps and selection |
| `SubsystemsProofs` | `NobodyStranded` | `NothingStranded` | any instances, directories, writes, backups |
| | `PullsExplained` | `PullExplainable` | any entities, rules, crashes, hand edits, sequence of releases with a first one, breaking or not |
| | `NothingMiscounted` | `Accounted` | any surfaces, flushing threads, capacity, observations |
| | `WorkflowsExact` | `WorkflowExact` | any plans whose steps name earlier ones, sound graphs to start from, applies and writes of others |
| | `IdentityKept` | `IdentityHolds` | any tuples and types, first images, releases, pulls, minted ids, records |

The type invariants are in no run, since their theorems cover them. Each proof has
one lemma per action, and each lemma one step per conjunct that the action can
disturb; `Invariance` and `SoloInvariance` combine them.

### Procedures

`IInv` adds two facts to the properties. `RecordInv` says
what a status implies about a row: a live or retired row was accepted by
somebody other than its author and its pins compile its definition. Without it
`ProviderCallsReviewed` does not survive `CallProvider`. `InvocationInv` relates
the locals of a call to the tables: the record read by the first transaction
stays true of the procedure, except that a live one may have been retired since.
This is why a stale read is harmless here: definition and pins are immutable
once a record is live, and only the status can have moved. The pins compared in
preflight are therefore still the pins when a provider is called, whatever the
files contain by then.

The proof has one lemma per action. `RunsUnaffected` and `TableUnaffected` state
once what a lifecycle step leaves true of runs and the other way round.
`FinalizeStep` serves all the refusals and failures; `MoveStep` serves the steps
that only move a call on. `AcceptStep` is the long one, because acceptance
changes two rows: the new version and its predecessor.

**Action properties and refinement.** `AppendOnly` and `Refinement` go through the
actions once more under `IInv`. The refinement maps the live procedures of a name
to the register's holder and the installed ones to its spent values: `Accept` is
`Install`, `Retire` is `Vacate`, every other step is a stutter. That an accepted
draft was never installed before is where `IInv` is needed. `RetirementIsFinal`
uses the auxiliary invariant `Stopped(r)`: once a procedure is retired, a call
that has not been authorized, however far its preflight had come, never reaches a
provider.

### Groups

`OnePending` and `GroupEdgesApproved` are not inductive: a proposer stores back a
group row that it read several transactions ago. `CallInv` says by phase what a call
still knows after any interference, which is little: the group it read is stored and
has the thesis it had (`NamesGroup`), because no step moves a group to another thesis.
That is enough for a stale write to replace a row of its own thesis, and the unique
index, which the transaction checks, does the rest. `TrustStands` needs that
resolutions are only appended and that the latest confirmed approval of a thesis is
unique; these facts about the latest and earliest position in a sequence are the
lemmas of `PositionTheorems`.

With one process `FreshCall` adds that what a call has read of its group is what is
stored. `ResolvesInspected` and
`DecisionsStand` follow; the run `review_race` is the failure of `FreshCall` for two.

### InstanceState

`HistoryNow` (the history ends with the committed graph and head) makes the history
variable usable, and `SandwichInv` is the argument for the revision sandwich of state
diff: if no commit has happened since it was opened, what has been read so far is the
committed graph. Since each commit moves the revision, an equal closing revision
means that none has. `WorkflowInv` carries the lock of a preview to the transaction
that compares it. `NoLostUpdate` for `batch` rests on the graph being read inside the
transaction; with the two writers that read before, it needs `Solo`. `SoloInv` says
that the cache, the graph of a call and the continuation token are all of the
committed state, through rollbacks, failed calls and restarts.

### ResolutionContracts

`FollowedIsOverturned` (an answer that another one followed is overturned) turns "the
last answer stands or none does" into an invariant, and `EvidenceInTime` says that
what an answer cites was observed after the contract was opened and, if it is
satisfied, at or after its check time.
`ContractsConsumedOnce` holds under races because the transaction looks the
contract up again and compares the content that it stores. The refinement maps the
contracts to `AnswerRegister` by the position of the standing answer: a resolution is
`Answer`, a disposition that overturns is `Overturn`, one that upholds what was
overturned is `Reinstate`. `AcceptanceForced` needs one process, since `add_entity`
compares the row as it loaded it: `ViewFresh` says that this is the stored one.

### ClaimState

`TInv` includes the rows that processes hold and will write back. Acyclicity is proved
without recursion: `Chained` says that every non-empty set of nodes has one whose
pointer leaves the set, and that only settled nodes have pointers. A supersession adds
one pointer, to a node that is live and hence has none; other writes drop pointers.
Entities' pointers are only moved inside transactions, so that their half needs no
hypothesis. For the drift marker the lemma is that stamping a row from its old marker
and the written properties gives the divergence from the approved content, whatever was
written before: the marker is a function of where the row is and not of how it came
there. `ClaimsHeard` adds the review that the history variable `word` has. For
observations `ObservedInv` says that each acknowledged request has a record of its key,
claim, stance and content, and that no key has two records for one claim; records are
only appended, and a disposition touches the verdict alone.

### DecisionRecords and SourceArtifacts

`DecisionInv`: operations have names of their own (`NamesFresh`), one is in the log of
its record once it has appended and only then (`RunningLogged`, `ReturnedLogged`), and
a closing event is last and only in the log of a closed record (`LogsClosed`).
`ArtifactInv` says what a reader knows at each of its SELECTs while others register
and edit (`CallOK`), down to the finding that it is about to stamp; it survives because
revisions are only added and a first drift is never forgotten (`Grows`).

### Relocation and OverlayPull

`RelocationInv`: rows name distinct directories and none the derived directory of
another instance (`RowsDistinct`, `RowsPlaced`), which is why `CreateRow` may write
without a check; a restore is only ever for an instance that is gone
(`RestoreInv`); until the row of a relocated instance moves, its source is registered
and equal to the copy, and afterwards no row names the source (`RelocateInv`), so that
removing it strands nobody. `PullInv`: bookkeeping is never ahead of the database, nor
the database ahead of the tag or of the release being applied (`ReleasesOrdered`); the
files show the target from the step on that wrote them (`StepsShow`). The order is
what makes "stale is refused" inductive: a repair that dies half way has replaced
`current/` by a release that is at least as new as the database, hence not the one
`instance.json` still names.

### WorkingSet

`CacheInv`: every line in the file and every line that a client holds is truthful
(`Truthful`): a line that verifies as fresh against its own revision shows what the
state held then, and still holds if the revision has not moved, unless a commit fell
between the two reads that made it. Lines are only ever chosen and moved by merge,
compaction and clearing, so that the file being rewritten from a stale copy can lose
lines and not spoil them. `RefreshOK` follows an undisturbed refresh through its
phases: each record it set out from is already replaced by a fresh line or still to
be fetched. That a merge returns only lines it was given is proved of the loop.

### StateDiff

There is one step, so that `DiffInv` only says that the report on display is the one
of an `IsComparison`; the work is in what `DiffEdges` computes for any two finite
images. The rows of each side fall into three parts (`FromSplit`, `ToSplit`): those in an
item, those that a claim id met in an equal state, and those that cancelled. Items are
told apart by the claim id or the tuple they are about (`ItemsApart`), hence no row is
in two. Cancellation is counted class by class, a class being the rows of one tuple in
one state: ranked by load order the rows of a class are 1 to its size (`ClassRanks`), so
that as many cancel on one side as on the other (`CancelInClass`), and sums over classes
give the totals and the replay. That the result does not depend on direction or load
order, where no two rows of a side tie, is shown by an involution on items for the first
(`TurnItem`: swap sides, added and removed) and by renumbering the rows of an item for
the second (`ReItem`); both commute with each part of the computation.

### Telemetry

`TelemetryInv`: for each surface that was never shed, the number of calls kept by the
history variable is the sum over table, buffer and batches in flight, and the first
stamp in the table is the least of them: what was kept of the first stamps is among all
of them and nothing in them is earlier (`Coarser`). The totals with what was refused for
want of room agree too. A flush moves one summand into another; a refused one is added
back to a buffer that is full of others, and what does not fit is counted. The sums are
over finite sets, hence `TelemetryAssumption`.

### WorkflowSteps

`RunInv` says of a run half way that its graph, its collected rows and its outputs are
what its steps so far make of the graph and the sources it began with. Since what a step may
do and what it does is a function of that (`Can`, and one lemma for each kind of step
that two runs which see the same views take the same step), a preview and an apply
from the same graph and sources agree. `Promise`: what the client holds is what its plan
comes to over the state that it saw, for plans that look once. `Outcome`: the last apply
stored the graph its run came to, in tables and snapshot alike, or it ended at a step
that could not be taken or that called a provider. Refusals are part of it: whether
an apply step is refused is a function of the graph, the rows and the rules too, so what
let the preview pass lets the apply pass. A difference between preview and apply thus
needs a provider that answers differently or a plan that looks twice.

### ClaimIdentity

`IdentityInv`. An id-less release is identified by the position of an edge among its
parallel ones, and releases come and go between pulls; the properties speak of the
present map and tables alone and are not inductive. What is missing is whose each edge
is. The invariant says that there is an assignment `of` of tuples to things (an
existentially quantified function, since nothing in the program stores it) under which
the edges of the release, the history of places and the rows are all of the tuple that
they are listed with (`Lined`), and every row and every id that somebody wrote down
names its thing (`Names`): it is the id that the thing was made with, and not in the
map, or the map has it at the thing's place. `InPlace` is what a place means: the things
of a tuple that has not shifted are, in any release, a prefix of the tuple's history, in
which nothing occurs twice. `Explained` says that the map reaches as far as the tracked
release without ids and that a row carries each of its ids, `OldRows` the same of a
database before its migration; `PubTogether`, `PubKnown` and `PubStays` are about ids
that the publisher assigns, which appear only once it assigns them, come to a whole
tuple at a time and do not go away. The loop over the edges of a release (`AllNamed`) is
shown to give the n-th edge of a tuple the n-th id of its list or a new one; extraction
and merge keep rows apart by the owner of their type. Migration turns what was
positional into ids once, and a pull after it finds them again in the map.

### Loops

A loop of the code over rows is a recursive function of the position it has reached
(`Merged` and `Among` of `WorkingSet`, `RowsAt` and `JoinOutput` of
`WorkflowSteps`, `EdgesAt` and `AllNamed` of `ClaimIdentity`) or a sum of the
community modules (`Telemetry`). The library's induction schemes cannot be
instantiated by the installed provers; `CountingUp` of `PositionTheorems` does without:
of the positions at which a set fails to hold there would be a least one, which is
neither the first nor the successor of a good one. It is applied to the set of
positions at which the claim holds, one lemma for each loop. `PositionTheorems` also has the
facts about positions in a table, sums over finite sets, sequences, and the elements
taken out of a list.

### Assumptions

That `None` is none of the values it stands beside (`NoneAssumption`,
`AbsenceAssumption`, `ReleasesAssumption`), that definitions, deltas, clocks and
policies are well formed (`DefinitionsAssumption`, `DeltasAssumption`,
`ClocksAssumption`, `PolicyAssumption` and the like), that there are at least as many
directories as governed instances (`DirectoriesAssumption`), that there are finitely
many surfaces and flushing threads (`TelemetryAssumption`), that the steps of a
plan name earlier ones and graphs to start from have a row once (`PlansAssumption`,
`StartsAssumption`), that there is a tuple and first images are edges of the tuples
there are (`TuplesAssumption`), that what a read shows are properties of things there
are (`PayloadsAssumption`), that a diff compares finite images whose rows have places of
their own (`ComparisonsAssumption`), and that bounds are natural numbers, those of group
versions and configs positive.

### Only model-checked

- `RunsSettle`: liveness under fairness is out of the prover's reach.
- `AnswerAsDeclared`: what a breadth-first search over a frontier returns, against the
  set of paths that the query declares. That the search has met every path when its
  frontier is empty is an induction over paths of any length with the candidates sorted
  on the way, and the declared set is defined layer by layer over the steps of the query;
  it is checked over all graphs within the bounds.

## 6. Not modelled

**Data.** Collection queries, includes, ordering and projection of rows; YAML
validation and composition; the inside of transforms (casting, ranking,
aggregation); bundle and backup formats member by member; digests as hashes (a
digest is the value it covers); rendering.

**Time and storage.** Deadlines are a step that may happen at any moment, timestamps
are the order of rows, except where a property compares them (`ResolutionContracts`,
`Telemetry`). Storage failures inside SQLite.

**Components.** Credentials, authentication and permissions, except the caller's tier in
`Procedures`. The catalog of the working set and its path checks. Providers and
transports, whose code is outside: a call is a step that succeeds or fails. Receipts as
trees. Kits, canonical views, the compiler and linter: functions of files without state.
Server routes, MCP handlers, the CLI and the HTTP client: adapters that parse, call one
service and format; together with the config schema, the contracts of the client and the
renderers they are most of the lines of the repository, and hold no state that an action
could change. Within the modelled parts: procedures' `repeat` attempts count as provider
calls; the diff's procedures section, its selectors and capped view; the stored diff
artifacts; neighbourhood expansion; local instances in the registry; initialisation.
