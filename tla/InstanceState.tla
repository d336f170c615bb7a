--------------------------- MODULE InstanceState ---------------------------
(***************************************************************************)
(* Several operating-system processes (the daemon, a CLI, an MCP server)   *)
(* that hold a handle on one instance: one SQLite state.db, one            *)
(* config.yaml and one lock file.  Each handle (CruxibleInstance) keeps a  *)
(* private graph cache.  Write transactions open with BEGIN IMMEDIATE, so  *)
(* a transaction is one step here; every read outside a transaction is a   *)
(* step of its own, and a graph load is two (entity rows, then edge rows). *)
(*                                                                         *)
(* The graph is one entity row and one edge row, each a set of property    *)
(* cells.  A write names the cells it sets (its delta) but persists whole  *)
(* rows, as the upserts of storage/sqlite.py do.                           *)
(***************************************************************************)
EXTENDS Integers, Sequences

CONSTANTS
    Processes,      \* handles on the instance
    Cells,          \* property cells of the two rows
    EntityCells,    \* the cells of the entity row; the others are the edge's
    Values, None,
    EntityDeltas,   \* what add_entity may write
    EdgeDeltas,     \* what add_relationship may write
    BatchDeltas,    \* what batch_direct_write may write
    WorkflowDelta,  \* what the canonical workflow computes
    Ops,            \* the operations the processes are asked for
    MaxRevision, MaxConfig, MaxBuild   \* bounds of the exploration

EdgeCells == Cells \ EntityCells
Tables == {EntityCells, EdgeCells}
Graphs == [Cells -> Values \cup {None}]
IsDelta(d) == DOMAIN d \subseteq Cells /\ \A c \in DOMAIN d : d[c] \in Values
Deltas == EntityDeltas \cup EdgeDeltas \cup BatchDeltas \cup {WorkflowDelta}
AllOps == {"list", "page", "query", "preview", "apply", "add_entity",
           "add_relationship", "batch", "snapshot", "diff", "lock"}

ASSUME CellsAssumption == EntityCells \subseteq Cells
ASSUME NoneAssumption == None \notin Values /\ None \notin Graphs
ASSUME DeltasAssumption == \A d \in Deltas : IsDelta(d)
ASSUME OpsAssumption == Ops \subseteq AllOps
ASSUME BoundsAssumption ==
    MaxRevision \in Nat /\ MaxConfig \in Nat \ {0} /\ MaxBuild \in Nat

VARIABLES
    graph,      \* the committed graph rows
    revision,   \* instance_state.read_revision
    head,       \* instance_state.head_snapshot_id (0: none)
    snapshots,  \* the snapshots table; a snapshot's id is its position
    config,     \* version of config.yaml
    lock,       \* the lock file, or None
    cache,      \* [process -> its _graph_cache, or None]
    pc,         \* [process -> where its current call is]
    job,        \* [process -> the locals of its current call]
    out,        \* [process -> what its last call returned]
    preview,    \* a preview identity some client holds, or None
    cursor,     \* a continuation token some client holds, or None
    history     \* [revision -> what was committed then]; read by no action

db == <<graph, revision, head, snapshots, history>>
files == <<config, lock>>
held == <<preview, cursor>>
vars == <<db, files, held, cache, pc, job, out>>

----------------------------------------------------------------------------
(* Rows and deltas. *)

\* apply_entity / apply_relationship on an in-memory graph: the named
\* properties are set, the others of the row are kept.
Merge(g, d) == [c \in Cells |-> IF c \in DOMAIN d THEN d[c] ELSE g[c]]

\* The cells of every row a delta touches.
TouchedCells(d) == UNION {t \in Tables : t \cap DOMAIN d # {}}

\* upsert_entities / upsert_relationships: a touched row is replaced, whole,
\* by the row of the in-memory image.
UpsertRows(g, image, d) ==
    [c \in Cells |-> IF c \in TouchedCells(d) THEN image[c] ELSE g[c]]

\* A row that the image does not hold is inserted: for an entity that is an
\* upsert on its id, for an edge a fresh claim with the next edge_key, which
\* the UNIQUE constraint refuses if another edge was stored meanwhile.
Storable(g, image, d) ==
    (EdgeCells \cap DOMAIN d # {} /\ \A c \in EdgeCells : image[c] = None)
        => \A c \in EdgeCells : g[c] = None

\* create, update or noop: what apply_entity_set / apply_relationship_set
\* counts for one row.
RowOutcome(g, d, t) ==
    IF \A c \in t : g[c] = None THEN "create"
    ELSE IF \A c \in t \cap DOMAIN d : g[c] = d[c] THEN "noop"
    ELSE "update"

ApplyPreviews(g) ==
    [t \in {u \in Tables : u \cap DOMAIN WorkflowDelta # {}}
        |-> RowOutcome(g, WorkflowDelta, t)]

\* compute_apply_digest: the lock, the head and the previewed counts.
ApplyDigest(l, h, g) == [lock |-> l, head |-> h, previews |-> ApplyPreviews(g)]

\* Mutant: the config digest of the lock is not compared.
CompilesAnyLock(cfg) == lock # None

\* compile_workflow refuses a lock that was built for another config.
Compiles(cfg) == lock # None /\ lock.config = cfg

----------------------------------------------------------------------------
(* Locals and results of a call. *)

NoJob == [op |-> "none", delta |-> None, config |-> 0, lock |-> None,
          head |-> 0, rev |-> 0, closing |-> 0, image |-> None,
          token |-> None, attempt |-> 0]

NoResult == [op |-> "none", rev |-> 0, head |-> 0, saw |-> None, to |-> 0,
             digest |-> None, token |-> None]

EmptyGraph == [c \in Cells |-> None]

Init ==
    /\ graph = EmptyGraph
    /\ revision = 0
    /\ head = 0
    /\ snapshots = <<>>
    /\ config = 1
    /\ lock = None
    /\ cache = [p \in Processes |-> None]
    /\ pc = [p \in Processes |-> "idle"]
    /\ job = [p \in Processes |-> NoJob]
    /\ out = [p \in Processes |-> NoResult]
    /\ preview = None
    /\ cursor = None
    /\ history = [r \in {0} |-> [graph |-> EmptyGraph, head |-> 0]]

\* A client calls: the locals are set and the call goes to its first step.
Call(p, j, next) ==
    /\ pc[p] = "idle"
    /\ j.op \in Ops
    /\ job' = [job EXCEPT ![p] = j]
    /\ out' = [out EXCEPT ![p] = NoResult]
    /\ pc' = [pc EXCEPT ![p] = next]

\* The call goes on to its next step with new locals.
Goto(p, j, next) ==
    /\ job' = [job EXCEPT ![p] = j]
    /\ pc' = [pc EXCEPT ![p] = next]
    /\ UNCHANGED out

\* The call returns.
Return(p, result) ==
    /\ pc' = [pc EXCEPT ![p] = "idle"]
    /\ job' = [job EXCEPT ![p] = NoJob]
    /\ out' = [out EXCEPT ![p] = result]

SetCache(p, image) == cache' = [cache EXCEPT ![p] = image]

\* Mutant: a table that reads depend on is treated as audit-only.
CommitWithoutRevision(g, snaps, h) ==
    /\ revision < MaxRevision
    /\ graph' = g
    /\ snapshots' = snaps
    /\ head' = h
    /\ history' = [history EXCEPT ![revision] = [graph |-> g, head |-> h]]
    /\ UNCHANGED revision

\* SQLiteUnitOfWork.commit of a state-mutating unit of work: the rows, the
\* head and the advanced read revision become visible together.
CommitUnitOfWork(g, snaps, h) ==
    /\ revision < MaxRevision
    /\ graph' = g
    /\ snapshots' = snaps
    /\ head' = h
    /\ revision' = revision + 1
    /\ history' = [r \in 0 .. (revision + 1) |->
                     IF r <= revision THEN history[r]
                     ELSE [graph |-> g, head |-> h]]

----------------------------------------------------------------------------
(* load_graph: the cache if there is one, otherwise two SELECTs. *)

LoadCached(p) ==
    /\ pc[p] = "load"
    /\ cache[p] # None
    /\ Goto(p, [job[p] EXCEPT !.image = cache[p]], "use")
    /\ UNCHANGED <<db, files, held, cache>>

LoadEntities(p) ==
    /\ pc[p] = "load"
    /\ cache[p] = None
    /\ Goto(p, [job[p] EXCEPT !.image = graph], "edges")
    /\ UNCHANGED <<db, files, held, cache>>

LoadRelationships(p) ==
    /\ pc[p] = "edges"
    /\ LET image == [c \in Cells |-> IF c \in EntityCells THEN job[p].image[c]
                                                          ELSE graph[c]]
       IN  /\ Goto(p, [job[p] EXCEPT !.image = image], "use")
           /\ SetCache(p, image)
    /\ UNCHANGED <<db, files, held>>

----------------------------------------------------------------------------
(* Reads: list pages with continuation tokens, and receipted queries. *)

StartRead(p, op) ==
    /\ op \in {"list", "query"}
    /\ Call(p, [NoJob EXCEPT !.op = op], "load")
    /\ UNCHANGED <<db, files, held, cache>>

\* _accept_continuation: the token must carry the current config and revision.
AcceptContinuation(p) ==
    /\ cursor # None
    /\ cursor.config = config
    /\ cursor.rev = revision
    /\ Call(p, [NoJob EXCEPT !.op = "page", !.token = cursor], "load")
    /\ UNCHANGED <<db, files, held, cache>>

\* service_list: rows from the image, then the revision is read and stamped
\* on the page and on the continuation token of the next one, which the
\* client keeps or not.  (The token carries no rows: its field saw is what
\* the page showed, and no guard reads it.)
FinishList(p) ==
    /\ pc[p] = "use"
    /\ job[p].op \in {"list", "page"}
    /\ Return(p, [NoResult EXCEPT !.op = job[p].op, !.rev = revision,
                                  !.saw = job[p].image, !.token = job[p].token])
    /\ cursor' \in {cursor, [config |-> config, rev |-> revision,
                            saw |-> job[p].image]}
    /\ UNCHANGED <<db, files, preview, cache>>

\* service_query: as above, and the receipt is saved in a write transaction,
\* which drops the cache.  Receipts are audit rows: the revision stays.
FinishQuery(p) ==
    /\ pc[p] = "use"
    /\ job[p].op = "query"
    /\ Return(p, [NoResult EXCEPT !.op = "query", !.rev = revision,
                                  !.head = head, !.saw = job[p].image])
    /\ SetCache(p, None)
    /\ UNCHANGED <<db, files, held>>

----------------------------------------------------------------------------
(* _resolve_current of service/state_diff.py: the revision sandwich. *)

OpenCoordinate(j) == [j EXCEPT !.rev = revision, !.attempt = @ + 1]

\* Mutant: the cache is not invalidated before the sandwich.
StartDiffCached(p) ==
    /\ Call(p, OpenCoordinate([NoJob EXCEPT !.op = "diff"]), "load")
    /\ UNCHANGED <<db, files, held, cache>>

StartDiff(p) ==
    /\ Call(p, OpenCoordinate([NoJob EXCEPT !.op = "diff"]), "load")
    /\ SetCache(p, None)
    /\ UNCHANGED <<db, files, held>>

ReadClosing(p) ==
    /\ pc[p] = "use"
    /\ job[p].op = "diff"
    /\ Goto(p, [job[p] EXCEPT !.closing = revision], "coordinate")
    /\ UNCHANGED <<db, files, held, cache>>

\* The head is read last; then the two revisions are compared, the whole
\* capture is tried once more, or the read is refused.
FinishDiff(p) ==
    /\ pc[p] = "coordinate"
    /\ \/ /\ job[p].closing = job[p].rev
          /\ Return(p, [NoResult EXCEPT !.op = "diff", !.rev = job[p].rev,
                                        !.head = head, !.saw = job[p].image])
          /\ UNCHANGED cache
       \/ /\ job[p].closing # job[p].rev
          /\ job[p].attempt < 2
          /\ Goto(p, OpenCoordinate(job[p]), "load")
          /\ SetCache(p, None)
       \/ /\ job[p].closing # job[p].rev
          /\ job[p].attempt >= 2
          /\ Return(p, [NoResult EXCEPT !.op = "refused"])
          /\ UNCHANGED cache
    /\ UNCHANGED <<db, files, held>>

----------------------------------------------------------------------------
(* Canonical workflows: preview, then apply. *)

\* service_run of a canonical workflow: execute_workflow loads config and
\* lock, compiles, and (ReadHead) reads the head before it loads the graph.
StartPreview(p) ==
    /\ Compiles(config)
    /\ Call(p, [NoJob EXCEPT !.op = "preview", !.config = config,
                             !.lock = lock], "head")
    /\ UNCHANGED <<db, files, held, cache>>

ReadHead(p) ==
    /\ pc[p] = "head"
    /\ Goto(p, [job[p] EXCEPT !.head = head], "load")
    /\ UNCHANGED <<db, files, held, cache>>

PreviewDigest(j) == ApplyDigest(j.lock, j.head, j.image)

\* The client gets the digest, and keeps it or the one it has already.  The
\* preview's receipt is saved in a write transaction (the cache drops).
FinishPreview(p) ==
    /\ pc[p] = "use"
    /\ job[p].op = "preview"
    /\ preview' \in {preview, PreviewDigest(job[p])}
    /\ Return(p, [NoResult EXCEPT !.op = "preview"])
    /\ SetCache(p, None)
    /\ UNCHANGED <<db, files, cursor>>

\* service_apply_workflow: load the config, drop the cache, and preview again
\* outside any transaction.  The token holds the digest and, inside it, the
\* head the client passes as expected_head_snapshot_id.
StartApply(p) ==
    /\ preview # None
    /\ IF Compiles(config)
       THEN Call(p, [NoJob EXCEPT !.op = "apply", !.config = config,
                                  !.lock = lock, !.token = preview], "head")
       ELSE Call(p, [NoJob EXCEPT !.op = "apply"], "idle")
    /\ SetCache(p, None)
    /\ UNCHANGED <<db, files, held>>

\* Mutant: the digest is not compared.
SkipDigest(p) ==
    /\ pc[p] = "use"
    /\ job[p].op = "apply"
    /\ Goto(p, job[p], "lock")
    /\ UNCHANGED <<db, files, held, cache>>

CheckDigest(p) ==
    /\ pc[p] = "use"
    /\ job[p].op = "apply"
    /\ IF PreviewDigest(job[p]) = job[p].token
       THEN Goto(p, job[p], "lock")
       ELSE Return(p, [NoResult EXCEPT !.op = "refused"])
    /\ UNCHANGED <<db, files, held, cache>>

CheckLock(p) ==
    /\ pc[p] = "lock"
    /\ IF lock = job[p].lock
       THEN Goto(p, job[p], "commit")
       ELSE Return(p, [NoResult EXCEPT !.op = "refused"])
    /\ UNCHANGED <<db, files, held, cache>>

\* _write_snapshot: the parent is the head read inside the transaction, the
\* config whatever config.yaml says by then.
SnapshotOf(g) ==
    [parent |-> head, graph |-> g, rev |-> revision + 1, config |-> config]

\* The write transaction: execute_workflow once more, on the graph base; kept
\* is what the cache holds afterwards.  The plan is compiled from the config
\* that was loaded at the start of the call, under the lock file as it is now.
\* The apply steps load config.yaml again and validate against that one (a
\* refusal is a Rollback), and the snapshot records it: the plan and the
\* recorded config differ if the file was edited meanwhile.
ApplyTransaction(p, base, kept) ==
    /\ pc[p] = "commit"
    /\ job[p].op = "apply"
    /\ Compiles(job[p].config)
    /\ LET image == Merge(base, WorkflowDelta)
       IN  CommitUnitOfWork(UpsertRows(graph, image, WorkflowDelta),
                            Append(snapshots, SnapshotOf(image)),
                            Len(snapshots) + 1)
    /\ SetCache(p, kept)
    /\ Return(p, [NoResult EXCEPT !.op = "apply", !.head = head,
                    !.to = Len(snapshots) + 1, !.saw = base,
                    !.digest = ApplyDigest(lock, head, base),
                    !.token = job[p].token])
    /\ UNCHANGED <<files, held>>

\* Mutant: the transaction starts from the graph cached by the guard.
CommitApplyCached(p) ==
    ApplyTransaction(p, job[p].image, Merge(job[p].image, WorkflowDelta))

\* The graph is read inside the transaction (write_transaction has dropped
\* the cache).
CommitApply(p) == ApplyTransaction(p, graph, Merge(graph, WorkflowDelta))

----------------------------------------------------------------------------
(* Direct writes. *)

\* service_add_entities / service_add_relationships load the graph before
\* mutation_receipt opens the transaction.
StartAdd(p, op, d) ==
    /\ \/ op = "add_entity" /\ d \in EntityDeltas
       \/ op = "add_relationship" /\ d \in EdgeDeltas
    /\ Call(p, [NoJob EXCEPT !.op = op, !.delta = d], "load")
    /\ UNCHANGED <<db, files, held, cache>>

\* The transaction stamps head and revision on the receipt, and upserts the
\* touched rows of the image that was loaded before it began.
CommitAdd(p) ==
    /\ pc[p] = "use"
    /\ job[p].op \in {"add_entity", "add_relationship"}
    /\ Storable(graph, job[p].image, job[p].delta)
    /\ CommitUnitOfWork(
         UpsertRows(graph, Merge(job[p].image, job[p].delta), job[p].delta),
         snapshots, head)
    /\ SetCache(p, None)
    /\ Return(p, [NoResult EXCEPT !.op = job[p].op, !.rev = revision,
                    !.head = head, !.saw = job[p].image])
    /\ UNCHANGED <<files, held>>

\* service_batch_direct_write prepares inside the transaction.
StartBatch(p, d) ==
    /\ Call(p, [NoJob EXCEPT !.op = "batch", !.delta = d], "commit")
    /\ UNCHANGED <<db, files, held, cache>>

\* rev is the revision stamped on the receipt, kept what stays cached.
BatchTransaction(p, rev, kept) ==
    /\ pc[p] = "commit"
    /\ job[p].op = "batch"
    /\ CommitUnitOfWork(
         UpsertRows(graph, Merge(graph, job[p].delta), job[p].delta),
         snapshots, head)
    /\ SetCache(p, kept)
    /\ Return(p, [NoResult EXCEPT !.op = "batch", !.rev = rev,
                    !.head = head, !.saw = graph])
    /\ UNCHANGED <<files, held>>

\* Mutants: the cached graph survives the write; the receipt is stamped with
\* the revision the commit produces.
CommitBatchKeepsCache(p) == BatchTransaction(p, revision, cache[p])
CommitBatchStampsAfter(p) == BatchTransaction(p, revision + 1, None)

\* mutation_receipt stamps the coordinates when its transaction opens.
CommitBatch(p) == BatchTransaction(p, revision, None)

----------------------------------------------------------------------------
(* service_create_snapshot, the lock file, the config file, failures. *)

\* The parent for the receipt is read before the transaction.
StartSnapshot(p) ==
    /\ Call(p, [NoJob EXCEPT !.op = "snapshot", !.head = head], "commit")
    /\ UNCHANGED <<db, files, held, cache>>

\* The receipt names the head that was read before the transaction.
SnapshotTransaction(p, parent) ==
    /\ pc[p] = "commit"
    /\ job[p].op = "snapshot"
    /\ CommitUnitOfWork(graph,
         Append(snapshots, [SnapshotOf(graph) EXCEPT !.parent = parent]),
         Len(snapshots) + 1)
    /\ SetCache(p, graph)
    /\ Return(p, [NoResult EXCEPT !.op = "snapshot", !.head = job[p].head,
                    !.to = Len(snapshots) + 1])
    /\ UNCHANGED <<files, held>>

\* Mutant: the head read before the transaction becomes the parent.
CommitSnapshotStaleParent(p) == SnapshotTransaction(p, job[p].head)

CommitSnapshot(p) == SnapshotTransaction(p, head)

\* Any failure in a write transaction (validation, a guard, a provider, the
\* compile step): rollback, cache dropped, refusal receipt (an audit row).
Rollback(p) ==
    /\ \/ pc[p] = "commit"
       \/ pc[p] = "use" /\ job[p].op \in {"add_entity", "add_relationship"}
    /\ SetCache(p, None)
    /\ Return(p, [NoResult EXCEPT !.op = "refused"])
    /\ UNCHANGED <<db, files, held>>

\* service_lock: load the config, build, write the file.
StartLock(p) ==
    /\ Call(p, [NoJob EXCEPT !.op = "lock", !.config = config], "write_lock")
    /\ UNCHANGED <<db, files, held, cache>>

WriteLock(p) ==
    /\ pc[p] = "write_lock"
    /\ \E build \in 0 .. MaxBuild :
          lock' = [config |-> job[p].config, build |-> build]
    /\ Return(p, [NoResult EXCEPT !.op = "lock"])
    /\ UNCHANGED <<db, config, held, cache>>

\* The operator reloads or edits config.yaml.
ReloadConfig ==
    /\ config < MaxConfig
    /\ config' = config + 1
    /\ UNCHANGED <<db, lock, held, cache, pc, job, out>>

\* A process dies and comes back: its handle is new, the database is not.
Restart(p) ==
    /\ pc[p] # "idle" \/ cache[p] # None
    /\ SetCache(p, None)
    /\ Return(p, NoResult)
    /\ UNCHANGED <<db, files, held>>

LoadStep(p) == LoadCached(p) \/ LoadEntities(p) \/ LoadRelationships(p)

ReadStep(p) ==
    \/ \E op \in {"list", "query"} : StartRead(p, op)
    \/ AcceptContinuation(p)
    \/ FinishList(p)
    \/ FinishQuery(p)
    \/ StartDiff(p)
    \/ ReadClosing(p)
    \/ FinishDiff(p)

WorkflowStep(p) ==
    \/ StartPreview(p)
    \/ ReadHead(p)
    \/ FinishPreview(p)
    \/ StartApply(p)
    \/ CheckDigest(p)
    \/ CheckLock(p)
    \/ CommitApply(p)

WriteStep(p) ==
    \/ \E op \in {"add_entity", "add_relationship"}, d \in Deltas :
          StartAdd(p, op, d)
    \/ CommitAdd(p)
    \/ \E d \in BatchDeltas : StartBatch(p, d)
    \/ CommitBatch(p)
    \/ StartSnapshot(p)
    \/ CommitSnapshot(p)
    \/ Rollback(p)
    \/ StartLock(p)
    \/ WriteLock(p)

Next ==
    \/ \E p \in Processes :
          LoadStep(p) \/ ReadStep(p) \/ WorkflowStep(p) \/ WriteStep(p)
            \/ Restart(p)
    \/ ReloadConfig

Spec == Init /\ [][Next]_vars

----------------------------------------------------------------------------
(* Properties. *)

Locks == [config : 1 .. MaxConfig, build : 0 .. MaxBuild]
Digests == [lock : Locks, head : Nat,
            previews : [{u \in Tables : u \cap DOMAIN WorkflowDelta # {}}
                          -> {"create", "update", "noop"}]]
Cursors == [config : 1 .. MaxConfig, rev : Nat, saw : Graphs]
States == [graph : Graphs, head : Nat]
Phases == {"idle", "head", "load", "edges", "use", "lock", "commit",
           "coordinate", "write_lock"}
Jobs == [op : AllOps \cup {"none"}, delta : Deltas \cup {None},
         config : 0 .. MaxConfig, lock : Locks \cup {None}, head : Nat,
         rev : Nat, closing : Nat, image : Graphs \cup {None},
         token : Digests \cup Cursors \cup {None}, attempt : 0 .. 2]
Results == [op : AllOps \cup {"none", "refused"}, rev : Nat, head : Nat,
            saw : Graphs \cup {None}, to : Nat, digest : Digests \cup {None},
            token : Digests \cup Cursors \cup {None}]

\* Every variable stays in its type; ids and revisions never run ahead of
\* the tables they index.
TypeOK ==
    /\ graph \in Graphs
    /\ revision \in Nat
    /\ head \in Nat
    /\ snapshots \in Seq([parent : Nat, graph : Graphs, rev : Nat,
                          config : 1 .. MaxConfig])
    /\ config \in 1 .. MaxConfig
    /\ lock \in Locks \cup {None}
    /\ cache \in [Processes -> Graphs \cup {None}]
    /\ pc \in [Processes -> Phases]
    /\ job \in [Processes -> Jobs]
    /\ out \in [Processes -> Results]
    /\ preview \in Digests \cup {None}
    /\ cursor \in Cursors \cup {None}
    /\ history \in [0 .. revision -> States]

\* The snapshots form one chain that ends at the head, whatever processes
\* took them, and each holds the graph that was committed together with it.
SnapshotChain ==
    /\ head = Len(snapshots)
    /\ \A i \in 1 .. Len(snapshots) :
          /\ snapshots[i].parent = i - 1
          /\ snapshots[i].rev \in 1 .. revision
          /\ history[snapshots[i].rev] = [graph |-> snapshots[i].graph, head |-> i]

\* A coordinate that state diff returns describes a graph that really was the
\* committed graph at the revision it names, although the graph was read in
\* two SELECTs with other processes committing in between.
CoordinateGraph ==
    \A p \in Processes :
        out[p].op = "diff" => out[p].saw = history[out[p].rev].graph

\* The plan that an apply commits was compiled from the config its preview was
\* compiled from, whoever edits config.yaml or rebuilds the lock after the
\* guard has compared the lock and before the transaction opens.  (Only the
\* plan: validation and the snapshot's own config follow the file.)
AppliesThePreviewedPlan ==
    \A p \in Processes :
        out[p].op = "apply" => out[p].digest.lock.config = out[p].token.lock.config

\* An apply commits only what was previewed: the digest it computes in its
\* transaction is the one the client confirmed.
AppliesWhatWasPreviewed ==
    \A p \in Processes : out[p].op = "apply" => out[p].digest = out[p].token

\* A commit changes a cell only to what the committing call's delta says: no
\* write undoes the committed write of another process.
CellsOf(j) == IF j.op = "apply" THEN WorkflowDelta ELSE j.delta
NoLostUpdate ==
    [][\A c \in Cells : graph'[c] # graph[c] =>
          \E p \in Processes :
             /\ job'[p] # job[p]
             /\ job[p].op \in {"apply", "add_entity", "add_relationship", "batch"}
             /\ c \in DOMAIN CellsOf(job[p])
             /\ graph'[c] = CellsOf(job[p])[c]]_vars

\* A receipt names the state that the call saw: for a query the graph that was
\* observed, for a mutation what it was decided against.
ReceiptsNameTheirState ==
    \A p \in Processes :
        out[p].op \in {"query", "add_entity", "add_relationship", "batch"} =>
            history[out[p].rev] = [graph |-> out[p].saw, head |-> out[p].head]

\* Two pages joined by a continuation token and stamped with one revision
\* show the same graph: a paginated read that spans two states is noticed.
PagesAgree ==
    \A p \in Processes :
        (out[p].op = "page" /\ out[p].rev = out[p].token.rev) =>
            out[p].saw = out[p].token.saw

\* A handle's cache holds the committed graph.
CacheCoherent == \A p \in Processes : cache[p] \in {None, graph}

=============================================================================
