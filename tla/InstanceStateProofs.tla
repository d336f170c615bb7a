------------------------- MODULE InstanceStateProofs -------------------------
(***************************************************************************)
(* Machine-checked proofs about InstanceState, for every set of handles,   *)
(* cells, values and deltas and every bound.                               *)
(*                                                                         *)
(* The first part holds for any number of processes.  The second is about  *)
(* a single process, whose calls do not overlap.                           *)
(***************************************************************************)
EXTENDS InstanceState, TLAPS

-----------------------------------------------------------------------------
(* The inductive invariant. *)

\* The history ends with the committed state.
HistoryNow == history[revision] = [graph |-> graph, head |-> head]

Adds == {"add_entity", "add_relationship"}
Workflows == {"preview", "apply"}

\* What an open revision sandwich knows: if no commit has happened since it
\* was opened, what has been read is the committed graph.
SandwichInv(p) ==
    LET j == job[p]
    IN /\ pc[p] \in {"load", "edges", "use", "coordinate"} =>
             j.rev <= revision /\ j.attempt \in 1 .. 2
       /\ pc[p] = "load" => cache[p] = None
       /\ pc[p] \in {"edges", "use"} /\ revision = j.rev => j.image = graph
       /\ pc[p] = "coordinate" /\ j.closing = j.rev =>
             j.image = history[j.rev].graph

\* What a workflow call knows: its lock was built for its config and, once
\* the digest is checked, is the one the client confirmed.
WorkflowInv(p) ==
    LET j == job[p]
    IN /\ pc[p] # "idle" => j.lock \in Locks /\ j.lock.config = j.config
       /\ j.op = "apply" /\ pc[p] # "idle" => j.token \in Digests
       /\ pc[p] \in {"lock", "commit"} => j.token.lock = j.lock

CallInv(p) ==
    LET j == job[p]
    IN /\ j.op \in Ops \cup {"none"}
       /\ pc[p] \in {"edges", "use", "coordinate"} => j.image \in Graphs
       /\ pc[p] = "head" => j.op \in Workflows
       /\ pc[p] = "lock" => j.op = "apply"
       /\ pc[p] = "coordinate" => j.op = "diff"
       /\ pc[p] = "write_lock" => j.config \in 1 .. MaxConfig
       /\ pc[p] = "commit" /\ j.op = "batch" => j.delta \in BatchDeltas
       /\ pc[p] # "idle" /\ j.op \in Adds => j.delta \in Deltas
       /\ j.op = "diff" => SandwichInv(p)
       /\ j.op \in Workflows => WorkflowInv(p)

\* What a returned diff, batch and apply say.
OutInv(p) ==
    /\ out[p].op = "diff" =>
          out[p].rev <= revision /\ out[p].saw = history[out[p].rev].graph
    /\ out[p].op = "batch" =>
          /\ out[p].rev <= revision
          /\ history[out[p].rev] = [graph |-> out[p].saw, head |-> out[p].head]
    /\ out[p].op = "apply" => out[p].digest.lock.config = out[p].token.lock.config

IInv ==
    /\ TypeOK
    /\ HistoryNow
    /\ SnapshotChain
    /\ \A p \in Processes : CallInv(p) /\ OutInv(p)

-----------------------------------------------------------------------------
(* One process. *)

Solo == \A p, q \in Processes : p = q

\* A token stands for what was committed at the revision it names.
TokenHonest(token) ==
    token.rev <= revision /\ token.saw = history[token.rev].graph

\* With one process, what a call has read is what is committed.
FreshCall(p) ==
    LET j == job[p]
    IN /\ pc[p] \in {"edges", "use", "lock"} => j.image = graph
       /\ pc[p] = "commit" /\ j.op = "apply" => j.image = graph
       /\ pc[p] \in {"load", "edges", "use", "lock", "commit"} /\ j.op \in Workflows =>
             j.head = head
       /\ pc[p] \in {"lock", "commit"} /\ j.op = "apply" => PreviewDigest(j) = j.token
       /\ pc[p] = "commit" /\ j.op = "apply" => lock = j.lock
       /\ pc[p] # "idle" /\ j.op = "page" => j.token \in Cursors /\ TokenHonest(j.token)

FreshOut(p) ==
    /\ out[p].op \in {"query", "batch"} \cup Adds =>
          /\ out[p].rev <= revision
          /\ history[out[p].rev] = [graph |-> out[p].saw, head |-> out[p].head]
    /\ out[p].op = "page" /\ out[p].rev = out[p].token.rev => out[p].saw = out[p].token.saw
    /\ out[p].op = "apply" => out[p].digest = out[p].token

SoloInv ==
    /\ IInv
    /\ CacheCoherent
    /\ cursor # None => TokenHonest(cursor)
    /\ \A p \in Processes : FreshCall(p) /\ FreshOut(p)

-----------------------------------------------------------------------------
(* Rows and deltas. *)

\* Writing a delta into a graph gives a graph.
LEMMA MergeType ==
    ASSUME NEW g \in Graphs, NEW d \in Deltas
    PROVE  Merge(g, d) \in Graphs
  BY DeltasAssumption DEF Merge, Graphs, IsDelta

\* The cells a delta names lie in the rows it touches.
LEMMA NamedCellsTouched ==
    ASSUME NEW d \in Deltas
    PROVE  DOMAIN d \subseteq TouchedCells(d) /\ DOMAIN d \subseteq Cells
  BY DeltasAssumption DEF IsDelta, TouchedCells, Tables, EdgeCells

\* Storing whole rows of an image gives a graph.
LEMMA UpsertType ==
    ASSUME NEW g \in Graphs, NEW image \in Graphs, NEW d
    PROVE  UpsertRows(g, image, d) \in Graphs
  BY DEF UpsertRows, Graphs

\* Storing the touched rows of the merged graph stores the merged graph: a
\* write decided on the committed graph changes the cells it names, only.
LEMMA UpsertMerged ==
    ASSUME NEW g \in Graphs, NEW d \in Deltas
    PROVE  UpsertRows(g, Merge(g, d), d) = Merge(g, d)
  BY NamedCellsTouched DEF UpsertRows, Merge

\* The digest of a lock, a head and a graph.
LEMMA DigestType ==
    ASSUME NEW l \in Locks, NEW h \in Nat, NEW g
    PROVE  /\ ApplyDigest(l, h, g) \in Digests
           /\ ApplyDigest(l, h, g).lock = l
  <1>1. ApplyPreviews(g) \in [{u \in Tables : u \cap DOMAIN WorkflowDelta # {}}
                                -> {"create", "update", "noop"}]
    BY DEF ApplyPreviews, RowOutcome
  <1> QED
    BY <1>1 DEF ApplyDigest, Digests

-----------------------------------------------------------------------------
(* Frames. *)

\* Process p moves on: it alone gets new locals, a new result, a new cache.
Moves(p) ==
    /\ \E l \in Phases : pc' = [pc EXCEPT ![p] = l]
    /\ \E j \in Jobs : job' = [job EXCEPT ![p] = j]
    /\ \E r \in Results : out' = [out EXCEPT ![p] = r]
    /\ \E c \in Graphs \cup {None} : cache' = [cache EXCEPT ![p] = c]

\* The database only grows: a commit leads to a new revision, and nothing
\* else changes the graph.
DbGrows ==
    /\ revision' \in Nat /\ revision <= revision'
    /\ \A r \in 0 .. revision : history'[r] = history[r]
    /\ revision' = revision => graph' = graph

\* The files and the identities that clients hold keep their types.
FilesAndHeld ==
    /\ config' \in 1 .. MaxConfig
    /\ lock' \in Locks \cup {None}
    /\ preview' \in Digests \cup {None}
    /\ cursor' \in Cursors \cup {None}

\* The tables keep their types and the history ends with the committed state.
TablesRight ==
    /\ graph' \in Graphs
    /\ head' \in Nat
    /\ snapshots' \in Seq([parent : Nat, graph : Graphs, rev : Nat,
                   config : 1 .. MaxConfig])
    /\ history' \in [0 .. revision' -> States]
    /\ HistoryNow'
    /\ SnapshotChain'

\* A move of p keeps the types and leaves the other processes alone.
LEMMA MoveKeeps ==
    ASSUME TypeOK, NEW p \in Processes, Moves(p)
    PROVE  /\ cache' \in [Processes -> Graphs \cup {None}]
           /\ pc' \in [Processes -> Phases]
           /\ job' \in [Processes -> Jobs]
           /\ out' \in [Processes -> Results]
           /\ \A q \in Processes : q # p =>
                 /\ pc'[q] = pc[q] /\ job'[q] = job[q]
                 /\ out'[q] = out[q] /\ cache'[q] = cache[q]
  BY DEF TypeOK, Moves

\* A process that does not move keeps what it knows, whatever is committed.
LEMMA OthersKept ==
    ASSUME TypeOK, NEW q \in Processes, CallInv(q), OutInv(q), DbGrows,
           pc'[q] = pc[q], job'[q] = job[q], out'[q] = out[q], cache'[q] = cache[q]
    PROVE  CallInv(q)' /\ OutInv(q)'
  <1>1. /\ job[q] \in Jobs /\ job[q].rev \in Nat
        /\ out[q] \in Results /\ out[q].rev \in Nat /\ revision \in Nat
    BY DEF TypeOK, Jobs, Results
  <1>2. OutInv(q)'
    <2>1. out[q].rev <= revision => /\ out[q].rev <= revision'
                                    /\ history'[out[q].rev] = history[out[q].rev]
      BY <1>1 DEF DbGrows
    <2> QED
      BY <2>1 DEF OutInv
  <1>3. job[q].op = "diff" => SandwichInv(q)'
    <2>1. job[q].rev <= revision => /\ job[q].rev <= revision'
                                    /\ history'[job[q].rev] = history[job[q].rev]
      BY <1>1 DEF DbGrows
    <2>2. job[q].rev <= revision /\ revision' = job[q].rev =>
             revision = job[q].rev /\ graph' = graph
      BY <1>1 DEF DbGrows
    <2> QED
      BY <2>1, <2>2 DEF CallInv, SandwichInv
  <1>4. job[q].op \in Workflows => WorkflowInv(q)'
    BY DEF CallInv, WorkflowInv
  <1> QED
    BY <1>2, <1>3, <1>4 DEF CallInv

\* A step of p preserves the invariant when it keeps the tables right and
\* what p itself knows.
LEMMA StepKeeps ==
    ASSUME IInv, NEW p \in Processes, Moves(p), DbGrows, FilesAndHeld, TablesRight,
           CallInv(p)', OutInv(p)'
    PROVE  IInv'
  <1>1. TypeOK'
    BY MoveKeeps DEF IInv, TypeOK, DbGrows, FilesAndHeld, TablesRight
  <1>2. ASSUME NEW q \in Processes PROVE CallInv(q)' /\ OutInv(q)'
    BY MoveKeeps, OthersKept DEF IInv
  <1> QED
    BY <1>1, <1>2 DEF IInv, TablesRight

\* A step that commits nothing leaves the tables right.
LEMMA DbKept ==
    ASSUME IInv, UNCHANGED db
    PROVE  DbGrows /\ TablesRight
  BY DEF IInv, TypeOK, db, DbGrows, TablesRight, HistoryNow, SnapshotChain

\* ... and one that touches no file and nothing a client holds keeps those.
LEMMA FilesKept ==
    ASSUME IInv, UNCHANGED files, UNCHANGED held
    PROVE  FilesAndHeld
  BY DEF IInv, TypeOK, files, held, FilesAndHeld

\* A commit adds one state to the history.
LEMMA CommitGrows ==
    ASSUME IInv, NEW g \in Graphs, NEW snaps, NEW h \in Nat, CommitUnitOfWork(g, snaps, h)
    PROVE  /\ DbGrows /\ revision' = revision + 1 /\ revision \in Nat
           /\ graph' = g /\ snapshots' = snaps /\ head' = h
           /\ history' \in [0 .. revision' -> States]
           /\ HistoryNow'
  <1>1. revision \in Nat /\ history \in [0 .. revision -> States]
    BY DEF IInv, TypeOK
  <1>2. /\ revision' = revision + 1 /\ graph' = g /\ snapshots' = snaps /\ head' = h
        /\ history' = [r \in 0 .. (revision + 1) |->
                         IF r <= revision THEN history[r] ELSE [graph |-> g, head |-> h]]
    BY DEF CommitUnitOfWork
  <1>3. [graph |-> g, head |-> h] \in States
    BY DEF States
  <1>4. history' \in [0 .. revision' -> States]
    BY <1>1, <1>2, <1>3
  <1>5. \A r \in 0 .. revision : history'[r] = history[r]
    BY <1>1, <1>2
  <1>6. history'[revision'] = [graph |-> g, head |-> h]
    BY <1>1, <1>2
  <1> QED
    BY <1>1, <1>2, <1>4, <1>5, <1>6 DEF DbGrows, HistoryNow

\* A commit that takes no snapshot.
LEMMA PlainCommit ==
    ASSUME IInv, NEW g \in Graphs, CommitUnitOfWork(g, snapshots, head)
    PROVE  DbGrows /\ TablesRight
  <1>1. head \in Nat /\ snapshots \in Seq([parent : Nat, graph : Graphs, rev : Nat,
                   config : 1 .. MaxConfig])
    BY DEF IInv, TypeOK
  <1>2. /\ DbGrows /\ revision' = revision + 1 /\ revision \in Nat
        /\ graph' = g /\ snapshots' = snapshots /\ head' = head
        /\ history' \in [0 .. revision' -> States]
        /\ HistoryNow'
    BY <1>1, CommitGrows
  <1>3. ASSUME NEW i \in 1 .. Len(snapshots)
        PROVE  /\ snapshots[i].parent = i - 1
               /\ snapshots[i].rev \in 1 .. revision'
               /\ history'[snapshots[i].rev] = [graph |-> snapshots[i].graph, head |-> i]
    <2>1. /\ snapshots[i].parent = i - 1
          /\ snapshots[i].rev \in 1 .. revision
          /\ history[snapshots[i].rev] = [graph |-> snapshots[i].graph, head |-> i]
      BY DEF IInv, SnapshotChain
    <2> QED
      BY <1>2, <2>1 DEF DbGrows
  <1>4. head = Len(snapshots)
    BY DEF IInv, SnapshotChain
  <1>5. SnapshotChain'
    BY <1>2, <1>3, <1>4 DEF SnapshotChain
  <1> QED
    BY <1>1, <1>2, <1>5 DEF TablesRight

\* A commit that takes a snapshot of what it commits, on top of the head.
LEMMA SnapshotCommit ==
    ASSUME IInv, NEW g \in Graphs,
           CommitUnitOfWork(g, Append(snapshots, SnapshotOf(g)), Len(snapshots) + 1)
    PROVE  DbGrows /\ TablesRight
  <1> DEFINE n == Len(snapshots) + 1
             new == SnapshotOf(g)
             Rows == [parent : Nat, graph : Graphs, rev : Nat,
                   config : 1 .. MaxConfig]
  <1>1. /\ snapshots \in Seq(Rows) /\ Len(snapshots) \in Nat /\ n \in Nat /\ head = n - 1
        /\ config \in 1 .. MaxConfig
    BY DEF IInv, TypeOK, SnapshotChain
  <1>2. /\ DbGrows /\ revision' = revision + 1 /\ revision \in Nat
        /\ graph' = g /\ snapshots' = Append(snapshots, new) /\ head' = n
        /\ history' \in [0 .. revision' -> States]
        /\ HistoryNow'
    BY <1>1, CommitGrows
  <1>3. /\ new \in Rows /\ new.parent = n - 1 /\ new.graph = g /\ new.rev = revision'
    BY <1>1, <1>2 DEF SnapshotOf
  <1> HIDE DEF new
  <1>4. /\ snapshots' \in Seq(Rows) /\ Len(snapshots') = n
        /\ snapshots'[n] = new
        /\ \A i \in 1 .. Len(snapshots) : snapshots'[i] = snapshots[i]
    BY <1>1, <1>2, <1>3
  <1>5. SnapshotChain'
    <2>1. ASSUME NEW i \in 1 .. n
          PROVE  /\ snapshots'[i].parent = i - 1
                 /\ snapshots'[i].rev \in 1 .. revision'
                 /\ history'[snapshots'[i].rev] = [graph |-> snapshots'[i].graph, head |-> i]
      <3>1. CASE i = n
        BY <1>1, <1>2, <1>3, <1>4, <3>1 DEF HistoryNow
      <3>2. CASE i # n
        <4>1. i \in 1 .. Len(snapshots)
          BY <1>1, <3>2
        <4>2. /\ snapshots[i].parent = i - 1
              /\ snapshots[i].rev \in 1 .. revision
              /\ history[snapshots[i].rev] = [graph |-> snapshots[i].graph, head |-> i]
          BY <4>1 DEF IInv, SnapshotChain
        <4>3. snapshots'[i] = snapshots[i]
          BY <1>4, <4>1
        <4>4. snapshots[i].rev \in 0 .. revision /\ snapshots[i].rev \in 1 .. revision'
          BY <1>2, <4>2
        <4>5. history'[snapshots[i].rev] = history[snapshots[i].rev]
          BY <1>2, <4>4 DEF DbGrows
        <4> QED
          BY <4>2, <4>3, <4>4, <4>5
      <3> QED
        BY <3>1, <3>2
    <2> QED
      BY <1>2, <1>4, <2>1 DEF SnapshotChain
  <1> QED
    BY <1>1, <1>2, <1>4, <1>5 DEF TablesRight

-----------------------------------------------------------------------------
(* Calls that start, go on and return. *)

\* The initial locals and results.
LEMMA LocalTypes ==
    /\ NoJob \in Jobs /\ NoJob.op = "none" /\ NoJob.attempt = 0
    /\ NoResult \in Results /\ NoResult.op = "none"
    /\ [NoResult EXCEPT !.op = "refused"] \in Results
    /\ [NoResult EXCEPT !.op = "refused"].op = "refused"
    /\ "idle" \in Phases
  BY BoundsAssumption DEF NoJob, Jobs, NoResult, Results, Phases

\* The cache of p is set to c, or kept.
LEMMA CacheMoves ==
    ASSUME IInv, NEW p \in Processes, NEW c \in Graphs \cup {None},
           SetCache(p, c) \/ UNCHANGED cache
    PROVE  \E d \in Graphs \cup {None} : cache' = [cache EXCEPT ![p] = d]
  BY DEF SetCache, IInv, TypeOK

\* A call that returns.
LEMMA ReturnMoves ==
    ASSUME IInv, NEW p \in Processes, NEW r \in Results, Return(p, r),
           NEW c \in Graphs \cup {None}, SetCache(p, c) \/ UNCHANGED cache
    PROVE  Moves(p) /\ pc'[p] = "idle" /\ job'[p] = NoJob /\ out'[p] = r /\ CallInv(p)'
  <1>1. Moves(p)
    BY LocalTypes, CacheMoves DEF Return, Moves
  <1>2. pc'[p] = "idle" /\ job'[p] = NoJob /\ out'[p] = r
    BY DEF Return, IInv, TypeOK
  <1>3. CallInv(p)'
    BY <1>2, LocalTypes DEF CallInv, Adds, Workflows
  <1> QED
    BY <1>1, <1>2, <1>3

\* A call that goes on to its next step.
LEMMA GotoMoves ==
    ASSUME IInv, NEW p \in Processes, NEW j \in Jobs, NEW l \in Phases, Goto(p, j, l),
           NEW c \in Graphs \cup {None}, SetCache(p, c) \/ UNCHANGED cache
    PROVE  Moves(p) /\ pc'[p] = l /\ job'[p] = j /\ out'[p] = out[p]
  <1>1. \E r \in Results : out' = [out EXCEPT ![p] = r]
    BY DEF Goto, IInv, TypeOK
  <1>2. Moves(p)
    BY <1>1, CacheMoves DEF Goto, Moves
  <1>3. pc'[p] = l /\ job'[p] = j /\ out'[p] = out[p]
    BY DEF Goto, IInv, TypeOK
  <1> QED
    BY <1>2, <1>3

\* A call that starts.
LEMMA CallMoves ==
    ASSUME IInv, NEW p \in Processes, NEW j \in Jobs, NEW l \in Phases, Call(p, j, l),
           NEW c \in Graphs \cup {None}, SetCache(p, c) \/ UNCHANGED cache
    PROVE  Moves(p) /\ pc'[p] = l /\ job'[p] = j /\ out'[p] = NoResult /\ j.op \in Ops
  <1>1. Moves(p)
    BY LocalTypes, CacheMoves DEF Call, Moves
  <1>2. pc'[p] = l /\ job'[p] = j /\ out'[p] = NoResult /\ j.op \in Ops
    BY DEF Call, IInv, TypeOK
  <1> QED
    BY <1>1, <1>2

\* A call that returns no diff, batch or apply claims nothing here.
LEMMA PlainResult ==
    ASSUME NEW p \in Processes, out'[p].op \notin {"diff", "batch", "apply"}
    PROVE  OutInv(p)'
  BY DEF OutInv

\* A step of a call that keeps the database, the files and the result.
LEMMA GoOn ==
    ASSUME IInv, NEW p \in Processes, Moves(p), UNCHANGED <<db, files, held>>,
           out'[p] = out[p], CallInv(p)'
    PROVE  IInv'
  <1>1. OutInv(p)'
    BY DEF IInv, OutInv, db
  <1> QED
    BY <1>1, DbKept, FilesKept, StepKeeps

\* ... and one that returns, or starts.
LEMMA EndOrStart ==
    ASSUME IInv, NEW p \in Processes, Moves(p), UNCHANGED <<db, files, held>>,
           out'[p].op \notin {"diff", "batch", "apply"}, CallInv(p)'
    PROVE  IInv'
  BY PlainResult, DbKept, FilesKept, StepKeeps

-----------------------------------------------------------------------------
(* Loading the graph. *)

\* What the type invariant and the invariant of its call say of process p.
LEMMA Locals ==
    ASSUME IInv, NEW p \in Processes
    PROVE  /\ job[p] \in Jobs /\ out[p] \in Results /\ pc[p] \in Phases
           /\ cache[p] \in Graphs \cup {None}
           /\ graph \in Graphs /\ revision \in Nat /\ head \in Nat
           /\ config \in 1 .. MaxConfig /\ lock \in Locks \cup {None}
           /\ CallInv(p) /\ OutInv(p)
  BY DEF IInv, TypeOK

\* Giving a call an image changes no other local.
LEMMA WithImage ==
    ASSUME NEW j \in Jobs, NEW g \in Graphs \cup {None}
    PROVE  /\ [j EXCEPT !.image = g] \in Jobs
           /\ [j EXCEPT !.image = g].image = g
           /\ [j EXCEPT !.image = g].op = j.op
           /\ [j EXCEPT !.image = g].delta = j.delta
           /\ [j EXCEPT !.image = g].config = j.config
           /\ [j EXCEPT !.image = g].lock = j.lock
           /\ [j EXCEPT !.image = g].head = j.head
           /\ [j EXCEPT !.image = g].rev = j.rev
           /\ [j EXCEPT !.image = g].closing = j.closing
           /\ [j EXCEPT !.image = g].token = j.token
           /\ [j EXCEPT !.image = g].attempt = j.attempt
  BY DEF Jobs

\* A call that loads goes on with an image: in a sandwich, with the committed
\* graph unless a commit has happened since it was opened.
LEMMA LoadGoesOn ==
    ASSUME IInv, NEW p \in Processes, pc[p] \in {"load", "edges"},
           NEW g \in Graphs, NEW l \in {"edges", "use"},
           Goto(p, [job[p] EXCEPT !.image = g], l),
           UNCHANGED <<db, files, held>>,
           NEW c \in Graphs \cup {None}, SetCache(p, c) \/ UNCHANGED cache,
           job[p].op = "diff" /\ revision = job[p].rev => g = graph
    PROVE  IInv'
  <1> DEFINE j == [job[p] EXCEPT !.image = g]
  <1>1. /\ job[p] \in Jobs /\ CallInv(p)
        /\ l \in Phases /\ graph \in Graphs
    BY Locals DEF Phases
  <1>2. /\ j \in Jobs /\ j.image = g /\ j.op = job[p].op /\ j.delta = job[p].delta
        /\ j.config = job[p].config /\ j.lock = job[p].lock /\ j.rev = job[p].rev
        /\ j.token = job[p].token /\ j.attempt = job[p].attempt
    BY <1>1, WithImage
  <1>3. Goto(p, j, l)
    OBVIOUS
  <1> HIDE DEF j
  <1>4. Moves(p) /\ pc'[p] = l /\ job'[p] = j /\ out'[p] = out[p]
    BY <1>1, <1>2, <1>3, GotoMoves
  <1>5. graph' = graph /\ revision' = revision
    BY DEF db
  <1>6. job[p].op = "diff" => SandwichInv(p)'
    BY <1>1, <1>2, <1>4, <1>5 DEF CallInv, SandwichInv
  <1>7. job[p].op \in Workflows => WorkflowInv(p)'
    BY <1>1, <1>2, <1>4 DEF CallInv, WorkflowInv
  <1>8. CallInv(p)'
    BY <1>1, <1>2, <1>4, <1>6, <1>7 DEF CallInv
  <1> QED
    BY <1>4, <1>8, GoOn

\* The cached graph is used; a sandwich has dropped it.
LEMMA LoadCachedInv ==
    ASSUME IInv, NEW p \in Processes, LoadCached(p)
    PROVE  IInv'
  <1>1. cache[p] \in Graphs /\ pc[p] = "load" /\ CallInv(p)
    BY Locals DEF LoadCached
  <1>2. job[p].op # "diff"
    BY <1>1 DEF LoadCached, CallInv, SandwichInv
  <1> QED
    BY <1>1, <1>2, LoadGoesOn DEF LoadCached

\* The first SELECT reads the committed rows.
LEMMA LoadEntitiesInv ==
    ASSUME IInv, NEW p \in Processes, LoadEntities(p)
    PROVE  IInv'
  BY Locals, LoadGoesOn DEF LoadEntities

\* The second SELECT: entity rows of then, edge rows of now.
LEMMA LoadRelationshipsInv ==
    ASSUME IInv, NEW p \in Processes, LoadRelationships(p)
    PROVE  IInv'
  <1> DEFINE image == [c \in Cells |-> IF c \in EntityCells THEN job[p].image[c]
                                                          ELSE graph[c]]
  <1>1. /\ job[p].image \in Graphs /\ graph \in Graphs /\ CallInv(p) /\ pc[p] = "edges"
    BY Locals DEF LoadRelationships, CallInv
  <1>2. image \in Graphs
    BY <1>1 DEF Graphs
  <1>3. job[p].image = graph => image = graph
    BY <1>1 DEF Graphs
  <1>4. job[p].op = "diff" /\ revision = job[p].rev => image = graph
    BY <1>1, <1>3 DEF CallInv, SandwichInv
  <1>5. /\ Goto(p, [job[p] EXCEPT !.image = image], "use") /\ SetCache(p, image)
        /\ UNCHANGED <<db, files, held>>
    BY DEF LoadRelationships
  <1> HIDE DEF image
  <1> QED
    BY <1>1, <1>2, <1>4, <1>5, LoadGoesOn

-----------------------------------------------------------------------------
(* Reads. *)

\* A call whose operation has nothing to remember starts.
LEMMA PlainStart ==
    ASSUME IInv, NEW p \in Processes, NEW j \in Jobs, NEW l \in Phases, Call(p, j, l),
           UNCHANGED <<db, files, held>>,
           NEW c \in Graphs \cup {None}, SetCache(p, c) \/ UNCHANGED cache,
           j.op \notin {"diff"} \cup Workflows,
           l \notin {"head", "edges", "use", "coordinate", "lock"},
           l = "write_lock" => j.config \in 1 .. MaxConfig,
           j.op = "batch" => j.delta \in BatchDeltas,
           j.op \in Adds => j.delta \in Deltas
    PROVE  IInv'
  <1>1. Moves(p) /\ pc'[p] = l /\ job'[p] = j /\ out'[p] = NoResult /\ j.op \in Ops
    BY CallMoves
  <1>2. CallInv(p)'
    BY <1>1 DEF CallInv
  <1> QED
    BY <1>1, <1>2, LocalTypes, EndOrStart

\* A list or a query starts.
LEMMA StartReadInv ==
    ASSUME IInv, NEW p \in Processes, NEW op, StartRead(p, op)
    PROVE  IInv'
  <1> DEFINE j == [NoJob EXCEPT !.op = op]
  <1>1. op \in {"list", "query"} /\ Call(p, j, "load") /\ UNCHANGED <<db, files, held, cache>>
    BY DEF StartRead
  <1>2. j \in Jobs /\ j.op = op
    BY <1>1, BoundsAssumption DEF NoJob, Jobs, AllOps
  <1> HIDE DEF j
  <1> QED
    BY <1>1, <1>2, PlainStart DEF Phases, Workflows, Adds

\* A continuation is accepted.
LEMMA AcceptContinuationInv ==
    ASSUME IInv, NEW p \in Processes, AcceptContinuation(p)
    PROVE  IInv'
  <1> DEFINE j == [NoJob EXCEPT !.op = "page", !.token = cursor]
  <1>1. Call(p, j, "load") /\ UNCHANGED <<db, files, held, cache>>
    BY DEF AcceptContinuation
  <1>2. cursor \in Cursors \cup {None}
    BY DEF IInv, TypeOK
  <1>3. ASSUME NEW k \in Jobs, NEW t \in Digests \cup Cursors \cup {None}
        PROVE  /\ [k EXCEPT !.op = "page", !.token = t] \in Jobs
               /\ [k EXCEPT !.op = "page", !.token = t].op = "page"
    BY DEF Jobs, AllOps
  <1>4. j \in Jobs /\ j.op = "page"
    BY <1>2, <1>3, LocalTypes
  <1> HIDE DEF j
  <1> QED
    BY <1>1, <1>4, PlainStart DEF Phases, Workflows, Adds

\* A page is returned and its continuation token kept or not.
LEMMA FinishListInv ==
    ASSUME IInv, NEW p \in Processes, FinishList(p)
    PROVE  IInv'
  <1> DEFINE r == [NoResult EXCEPT !.op = job[p].op, !.rev = revision,
                                  !.saw = job[p].image, !.token = job[p].token]
             token == [config |-> config, rev |-> revision, saw |-> job[p].image]
  <1>1. /\ job[p].op \in {"list", "page"} /\ Return(p, r)
        /\ cursor' \in {cursor, token}
        /\ UNCHANGED <<db, files, preview, cache>>
    BY DEF FinishList
  <1>2. /\ job[p] \in Jobs /\ job[p].image \in Graphs
        /\ revision \in Nat /\ config \in 1 .. MaxConfig
    BY Locals DEF FinishList, CallInv
  <1>3. r \in Results /\ r.op = job[p].op
    BY <1>1, <1>2 DEF NoResult, Results, Jobs
  <1>4. token \in Cursors
    BY <1>2 DEF Cursors
  <1> HIDE DEF r, token
  <1>5. Moves(p) /\ out'[p] = r /\ CallInv(p)'
    BY <1>1, <1>3, ReturnMoves
  <1>6. FilesAndHeld
    BY <1>1, <1>4 DEF FilesAndHeld, files, IInv, TypeOK
  <1>7. OutInv(p)'
    BY <1>1, <1>3, <1>5, PlainResult
  <1> QED
    BY <1>1, <1>5, <1>6, <1>7, DbKept, StepKeeps

\* A query is answered and its receipt saved.
LEMMA FinishQueryInv ==
    ASSUME IInv, NEW p \in Processes, FinishQuery(p)
    PROVE  IInv'
  <1> DEFINE r == [NoResult EXCEPT !.op = "query", !.rev = revision,
                                  !.head = head, !.saw = job[p].image]
  <1>1. Return(p, r) /\ SetCache(p, None) /\ UNCHANGED <<db, files, held>>
    BY DEF FinishQuery
  <1>2. r \in Results /\ r.op = "query"
    BY Locals DEF NoResult, Results, Jobs, AllOps
  <1> HIDE DEF r
  <1>3. Moves(p) /\ out'[p] = r /\ CallInv(p)'
    BY <1>1, <1>2, ReturnMoves
  <1> QED
    BY <1>1, <1>2, <1>3, EndOrStart

\* A sandwich is opened: its revision is the current one.
LEMMA Opened ==
    ASSUME NEW j \in Jobs, j.attempt \in 0 .. 1, revision \in Nat
    PROVE  /\ OpenCoordinate(j) \in Jobs
           /\ OpenCoordinate(j).op = j.op
           /\ OpenCoordinate(j).rev = revision
           /\ OpenCoordinate(j).attempt \in 1 .. 2
  <1>1. j.attempt + 1 \in 1 .. 2 /\ j.attempt + 1 \in 0 .. 2
    OBVIOUS
  <1>2. \A n \in 0 .. 2 : [j EXCEPT !.rev = revision, !.attempt = n] \in Jobs
    BY DEF Jobs
  <1>3. OpenCoordinate(j) \in Jobs
    BY <1>1, <1>2 DEF OpenCoordinate
  <1>4. /\ OpenCoordinate(j).op = j.op /\ OpenCoordinate(j).rev = revision
        /\ OpenCoordinate(j).attempt = j.attempt + 1
    BY DEF OpenCoordinate, Jobs
  <1> QED
    BY <1>1, <1>3, <1>4

\* What a sandwich that has just been opened with an empty cache knows.
LEMMA OpenedInv ==
    ASSUME IInv, NEW p \in Processes, Moves(p), UNCHANGED <<db, files, held>>,
           pc'[p] = "load", cache' = [cache EXCEPT ![p] = None],
           job'[p].op = "diff", "diff" \in Ops, job'[p].rev = revision,
           job'[p].attempt \in 1 .. 2,
           out'[p] = out[p] \/ out'[p].op \notin {"diff", "batch", "apply"}
    PROVE  IInv'
  <1>1. cache'[p] = None /\ revision' = revision /\ revision \in Nat
    BY DEF IInv, TypeOK, db
  <1>2. SandwichInv(p)'
    BY <1>1 DEF SandwichInv
  <1>3. CallInv(p)'
    BY <1>2 DEF CallInv, Adds, Workflows
  <1> QED
    BY <1>3, GoOn, EndOrStart

\* A diff starts.
LEMMA StartDiffInv ==
    ASSUME IInv, NEW p \in Processes, StartDiff(p)
    PROVE  IInv'
  <1> DEFINE j == OpenCoordinate([NoJob EXCEPT !.op = "diff"])
  <1>1. Call(p, j, "load") /\ SetCache(p, None) /\ UNCHANGED <<db, files, held>>
    BY DEF StartDiff
  <1>2. /\ [NoJob EXCEPT !.op = "diff"] \in Jobs
        /\ [NoJob EXCEPT !.op = "diff"].op = "diff"
        /\ [NoJob EXCEPT !.op = "diff"].attempt \in 0 .. 1
    BY BoundsAssumption DEF NoJob, Jobs, AllOps
  <1>3. j \in Jobs /\ j.op = "diff" /\ j.rev = revision /\ j.attempt \in 1 .. 2
    BY <1>2, Locals, Opened
  <1> HIDE DEF j
  <1>4. "load" \in Phases
    BY DEF Phases
  <1>5. Moves(p) /\ pc'[p] = "load" /\ job'[p] = j /\ out'[p] = NoResult /\ j.op \in Ops
    BY <1>1, <1>3, <1>4, CallMoves
  <1> QED
    BY <1>1, <1>3, <1>5, LocalTypes, OpenedInv DEF SetCache

\* The closing revision is read: if it is the opening one, what was loaded is
\* the graph of that revision.
LEMMA ReadClosingInv ==
    ASSUME IInv, NEW p \in Processes, ReadClosing(p)
    PROVE  IInv'
  <1> DEFINE j == [job[p] EXCEPT !.closing = revision]
  <1>1. /\ pc[p] = "use" /\ job[p].op = "diff" /\ Goto(p, j, "coordinate")
        /\ UNCHANGED <<db, files, held, cache>>
    BY DEF ReadClosing
  <1>2. job[p] \in Jobs /\ CallInv(p) /\ revision \in Nat /\ "coordinate" \in Phases
    BY Locals DEF Phases
  <1>3. /\ j \in Jobs /\ j.op = "diff" /\ j.rev = job[p].rev /\ j.image = job[p].image
        /\ j.closing = revision /\ j.attempt = job[p].attempt
    BY <1>1, <1>2 DEF Jobs
  <1> HIDE DEF j
  <1>4. Moves(p) /\ pc'[p] = "coordinate" /\ job'[p] = j /\ out'[p] = out[p]
    BY <1>1, <1>2, <1>3, GotoMoves
  <1>5. SandwichInv(p)
    BY <1>1, <1>2 DEF CallInv
  <1>6. history[revision].graph = graph
    BY DEF IInv, HistoryNow
  <1>7. revision' = revision /\ graph' = graph /\ history' = history
    BY <1>1 DEF db
  <1>8. SandwichInv(p)'
    BY <1>1, <1>3, <1>4, <1>5, <1>6, <1>7 DEF SandwichInv
  <1>9. CallInv(p)'
    BY <1>1, <1>2, <1>3, <1>4, <1>8 DEF CallInv, Adds, Workflows
  <1> QED
    BY <1>1, <1>4, <1>9, GoOn

\* The coordinate is returned, captured again, or refused.
LEMMA FinishDiffInv ==
    ASSUME IInv, NEW p \in Processes, FinishDiff(p)
    PROVE  IInv'
  <1>1. /\ job[p] \in Jobs /\ CallInv(p) /\ pc[p] = "coordinate" /\ job[p].op = "diff"
        /\ SandwichInv(p) /\ head \in Nat /\ revision \in Nat
        /\ UNCHANGED <<db, files, held>>
    BY Locals DEF FinishDiff, CallInv
  <1>2. job[p].rev \in Nat /\ job[p].rev <= revision /\ job[p].attempt \in 1 .. 2
    BY <1>1 DEF SandwichInv, Jobs
  <1>3. CASE /\ job[p].closing = job[p].rev
             /\ Return(p, [NoResult EXCEPT !.op = "diff", !.rev = job[p].rev,
                                           !.head = head, !.saw = job[p].image])
             /\ UNCHANGED cache
    <2> DEFINE r == [NoResult EXCEPT !.op = "diff", !.rev = job[p].rev,
                                           !.head = head, !.saw = job[p].image]
    <2>1. /\ r \in Results /\ r.op = "diff" /\ r.rev = job[p].rev /\ r.saw = job[p].image
      BY <1>1, <1>2 DEF NoResult, Results, Jobs, AllOps
    <2>2. Return(p, r)
      BY <1>3
    <2> HIDE DEF r
    <2>3. Moves(p) /\ out'[p] = r /\ CallInv(p)'
      BY <1>3, <2>1, <2>2, ReturnMoves
    <2>4. job[p].image = history[job[p].rev].graph
      BY <1>1, <1>3 DEF SandwichInv
    <2>5. OutInv(p)'
      BY <1>1, <1>2, <2>1, <2>3, <2>4 DEF OutInv, db
    <2> QED
      BY <1>1, <2>3, <2>5, DbKept, FilesKept, StepKeeps
  <1>4. CASE /\ job[p].closing # job[p].rev
             /\ job[p].attempt < 2
             /\ Goto(p, OpenCoordinate(job[p]), "load")
             /\ SetCache(p, None)
    <2> DEFINE j == OpenCoordinate(job[p])
    <2>1. j \in Jobs /\ j.op = "diff" /\ j.rev = revision /\ j.attempt \in 1 .. 2
      BY <1>1, <1>2, <1>4, Opened
    <2>2. Goto(p, j, "load") /\ "load" \in Phases
      BY <1>4 DEF Phases
    <2> HIDE DEF j
    <2>3. Moves(p) /\ pc'[p] = "load" /\ job'[p] = j /\ out'[p] = out[p]
      BY <1>4, <2>1, <2>2, GotoMoves
    <2>4. "diff" \in Ops
      BY <1>1 DEF CallInv
    <2> QED
      BY <1>1, <1>4, <2>1, <2>3, <2>4, OpenedInv DEF SetCache
  <1>5. CASE /\ Return(p, [NoResult EXCEPT !.op = "refused"])
             /\ UNCHANGED cache
    <2>1. Moves(p) /\ out'[p].op = "refused" /\ CallInv(p)'
      BY <1>5, LocalTypes, ReturnMoves
    <2> QED
      BY <1>1, <2>1, EndOrStart
  <1> QED
    BY <1>3, <1>4, <1>5 DEF FinishDiff

-----------------------------------------------------------------------------
(* Canonical workflows. *)

\* A workflow call starts with a lock built for its config.
LEMMA WorkflowStart ==
    ASSUME IInv, NEW p \in Processes, NEW j \in Jobs, Call(p, j, "head"),
           UNCHANGED <<db, files, held>>,
           NEW c \in Graphs \cup {None}, SetCache(p, c) \/ UNCHANGED cache,
           j.op \in Workflows, j.lock \in Locks, j.lock.config = j.config,
           j.op = "apply" => j.token \in Digests
    PROVE  IInv'
  <1>1. Moves(p) /\ pc'[p] = "head" /\ job'[p] = j /\ out'[p] = NoResult /\ j.op \in Ops
    BY CallMoves DEF Phases
  <1>2. CallInv(p)'
    BY <1>1 DEF CallInv, WorkflowInv, Workflows, Adds
  <1> QED
    BY <1>1, <1>2, LocalTypes, EndOrStart

\* A preview starts.
LEMMA StartPreviewInv ==
    ASSUME IInv, NEW p \in Processes, StartPreview(p)
    PROVE  IInv'
  <1> DEFINE j == [NoJob EXCEPT !.op = "preview", !.config = config, !.lock = lock]
  <1>1. Call(p, j, "head") /\ UNCHANGED <<db, files, held, cache>> /\ Compiles(config)
    BY DEF StartPreview
  <1>2. config \in 1 .. MaxConfig /\ lock \in Locks /\ lock.config = config
    BY <1>1, Locals DEF Compiles
  <1>3. config \in 0 .. MaxConfig /\ lock \in Locks \cup {None}
    BY <1>2, BoundsAssumption
  <1>4. /\ j \in Jobs /\ j.op = "preview" /\ j.config = config /\ j.lock = lock
    <2>1. NoJob \in Jobs
      BY LocalTypes
    <2> QED
      BY <1>3, <2>1 DEF Jobs, AllOps
  <1> HIDE DEF j
  <1> QED
    BY <1>1, <1>2, <1>4, WorkflowStart DEF Workflows

\* The head is read.
LEMMA ReadHeadInv ==
    ASSUME IInv, NEW p \in Processes, ReadHead(p)
    PROVE  IInv'
  <1> DEFINE j == [job[p] EXCEPT !.head = head]
  <1>1. pc[p] = "head" /\ Goto(p, j, "load") /\ UNCHANGED <<db, files, held, cache>>
    BY DEF ReadHead
  <1>2. job[p] \in Jobs /\ CallInv(p) /\ head \in Nat /\ "load" \in Phases
    BY Locals DEF Phases
  <1>3. /\ j \in Jobs /\ j.op = job[p].op /\ j.lock = job[p].lock /\ j.delta = job[p].delta
        /\ j.config = job[p].config /\ j.token = job[p].token
    BY <1>2 DEF Jobs
  <1> HIDE DEF j
  <1>4. Moves(p) /\ pc'[p] = "load" /\ job'[p] = j /\ out'[p] = out[p]
    BY <1>1, <1>2, <1>3, GotoMoves
  <1>5. job[p].op \in Workflows => WorkflowInv(p)'
    BY <1>1, <1>2, <1>3, <1>4 DEF CallInv, WorkflowInv
  <1>6. CallInv(p)'
    BY <1>1, <1>2, <1>3, <1>4, <1>5 DEF CallInv, Workflows, Adds
  <1> QED
    BY <1>1, <1>4, <1>6, GoOn

\* A preview returns its digest.
LEMMA FinishPreviewInv ==
    ASSUME IInv, NEW p \in Processes, FinishPreview(p)
    PROVE  IInv'
  <1>1. /\ preview' \in {preview, PreviewDigest(job[p])}
        /\ Return(p, [NoResult EXCEPT !.op = "preview"]) /\ SetCache(p, None)
        /\ UNCHANGED <<db, files, cursor>>
    BY DEF FinishPreview
  <1>2. job[p] \in Jobs /\ WorkflowInv(p) /\ pc[p] = "use"
    BY Locals DEF FinishPreview, CallInv, Workflows
  <1>3. PreviewDigest(job[p]) \in Digests
    BY <1>2, DigestType DEF PreviewDigest, WorkflowInv, Jobs
  <1>4. /\ [NoResult EXCEPT !.op = "preview"] \in Results
        /\ [NoResult EXCEPT !.op = "preview"].op = "preview"
    BY DEF NoResult, Results, AllOps
  <1>5. Moves(p) /\ out'[p].op = "preview" /\ CallInv(p)'
    BY <1>1, <1>4, ReturnMoves
  <1>6. FilesAndHeld
    BY <1>1, <1>3 DEF FilesAndHeld, files, IInv, TypeOK
  <1> QED
    BY <1>1, <1>5, <1>6, PlainResult, DbKept, StepKeeps

\* An apply starts, or fails to compile.
LEMMA StartApplyInv ==
    ASSUME IInv, NEW p \in Processes, StartApply(p)
    PROVE  IInv'
  <1>1. SetCache(p, None) /\ UNCHANGED <<db, files, held>>
    BY DEF StartApply
  <1>2. CASE Compiles(config)
    <2> DEFINE j == [NoJob EXCEPT !.op = "apply", !.config = config,
                                  !.lock = lock, !.token = preview]
    <2>1. Call(p, j, "head")
      BY <1>2 DEF StartApply
    <2>2. /\ config \in 1 .. MaxConfig /\ lock \in Locks /\ lock.config = config
          /\ preview \in Digests
      BY <1>2, Locals DEF Compiles, StartApply, IInv, TypeOK
    <2>3. /\ j \in Jobs /\ j.op = "apply" /\ j.config = config /\ j.lock = lock
          /\ j.token = preview
      <3>1. /\ config \in 0 .. MaxConfig /\ lock \in Locks \cup {None}
            /\ preview \in Digests \cup Cursors \cup {None}
        BY <2>2, BoundsAssumption
      <3>2. NoJob \in Jobs
        BY LocalTypes
      <3> QED
        BY <3>1, <3>2 DEF Jobs, AllOps
    <2> HIDE DEF j
    <2> QED
      BY <1>1, <2>1, <2>2, <2>3, WorkflowStart DEF Workflows
  <1>3. CASE ~ Compiles(config)
    <2> DEFINE j == [NoJob EXCEPT !.op = "apply"]
    <2>1. Call(p, j, "idle")
      BY <1>3 DEF StartApply
    <2>2. j \in Jobs /\ j.op = "apply"
      BY BoundsAssumption DEF NoJob, Jobs, AllOps
    <2> HIDE DEF j
    <2>3. Moves(p) /\ pc'[p] = "idle" /\ job'[p] = j /\ out'[p] = NoResult /\ j.op \in Ops
      BY <1>1, <2>1, <2>2, LocalTypes, CallMoves
    <2>4. CallInv(p)'
      BY <2>2, <2>3 DEF CallInv, WorkflowInv, Adds, Workflows
    <2> QED
      BY <1>1, <2>3, <2>4, LocalTypes, EndOrStart
  <1> QED
    BY <1>2, <1>3

\* A call is refused outside any transaction.
LEMMA RefusedInv ==
    ASSUME IInv, NEW p \in Processes, Return(p, [NoResult EXCEPT !.op = "refused"]),
           NEW c \in Graphs \cup {None}, SetCache(p, c) \/ UNCHANGED cache,
           UNCHANGED <<db, files, held>>
    PROVE  IInv'
  <1>1. Moves(p) /\ out'[p].op = "refused" /\ CallInv(p)'
    BY LocalTypes, ReturnMoves
  <1> QED
    BY <1>1, EndOrStart

\* The digest is compared: from here on the token's lock is the call's.
LEMMA CheckDigestInv ==
    ASSUME IInv, NEW p \in Processes, CheckDigest(p)
    PROVE  IInv'
  <1>1. /\ pc[p] = "use" /\ job[p].op = "apply" /\ UNCHANGED <<db, files, held, cache>>
    BY DEF CheckDigest
  <1>2. /\ job[p] \in Jobs /\ CallInv(p) /\ WorkflowInv(p)
        /\ job[p].lock \in Locks /\ job[p].head \in Nat /\ "lock" \in Phases
    BY <1>1, Locals DEF CallInv, WorkflowInv, Workflows, Phases, Jobs
  <1>3. CASE PreviewDigest(job[p]) = job[p].token /\ Goto(p, job[p], "lock")
    <2>1. Moves(p) /\ pc'[p] = "lock" /\ job'[p] = job[p] /\ out'[p] = out[p]
      BY <1>1, <1>2, <1>3, GotoMoves
    <2>2. job[p].token.lock = job[p].lock
      BY <1>2, <1>3, DigestType DEF PreviewDigest
    <2>3. WorkflowInv(p)'
      BY <1>1, <1>2, <2>1, <2>2 DEF WorkflowInv
    <2>4. CallInv(p)'
      BY <1>1, <1>2, <2>1, <2>3 DEF CallInv, Adds, Workflows
    <2> QED
      BY <1>1, <2>1, <2>4, GoOn
  <1>4. CASE Return(p, [NoResult EXCEPT !.op = "refused"])
    BY <1>1, <1>4, RefusedInv
  <1> QED
    BY <1>3, <1>4 DEF CheckDigest

\* The lock file is compared.
LEMMA CheckLockInv ==
    ASSUME IInv, NEW p \in Processes, CheckLock(p)
    PROVE  IInv'
  <1>1. /\ pc[p] = "lock" /\ UNCHANGED <<db, files, held, cache>>
    BY DEF CheckLock
  <1>2. /\ job[p] \in Jobs /\ CallInv(p) /\ "commit" \in Phases /\ job[p].op = "apply"
        /\ WorkflowInv(p)
    BY <1>1, Locals DEF CallInv, Workflows, Phases
  <1>3. CASE Goto(p, job[p], "commit")
    <2>1. Moves(p) /\ pc'[p] = "commit" /\ job'[p] = job[p] /\ out'[p] = out[p]
      BY <1>1, <1>2, <1>3, GotoMoves
    <2>2. WorkflowInv(p)'
      BY <1>1, <1>2, <2>1 DEF WorkflowInv
    <2>3. CallInv(p)'
      BY <1>1, <1>2, <2>1, <2>2 DEF CallInv, Adds, Workflows
    <2> QED
      BY <1>1, <2>1, <2>3, GoOn
  <1>4. CASE Return(p, [NoResult EXCEPT !.op = "refused"])
    BY <1>1, <1>4, RefusedInv
  <1> QED
    BY <1>3, <1>4 DEF CheckLock

\* The transaction of an apply: what it stores and what it returns.
LEMMA CommitApplyStep ==
    ASSUME IInv, NEW p \in Processes, CommitApply(p)
    PROVE  LET g == Merge(graph, WorkflowDelta)
               r == [NoResult EXCEPT !.op = "apply", !.head = head,
                       !.to = Len(snapshots) + 1, !.saw = graph,
                       !.digest = ApplyDigest(lock, head, graph),
                       !.token = job[p].token]
           IN  /\ g \in Graphs
               /\ CommitUnitOfWork(g, Append(snapshots, SnapshotOf(g)), Len(snapshots) + 1)
               /\ SetCache(p, g)
               /\ Return(p, r)
               /\ r \in Results /\ r.op = "apply"
               /\ r.digest = ApplyDigest(lock, head, graph) /\ r.token = job[p].token
               /\ UNCHANGED <<files, held>>
               /\ pc[p] = "commit" /\ job[p].op = "apply" /\ WorkflowInv(p)
               /\ lock \in Locks /\ lock.config = job[p].config
  <1> DEFINE g == Merge(graph, WorkflowDelta)
             d == ApplyDigest(lock, head, graph)
             n == Len(snapshots) + 1
             r == [NoResult EXCEPT !.op = "apply", !.head = head, !.to = n, !.saw = graph,
                       !.digest = d, !.token = job[p].token]
  <1>1. /\ graph \in Graphs /\ WorkflowDelta \in Deltas /\ head \in Nat
        /\ job[p] \in Jobs /\ lock \in Locks \cup {None} /\ n \in Nat
    BY Locals DEF Deltas, IInv, TypeOK
  <1>2. g \in Graphs /\ UpsertRows(graph, g, WorkflowDelta) = g
    BY <1>1, MergeType, UpsertMerged
  <1>3. /\ pc[p] = "commit" /\ job[p].op = "apply"
        /\ lock \in Locks /\ lock.config = job[p].config
    BY <1>1 DEF CommitApply, ApplyTransaction, Compiles
  <1>4. /\ CommitUnitOfWork(UpsertRows(graph, g, WorkflowDelta),
                            Append(snapshots, SnapshotOf(g)), n)
        /\ SetCache(p, g) /\ Return(p, r) /\ UNCHANGED <<files, held>>
    BY DEF CommitApply, ApplyTransaction
  <1>5. d \in Digests
    BY <1>1, <1>3, DigestType
  <1>6. r \in Results /\ r.op = "apply" /\ r.digest = d /\ r.token = job[p].token
    <2>1. job[p].token \in Digests \cup Cursors \cup {None}
      BY <1>1 DEF Jobs
    <2> HIDE DEF d, n
    <2> QED
      BY <1>1, <1>5, <2>1 DEF NoResult, Results, AllOps
  <1>7. WorkflowInv(p)
    BY <1>3, Locals DEF CallInv, Workflows
  <1> QED
    BY <1>2, <1>3, <1>4, <1>6, <1>7

\* An apply commits.
LEMMA CommitApplyInv ==
    ASSUME IInv, NEW p \in Processes, CommitApply(p)
    PROVE  IInv'
  <1> DEFINE g == Merge(graph, WorkflowDelta)
             r == [NoResult EXCEPT !.op = "apply", !.head = head,
                       !.to = Len(snapshots) + 1, !.saw = graph,
                       !.digest = ApplyDigest(lock, head, graph),
                       !.token = job[p].token]
  <1>1. /\ g \in Graphs
        /\ CommitUnitOfWork(g, Append(snapshots, SnapshotOf(g)), Len(snapshots) + 1)
        /\ SetCache(p, g) /\ Return(p, r)
        /\ r \in Results /\ r.op = "apply"
        /\ r.digest = ApplyDigest(lock, head, graph) /\ r.token = job[p].token
        /\ UNCHANGED <<files, held>>
        /\ pc[p] = "commit" /\ job[p].op = "apply" /\ WorkflowInv(p)
        /\ lock \in Locks /\ lock.config = job[p].config
    BY CommitApplyStep
  <1> HIDE DEF g, r
  <1>2. Moves(p) /\ out'[p] = r /\ CallInv(p)'
    BY <1>1, ReturnMoves
  <1>3. r.digest.lock.config = r.token.lock.config
    <2>1. ApplyDigest(lock, head, graph).lock = lock
      BY <1>1, Locals, DigestType
    <2>2. job[p].token.lock.config = job[p].config
      BY <1>1 DEF WorkflowInv
    <2> QED
      BY <1>1, <2>1, <2>2
  <1>4. OutInv(p)'
    BY <1>1, <1>2, <1>3 DEF OutInv
  <1> QED
    BY <1>1, <1>2, <1>4, SnapshotCommit, FilesKept, StepKeeps

-----------------------------------------------------------------------------
(* Direct writes, snapshots, the lock file, failures. *)

\* An add starts.
LEMMA StartAddInv ==
    ASSUME IInv, NEW p \in Processes, NEW op, NEW d, StartAdd(p, op, d)
    PROVE  IInv'
  <1> DEFINE j == [NoJob EXCEPT !.op = op, !.delta = d]
  <1>1. /\ op \in Adds /\ d \in Deltas
        /\ Call(p, j, "load") /\ UNCHANGED <<db, files, held, cache>>
    BY DEF StartAdd, Adds, Deltas
  <1>2. NoJob \in Jobs
    BY LocalTypes
  <1>3. j \in Jobs /\ j.op = op /\ j.delta = d
    BY <1>1, <1>2 DEF Jobs, AllOps, Adds
  <1> HIDE DEF j
  <1> QED
    BY <1>1, <1>3, PlainStart DEF Phases, Workflows, Adds

\* The transaction of an add: what it stores and what it returns.
LEMMA CommitAddStep ==
    ASSUME IInv, NEW p \in Processes, CommitAdd(p)
    PROVE  LET d == job[p].delta
               g == UpsertRows(graph, Merge(job[p].image, d), d)
               r == [NoResult EXCEPT !.op = job[p].op, !.rev = revision,
                       !.head = head, !.saw = job[p].image]
           IN  /\ pc[p] = "use" /\ job[p].op \in Adds /\ d \in Deltas
               /\ job[p].image \in Graphs /\ g \in Graphs
               /\ CommitUnitOfWork(g, snapshots, head)
               /\ SetCache(p, None) /\ Return(p, r)
               /\ r \in Results /\ r.op = job[p].op /\ r.rev = revision
               /\ r.head = head /\ r.saw = job[p].image
               /\ UNCHANGED <<files, held>>
  <1> DEFINE d == job[p].delta
             g == UpsertRows(graph, Merge(job[p].image, d), d)
             r == [NoResult EXCEPT !.op = job[p].op, !.rev = revision,
                       !.head = head, !.saw = job[p].image]
  <1>1. /\ pc[p] = "use" /\ job[p].op \in Adds
        /\ CommitUnitOfWork(g, snapshots, head)
        /\ SetCache(p, None) /\ Return(p, r) /\ UNCHANGED <<files, held>>
    BY DEF CommitAdd, Adds
  <1>2. /\ d \in Deltas /\ job[p].image \in Graphs /\ graph \in Graphs
        /\ job[p] \in Jobs /\ revision \in Nat /\ head \in Nat
    BY <1>1, Locals DEF CallInv
  <1>3. g \in Graphs
    BY <1>2, MergeType, UpsertType
  <1>4. NoResult \in Results
    BY LocalTypes
  <1>5. /\ r \in Results /\ r.op = job[p].op /\ r.rev = revision
        /\ r.head = head /\ r.saw = job[p].image
    BY <1>1, <1>2, <1>4 DEF Results, AllOps, Adds
  <1> QED
    BY <1>1, <1>2, <1>3, <1>5

\* An add commits.
LEMMA CommitAddInv ==
    ASSUME IInv, NEW p \in Processes, CommitAdd(p)
    PROVE  IInv'
  <1> DEFINE d == job[p].delta
             g == UpsertRows(graph, Merge(job[p].image, d), d)
             r == [NoResult EXCEPT !.op = job[p].op, !.rev = revision,
                       !.head = head, !.saw = job[p].image]
  <1>1. /\ job[p].op \in Adds /\ g \in Graphs
        /\ CommitUnitOfWork(g, snapshots, head)
        /\ SetCache(p, None) /\ Return(p, r) /\ r \in Results /\ r.op = job[p].op
        /\ UNCHANGED <<files, held>>
    BY CommitAddStep
  <1> HIDE DEF g, r
  <1>2. Moves(p) /\ out'[p] = r /\ CallInv(p)'
    BY <1>1, ReturnMoves
  <1>3. OutInv(p)'
    BY <1>1, <1>2, PlainResult DEF Adds
  <1> QED
    BY <1>1, <1>2, <1>3, PlainCommit, FilesKept, StepKeeps

\* A batch starts.
LEMMA StartBatchInv ==
    ASSUME IInv, NEW p \in Processes, NEW d \in BatchDeltas, StartBatch(p, d)
    PROVE  IInv'
  <1> DEFINE j == [NoJob EXCEPT !.op = "batch", !.delta = d]
  <1>1. Call(p, j, "commit") /\ UNCHANGED <<db, files, held, cache>>
    BY DEF StartBatch
  <1>2. NoJob \in Jobs /\ d \in Deltas
    BY LocalTypes DEF Deltas
  <1>3. j \in Jobs /\ j.op = "batch" /\ j.delta = d
    BY <1>2 DEF Jobs, AllOps
  <1> HIDE DEF j
  <1> QED
    BY <1>1, <1>3, PlainStart DEF Phases, Workflows, Adds

\* The transaction of a batch: it stores its delta on the committed graph.
LEMMA CommitBatchStep ==
    ASSUME IInv, NEW p \in Processes, CommitBatch(p)
    PROVE  LET g == Merge(graph, job[p].delta)
               r == [NoResult EXCEPT !.op = "batch", !.rev = revision,
                       !.head = head, !.saw = graph]
           IN  /\ pc[p] = "commit" /\ job[p].op = "batch" /\ job[p].delta \in Deltas
               /\ g \in Graphs /\ CommitUnitOfWork(g, snapshots, head)
               /\ SetCache(p, None) /\ Return(p, r)
               /\ r \in Results /\ r.op = "batch" /\ r.rev = revision
               /\ r.head = head /\ r.saw = graph
               /\ UNCHANGED <<files, held>>
  <1> DEFINE g == Merge(graph, job[p].delta)
             r == [NoResult EXCEPT !.op = "batch", !.rev = revision,
                       !.head = head, !.saw = graph]
  <1>1. /\ pc[p] = "commit" /\ job[p].op = "batch"
        /\ CommitUnitOfWork(UpsertRows(graph, g, job[p].delta), snapshots, head)
        /\ SetCache(p, None) /\ Return(p, r) /\ UNCHANGED <<files, held>>
    BY DEF CommitBatch, BatchTransaction
  <1>2. /\ job[p].delta \in Deltas /\ graph \in Graphs /\ revision \in Nat /\ head \in Nat
    BY <1>1, Locals DEF CallInv, Deltas
  <1>3. g \in Graphs /\ UpsertRows(graph, g, job[p].delta) = g
    BY <1>2, MergeType, UpsertMerged
  <1>4. NoResult \in Results
    BY LocalTypes
  <1>5. /\ r \in Results /\ r.op = "batch" /\ r.rev = revision
        /\ r.head = head /\ r.saw = graph
    BY <1>2, <1>4 DEF Results, AllOps
  <1> QED
    BY <1>1, <1>2, <1>3, <1>5

\* A batch commits.
LEMMA CommitBatchInv ==
    ASSUME IInv, NEW p \in Processes, CommitBatch(p)
    PROVE  IInv'
  <1> DEFINE g == Merge(graph, job[p].delta)
             r == [NoResult EXCEPT !.op = "batch", !.rev = revision,
                       !.head = head, !.saw = graph]
  <1>1. /\ g \in Graphs /\ CommitUnitOfWork(g, snapshots, head)
        /\ SetCache(p, None) /\ Return(p, r) /\ r \in Results /\ r.op = "batch"
        /\ r.rev = revision /\ r.head = head /\ r.saw = graph
        /\ UNCHANGED <<files, held>>
    BY CommitBatchStep
  <1> HIDE DEF g, r
  <1>2. Moves(p) /\ out'[p] = r /\ CallInv(p)'
    BY <1>1, ReturnMoves
  <1>3. OutInv(p)'
    <2>1. revision \in Nat /\ history[revision] = [graph |-> graph, head |-> head]
      BY DEF IInv, TypeOK, HistoryNow
    <2>2. revision <= revision' /\ history'[revision] = history[revision]
      BY <1>1, <2>1, PlainCommit DEF DbGrows
    <2> QED
      BY <1>1, <1>2, <2>1, <2>2 DEF OutInv
  <1> QED
    BY <1>1, <1>2, <1>3, PlainCommit, FilesKept, StepKeeps

\* A snapshot starts.
LEMMA StartSnapshotInv ==
    ASSUME IInv, NEW p \in Processes, StartSnapshot(p)
    PROVE  IInv'
  <1> DEFINE j == [NoJob EXCEPT !.op = "snapshot", !.head = head]
  <1>1. Call(p, j, "commit") /\ UNCHANGED <<db, files, held, cache>>
    BY DEF StartSnapshot
  <1>2. NoJob \in Jobs /\ head \in Nat
    BY LocalTypes, Locals
  <1>3. j \in Jobs /\ j.op = "snapshot"
    BY <1>2 DEF Jobs, AllOps
  <1> HIDE DEF j
  <1> QED
    BY <1>1, <1>3, PlainStart DEF Phases, Workflows, Adds

\* The transaction of a snapshot: it stores the committed graph.
LEMMA CommitSnapshotStep ==
    ASSUME IInv, NEW p \in Processes, CommitSnapshot(p)
    PROVE  LET r == [NoResult EXCEPT !.op = "snapshot", !.head = job[p].head,
                       !.to = Len(snapshots) + 1]
           IN  /\ pc[p] = "commit" /\ job[p].op = "snapshot" /\ graph \in Graphs
               /\ CommitUnitOfWork(graph, Append(snapshots, SnapshotOf(graph)),
                                   Len(snapshots) + 1)
               /\ SetCache(p, graph) /\ Return(p, r)
               /\ r \in Results /\ r.op = "snapshot"
               /\ UNCHANGED <<files, held>>
  <1> DEFINE n == Len(snapshots) + 1
             r == [NoResult EXCEPT !.op = "snapshot", !.head = job[p].head, !.to = n]
  <1>1. /\ pc[p] = "commit" /\ job[p].op = "snapshot"
        /\ CommitUnitOfWork(graph,
             Append(snapshots, [SnapshotOf(graph) EXCEPT !.parent = head]), n)
        /\ SetCache(p, graph) /\ Return(p, r) /\ UNCHANGED <<files, held>>
    BY DEF CommitSnapshot, SnapshotTransaction
  <1>2. graph \in Graphs /\ job[p].head \in Nat /\ n \in Nat
    BY Locals DEF Jobs, IInv, TypeOK
  <1>3. [SnapshotOf(graph) EXCEPT !.parent = head] = SnapshotOf(graph)
    BY DEF SnapshotOf
  <1>4. NoResult \in Results
    BY LocalTypes
  <1>5. r \in Results /\ r.op = "snapshot"
    <2> HIDE DEF n
    <2> QED
      BY <1>2, <1>4 DEF Results, AllOps
  <1> QED
    BY <1>1, <1>2, <1>3, <1>5

\* A snapshot commits.
LEMMA CommitSnapshotInv ==
    ASSUME IInv, NEW p \in Processes, CommitSnapshot(p)
    PROVE  IInv'
  <1> DEFINE r == [NoResult EXCEPT !.op = "snapshot", !.head = job[p].head,
                       !.to = Len(snapshots) + 1]
  <1>1. /\ graph \in Graphs
        /\ CommitUnitOfWork(graph, Append(snapshots, SnapshotOf(graph)),
                            Len(snapshots) + 1)
        /\ SetCache(p, graph) /\ Return(p, r) /\ r \in Results /\ r.op = "snapshot"
        /\ UNCHANGED <<files, held>>
    BY CommitSnapshotStep
  <1> HIDE DEF r
  <1>2. Moves(p) /\ out'[p] = r /\ CallInv(p)'
    BY <1>1, ReturnMoves
  <1>3. OutInv(p)'
    BY <1>1, <1>2, PlainResult
  <1> QED
    BY <1>1, <1>2, <1>3, SnapshotCommit, FilesKept, StepKeeps

\* A transaction is rolled back.
LEMMA RollbackInv ==
    ASSUME IInv, NEW p \in Processes, Rollback(p)
    PROVE  IInv'
  BY RefusedInv DEF Rollback

\* The lock is to be built for the config that was loaded.
LEMMA StartLockInv ==
    ASSUME IInv, NEW p \in Processes, StartLock(p)
    PROVE  IInv'
  <1> DEFINE j == [NoJob EXCEPT !.op = "lock", !.config = config]
  <1>1. Call(p, j, "write_lock") /\ UNCHANGED <<db, files, held, cache>>
    BY DEF StartLock
  <1>2. NoJob \in Jobs /\ config \in 1 .. MaxConfig /\ config \in 0 .. MaxConfig
    BY LocalTypes, Locals, BoundsAssumption
  <1>3. j \in Jobs /\ j.op = "lock" /\ j.config = config
    BY <1>2 DEF Jobs, AllOps
  <1> HIDE DEF j
  <1> QED
    BY <1>1, <1>2, <1>3, PlainStart DEF Phases, Workflows, Adds

\* The lock file is written.
LEMMA WriteLockInv ==
    ASSUME IInv, NEW p \in Processes, WriteLock(p)
    PROVE  IInv'
  <1>1. /\ pc[p] = "write_lock" /\ Return(p, [NoResult EXCEPT !.op = "lock"])
        /\ UNCHANGED <<db, config, held, cache>>
    BY DEF WriteLock
  <1>2. job[p].config \in 1 .. MaxConfig
    BY <1>1, Locals DEF CallInv
  <1>3. lock' \in Locks
    BY <1>2 DEF WriteLock, Locks
  <1>4. FilesAndHeld
    BY <1>1, <1>3 DEF FilesAndHeld, held, IInv, TypeOK
  <1>5. /\ [NoResult EXCEPT !.op = "lock"] \in Results
        /\ [NoResult EXCEPT !.op = "lock"].op = "lock"
    BY DEF NoResult, Results, AllOps
  <1>6. Moves(p) /\ out'[p].op = "lock" /\ CallInv(p)'
    BY <1>1, <1>5, ReturnMoves
  <1> QED
    BY <1>1, <1>4, <1>6, PlainResult, DbKept, StepKeeps

\* The config file moves on; every call keeps the version it loaded.
LEMMA ReloadConfigInv ==
    ASSUME IInv, ReloadConfig
    PROVE  IInv'
  <1>1. /\ config < MaxConfig /\ config' = config + 1
        /\ UNCHANGED <<db, lock, held, cache, pc, job, out>>
    BY DEF ReloadConfig
  <1>2. config' \in 1 .. MaxConfig
    BY <1>1, BoundsAssumption DEF IInv, TypeOK
  <1>3. DbGrows /\ TablesRight
    BY <1>1, DbKept
  <1>4. TypeOK'
    BY <1>1, <1>2 DEF IInv, TypeOK, db, held
  <1>5. ASSUME NEW q \in Processes PROVE CallInv(q)' /\ OutInv(q)'
    BY <1>1, <1>3, OthersKept DEF IInv
  <1> QED
    BY <1>3, <1>4, <1>5 DEF IInv, TablesRight

\* A process restarts.
LEMMA RestartInv ==
    ASSUME IInv, NEW p \in Processes, Restart(p)
    PROVE  IInv'
  <1>1. Moves(p) /\ out'[p] = NoResult /\ CallInv(p)'
    BY LocalTypes, ReturnMoves DEF Restart
  <1> QED
    BY <1>1, LocalTypes, EndOrStart DEF Restart

-----------------------------------------------------------------------------
(* The invariant, for any number of processes. *)

\* The invariant holds initially.
LEMMA InitInv == Init => IInv
  <1> SUFFICES ASSUME Init PROVE IInv
    OBVIOUS
  <1>1. EmptyGraph \in Graphs
    BY DEF EmptyGraph, Graphs
  <1>2. [graph |-> EmptyGraph, head |-> 0] \in States
    BY <1>1 DEF States
  <1>3. history = [r \in {0} |-> [graph |-> EmptyGraph, head |-> 0]] /\ revision = 0
    BY DEF Init
  <1>4. history \in [0 .. revision -> States]
    BY <1>2, <1>3
  <1>5. TypeOK
    BY <1>1, <1>4, LocalTypes, BoundsAssumption DEF Init, TypeOK
  <1>6. HistoryNow
    BY <1>3 DEF Init, HistoryNow
  <1>7. SnapshotChain
    BY DEF Init, SnapshotChain
  <1>8. ASSUME NEW p \in Processes PROVE CallInv(p) /\ OutInv(p)
    <2>1. pc[p] = "idle" /\ job[p] = NoJob /\ out[p] = NoResult
      BY DEF Init
    <2> QED
      BY <2>1, LocalTypes DEF CallInv, OutInv, Adds, Workflows
  <1> QED
    BY <1>5, <1>6, <1>7, <1>8 DEF IInv

\* Every step preserves it.
LEMMA NextInv == IInv /\ [Next]_vars => IInv'
  <1> SUFFICES ASSUME IInv, [Next]_vars PROVE IInv'
    OBVIOUS
  <1>1. CASE UNCHANGED vars
    <2>1. DbGrows /\ TablesRight
      BY <1>1, DbKept DEF vars
    <2>2. TypeOK'
      BY <1>1 DEF vars, db, files, held, IInv, TypeOK
    <2>3. ASSUME NEW q \in Processes PROVE CallInv(q)' /\ OutInv(q)'
      BY <1>1, <2>1, OthersKept DEF vars, IInv
    <2> QED
      BY <2>1, <2>2, <2>3 DEF IInv, TablesRight
  <1>2. ASSUME NEW p \in Processes, LoadStep(p) PROVE IInv'
    BY <1>2, LoadCachedInv, LoadEntitiesInv, LoadRelationshipsInv DEF LoadStep
  <1>3. ASSUME NEW p \in Processes, ReadStep(p) PROVE IInv'
    BY <1>3, StartReadInv, AcceptContinuationInv, FinishListInv, FinishQueryInv,
       StartDiffInv, ReadClosingInv, FinishDiffInv DEF ReadStep
  <1>4. ASSUME NEW p \in Processes, WorkflowStep(p) PROVE IInv'
    BY <1>4, StartPreviewInv, ReadHeadInv, FinishPreviewInv, StartApplyInv,
       CheckDigestInv, CheckLockInv, CommitApplyInv DEF WorkflowStep
  <1>5. ASSUME NEW p \in Processes, WriteStep(p) PROVE IInv'
    BY <1>5, StartAddInv, CommitAddInv, StartBatchInv, CommitBatchInv, StartSnapshotInv,
       CommitSnapshotInv, RollbackInv, StartLockInv, WriteLockInv DEF WriteStep
  <1> QED
    BY <1>1, <1>2, <1>3, <1>4, <1>5, RestartInv, ReloadConfigInv DEF Next

\* The inductive invariant holds in every reachable state, whatever the
\* handles on the instance do.
THEOREM Invariance == Spec => []IInv
  BY InitInv, NextInv, PTL DEF Spec

\* Every variable stays in its type.
THEOREM TypeCorrect == Spec => []TypeOK
  <1>1. IInv => TypeOK
    BY DEF IInv
  <1> QED
    BY <1>1, Invariance, PTL

\* The snapshots that any number of processes take form one chain that ends at
\* the head, each with the graph committed with it (_write_snapshot reads the
\* parent inside the transaction).
THEOREM ChainUnbroken == Spec => []SnapshotChain
  <1>1. IInv => SnapshotChain
    BY DEF IInv
  <1> QED
    BY <1>1, Invariance, PTL

\* A coordinate that state diff returns is exact although its graph was read
\* in two SELECTs: the revision sandwich of _resolve_current suffices.
THEOREM SandwichExact == Spec => []CoordinateGraph
  <1>1. IInv => CoordinateGraph
    BY DEF IInv, OutInv, CoordinateGraph
  <1> QED
    BY <1>1, Invariance, PTL

\* The receipt of a batch names the state the batch was decided against,
\* whatever other processes commit: its coordinates are stamped inside the
\* transaction that loads the graph (mutation_receipt).
THEOREM BatchReceiptsExact ==
    Spec => [](\A p \in Processes : out[p].op = "batch" =>
                 history[out[p].rev] = [graph |-> out[p].saw, head |-> out[p].head])
  <1>1. IInv => \A p \in Processes : out[p].op = "batch" =>
                   history[out[p].rev] = [graph |-> out[p].saw, head |-> out[p].head]
    BY DEF IInv, OutInv
  <1> QED
    BY <1>1, Invariance, PTL

\* The plan that an apply commits was compiled from the config its preview was
\* compiled from, whoever edits config.yaml or rebuilds the lock meanwhile:
\* the config of the call outlives the guard, and a lock that was built for
\* another one does not compile with it.
THEOREM PlanOfThePreview == Spec => []AppliesThePreviewedPlan
  <1>1. IInv => AppliesThePreviewedPlan
    BY DEF IInv, OutInv, AppliesThePreviewedPlan
  <1> QED
    BY <1>1, Invariance, PTL

-----------------------------------------------------------------------------
(* Updates are not lost, when every write is decided on what is committed. *)

\* The step property of NoLostUpdate.
NamedCellsOnly ==
    \A c \in Cells : graph'[c] # graph[c] =>
        \E p \in Processes :
           /\ job'[p] # job[p]
           /\ job[p].op \in {"apply", "add_entity", "add_relationship", "batch"}
           /\ c \in DOMAIN CellsOf(job[p])
           /\ graph'[c] = CellsOf(job[p])[c]

\* The step that commits the merge of its own delta changes named cells only.
LEMMA MergedCommit ==
    ASSUME IInv, NEW p \in Processes, NEW d, CellsOf(job[p]) = d, job'[p] = NoJob,
           job[p].op \in {"apply", "add_entity", "add_relationship", "batch"},
           graph' = Merge(graph, d)
    PROVE  NamedCellsOnly
  <1>1. graph \in Graphs
    BY Locals
  <1>2. job'[p] # job[p]
    BY LocalTypes
  <1>3. ASSUME NEW c \in Cells, graph'[c] # graph[c]
        PROVE  c \in DOMAIN d /\ graph'[c] = d[c]
    BY <1>1, <1>3 DEF Merge, Graphs
  <1> QED
    BY <1>2, <1>3 DEF NamedCellsOnly

\* Only three transactions change the graph.
LEMMA GraphChanges ==
    ASSUME IInv, [Next]_vars
    PROVE  \/ graph' = graph
           \/ \E p \in Processes : CommitApply(p) \/ CommitAdd(p) \/ CommitBatch(p)
  <1>1. CASE UNCHANGED vars
    BY <1>1 DEF vars, db
  <1>2. ASSUME NEW p \in Processes, LoadStep(p) PROVE graph' = graph
    BY <1>2 DEF LoadStep, LoadCached, LoadEntities, LoadRelationships, db
  <1>3. ASSUME NEW p \in Processes, ReadStep(p) PROVE graph' = graph
    BY <1>3 DEF ReadStep, StartRead, AcceptContinuation, FinishList, FinishQuery,
       StartDiff, ReadClosing, FinishDiff, db
  <1>4. ASSUME NEW p \in Processes, WorkflowStep(p)
        PROVE graph' = graph \/ CommitApply(p)
    BY <1>4 DEF WorkflowStep, StartPreview, ReadHead, FinishPreview, StartApply,
       CheckDigest, CheckLock, db
  <1>5. ASSUME NEW p \in Processes, CommitSnapshot(p) PROVE graph' = graph
    BY <1>5 DEF CommitSnapshot, SnapshotTransaction, CommitUnitOfWork
  <1>6. ASSUME NEW p \in Processes, WriteStep(p)
        PROVE graph' = graph \/ CommitAdd(p) \/ CommitBatch(p)
    BY <1>5, <1>6 DEF WriteStep, StartAdd, StartBatch, StartSnapshot, Rollback,
       StartLock, WriteLock, db
  <1>7. ASSUME NEW p \in Processes, Restart(p) PROVE graph' = graph
    BY <1>7 DEF Restart, db
  <1>8. ReloadConfig => graph' = graph
    BY DEF ReloadConfig, db
  <1> QED
    BY <1>1, <1>2, <1>3, <1>4, <1>6, <1>7, <1>8 DEF Next

\* An apply and a batch decide inside their transaction.
LEMMA TransactionsExact ==
    ASSUME IInv, NEW p \in Processes, CommitApply(p) \/ CommitBatch(p)
    PROVE  NamedCellsOnly
  <1>1. CASE CommitApply(p)
    <2>1. /\ job[p].op = "apply" /\ job'[p] = NoJob
          /\ graph' = Merge(graph, WorkflowDelta)
      <3> DEFINE g == Merge(graph, WorkflowDelta)
                 s == Append(snapshots, SnapshotOf(g))
                 r == [NoResult EXCEPT !.op = "apply", !.head = head,
                         !.to = Len(snapshots) + 1, !.saw = graph,
                         !.digest = ApplyDigest(lock, head, graph),
                         !.token = job[p].token]
      <3>1. /\ job[p].op = "apply" /\ Return(p, r)
            /\ CommitUnitOfWork(g, s, Len(snapshots) + 1)
        BY <1>1, CommitApplyStep
      <3> HIDE DEF g, s, r
      <3>2. job'[p] = NoJob /\ graph' = g
        BY <3>1 DEF CommitUnitOfWork, Return, IInv, TypeOK
      <3> QED
        BY <3>1, <3>2 DEF g
    <2> QED
      BY <2>1, MergedCommit DEF CellsOf
  <1>2. CASE CommitBatch(p)
    <2>1. /\ job[p].op = "batch" /\ job'[p] = NoJob
          /\ graph' = Merge(graph, job[p].delta)
      BY <1>2, CommitBatchStep DEF CommitUnitOfWork, Return, IInv, TypeOK
    <2> QED
      BY <2>1, MergedCommit DEF CellsOf
  <1> QED
    BY <1>1, <1>2

\* An add is exact when the image it loaded is still the committed graph.
LEMMA FreshAddExact ==
    ASSUME IInv, NEW p \in Processes, CommitAdd(p), job[p].image = graph
    PROVE  NamedCellsOnly
  <1>1. /\ job[p].op \in Adds /\ job'[p] = NoJob /\ job[p].delta \in Deltas
        /\ graph' = UpsertRows(graph, Merge(job[p].image, job[p].delta), job[p].delta)
    BY CommitAddStep DEF CommitUnitOfWork, Return, IInv, TypeOK
  <1>2. graph' = Merge(graph, job[p].delta)
    BY <1>1, Locals, UpsertMerged
  <1> QED
    BY <1>1, <1>2, MergedCommit DEF CellsOf, Adds

\* Where the direct writes go through service_batch_direct_write, which
\* prepares inside its transaction, no process ever undoes the committed write
\* of another.  (service_add_entities and service_add_relationships load the
\* graph before the transaction: with them the property fails.)
THEOREM BatchWritesNotLost ==
    Ops \cap {"add_entity", "add_relationship"} = {} => (Spec => NoLostUpdate)
  <1> SUFFICES ASSUME Ops \cap {"add_entity", "add_relationship"} = {}
               PROVE  Spec => NoLostUpdate
    OBVIOUS
  <1>1. IInv /\ [Next]_vars => [NamedCellsOnly]_vars
    <2> SUFFICES ASSUME IInv, [Next]_vars PROVE NamedCellsOnly
      OBVIOUS
    <2>1. ASSUME NEW p \in Processes PROVE ~ CommitAdd(p)
      BY Locals DEF CommitAdd, CallInv
    <2>2. graph' = graph => NamedCellsOnly
      BY DEF NamedCellsOnly
    <2> QED
      BY <2>1, <2>2, GraphChanges, TransactionsExact
  <1> QED
    BY <1>1, Invariance, PTL DEF Spec, NoLostUpdate, NamedCellsOnly

-----------------------------------------------------------------------------
(* One process: what a call has read is what is committed. *)

\* The results that name a state.
Receipted == {"query", "batch", "page", "apply"} \cup Adds

\* Where a step takes the locals of its call.
LEMMA Frames ==
    ASSUME IInv, NEW p \in Processes, NEW j, NEW l, NEW r
    PROVE  /\ Goto(p, j, l) => pc'[p] = l /\ job'[p] = j /\ out'[p] = out[p]
           /\ Call(p, j, l) => pc'[p] = l /\ job'[p] = j /\ out'[p] = NoResult
           /\ Return(p, r) => pc'[p] = "idle" /\ job'[p] = NoJob /\ out'[p] = r
           /\ \A c : SetCache(p, c) => cache'[p] = c
  BY DEF Goto, Call, Return, SetCache, IInv, TypeOK

\* What a token stands for does not change.
LEMMA TokenStands ==
    ASSUME IInv, DbGrows, NEW t \in Cursors, TokenHonest(t)
    PROVE  t.rev <= revision' /\ t.saw = history'[t.rev].graph
  <1>1. t.rev \in Nat /\ revision \in Nat
    BY DEF Cursors, IInv, TypeOK
  <1> QED
    BY <1>1 DEF TokenHonest, DbGrows

\* A step of the process preserves SoloInv when what the process reads and
\* returns is fresh.
LEMMA SoloStep ==
    ASSUME SoloInv, Solo, IInv', NEW p \in Processes, DbGrows,
           cache'[p] \in {None, graph'},
           cursor' = cursor \/ (cursor' # None => TokenHonest(cursor)'),
           FreshCall(p)', FreshOut(p)'
    PROVE  SoloInv'
  <1>1. \A q \in Processes : q = p
    BY DEF Solo
  <1>2. (CacheCoherent)'
    BY <1>1 DEF CacheCoherent
  <1>3. (cursor # None => TokenHonest(cursor))'
    <2>1. CASE cursor' = cursor
      <3>1. IInv /\ cursor \in Cursors \cup {None}
        BY DEF SoloInv, IInv, TypeOK
      <3>2. cursor # None => cursor.rev <= revision' /\ cursor.saw = history'[cursor.rev].graph
        BY <3>1, TokenStands DEF SoloInv
      <3> QED
        BY <2>1, <3>2 DEF TokenHonest
    <2> QED
      BY <2>1
  <1> QED
    BY <1>1, <1>2, <1>3 DEF SoloInv

\* An idle process has read nothing.
LEMMA IdleFresh ==
    ASSUME NEW p \in Processes, pc'[p] = "idle"
    PROVE  FreshCall(p)'
  BY DEF FreshCall

\* A result that names no state is fresh.
LEMMA PlainFresh ==
    ASSUME NEW p \in Processes, out'[p].op \notin Receipted
    PROVE  FreshOut(p)'
  BY DEF FreshOut, Receipted

\* A result that was returned earlier stays fresh.
LEMMA OutStands ==
    ASSUME SoloInv, NEW p \in Processes, DbGrows, out'[p] = out[p]
    PROVE  FreshOut(p)'
  <1>1. IInv /\ out[p] \in Results /\ revision \in Nat /\ FreshOut(p)
    BY Locals DEF SoloInv
  <1>2. out[p].rev \in Nat
    BY <1>1 DEF Results
  <1>3. out[p].rev <= revision =>
           out[p].rev <= revision' /\ history'[out[p].rev] = history[out[p].rev]
    BY <1>1, <1>2 DEF DbGrows
  <1> QED
    BY <1>1, <1>3 DEF FreshOut

\* A step that commits nothing.
LEMMA SoloQuiet ==
    ASSUME SoloInv, Solo, IInv', NEW p \in Processes, UNCHANGED db, cursor' = cursor,
           cache'[p] \in {None, graph} \/ UNCHANGED cache,
           FreshCall(p)',
           out'[p] = out[p] \/ out'[p].op \notin Receipted
    PROVE  SoloInv'
  <1>1. IInv /\ graph' = graph /\ DbGrows
    BY DbKept DEF SoloInv, db
  <1>2. cache'[p] \in {None, graph'}
    BY <1>1 DEF SoloInv, CacheCoherent
  <1>3. FreshOut(p)'
    BY <1>1, OutStands, PlainFresh
  <1> QED
    BY <1>1, <1>2, <1>3, SoloStep

\* A refusal.
LEMMA SoloRefused ==
    ASSUME SoloInv, Solo, IInv', NEW p \in Processes, UNCHANGED <<db, held>>,
           SetCache(p, None) \/ UNCHANGED cache,
           Return(p, [NoResult EXCEPT !.op = "refused"])
    PROVE  SoloInv'
  <1>1. pc'[p] = "idle" /\ out'[p].op = "refused" /\ (cache'[p] = None \/ UNCHANGED cache)
    BY Frames, LocalTypes DEF SoloInv
  <1> QED
    BY <1>1, IdleFresh, SoloQuiet DEF held, Receipted, Adds

\* A call starts that has nothing to remember yet.
LEMMA SoloStart ==
    ASSUME SoloInv, Solo, IInv', NEW p \in Processes, UNCHANGED <<db, held>>,
           SetCache(p, None) \/ UNCHANGED cache,
           NEW j, NEW l, Call(p, j, l),
           \/ l \in {"idle", "head", "write_lock"} /\ j.op # "page"
           \/ l \in {"load", "commit"} /\ j.op \notin {"page"} \cup Workflows
    PROVE  SoloInv'
  <1>1. /\ pc'[p] = l /\ job'[p] = j /\ out'[p] = NoResult
        /\ cache'[p] = None \/ UNCHANGED cache
    BY Frames DEF SoloInv
  <1>2. FreshCall(p)'
    BY <1>1 DEF FreshCall, Workflows
  <1> QED
    BY <1>1, <1>2, LocalTypes, SoloQuiet DEF held, Receipted, Adds

\* The load steps read the committed graph.
LEMMA SoloLoad ==
    ASSUME SoloInv, Solo, IInv', NEW p \in Processes, LoadStep(p)
    PROVE  SoloInv'
  <1>1. /\ IInv /\ job[p] \in Jobs /\ FreshCall(p) /\ graph \in Graphs /\ CallInv(p)
        /\ cache[p] \in {None, graph}
    BY Locals DEF SoloInv, CacheCoherent
  <1>2. /\ UNCHANGED <<db, files, held>> /\ pc[p] \in {"load", "edges"}
        /\ \E l \in {"edges", "use"} : Goto(p, [job[p] EXCEPT !.image = graph], l)
        /\ cache'[p] \in {None, graph} \/ UNCHANGED cache
    <2>1. CASE LoadCached(p)
      BY <1>1, <2>1 DEF LoadCached
    <2>2. CASE LoadEntities(p)
      BY <1>1, <2>2 DEF LoadEntities
    <2>3. CASE LoadRelationships(p)
      <3> DEFINE image == [c \in Cells |-> IF c \in EntityCells THEN job[p].image[c]
                                                                ELSE graph[c]]
      <3>1. job[p].image = graph /\ pc[p] = "edges"
        BY <1>1, <2>3 DEF LoadRelationships, FreshCall
      <3>2. image = graph
        BY <1>1, <3>1 DEF Graphs
      <3>3. /\ Goto(p, [job[p] EXCEPT !.image = image], "use") /\ SetCache(p, image)
            /\ UNCHANGED <<db, files, held>>
        BY <2>3 DEF LoadRelationships
      <3> HIDE DEF image
      <3> QED
        BY <1>1, <3>1, <3>2, <3>3, Frames
    <2> QED
      BY <2>1, <2>2, <2>3 DEF LoadStep
  <1> DEFINE j == [job[p] EXCEPT !.image = graph]
  <1>3. PICK l \in {"edges", "use"} : Goto(p, j, l)
    BY <1>2
  <1>4. j.image = graph /\ j.op = job[p].op /\ j.head = job[p].head /\ j.token = job[p].token
    BY <1>1, WithImage
  <1> HIDE DEF j
  <1>5. pc'[p] = l /\ job'[p] = j /\ out'[p] = out[p]
    BY <1>1, <1>3, Frames
  <1>6. /\ graph' = graph /\ head' = head /\ revision' = revision /\ history' = history
        /\ cursor' = cursor
    BY <1>2 DEF db, held
  <1>7. FreshCall(p)'
    BY <1>1, <1>2, <1>4, <1>5, <1>6 DEF FreshCall, TokenHonest
  <1> QED
    BY <1>2, <1>5, <1>6, <1>7, SoloQuiet

\* What a call that is about to use its image knows.
LEMMA ImageFresh ==
    ASSUME SoloInv, NEW p \in Processes, pc[p] = "use"
    PROVE  /\ IInv /\ job[p].image = graph /\ FreshCall(p) /\ CallInv(p)
           /\ job[p] \in Jobs /\ history[revision] = [graph |-> graph, head |-> head]
           /\ graph \in Graphs /\ revision \in Nat /\ head \in Nat
  BY Locals DEF SoloInv, FreshCall, IInv, HistoryNow

\* A page shows the committed graph, and so does the token of the next one.
LEMMA SoloFinishList ==
    ASSUME SoloInv, Solo, IInv', NEW p \in Processes, FinishList(p)
    PROVE  SoloInv'
  <1> DEFINE r == [NoResult EXCEPT !.op = job[p].op, !.rev = revision,
                                  !.saw = job[p].image, !.token = job[p].token]
             token == [config |-> config, rev |-> revision, saw |-> job[p].image]
  <1>1. /\ pc[p] = "use" /\ job[p].op \in {"list", "page"} /\ Return(p, r)
        /\ cursor' \in {cursor, token}
        /\ UNCHANGED <<db, files, preview, cache>>
    BY DEF FinishList
  <1>2. /\ IInv /\ job[p].image = graph /\ FreshCall(p) /\ job[p] \in Jobs
        /\ history[revision] = [graph |-> graph, head |-> head]
        /\ graph \in Graphs /\ revision \in Nat
    BY <1>1, ImageFresh
  <1>3. NoResult \in Results
    BY LocalTypes
  <1>4. r.op = job[p].op /\ r.rev = revision /\ r.saw = graph /\ r.token = job[p].token
    BY <1>2, <1>3 DEF Results
  <1>5. token.rev = revision /\ token.saw = graph
    BY <1>2
  <1>6. /\ revision' = revision /\ history' = history /\ graph' = graph /\ UNCHANGED cache
    BY <1>1 DEF db
  <1> HIDE DEF r, token
  <1>7. pc'[p] = "idle" /\ out'[p] = r
    BY <1>1, <1>2, Frames
  <1>8. FreshOut(p)'
    <2>1. job[p].op = "page" /\ revision = job[p].token.rev => graph = job[p].token.saw
      BY <1>1, <1>2 DEF FreshCall, TokenHonest
    <2> QED
      BY <1>1, <1>4, <1>7, <2>1 DEF FreshOut, Adds
  <1>9. cursor' = cursor \/ TokenHonest(cursor)'
    BY <1>1, <1>2, <1>5, <1>6 DEF TokenHonest
  <1>10. cache'[p] \in {None, graph'} /\ DbGrows
    BY <1>1, <1>2, <1>6, DbKept DEF SoloInv, CacheCoherent
  <1> QED
    BY <1>7, <1>8, <1>9, <1>10, IdleFresh, SoloStep

\* A query's receipt names the state the query saw.
LEMMA SoloFinishQuery ==
    ASSUME SoloInv, Solo, IInv', NEW p \in Processes, FinishQuery(p)
    PROVE  SoloInv'
  <1> DEFINE r == [NoResult EXCEPT !.op = "query", !.rev = revision,
                                  !.head = head, !.saw = job[p].image]
  <1>1. pc[p] = "use" /\ Return(p, r) /\ SetCache(p, None) /\ UNCHANGED <<db, files, held>>
    BY DEF FinishQuery
  <1>2. /\ IInv /\ job[p].image = graph
        /\ history[revision] = [graph |-> graph, head |-> head]
        /\ graph \in Graphs /\ revision \in Nat /\ head \in Nat
    BY <1>1, ImageFresh
  <1>3. NoResult \in Results
    BY LocalTypes
  <1>4. r.op = "query" /\ r.rev = revision /\ r.saw = graph /\ r.head = head
    BY <1>2, <1>3 DEF Results
  <1>5. /\ revision' = revision /\ history' = history /\ cursor' = cursor
    BY <1>1 DEF db, held
  <1> HIDE DEF r
  <1>6. pc'[p] = "idle" /\ out'[p] = r /\ cache'[p] = None
    BY <1>1, <1>2, Frames
  <1>7. FreshOut(p)'
    BY <1>2, <1>4, <1>5, <1>6 DEF FreshOut, Adds
  <1> QED
    BY <1>1, <1>2, <1>5, <1>6, <1>7, IdleFresh, SoloStep, DbKept

\* Reads.
LEMMA SoloRead ==
    ASSUME SoloInv, Solo, IInv', NEW p \in Processes, ReadStep(p)
    PROVE  SoloInv'
  <1>0. IInv
    BY DEF SoloInv
  <1>1. ASSUME NEW op, StartRead(p, op) PROVE SoloInv'
    <2>1. op \in {"list", "query"} /\ Call(p, [NoJob EXCEPT !.op = op], "load")
          /\ UNCHANGED <<db, files, held, cache>>
      BY <1>1 DEF StartRead
    <2>2. [NoJob EXCEPT !.op = op].op = op
      BY LocalTypes DEF Jobs
    <2> QED
      BY <2>1, <2>2, SoloStart DEF Workflows
  <1>2. CASE AcceptContinuation(p)
    <2> DEFINE j == [NoJob EXCEPT !.op = "page", !.token = cursor]
    <2>1. /\ cursor \in Cursors /\ TokenHonest(cursor)
          /\ Call(p, j, "load") /\ UNCHANGED <<db, files, held, cache>>
      BY <1>0, <1>2 DEF AcceptContinuation, SoloInv, IInv, TypeOK
    <2>2. j.op = "page" /\ j.token = cursor
      BY LocalTypes DEF Jobs
    <2> HIDE DEF j
    <2>3. pc'[p] = "load" /\ job'[p] = j /\ out'[p] = NoResult
      BY <1>0, <2>1, Frames
    <2>4. revision' = revision /\ history' = history /\ cursor' = cursor
      BY <2>1 DEF db, held
    <2>5. FreshCall(p)'
      BY <2>1, <2>2, <2>3, <2>4 DEF FreshCall, TokenHonest, Workflows
    <2> QED
      BY <2>1, <2>3, <2>4, <2>5, LocalTypes, SoloQuiet DEF Receipted, Adds
  <1>3. CASE StartDiff(p)
    <2>1. [NoJob EXCEPT !.op = "diff"] \in Jobs /\ [NoJob EXCEPT !.op = "diff"].op = "diff"
      BY LocalTypes DEF Jobs, AllOps
    <2>2. OpenCoordinate([NoJob EXCEPT !.op = "diff"]).op = "diff"
      BY <2>1 DEF OpenCoordinate, Jobs
    <2> QED
      BY <1>3, <2>2, SoloStart DEF StartDiff, Workflows
  <1>4. CASE ReadClosing(p)
    <2> DEFINE j == [job[p] EXCEPT !.closing = revision]
    <2>1. job[p].op = "diff" /\ Goto(p, j, "coordinate") /\ UNCHANGED <<db, files, held, cache>>
      BY <1>4 DEF ReadClosing
    <2>2. j.op = "diff"
      BY <1>0, <2>1, Locals DEF Jobs
    <2> HIDE DEF j
    <2>3. pc'[p] = "coordinate" /\ job'[p] = j /\ out'[p] = out[p]
      BY <1>0, <2>1, Frames
    <2>4. FreshCall(p)'
      BY <2>2, <2>3 DEF FreshCall
    <2> QED
      BY <2>1, <2>3, <2>4, SoloQuiet DEF held
  <1>5. CASE FinishDiff(p)
    <2>1. /\ job[p] \in Jobs /\ job[p].op = "diff" /\ UNCHANGED <<db, files, held>>
      BY <1>0, <1>5, Locals DEF FinishDiff, CallInv
    <2>2. CASE /\ Return(p, [NoResult EXCEPT !.op = "diff", !.rev = job[p].rev,
                                             !.head = head, !.saw = job[p].image])
               /\ UNCHANGED cache
      <3> DEFINE r == [NoResult EXCEPT !.op = "diff", !.rev = job[p].rev,
                                             !.head = head, !.saw = job[p].image]
      <3>1. r.op = "diff" /\ Return(p, r)
        BY <2>2, LocalTypes DEF Results
      <3> HIDE DEF r
      <3>2. pc'[p] = "idle" /\ out'[p] = r
        BY <1>0, <3>1, Frames
      <3> QED
        BY <2>1, <2>2, <3>1, <3>2, IdleFresh, SoloQuiet DEF held, Receipted, Adds
    <2>3. CASE Goto(p, OpenCoordinate(job[p]), "load") /\ SetCache(p, None)
      <3>1. OpenCoordinate(job[p]).op = "diff"
        BY <2>1 DEF OpenCoordinate, Jobs
      <3>2. /\ pc'[p] = "load" /\ job'[p].op = "diff" /\ out'[p] = out[p]
            /\ cache'[p] = None
        BY <1>0, <2>3, <3>1, Frames
      <3>3. FreshCall(p)'
        BY <3>2 DEF FreshCall, Workflows
      <3> QED
        BY <2>1, <3>2, <3>3, SoloQuiet DEF held
    <2>4. CASE Return(p, [NoResult EXCEPT !.op = "refused"]) /\ UNCHANGED cache
      BY <2>1, <2>4, SoloRefused
    <2> QED
      BY <1>5, <2>2, <2>3, <2>4 DEF FinishDiff
  <1> QED
    BY <1>1, <1>2, <1>3, <1>4, <1>5, SoloFinishList, SoloFinishQuery DEF ReadStep

\* An apply commits what its preview computed.
LEMMA SoloCommitApply ==
    ASSUME SoloInv, Solo, IInv', NEW p \in Processes, CommitApply(p)
    PROVE  SoloInv'
  <1> DEFINE g == Merge(graph, WorkflowDelta)
             r == [NoResult EXCEPT !.op = "apply", !.head = head,
                       !.to = Len(snapshots) + 1, !.saw = graph,
                       !.digest = ApplyDigest(lock, head, graph),
                       !.token = job[p].token]
  <1>0. IInv /\ FreshCall(p)
    BY DEF SoloInv
  <1>1. /\ g \in Graphs
        /\ CommitUnitOfWork(g, Append(snapshots, SnapshotOf(g)), Len(snapshots) + 1)
        /\ SetCache(p, g) /\ Return(p, r) /\ r.op = "apply"
        /\ r.digest = ApplyDigest(lock, head, graph) /\ r.token = job[p].token
        /\ UNCHANGED <<files, held>>
        /\ pc[p] = "commit" /\ job[p].op = "apply"
    BY <1>0, CommitApplyStep
  <1> HIDE DEF g, r
  <1>2. pc'[p] = "idle" /\ out'[p] = r /\ cache'[p] = g
    BY <1>0, <1>1, Frames
  <1>3. graph' = g /\ cursor' = cursor
    BY <1>1 DEF CommitUnitOfWork, held
  <1>4. DbGrows
    BY <1>0, <1>1, SnapshotCommit
  <1>5. ApplyDigest(lock, head, graph) = job[p].token
    BY <1>0, <1>1 DEF FreshCall, PreviewDigest, Workflows
  <1>6. FreshOut(p)'
    BY <1>1, <1>2, <1>5 DEF FreshOut, Adds
  <1> QED
    BY <1>2, <1>3, <1>4, <1>6, IdleFresh, SoloStep

\* Workflow calls.
LEMMA SoloWorkflow ==
    ASSUME SoloInv, Solo, IInv', NEW p \in Processes, WorkflowStep(p)
    PROVE  SoloInv'
  <1>0. IInv /\ FreshCall(p) /\ CallInv(p) /\ job[p] \in Jobs /\ NoJob \in Jobs
    BY Locals, LocalTypes DEF SoloInv
  <1>1. CASE StartPreview(p)
    <2> DEFINE j == [NoJob EXCEPT !.op = "preview", !.config = config, !.lock = lock]
    <2>1. Call(p, j, "head") /\ UNCHANGED <<db, files, held, cache>>
      BY <1>1 DEF StartPreview
    <2>2. j.op = "preview"
      BY <1>0 DEF Jobs
    <2> HIDE DEF j
    <2> QED
      BY <2>1, <2>2, SoloStart
  <1>2. CASE ReadHead(p)
    <2> DEFINE j == [job[p] EXCEPT !.head = head]
    <2>1. pc[p] = "head" /\ Goto(p, j, "load") /\ UNCHANGED <<db, files, held, cache>>
      BY <1>2 DEF ReadHead
    <2>2. j.op = job[p].op /\ j.head = head /\ job[p].op \in Workflows
      BY <1>0, <2>1 DEF Jobs, CallInv
    <2> HIDE DEF j
    <2>3. pc'[p] = "load" /\ job'[p] = j /\ out'[p] = out[p]
      BY <1>0, <2>1, Frames
    <2>4. FreshCall(p)'
      BY <2>1, <2>2, <2>3 DEF FreshCall, Workflows, db
    <2> QED
      BY <2>1, <2>3, <2>4, SoloQuiet DEF held
  <1>3. CASE FinishPreview(p)
    <2>1. /\ Return(p, [NoResult EXCEPT !.op = "preview"]) /\ SetCache(p, None)
          /\ UNCHANGED <<db, files, cursor>>
      BY <1>3 DEF FinishPreview
    <2>2. [NoResult EXCEPT !.op = "preview"].op = "preview"
      BY LocalTypes DEF Results
    <2>3. pc'[p] = "idle" /\ out'[p].op = "preview" /\ cache'[p] = None
      BY <1>0, <2>1, <2>2, Frames
    <2> QED
      BY <2>1, <2>3, IdleFresh, SoloQuiet DEF Receipted, Adds
  <1>4. CASE StartApply(p)
    <2> DEFINE j == [NoJob EXCEPT !.op = "apply", !.config = config,
                                  !.lock = lock, !.token = preview]
               k == [NoJob EXCEPT !.op = "apply"]
    <2>1. /\ Call(p, j, "head") \/ Call(p, k, "idle")
          /\ SetCache(p, None) /\ UNCHANGED <<db, files, held>>
      BY <1>4 DEF StartApply
    <2>2. j.op = "apply" /\ k.op = "apply"
      BY <1>0 DEF Jobs
    <2> HIDE DEF j, k
    <2> QED
      BY <2>1, <2>2, SoloStart
  <1>5. CASE CheckDigest(p)
    <2>1. /\ pc[p] = "use" /\ job[p].op = "apply" /\ UNCHANGED <<db, files, held, cache>>
          /\ job[p].image = graph /\ job[p].head = head
      BY <1>0, <1>5 DEF CheckDigest, FreshCall, Workflows
    <2>2. CASE PreviewDigest(job[p]) = job[p].token /\ Goto(p, job[p], "lock")
      <3>1. pc'[p] = "lock" /\ job'[p] = job[p] /\ out'[p] = out[p]
        BY <1>0, <2>2, Frames
      <3>2. FreshCall(p)'
        BY <2>1, <2>2, <3>1 DEF FreshCall, db, Workflows
      <3> QED
        BY <2>1, <3>1, <3>2, SoloQuiet DEF held
    <2>3. CASE Return(p, [NoResult EXCEPT !.op = "refused"])
      BY <2>1, <2>3, SoloRefused
    <2> QED
      BY <1>5, <2>2, <2>3 DEF CheckDigest
  <1>6. CASE CheckLock(p)
    <2>1. /\ pc[p] = "lock" /\ job[p].op = "apply" /\ UNCHANGED <<db, files, held, cache>>
      BY <1>0, <1>6 DEF CheckLock, CallInv
    <2>2. CASE lock = job[p].lock /\ Goto(p, job[p], "commit")
      <3>1. pc'[p] = "commit" /\ job'[p] = job[p] /\ out'[p] = out[p]
        BY <1>0, <2>2, Frames
      <3>2. FreshCall(p)'
        BY <1>0, <2>1, <2>2, <3>1 DEF FreshCall, db, files, Workflows
      <3> QED
        BY <2>1, <3>1, <3>2, SoloQuiet DEF held
    <2>3. CASE Return(p, [NoResult EXCEPT !.op = "refused"])
      BY <2>1, <2>3, SoloRefused
    <2> QED
      BY <1>6, <2>2, <2>3 DEF CheckLock
  <1> QED
    BY <1>1, <1>2, <1>3, <1>4, <1>5, <1>6, SoloCommitApply DEF WorkflowStep

\* A receipt of a direct write names the state it was decided against.
LEMMA SoloReceipt ==
    ASSUME SoloInv, Solo, IInv', NEW p \in Processes, NEW g \in Graphs,
           CommitUnitOfWork(g, snapshots, head), SetCache(p, None),
           NEW r, Return(p, r), UNCHANGED held,
           r.op \in {"batch"} \cup Adds, r.rev = revision, r.head = head, r.saw = graph
    PROVE  SoloInv'
  <1>1. /\ IInv /\ revision \in Nat /\ head \in Nat
        /\ history[revision] = [graph |-> graph, head |-> head]
    BY DEF SoloInv, IInv, TypeOK, HistoryNow
  <1>2. DbGrows
    BY <1>1, PlainCommit
  <1>3. pc'[p] = "idle" /\ out'[p] = r /\ cache'[p] = None /\ cursor' = cursor
    BY <1>1, Frames DEF held
  <1>4. revision <= revision' /\ history'[revision] = history[revision]
    BY <1>1, <1>2 DEF DbGrows
  <1>5. FreshOut(p)'
    BY <1>1, <1>3, <1>4 DEF FreshOut, Adds
  <1> QED
    BY <1>2, <1>3, <1>5, IdleFresh, SoloStep

\* Writes.
LEMMA SoloWrite ==
    ASSUME SoloInv, Solo, IInv', NEW p \in Processes, WriteStep(p)
    PROVE  SoloInv'
  <1>0. IInv /\ NoJob \in Jobs /\ NoResult \in Results
    BY LocalTypes DEF SoloInv
  <1>1. ASSUME NEW op, NEW d, StartAdd(p, op, d) PROVE SoloInv'
    <2> DEFINE j == [NoJob EXCEPT !.op = op, !.delta = d]
    <2>1. op \in Adds /\ Call(p, j, "load") /\ UNCHANGED <<db, files, held, cache>>
      BY <1>1 DEF StartAdd, Adds
    <2>2. j.op = op
      BY <1>0 DEF Jobs
    <2> HIDE DEF j
    <2> QED
      BY <2>1, <2>2, SoloStart DEF Workflows, Adds
  <1>2. CASE CommitAdd(p)
    <2> DEFINE d == job[p].delta
               g == UpsertRows(graph, Merge(job[p].image, d), d)
               r == [NoResult EXCEPT !.op = job[p].op, !.rev = revision,
                       !.head = head, !.saw = job[p].image]
    <2>1. /\ pc[p] = "use" /\ job[p].op \in Adds /\ g \in Graphs
          /\ CommitUnitOfWork(g, snapshots, head)
          /\ SetCache(p, None) /\ Return(p, r)
          /\ r.op = job[p].op /\ r.rev = revision /\ r.head = head /\ r.saw = job[p].image
          /\ UNCHANGED <<files, held>>
      BY <1>0, <1>2, CommitAddStep
    <2>2. job[p].image = graph
      BY <2>1, ImageFresh
    <2> HIDE DEF g, r
    <2> QED
      BY <2>1, <2>2, SoloReceipt
  <1>3. ASSUME NEW d, StartBatch(p, d) PROVE SoloInv'
    <2> DEFINE j == [NoJob EXCEPT !.op = "batch", !.delta = d]
    <2>1. Call(p, j, "commit") /\ UNCHANGED <<db, files, held, cache>>
      BY <1>3 DEF StartBatch
    <2>2. j.op = "batch"
      BY <1>0 DEF Jobs
    <2> HIDE DEF j
    <2> QED
      BY <2>1, <2>2, SoloStart DEF Workflows
  <1>4. CASE CommitBatch(p)
    <2> DEFINE g == Merge(graph, job[p].delta)
               r == [NoResult EXCEPT !.op = "batch", !.rev = revision,
                       !.head = head, !.saw = graph]
    <2>1. /\ g \in Graphs /\ CommitUnitOfWork(g, snapshots, head)
          /\ SetCache(p, None) /\ Return(p, r)
          /\ r.op = "batch" /\ r.rev = revision /\ r.head = head /\ r.saw = graph
          /\ UNCHANGED <<files, held>>
      BY <1>0, <1>4, CommitBatchStep
    <2> HIDE DEF g, r
    <2> QED
      BY <2>1, SoloReceipt
  <1>5. CASE StartSnapshot(p)
    <2> DEFINE j == [NoJob EXCEPT !.op = "snapshot", !.head = head]
    <2>1. Call(p, j, "commit") /\ UNCHANGED <<db, files, held, cache>>
      BY <1>5 DEF StartSnapshot
    <2>2. j.op = "snapshot"
      BY <1>0 DEF Jobs
    <2> HIDE DEF j
    <2> QED
      BY <2>1, <2>2, SoloStart DEF Workflows
  <1>6. CASE CommitSnapshot(p)
    <2> DEFINE r == [NoResult EXCEPT !.op = "snapshot", !.head = job[p].head,
                       !.to = Len(snapshots) + 1]
    <2>1. /\ graph \in Graphs
          /\ CommitUnitOfWork(graph, Append(snapshots, SnapshotOf(graph)),
                              Len(snapshots) + 1)
          /\ SetCache(p, graph) /\ Return(p, r) /\ r.op = "snapshot"
          /\ UNCHANGED <<files, held>>
      BY <1>0, <1>6, CommitSnapshotStep
    <2> HIDE DEF r
    <2>2. pc'[p] = "idle" /\ out'[p] = r /\ cache'[p] = graph
      BY <1>0, <2>1, Frames
    <2>3. graph' = graph /\ cursor' = cursor
      BY <2>1 DEF CommitUnitOfWork, held
    <2>4. DbGrows
      BY <1>0, <2>1, SnapshotCommit
    <2>5. FreshOut(p)'
      BY <2>1, <2>2, PlainFresh DEF Receipted, Adds
    <2> QED
      BY <2>2, <2>3, <2>4, <2>5, IdleFresh, SoloStep
  <1>7. CASE Rollback(p)
    BY <1>7, SoloRefused DEF Rollback
  <1>8. CASE StartLock(p)
    <2> DEFINE j == [NoJob EXCEPT !.op = "lock", !.config = config]
    <2>1. Call(p, j, "write_lock") /\ UNCHANGED <<db, files, held, cache>>
      BY <1>8 DEF StartLock
    <2>2. j.op = "lock"
      BY <1>0 DEF Jobs
    <2> HIDE DEF j
    <2> QED
      BY <2>1, <2>2, SoloStart
  <1>9. CASE WriteLock(p)
    <2>1. /\ Return(p, [NoResult EXCEPT !.op = "lock"]) /\ UNCHANGED <<db, config, held, cache>>
      BY <1>9 DEF WriteLock
    <2>2. [NoResult EXCEPT !.op = "lock"].op = "lock"
      BY <1>0 DEF Results
    <2>3. pc'[p] = "idle" /\ out'[p].op = "lock"
      BY <1>0, <2>1, <2>2, Frames
    <2> QED
      BY <2>1, <2>3, IdleFresh, SoloQuiet DEF held, Receipted, Adds
  <1> QED
    BY <1>1, <1>2, <1>3, <1>4, <1>5, <1>6, <1>7, <1>8, <1>9 DEF WriteStep

\* Nothing moves, or only the config file does.
LEMMA SoloStutter ==
    ASSUME SoloInv, IInv', UNCHANGED <<db, lock, held, cache, pc, job, out>>
    PROVE  SoloInv'
  <1>1. /\ graph' = graph /\ head' = head /\ revision' = revision /\ history' = history
        /\ cursor' = cursor /\ cache' = cache /\ pc' = pc /\ job' = job /\ out' = out
        /\ lock' = lock
    BY DEF db, held
  <1>2. ASSUME NEW q \in Processes PROVE FreshCall(q)' /\ FreshOut(q)'
    <2>1. FreshCall(q) /\ FreshOut(q)
      BY DEF SoloInv
    <2> QED
      BY <1>1, <2>1 DEF FreshCall, FreshOut, TokenHonest, PreviewDigest
  <1> QED
    BY <1>1, <1>2 DEF SoloInv, CacheCoherent, TokenHonest

\* With one process every step preserves SoloInv.
LEMMA SoloNext ==
    ASSUME Solo
    PROVE  SoloInv /\ [Next]_vars => SoloInv'
  <1> SUFFICES ASSUME SoloInv, [Next]_vars PROVE SoloInv'
    OBVIOUS
  <1>1. IInv'
    BY NextInv DEF SoloInv
  <1>2. CASE UNCHANGED vars
    BY <1>1, <1>2, SoloStutter DEF vars, files
  <1>3. CASE ReloadConfig
    BY <1>1, <1>3, SoloStutter DEF ReloadConfig
  <1>4. ASSUME NEW p \in Processes, Restart(p) PROVE SoloInv'
    <2>1. pc'[p] = "idle" /\ out'[p] = NoResult /\ cache'[p] = None
      BY <1>4, Frames DEF Restart, SoloInv
    <2> QED
      BY <1>1, <1>4, <2>1, LocalTypes, IdleFresh, SoloQuiet DEF Restart, held, Receipted, Adds
  <1> QED
    BY <1>1, <1>2, <1>3, <1>4, SoloLoad, SoloRead, SoloWorkflow, SoloWrite DEF Next

\* SoloInv holds initially.
LEMMA SoloInit == Init => SoloInv
  <1> SUFFICES ASSUME Init PROVE SoloInv
    OBVIOUS
  <1>1. IInv
    BY InitInv
  <1>2. CacheCoherent /\ cursor = None
    BY DEF Init, CacheCoherent
  <1>3. ASSUME NEW p \in Processes PROVE FreshCall(p) /\ FreshOut(p)
    <2>1. pc[p] = "idle" /\ out[p] = NoResult
      BY DEF Init
    <2> QED
      BY <2>1, LocalTypes DEF FreshCall, FreshOut, Adds
  <1> QED
    BY <1>1, <1>2, <1>3 DEF SoloInv

\* With one process SoloInv is an invariant.
THEOREM SoloInvariance == Solo => (Spec => []SoloInv)
  <1> SUFFICES ASSUME Solo PROVE Spec => []SoloInv
    OBVIOUS
  <1> QED
    BY SoloInit, SoloNext, PTL DEF Spec

\* The cache of a handle that is alone on its instance holds the committed
\* graph (the process-local cache of CruxibleInstance is sound then).
THEOREM CacheIsSound == Solo => (Spec => []CacheCoherent)
  <1>1. SoloInv => CacheCoherent
    BY DEF SoloInv
  <1> QED
    BY <1>1, SoloInvariance, PTL

\* ... pages joined by a continuation token show one graph
THEOREM PagesOfOneGraph == Solo => (Spec => []PagesAgree)
  <1>1. SoloInv => PagesAgree
    BY DEF SoloInv, FreshOut, PagesAgree
  <1> QED
    BY <1>1, SoloInvariance, PTL

\* ... the receipt of a query or a write names the state the call saw
THEOREM ReceiptsExact == Solo => (Spec => []ReceiptsNameTheirState)
  <1>1. SoloInv => ReceiptsNameTheirState
    BY DEF SoloInv, FreshOut, ReceiptsNameTheirState, Adds
  <1> QED
    BY <1>1, SoloInvariance, PTL

\* ... an apply commits what was previewed
THEOREM ApplyAsPreviewed == Solo => (Spec => []AppliesWhatWasPreviewed)
  <1>1. SoloInv => AppliesWhatWasPreviewed
    BY DEF SoloInv, FreshOut, AppliesWhatWasPreviewed
  <1> QED
    BY <1>1, SoloInvariance, PTL

\* ... and no write is undone by another.
THEOREM SoloWritesNotLost == Solo => (Spec => NoLostUpdate)
  <1> SUFFICES ASSUME Solo PROVE Spec => NoLostUpdate
    OBVIOUS
  <1>1. SoloInv /\ [Next]_vars => [NamedCellsOnly]_vars
    <2> SUFFICES ASSUME SoloInv, [Next]_vars PROVE NamedCellsOnly
      OBVIOUS
    <2>1. ASSUME NEW p \in Processes, CommitAdd(p) PROVE NamedCellsOnly
      <3>1. pc[p] = "use"
        BY <2>1 DEF CommitAdd
      <3> QED
        BY <2>1, <3>1, ImageFresh, FreshAddExact
    <2>2. graph' = graph => NamedCellsOnly
      BY DEF NamedCellsOnly
    <2> QED
      BY <2>1, <2>2, GraphChanges, TransactionsExact DEF SoloInv
  <1> QED
    BY <1>1, SoloInvariance, PTL DEF Spec, NoLostUpdate, NamedCellsOnly

=============================================================================
