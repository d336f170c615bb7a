---------------------------- MODULE WorkflowSteps ----------------------------
(***************************************************************************)
(* A canonical workflow, step by step: workflow/executor.py, the handlers  *)
(* of workflow/step_handlers.py with what they call in io.py, transforms.py *)
(* and apply.py, and service_apply_workflow around them.                   *)
(*                                                                         *)
(* A plan is a sequence of steps over a clone of the graph.  It runs as a  *)
(* preview for the client, again as a preview when the client asks to      *)
(* apply, and a third time inside the write transaction, which stores the  *)
(* rows that the apply steps collected.  InstanceState has the caches,     *)
(* locks and concurrent writers around this; here it is the plan that      *)
(* matters: what a later step reads of an earlier one's writes and outputs, *)
(* which writes are refused, and which rows reach storage.                 *)
(*                                                                         *)
(* A row is [id, val].  A graph is [entities, edges, pending]: functions   *)
(* from identities and pairs of them to values, and the pairs whose edge   *)
(* awaits review.  An output has rows and read metadata.  The config does  *)
(* not move here (it does in InstanceState), and resolution contracts are  *)
(* in ResolutionContracts.                                                 *)
(***************************************************************************)
EXTENDS Naturals, Sequences, FiniteSets, FiniteSetsExt, SequencesExt

CONSTANTS
    Plans,          \* sequences of steps
    Starts,         \* graphs to start from
    MaxApplies,     \* applied runs of the plan
    MaxOtherWrites  \* direct writes of entities by other callers

VARIABLES
    plan,       \* the workflow of this behaviour
    rows,       \* the graph tables
    image,      \* the graph stored in the head snapshot
    head,       \* the number of snapshots made
    artifacts,  \* registered source artifacts: identity |-> content
    run,        \* the execution in progress, or Idle
    held,       \* the preview the client holds, or Nothing
    last,       \* how the last execution ended
    others      \* the number of direct writes so far

vars == <<plan, rows, image, head, artifacts, run, held, last, others>>

Values == 0 .. 2
Idle == [mode |-> "idle"]
Nothing == [mode |-> "none"]

Ids(g) == DOMAIN g.entities
Ascending(s) == SetToSortSeq(s, <)

-----------------------------------------------------------------------------
(* Plans and graphs. *)

\* Steps whose output lists rows, steps that write, and assertions, which have
\* no output that a later step could name.
Rowed == {"query", "shape", "filter", "join", "provider", "make", "register"}
Appliers == {"apply_entities", "apply_relationships", "apply_all"}
Asserts == {"not_truncated", "count"}

\* Templates of these may name another step (refs.py): fields, comparisons, keys
\* and properties.  0 names none.
Templated == {"shape", "filter", "join", "make"}

\* What the config may say of the types that an apply step writes.
WriteRules == {"upstream_owned", "validated", "guarded", "mint_only"}

\* validate_workflows (config/validator.py) and compile_plan_definition: a step
\* names earlier steps only.  Rows taken from an apply step's preview, which
\* resolve to no list and always fail, are left out.
Compiled(p) ==
    /\ DOMAIN p = 1 .. Len(p) /\ Len(p) \in Nat
    /\ \A i \in DOMAIN p :
        LET s == p[i]
            Prior(k) == k \in 1 .. i - 1 /\ p[k].kind \in Rowed
        IN  /\ s.kind \in Rowed \cup Appliers \cup Asserts
            /\ s.kind = "query" => s.limit \in Nat
            /\ s.kind # "query" => Prior(s.src)
            /\ s.kind \in Templated => s.ref = 0 \/ Prior(s.ref)
            /\ s.kind = "join" => Prior(s.right)
            /\ s.kind = "provider" =>
                   /\ s.listed \in BOOLEAN
                   /\ Len(s.adds) \in Nat /\ s.adds = [k \in 1 .. Len(s.adds) |-> s.adds[k]]
            /\ s.kind \in Appliers => s.rules \subseteq WriteRules
            /\ s.kind = "apply_all" => Prior(s.rels)

\* No edge without its ends, and only edges await review.
Sound(g) ==
    /\ IsFiniteSet(Ids(g)) /\ IsFiniteSet(DOMAIN g.edges)
    /\ \A e \in DOMAIN g.edges : {e[1], e[2]} \subseteq Ids(g)
    /\ g.pending \subseteq DOMAIN g.edges

-----------------------------------------------------------------------------
(* Outputs of the steps that read and transform. *)

NoMeta == "none"
Output(items, meta) == [items |-> items, meta |-> meta]

\* execute_query_step: a collection query with a limit.
QueryOutput(g, limit) ==
    LET found == Ascending(Ids(g))
        all == Cardinality(Ids(g))
        given == Min({limit, all})
    IN  Output([i \in 1 .. given |-> [id |-> found[i], val |-> g.entities[found[i]]]],
               IF given < all THEN "truncated" ELSE "complete")

\* The rows at the positions in keep, in their order.
RowsAt(items, keep) ==
    LET upTo[n \in 0 .. Len(items)] ==
            IF n = 0 THEN <<>>
            ELSE IF n \in keep THEN Append(upTo[n - 1], items[n]) ELSE upTo[n - 1]
    IN  upTo[Len(items)]

\* shape_items, filter_items: fields and comparisons may use a value named from
\* another step; the metadata attached is that of the items alone.
ShapeOutput(source, named) ==
    Output([i \in DOMAIN source.items |->
               [source.items[i] EXCEPT !.val = (@ + 1 + named) % 3]], source.meta)
FilterOutput(source, named) ==
    Output(RowsAt(source.items, {i \in DOMAIN source.items : source.items[i].val # named % 3}),
           source.meta)

\* merge_read_metadata: sides without metadata do not count.
MergeReadMetadata(left, right) ==
    IF "truncated" \in {left, right} THEN "truncated"
    ELSE IF "complete" \in {left, right} THEN "complete" ELSE NoMeta

\* join_items on the identity, keeping left rows with the right values.
Shifted(items, named) == [i \in DOMAIN items |-> [items[i] EXCEPT !.val = (@ + named) % 3]]
JoinOutput(left, right, named) ==
    LET matches(r) == RowsAt(right.items, {i \in DOMAIN right.items : right.items[i].id = r.id})
        joined[n \in 0 .. Len(left.items)] ==
            IF n = 0 THEN <<>> ELSE joined[n - 1] \o matches(left.items[n])
    IN  Output(Shifted(joined[Len(left.items)], named), MergeReadMetadata(left.meta, right.meta))

\* execute_provider_step: metadata only onto an output that lists rows under
\* "items" or "results".  It may add rows of its own.
ProviderOutput(source, listed, adds) ==
    Output([i \in DOMAIN source.items |-> [source.items[i] EXCEPT !.val = 2 - @]] \o adds,
           IF listed THEN source.meta ELSE NoMeta)

\* make_entity_set, make_relationship_set: the first row of an identity wins,
\* and the set has no read metadata.
FirstWins(items) ==
    RowsAt(items, {i \in DOMAIN items : \A j \in 1 .. i - 1 : items[j].id # items[i].id})
MadeOutput(source, named) == Output(Shifted(FirstWins(source.items), named), NoMeta)

-----------------------------------------------------------------------------
(* Application of a set to a graph: [graph, counts, ok]. *)

Applied(g, create, update, noop) ==
    [ok |-> TRUE, graph |-> g, create |-> create, update |-> update, noop |-> noop]
Refused == [ok |-> FALSE]

Keys(items) == {items[i].id : i \in DOMAIN items}
NewValue(items, id) == items[CHOOSE i \in DOMAIN items : items[i].id = id].val

\* Decisions per key: create what is missing, update what differs.
Upsert(old, new) ==
    [k \in DOMAIN old \cup DOMAIN new |-> IF k \in DOMAIN new THEN new[k] ELSE old[k]]
Counted(g, old, new) ==
    Applied(g, Cardinality(DOMAIN new \ DOMAIN old),
            Cardinality({k \in DOMAIN new \cap DOMAIN old : new[k] # old[k]}),
            Cardinality({k \in DOMAIN new \cap DOMAIN old : new[k] = old[k]}))

\* What changes the graph; a row equal to what is stored is no write.
Writes(old, new) == {k \in DOMAIN new : k \notin DOMAIN old \/ new[k] # old[k]}

\* check_upstream_type_ownership, and the property values the config allows.
Refuses(new, rules) ==
    \/ "upstream_owned" \in rules
    \/ "validated" \in rules /\ \E k \in DOMAIN new : new[k] = 2

\* A mutation guard that counts, in the graph as it would become, the entities
\* of a value when one enters it.
GuardTrips(old, new) ==
    \E k \in Writes(old, new) :
        new[k] = 1 /\ Cardinality({j \in DOMAIN Upsert(old, new) : Upsert(old, new)[j] = 1}) > 2

\* apply_entity refuses a mint_only type: whatever is written, and whatever the
\* guards try on a copy first.
MintRefuses(old, new, rules) ==
    /\ "mint_only" \in rules
    /\ Writes(old, new) # {} \/ ("guarded" \in rules /\ DOMAIN new # {})

\* Everything is validated before anything is written.
ApplyEntitySet(g, items, rules) ==
    LET new == [id \in Keys(items) |-> NewValue(items, id)]
    IN  IF \/ Refuses(new, rules)
           \/ "guarded" \in rules /\ GuardTrips(g.entities, new)
           \/ MintRefuses(g.entities, new, rules)
        THEN Refused
        ELSE Counted([g EXCEPT !.entities = Upsert(@, new)], g.entities, new)

\* Edges from each row to one target.  Endpoints are validated too; a guard
\* wants evidence, which value 0 has none of; an update of an edge that awaits
\* review is refused.
Edges(items, target) == [e \in {<<id, target>> : id \in Keys(items)} |-> NewValue(items, e[1])]
ApplyRelationshipSet(g, items, target, rules) ==
    LET new == Edges(items, target)
    IN  IF \/ Refuses(new, rules)
           \/ DOMAIN new # {} /\ target \notin Ids(g)
           \/ Keys(items) \ Ids(g) # {}
           \/ "guarded" \in rules /\ \E e \in DOMAIN new : new[e] = 0
           \/ \E e \in DOMAIN new \cap g.pending : new[e] # g.edges[e]
        THEN Refused
        ELSE Counted([g EXCEPT !.edges = Upsert(@, new)], g.edges, new)

\* The sets of an apply step, entities first: <<alias, target>> with target 0
\* for an entity set.
Sets(step) ==
    IF step.kind = "apply_entities" THEN <<<<step.src, 0>>>>
    ELSE IF step.kind = "apply_relationships" THEN <<<<step.src, step.target>>>>
    ELSE <<<<step.src, 0>>, <<step.rels, step.target>>>>

ApplySet(g, items, target, rules) ==
    IF target = 0 THEN ApplyEntitySet(g, items, rules)
    ELSE ApplyRelationshipSet(g, items, target, rules)

\* _collect_entity_delta, _collect_relationship_delta: the rows of a set as
\* the graph now holds them.
Collected(delta, after, ids, pairs) ==
    [entities |-> Upsert(delta.entities, [id \in ids |-> after.entities[id]]),
     edges |-> Upsert(delta.edges, [e \in pairs |-> after.edges[e]])]

\* Mutant: only the rows that were created.
CreatedOnly(delta, before, after, items, target) ==
    IF target = 0 THEN Collected(delta, after, Keys(items) \ Ids(before), {})
    ELSE Collected(delta, after, {}, DOMAIN Edges(items, target) \ DOMAIN before.edges)

Collect(delta, before, after, items, target) ==
    IF target = 0 THEN Collected(delta, after, Keys(items) \cap Ids(after), {})
    ELSE Collected(delta, after, {}, DOMAIN Edges(items, target) \cap DOMAIN after.edges)

-----------------------------------------------------------------------------
(* One execution. *)

Begin(mode) ==
    [mode |-> mode, at |-> 1, base |-> rows, graph |-> rows, known |-> artifacts,
     store |-> artifacts, outputs |-> <<>>, previews |-> <<>>,
     delta |-> [entities |-> <<>>, edges |-> <<>>]]

Running == run.mode \in {"preview", "check", "apply"}
Step == plan[run.at]
More == Running /\ run.at <= Len(plan)
Rest == <<plan, rows, image, head, artifacts, held, last, others>>

\* set_step_output, and on to the next step.
Yield(r, output) ==
    run' = [r EXCEPT !.at = @ + 1, !.outputs = Append(@, output)] /\ UNCHANGED Rest

\* execute_workflow raises: a failed receipt, and a rollback under apply.
Raise ==
    /\ run' = Idle
    /\ last' = [mode |-> run.mode, ok |-> FALSE, run |-> run]
    /\ UNCHANGED <<plan, rows, image, head, artifacts, held, others>>

Source == run.outputs[Step.src]

\* resolve_value of a template that names an earlier step: the number of its
\* rows stands for whatever is taken of its output.
Named == IF Step.ref = 0 THEN 0 ELSE Len(run.outputs[Step.ref].items)

Query == More /\ Step.kind = "query" /\ Yield(run, QueryOutput(run.graph, Step.limit))
Transform ==
    /\ More
    /\ \/ Step.kind = "shape" /\ Yield(run, ShapeOutput(Source, Named))
       \/ Step.kind = "filter" /\ Yield(run, FilterOutput(Source, Named))
       \/ Step.kind = "join" /\ Yield(run, JoinOutput(Source, run.outputs[Step.right], Named))
       \/ Step.kind = "make" /\ Yield(run, MadeOutput(Source, Named))

\* A canonical provider is a function of its input; the call itself may fail.
CallProvider ==
    /\ More /\ Step.kind = "provider"
    /\ Yield(run, ProviderOutput(Source, Step.listed, Step.adds)) \/ Raise

\* execute_assert_not_truncated_step, execute_assert_count_step
Guard ==
    /\ More /\ Step.kind \in Asserts
    /\ IF \/ Step.kind = "not_truncated" /\ Source.meta = "complete"
          \/ Step.kind = "count" /\ Len(Source.items) >= Step.least
       THEN Yield(run, Source)
       ELSE Raise

\* execute_register_source_artifacts_handler.  Rows are checked against the
\* store and against the earlier rows of this step; only an apply stores them.
Register ==
    /\ More /\ Step.kind = "register"
    /\ LET items == Source.items
           fresh == Keys(items) \ DOMAIN run.store
           clash == \/ \E i \in DOMAIN items : items[i].id \in DOMAIN run.store
                                               /\ run.store[items[i].id] # items[i].val
                    \/ \E i, j \in DOMAIN items : items[i].id = items[j].id
                                                  /\ items[i].val # items[j].val
           stored == [k \in DOMAIN run.store \cup fresh |->
                         IF k \in fresh THEN NewValue(items, k) ELSE run.store[k]]
           preview == [registered |-> Cardinality(fresh), noops |-> Len(items) - Cardinality(fresh)]
       IN  IF clash THEN Raise
           ELSE Yield([run EXCEPT !.previews = Append(@, preview),
                                  !.store = IF run.mode = "apply" THEN stored ELSE @],
                      Source)

\* execute_apply_entities_handler, execute_apply_relationships_handler,
\* execute_apply_all_handler: one set, or an entity set and then edges.
Apply ==
    /\ More /\ Step.kind \in Appliers
    /\ LET sets == Sets(Step)
           items(i) == run.outputs[sets[i][1]].items
           one == ApplySet(run.graph, items(1), sets[1][2], Step.rules)
           two == ApplySet(one.graph, items(2), sets[2][2], Step.rules)
           first == Collect(run.delta, run.graph, one.graph, items(1), sets[1][2])
           Done(ended, previews, delta) ==
               Yield([run EXCEPT !.graph = ended.graph, !.previews = @ \o previews,
                                 !.delta = IF run.mode = "apply" THEN delta ELSE @],
                     Output(<<>>, NoMeta))
           Counts(a) == [create |-> a.create, update |-> a.update, noop |-> a.noop]
       IN  IF ~one.ok THEN Raise
           ELSE IF Len(sets) = 1 THEN Done(one, <<Counts(one)>>, first)
           ELSE IF ~two.ok THEN Raise
           ELSE Done(two, <<Counts(one), Counts(two)>>,
                     Collect(first, one.graph, two.graph, items(2), sets[2][2]))

-----------------------------------------------------------------------------
(* The service around it. *)

ApplyDigest(r) == [head |-> head, previews |-> r.previews]
Over == Running /\ run.at > Len(plan)
Ended(r) == [mode |-> r.mode, ok |-> TRUE, run |-> r]

StartPreview == run.mode = "idle" /\ run' = Begin("preview") /\ UNCHANGED Rest
FinishPreview ==
    /\ Over /\ run.mode = "preview"
    /\ held' = [mode |-> "held", digest |-> ApplyDigest(run), base |-> run.base,
                store |-> artifacts, graph |-> run.graph]
    /\ run' = Idle
    /\ last' = Ended(run)
    /\ UNCHANGED <<plan, rows, image, head, artifacts, others>>

\* service_apply_workflow previews again and compares the digest ...
StartApply ==
    run.mode = "idle" /\ held # Nothing /\ head < MaxApplies /\ run' = Begin("check") /\ UNCHANGED Rest
CheckDigest ==
    /\ Over /\ run.mode = "check"
    /\ IF ApplyDigest(run) = held.digest
       THEN run' = [mode |-> "checked"] /\ UNCHANGED Rest
       ELSE Raise

\* ... and executes once more inside the write transaction.
EnterTransaction == run.mode = "checked" /\ run' = Begin("apply") /\ UNCHANGED Rest

\* commit_graph_snapshot: the snapshot holds the whole clone, the tables only
\* receive the collected rows.
Commit ==
    /\ Over /\ run.mode = "apply"
    /\ rows' = [rows EXCEPT
          !.entities = Upsert(@, run.delta.entities), !.edges = Upsert(@, run.delta.edges)]
    /\ image' = run.graph
    /\ head' = head + 1
    /\ artifacts' = run.store
    /\ run' = Idle
    /\ last' = Ended(run)
    /\ UNCHANGED <<plan, held, others>>

\* A direct write of somebody else, between executions.
OtherWrite ==
    /\ run.mode \in {"idle", "checked"} /\ others < MaxOtherWrites
    /\ \E id \in UNION {Ids(g) : g \in Starts}, v \in Values :
          rows' = [rows EXCEPT !.entities = Upsert(@, [k \in {id} |-> v])]
    /\ others' = others + 1
    /\ last' = Nothing
    /\ UNCHANGED <<plan, image, head, artifacts, run, held>>

Init ==
    /\ plan \in Plans
    /\ rows \in Starts
    /\ image = rows /\ head = 0
    /\ artifacts = <<>>
    /\ run = Idle /\ held = Nothing /\ last = Nothing /\ others = 0

Next ==
    \/ StartPreview \/ StartApply \/ EnterTransaction \/ OtherWrite
    \/ Query \/ Transform \/ CallProvider \/ Guard \/ Register \/ Apply
    \/ FinishPreview \/ CheckDigest \/ Commit

Spec == Init /\ [][Next]_vars

-----------------------------------------------------------------------------
Creates(previews) ==
    SumFunction([i \in DOMAIN previews |->
                    IF "create" \in DOMAIN previews[i] THEN previews[i].create ELSE 0])

\* What an apply committed: the tables hold what its steps computed and the
\* snapshot shows, no edge lost an endpoint, an edge awaiting review kept its
\* content, and the counts the client compared are the rows that appeared.
CommittedWhole ==
    last.mode = "apply" /\ last.ok /\ run = Idle =>
        /\ rows = last.run.graph
        /\ image = rows
        /\ \A e \in DOMAIN rows.edges : {e[1], e[2]} \subseteq Ids(rows)
        /\ \A e \in rows.pending : rows.edges[e] = last.run.base.edges[e]
        /\ Creates(last.run.previews) =
               Cardinality(Ids(rows) \ Ids(last.run.base))
               + Cardinality(DOMAIN rows.edges \ DOMAIN last.run.base.edges)

\* A plan that registers source artifacts in more than one step.
RegistersTwice ==
    Cardinality({i \in DOMAIN plan : plan[i].kind = "register"}) > 1

\* An apply over the state its preview saw commits what the preview computed,
\* and only a provider that cannot be reached makes it fail: no assertion,
\* validation, guard or write policy refuses what it let pass before.
AsPreviewed ==
    /\ last.mode = "apply" /\ ~RegistersTwice
    /\ held.base = last.run.base /\ held.store = last.run.known
    => IF last.ok
       THEN last.run.graph = held.graph /\ last.run.previews = held.digest.previews
       ELSE plan[last.run.at].kind = "provider"

\* The plan runs the same in preview and in apply, and its writes reach the
\* tables whole.
WorkflowExact == CommittedWhole /\ AsPreviewed
=============================================================================
