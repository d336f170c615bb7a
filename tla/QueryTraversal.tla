--------------------------- MODULE QueryTraversal ---------------------------
(***************************************************************************)
(* The traversal half of the query engine (query/engine.py): the           *)
(* breadth-first walk of _execute_step, one popped frontier entry and one  *)
(* examined relationship at a time, over the steps of a named query, and   *)
(* the tail of execute_query_definition that dedupes, gates by entity      *)
(* lifecycle, applies the path budgets and cuts at the limit.              *)
(*                                                                         *)
(* Entities are numbers, entity 1 is the entry point, and a relationship   *)
(* is <<type, from, to>> with a number for its type, so that the engine's  *)
(* sort keys are tuples of numbers.  Everything that rejects a             *)
(* relationship by itself (visibility, lifecycle status, edge filter,      *)
(* policies) is membership in world.blocked; everything that rejects the   *)
(* candidate behind it (target filter, where, constraint, exclusions) is   *)
(* membership in world.failing.                                            *)
(***************************************************************************)
EXTENDS Integers, Sequences, FiniteSets, SequencesExt

CONSTANTS Worlds,   \* records [edges, blocked, retired, failing, goals]
          Queries   \* records [shape, dedupe, state, steps, cap, perResult, limit]

VARIABLES world, query, step,
          inputs,      \* current_states: the paths the step starts from
          walk,        \* queue and bookkeeping of the step under way
          truncated,   \* traversal_budget.truncated
          rows, reasons, phase

vars == <<world, query, step, inputs, walk, truncated, rows, reasons, phase>>

Absent == 0   \* an absent max_paths, max_paths_per_result or limit

\* One candidate of a frontier entry, and the mark before each relationship
\* type's candidates, where the loop over types looks at the cap once more.
NextType == [seg |-> <<>>, to |-> 0]

Entry == [entities |-> <<1>>, segs |-> <<>>]
Current(p) == Last(p.entities)
Extend(p, c) == [entities |-> Append(p.entities, c.to), segs |-> Append(p.segs, c.seg)]

Retains(q) == q.shape \in {"path", "relationship"} \/ q.dedupe \in {"path", "none"}

TupleLess(s, t) ==
    \E i \in 1..Len(t) :
        /\ \A j \in 1..(i - 1) : j <= Len(s) /\ s[j] = t[j]
        /\ i <= Len(s) => s[i] < t[i]

PathIdentity(p) == FlattenSeq(p.segs)
StateLess(p, q) ==
    TupleLess(<<Current(p)>> \o PathIdentity(p), <<Current(q)>> \o PathIdentity(q))
CandidateLess(c, d) == TupleLess(c.seg \o <<c.to>>, d.seg \o <<d.to>>)

-----------------------------------------------------------------------------
(* What one step may follow. *)

Neighbors(n, rel, direction) ==
    {[seg |-> e, to |-> e[3]] : e \in {x \in world.edges :
        x[1] = rel /\ x[2] = n /\ direction \in {"outgoing", "both"}}}
    \cup
    {[seg |-> e, to |-> e[2]] : e \in {x \in world.edges :
        x[1] = rel /\ x[3] = n /\ direction \in {"incoming", "both"}}}

\* Typed collection: only the last step of an entity query narrows what it
\* emits, and only what it emits is filtered.
Collects(i, n) ==
    (query.shape = "entity" /\ i = Len(query.steps)) => n \in world.goals

Passes(i, c) ==
    /\ c.seg \notin world.blocked
    /\ Collects(i, c.to) => c.to \notin world.failing

Admits(i, p, c) ==
    /\ Retains(query) => c.to \notin ToSet(p.entities)
    /\ Passes(i, c)

\* The neighbours come in storage order, and sorted under max_paths.
Arrangements(S) ==
    IF Retains(query) /\ query.cap # Absent THEN {SetToSortSeq(S, CandidateLess)}
                                          ELSE SetToSeqs(S)

Frontier(p) ==
    LET rels == query.steps[step].rels
        Ordered(i) == Arrangements(Neighbors(Current(p), rels[i][1], rels[i][2]))
        choices == {f \in [DOMAIN rels -> UNION {Ordered(i) : i \in DOMAIN rels}] :
                        \A i \in DOMAIN rels : f[i] \in Ordered(i)}
    IN  {FlattenSeq([i \in DOMAIN rels |-> <<NextType>> \o f[i]]) : f \in choices}

-----------------------------------------------------------------------------
(* One step: seed, pop, examine, close. *)

Arranged(paths) ==
    IF Retains(query) /\ query.cap # Absent THEN SortSeq(paths, StateLess) ELSE paths

\* The inputs are frontier entries of depth 0; a compact query marks them both
\* expanded and emitted, so that no step returns what it started from.
Seed(paths, q) ==
    LET here == IF Retains(q) THEN {} ELSE {Current(paths[i]) : i \in DOMAIN paths}
    IN  [queue |-> [i \in DOMAIN paths |-> [root |-> i, path |-> paths[i], depth |-> 0]],
         pend |-> <<>>, at |-> Absent, expanded |-> here, emitted |-> here,
         produced |-> {}, retained |-> <<>>]

CapReached(w) == Retains(query) /\ query.cap # Absent /\ Len(w.retained) >= query.cap

Walking == phase = "walk" /\ step <= Len(query.steps)
MaxDepth == query.steps[step].depth

PopExhausted ==
    /\ Walking /\ walk.pend = <<>> /\ walk.queue # <<>>
    /\ Head(walk.queue).depth >= MaxDepth
    /\ walk' = [walk EXCEPT !.queue = Tail(@)]
    /\ UNCHANGED <<world, query, step, inputs, truncated, rows, reasons, phase>>

Pop ==
    /\ Walking /\ walk.pend = <<>> /\ walk.queue # <<>>
    /\ Head(walk.queue).depth < MaxDepth
    /\ ~CapReached(walk)
    /\ \E c \in Frontier(Head(walk.queue).path) :
           walk' = [walk EXCEPT !.queue = Tail(@), !.at = Head(walk.queue), !.pend = c]
    /\ UNCHANGED <<world, query, step, inputs, truncated, rows, reasons, phase>>

\* The cap is met with work left: the rest of the frontier is dropped and the
\* traversal reports that it was cut short.
Cut ==
    /\ Walking
    /\ walk.pend # <<>> \/ (walk.queue # <<>> /\ Head(walk.queue).depth < MaxDepth)
    /\ CapReached(walk)
    /\ walk' = [walk EXCEPT !.queue = <<>>, !.pend = <<>>]
    /\ truncated' = TRUE
    /\ UNCHANGED <<world, query, step, inputs, rows, reasons, phase>>

PassOver ==
    /\ Walking /\ walk.pend # <<>> /\ ~CapReached(walk)
    /\ Head(walk.pend) = NextType \/ ~Admits(step, walk.at.path, Head(walk.pend))
    /\ walk' = [walk EXCEPT !.pend = Tail(@)]
    /\ UNCHANGED <<world, query, step, inputs, truncated, rows, reasons, phase>>

\* A compact query emits and expands an entity the first time it is met.
FollowCompact ==
    /\ Walking /\ ~Retains(query) /\ walk.pend # <<>>
    /\ Head(walk.pend) # NextType
    /\ LET c == Head(walk.pend)
           p == Extend(walk.at.path, c)
           emits == Collects(step, c.to) /\ c.to \notin walk.emitted
       IN  /\ Admits(step, walk.at.path, c)
           /\ walk' = [walk EXCEPT
                  !.pend = Tail(@),
                  !.emitted = IF emits THEN @ \cup {c.to} ELSE @,
                  !.produced = IF emits THEN @ \cup {walk.at.root} ELSE @,
                  !.retained = IF emits THEN Append(@, p) ELSE @,
                  !.expanded = @ \cup {c.to},
                  !.queue = IF c.to \in walk.expanded THEN @
                            ELSE Append(@, [root |-> walk.at.root, path |-> p,
                                            depth |-> walk.at.depth + 1])]
    /\ UNCHANGED <<world, query, step, inputs, truncated, rows, reasons, phase>>

\* MUTANT of CutsShort: the path that fills the cap is not expanded, and nobody is told.
SilentlyFull(w, d) == FALSE

\* What the cap leaves of a path retained at depth d: nothing is enqueued once
\* it is met, and that is a truncation unless the depth was used up anyway.
CutsShort(w, d) == CapReached(w) /\ d < MaxDepth

FollowRetained ==
    /\ Walking /\ Retains(query) /\ walk.pend # <<>> /\ ~CapReached(walk)
    /\ Head(walk.pend) # NextType
    /\ LET c == Head(walk.pend)
           p == Extend(walk.at.path, c)
           w == [walk EXCEPT !.pend = Tail(@), !.produced = @ \cup {walk.at.root},
                             !.retained = Append(@, p)]
           deeper == [root |-> walk.at.root, path |-> p, depth |-> walk.at.depth + 1]
       IN  /\ Admits(step, walk.at.path, c)
           /\ walk' = IF CapReached(w) THEN w ELSE [w EXCEPT !.queue = Append(@, deeper)]
           /\ truncated' = (truncated \/ CutsShort(w, deeper.depth))
    /\ UNCHANGED <<world, query, step, inputs, rows, reasons, phase>>

\* The frontier is empty.  An optional step keeps the inputs that led nowhere,
\* as far as the cap allows; then the next step is seeded.
CloseStep ==
    /\ Walking /\ walk.pend = <<>> /\ walk.queue = <<>>
    /\ LET barren == IF query.steps[step].required THEN {}
                     ELSE DOMAIN inputs \ walk.produced
           order == SetToSortSeq(barren, LAMBDA i, j : i < j)
           room == IF query.cap = Absent THEN Len(order)
                   ELSE query.cap - Len(walk.retained)
           kept == [i \in 1..(IF room < Len(order) THEN room ELSE Len(order)) |->
                        inputs[order[i]]]
           next == Arranged(walk.retained \o kept)
       IN  /\ truncated' = (truncated \/ room < Len(order))
           /\ inputs' = next
           /\ walk' = Seed(next, query)
    /\ step' = step + 1
    /\ UNCHANGED <<world, query, rows, reasons, phase>>

-----------------------------------------------------------------------------
(* The answer. *)

Dedupe(paths) ==
    LET Key(p) == IF query.dedupe = "entity" THEN <<Current(p)>> ELSE PathIdentity(p)
        first == {i \in DOMAIN paths : \A j \in 1..(i - 1) : Key(paths[j]) # Key(paths[i])}
    IN  IF query.dedupe = "none" THEN paths
        ELSE LET order == SetToSortSeq(first, LAMBDA i, j : i < j)
             IN  [i \in DOMAIN order |-> paths[order[i]]]

Live(n) == n \notin world.retired
AnchorInScope(n) == query.state = "live" => Live(n)
MatchesState(n) ==
    /\ query.state = "live" => Live(n)
    /\ query.state = "not-live" => ~Live(n)

\* _filter_contexts_by_entity_state: a relationship row is about its edge, so
\* only its endpoints' presence is asked for.
Shown(p) ==
    /\ query.shape # "relationship" => MatchesState(Current(p))
    /\ \A i \in DOMAIN p.entities : AnchorInScope(p.entities[i])

RowLess(p, q) ==
    IF query.shape = "relationship" THEN TupleLess(Last(p.segs), Last(q.segs))
                                    ELSE TupleLess(PathIdentity(p), PathIdentity(q))

\* At most perResult rows per result entity, the first in row order.
WithinBudget(paths) ==
    LET rank(i) == Cardinality({j \in 1..i : Current(paths[j]) = Current(paths[i])})
        order == SetToSortSeq({i \in DOMAIN paths : rank(i) <= query.perResult},
                              LAMBDA i, j : i < j)
    IN  IF query.perResult = Absent THEN paths ELSE [i \in DOMAIN order |-> paths[order[i]]]

Answer ==
    /\ phase = "walk" /\ step > Len(query.steps)
    /\ LET shown == SelectSeq(Dedupe(inputs), Shown)
           ordered == IF query.cap = Absent /\ query.perResult = Absent THEN shown
                      ELSE SortSeq(shown, RowLess)
           budgeted == WithinBudget(ordered)
           cut == query.limit # Absent /\ query.limit < Len(budgeted)
       IN  /\ rows' = IF cut THEN SubSeq(budgeted, 1, query.limit) ELSE budgeted
           /\ reasons' = (IF truncated THEN {"max_paths"} ELSE {})
                    \cup (IF Len(budgeted) < Len(ordered) THEN {"max_paths_per_result"} ELSE {})
                    \cup (IF cut THEN {"limit"} ELSE {})
    /\ phase' = "done"
    /\ UNCHANGED <<world, query, step, inputs, walk, truncated>>

NoWorld == [edges |-> {}, blocked |-> {}, retired |-> {}, failing |-> {}, goals |-> {}]
NoQuery == [shape |-> "entity", dedupe |-> "entity", state |-> "live", steps |-> <<>>,
            cap |-> Absent, perResult |-> Absent, limit |-> Absent]

Init ==
    /\ phase = "idle" /\ world = NoWorld /\ query = NoQuery
    /\ step = 1 /\ inputs = <<Entry>> /\ walk = Seed(inputs, query)
    /\ truncated = FALSE /\ rows = <<>> /\ reasons = {}

\* execute_query_definition loads nothing after it starts: the graph it is
\* handed and the query definition are fixed for the whole call.
Execute ==
    /\ phase = "idle"
    /\ world' \in Worlds /\ query' \in Queries
    /\ walk' = Seed(inputs, query') /\ phase' = "walk"
    /\ UNCHANGED <<step, inputs, truncated, rows, reasons>>

Next == Execute \/ PopExhausted \/ Pop \/ Cut \/ PassOver \/ FollowCompact \/ FollowRetained
        \/ CloseStep \/ Answer

Spec == Init /\ [][Next]_vars

-----------------------------------------------------------------------------
(* What the query means, stated over sets and without a frontier. *)

StepNeighbors(i, n) ==
    UNION {Neighbors(n, query.steps[i].rels[r][1], query.steps[i].rels[r][2]) :
               r \in DOMAIN query.steps[i].rels}

Extensions(i, p) ==
    {Extend(p, c) : c \in {x \in StepNeighbors(i, Current(p)) : Admits(i, p, x)}}

\* Every simple path a retaining query may return.
Routes ==
    LET after[i \in 0..Len(query.steps)] ==
            IF i = 0 THEN {Entry}
            ELSE LET layer[d \in 0..query.steps[i].depth] ==
                         IF d = 0 THEN after[i - 1]
                         ELSE UNION {Extensions(i, p) : p \in layer[d - 1]}
                 IN  UNION {layer[d] : d \in 1..query.steps[i].depth}
                     \cup IF query.steps[i].required THEN {}
                          ELSE {p \in after[i - 1] : Extensions(i, p) = {}}
    IN  after[Len(query.steps)]

\* Every entity a compact query may return, as <<entity, TRUE>> if some route
\* leads to it through live entities only and as <<entity, FALSE>> if some
\* route does not.
Reached ==
    LET after[i \in 0..Len(query.steps)] ==
            IF i = 0 THEN {<<1, Live(1)>>}
            ELSE LET layer[d \in 0..query.steps[i].depth] ==
                         IF d = 0 THEN after[i - 1]
                         ELSE UNION {{<<c.to, r[2] /\ Live(c.to)>> :
                                  c \in {x \in StepNeighbors(i, r[1]) : Passes(i, x)}} :
                                      r \in layer[d - 1]}
                 IN  {r \in UNION {layer[d] : d \in 1..query.steps[i].depth} :
                         /\ Collects(i, r[1])
                         /\ \A s \in after[i - 1] : s[1] # r[1]}
    IN  after[Len(query.steps)]

Results == {Current(rows[i]) : i \in DOMAIN rows}

\* Rows of a path-retaining query are declared routes that pass the lifecycle
\* gate, and unless the answer says that it was truncated no such route is
\* missing; deduping by entity may leave out an entity only behind a route the
\* gate hides, because the first path found speaks for the entity.
RetainedAnswer ==
    LET routes == Routes
        given == ToSet(rows)
    IN  /\ given \subseteq {p \in routes : Shown(p)}
        /\ (reasons = {}) => \A p \in routes : Shown(p) =>
               IF query.dedupe = "entity"
               THEN \/ Current(p) \in Results
                    \/ \E r \in routes : Current(r) = Current(p) /\ ~Shown(r)
               ELSE p \in given
        /\ query.dedupe # "none" => Cardinality(given) = Len(rows)

\* A compact query returns each matching entity once, whatever the order in
\* which the storage lists relationships, and again only a route through a
\* retired entity can hide one.
CompactAnswer ==
    LET reached == Reached
        Hidden(r) == query.state = "live" /\ ~r[2]
        visible == {r[1] : r \in {x \in reached : MatchesState(x[1]) /\ ~Hidden(x)}}
        shadowed == {r[1] : r \in {x \in reached : Hidden(x)}}
    IN  /\ Results \subseteq visible
        /\ (reasons = {}) => visible \ shadowed \subseteq Results
        /\ Cardinality(Results) = Len(rows)

\* The answer of a traversal query is the declared one, or says that it was
\* cut, and no budget is exceeded on the way (docs/config-reference.md,
\* "path_truncated means traversal was cut short by a path budget before the
\* engine could prove completeness").
AnswerAsDeclared ==
    /\ (Retains(query) /\ query.cap # Absent) => Len(walk.retained) <= query.cap
    /\ phase = "done" =>
        /\ IF Retains(query) THEN RetainedAnswer ELSE CompactAnswer
        /\ query.limit # Absent => Len(rows) <= query.limit
        /\ query.perResult # Absent => \A i \in DOMAIN rows :
               Cardinality({j \in DOMAIN rows : Current(rows[j]) = Current(rows[i])})
                   <= query.perResult
=============================================================================
