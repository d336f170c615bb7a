------------------------------ MODULE StateDiff ------------------------------
(***************************************************************************)
(* The comparison behind `cruxible state diff`: graph/diff.py, and the     *)
(* parts of service/state_diff.py that prepare it.                         *)
(*                                                                         *)
(* A side is one resolved coordinate: edge rows, entities, the ownership   *)
(* basis recorded with it and the digest of its claim identity map.  A row *)
(* carries its place in graph iteration order (pos), so that what depends  *)
(* on load order is visible.  A comparison state is <<core, note>>: note   *)
(* is the annotation channel, core the properties, review and lifecycle    *)
(* channels.  State digests are the states.  Every tuple is of a type of   *)
(* its own and so is every entity, so types need no names.  A section is a *)
(* set of items: their order, the buckets a selector leaves out and the    *)
(* capped view come after the comparison and do not change it.             *)
(***************************************************************************)
EXTENDS Integers, FiniteSets, Functions

CONSTANTS
    Comparisons,   \* records [from, to, wanted, wantedKeys]
    Ends           \* tuple |-> the entity keys it connects

VARIABLES
    comparison,    \* the comparison made, or Idle
    edges,         \* the edges section
    entities       \* the entities section

vars == <<comparison, edges, entities>>

NoClaim == 0
Empty == <<0, 0>>      \* an entity with neither properties nor metadata
Idle == [idle |-> TRUE]
Buckets == {"added", "removed", "changed", "ambiguous", "identity_conflict"}

\* The images that are compared: finitely many rows, each at a place of its own.
IsRow(r) ==
    /\ r = [tuple |-> r.tuple, claim |-> r.claim, state |-> r.state, pos |-> r.pos]
    /\ r.pos \in Nat
IsSide(s) ==
    /\ s = [rows |-> s.rows, entities |-> s.entities, basis |-> s.basis, map |-> s.map]
    /\ IsFiniteSet(s.rows) /\ \A r \in s.rows : IsRow(r)
    /\ \A x, y \in s.rows : x.pos = y.pos => x = y
IsComparison(c) ==
    /\ c = [from |-> c.from, to |-> c.to, wanted |-> c.wanted, wantedKeys |-> c.wantedKeys]
    /\ IsSide(c.from) /\ IsSide(c.to) /\ IsFiniteSet(c.wanted)

-----------------------------------------------------------------------------
(* Ownership.  A basis is [known, keys, tuples]: what upstream owns. *)

Unknown == [known |-> FALSE, keys |-> {}, tuples |-> {}]

\* Either side unknown makes ownership unknown on both.
ReconciledBasis(own, other) == IF own.known /\ other.known THEN own ELSE Unknown

RelationshipOwnership(basis, tuple) ==
    IF ~basis.known THEN "unknown"
    ELSE IF tuple \in basis.tuples THEN "upstream"
    ELSE IF Ends[tuple] \cap basis.keys # {} THEN "cross_boundary"
    ELSE "local"

Incident(side, key) == {r.tuple : r \in {x \in side.rows : key \in Ends[x.tuple]}}

EntityOwnership(basis, key, incident) ==
    IF ~basis.known THEN "unknown"
    ELSE IF \E t \in incident : (t \in basis.tuples) # (key \in basis.keys)
    THEN "cross_boundary"
    ELSE IF key \in basis.keys THEN "upstream" ELSE "local"

\* Empty, attached, and on the boundary: left behind by extracting what
\* upstream owns, not a state of its own.
BoundaryStubs(side, basis) ==
    IF ~basis.known THEN {}
    ELSE {k \in DOMAIN side.entities :
             /\ side.entities[k] = Empty
             /\ Incident(side, k) # {}
             /\ EntityOwnership(basis, k, Incident(side, k)) = "cross_boundary"}

-----------------------------------------------------------------------------
(* Edges: claim ids first, then cancellation of equal states by tuple. *)

EdgeRows(side, wanted) == {r \in side.rows : r.tuple \in wanted}

ClaimsOf(rows) == {r.claim : r \in rows} \ {NoClaim}
IndexByClaimId(rows, claim) == {r \in rows : r.claim = claim}

DuplicatedLastWins(from, to) == {}
Duplicated(from, to) ==
    {c \in ClaimsOf(from) \cup ClaimsOf(to) :
        Cardinality(IndexByClaimId(from, c)) > 1 \/ Cardinality(IndexByClaimId(to, c)) > 1}

\* The pairs that a claim id of one row on each side matches, on one tuple.
Matched(from, to, duplicated) ==
    {p \in from \X to :
        /\ p[1].claim = p[2].claim /\ p[1].claim \notin duplicated \cup {NoClaim}
        /\ p[1].tuple = p[2].tuple}

Item(bucket, from, to, basis, subtype) ==
    [bucket |-> bucket, from |-> from, to |-> to, basis |-> basis, subtype |-> subtype]

IdentityConflict(from, to, claim, duplicated) ==
    Item("identity_conflict", IndexByClaimId(from, claim), IndexByClaimId(to, claim), "claim_id",
         IF claim \in duplicated THEN "duplicate_within_side" ELSE "cross_bucket")

\* Rows of a tuple with a given state, and the place of a row among them: the
\* buckets are sorted by state digest and equal states keep their load order.
Alike(rows, r) == {x \in rows : x.tuple = r.tuple /\ x.state = r.state}
Place(rows, r) == Cardinality({x \in Alike(rows, r) : x.pos <= r.pos})

\* Equal states cancel one to one: the first ones on the from side, and on the
\* to side the ones after the first that remain.
ResidualFrom(from, to) ==
    {r \in from : Place(from, r) > Cardinality(Alike(to, r))}
ResidualTo(from, to) ==
    {r \in to : Place(to, r) + Cardinality(Alike(from, r)) <= Cardinality(Alike(to, r))}

\* Two claim ids on a one to one residual are the same claim only if the
\* identity map changed between the coordinates and upstream owns the edge.
ReidentificationPermitted(c, basisFrom, basisTo, x, y) ==
    /\ 0 \notin {c.from.map, c.to.map} /\ c.from.map # c.to.map
    /\ RelationshipOwnership(basisFrom, x.tuple) = "upstream"
    /\ RelationshipOwnership(basisTo, y.tuple) = "upstream"

\* What is left of one tuple after cancellation.
ResolveResidual(c, basisFrom, basisTo, from, to) ==
    LET both(x, y) == NoClaim \notin {x.claim, y.claim}
        ambiguous == {Item("ambiguous", from, to, "tuple", "none")}
    IN  IF to = {} THEN {Item("removed", {r}, {}, "tuple", "none") : r \in from}
        ELSE IF from = {} THEN {Item("added", {}, {r}, "tuple", "none") : r \in to}
        ELSE IF Cardinality(from) > 1 \/ Cardinality(to) > 1 THEN ambiguous
        ELSE LET x == CHOOSE r \in from : TRUE
                 y == CHOOSE r \in to : TRUE
             IN  IF both(x, y) /\ ~ReidentificationPermitted(c, basisFrom, basisTo, x, y)
                 THEN ambiguous
                 ELSE {Item("changed", from, to, "tuple",
                            IF both(x, y) THEN "reidentified" ELSE "none")}

AnnotationOnly(x, y) == x.state[1] = y.state[1]

\* diff_edges: the items, and the counts of assert_partition.
DiffEdges(c) ==
    LET basisFrom == ReconciledBasis(c.from.basis, c.to.basis)
        basisTo == ReconciledBasis(c.to.basis, c.from.basis)
        from == EdgeRows(c.from, c.wanted)
        to == EdgeRows(c.to, c.wanted)
        duplicated == Duplicated(from, to)
        consumed == duplicated \cup (ClaimsOf(from) \cap ClaimsOf(to))
        matched == Matched(from, to, duplicated)
        restFrom == {r \in from : r.claim \notin consumed}
        restTo == {r \in to : r.claim \notin consumed}
        residualFrom == ResidualFrom(restFrom, restTo)
        residualTo == ResidualTo(restFrom, restTo)
        items ==
            {IdentityConflict(from, to, x, duplicated) :
                x \in consumed \ {p[1].claim : p \in matched}}
            \cup {Item("changed", {p[1]}, {p[2]}, "claim_id", "none") :
                     p \in {q \in matched : q[1].state # q[2].state}}
            \cup UNION {ResolveResidual(c, basisFrom, basisTo,
                                        {r \in residualFrom : r.tuple = t},
                                        {r \in residualTo : r.tuple = t}) : t \in c.wanted}
    IN  [items |-> items,
         unchanged |-> Cardinality({p \in matched : p[1].state = p[2].state})
                       + Cardinality(restFrom \ residualFrom),
         annotationOnly |-> Cardinality({i \in items : i.bucket = "changed"
             /\ \A x \in i.from, y \in i.to : AnnotationOnly(x, y)}),
         fromTotal |-> Cardinality(from), toTotal |-> Cardinality(to)]

-----------------------------------------------------------------------------
(* Entities, matched by key, with boundary stubs accounted for. *)

EntityItem(c, key, stubsFrom, stubsTo) ==
    LET inFrom == key \in DOMAIN c.from.entities
        inTo == key \in DOMAIN c.to.entities
        bucket ==
            IF key \in stubsFrom /\ (key \in stubsTo \/ ~inTo) THEN "excluded"
            ELSE IF key \in stubsTo /\ ~inFrom THEN "excluded"
            ELSE IF key \in stubsFrom \cup stubsTo THEN "asymmetry"
            ELSE IF ~inFrom THEN "added"
            ELSE IF ~inTo THEN "removed"
            ELSE IF c.from.entities[key] = c.to.entities[key] THEN "unchanged"
            ELSE "changed"
    IN  [key |-> key, bucket |-> bucket]

\* diff_entities: stub detection only if ownership is known on both sides.
DiffEntities(c) ==
    LET basisFrom == ReconciledBasis(c.from.basis, c.to.basis)
        basisTo == ReconciledBasis(c.to.basis, c.from.basis)
    IN  {EntityItem(c, k, BoundaryStubs(c.from, basisFrom), BoundaryStubs(c.to, basisTo)) :
            k \in (DOMAIN c.from.entities \cup DOMAIN c.to.entities) \cap c.wantedKeys}

\* service_state_diff between the resolution of its coordinates and the artifact.
Compare(c) ==
    /\ comparison' = c
    /\ edges' = DiffEdges(c)
    /\ entities' = DiffEntities(c)

Init == comparison = Idle /\ edges = Idle /\ entities = Idle

Next == comparison = Idle /\ \E c \in Comparisons : Compare(c)

Spec == Init /\ [][Next]_vars

-----------------------------------------------------------------------------
(* What a reader of the artifact relies on. *)

FromRows == EdgeRows(comparison.from, comparison.wanted)
ToRows == EdgeRows(comparison.to, comparison.wanted)
Items == edges.items

AllFrom(items) == UNION {i.from : i \in items}
AllTo(items) == UNION {i.to : i \in items}

\* Every row of either side is unchanged or part of exactly one item
\* (assert_partition, checked on rows instead of counts).
EveryRowOnce ==
    /\ SumFunction([i \in Items |-> Cardinality(i.from)]) = Cardinality(AllFrom(Items))
    /\ SumFunction([i \in Items |-> Cardinality(i.to)]) = Cardinality(AllTo(Items))
    /\ Cardinality(AllFrom(Items)) + edges.unchanged = Cardinality(FromRows)
    /\ Cardinality(AllTo(Items)) + edges.unchanged = Cardinality(ToRows)

\* Taking the from rows of all items out of the from image and putting their
\* to rows in gives the to image: the diff is a plan that can be replayed.
Replays ==
    \A r \in FromRows \cup ToRows :
        Cardinality(Alike(FromRows, r)) + Cardinality(Alike(AllTo(Items), r))
            = Cardinality(Alike(ToRows, r)) + Cardinality(Alike(AllFrom(Items), r))

\* Two rows are paired only on evidence: one claim id, or being the only rows
\* left on their tuple; a claim id on both sides is never added or removed.
NothingGuessed ==
    \A i \in Items :
        /\ i.bucket = "changed" =>
            \E x \in i.from, y \in i.to :
                /\ i.from = {x} /\ i.to = {y} /\ x.tuple = y.tuple /\ x.state # y.state
                /\ x.claim = y.claim \/ NoClaim \in {x.claim, y.claim}
                       \/ (comparison.from.map # comparison.to.map
                             /\ comparison.from.basis.known /\ comparison.to.basis.known)
                /\ i.basis = "tuple" => \A j \in Items \ {i} :
                       j.basis = "tuple" => \A z \in j.from \cup j.to : z.tuple # x.tuple
        /\ i.bucket \in {"added", "removed", "ambiguous"} =>
            ClaimsOf(i.from \cup i.to) \cap ClaimsOf(FromRows) \cap ClaimsOf(ToRows) = {}

\* The items without load order.
Face(rows) == {[tuple |-> r.tuple, state |-> r.state, claim |-> r.claim] : r \in rows}
Faces(items) ==
    {Item(i.bucket, Face(i.from), Face(i.to), i.basis, i.subtype) : i \in items}

\* Rows of one side that are alike: which of them cancels is up to load order.
Ties(rows) == \E r \in rows : Cardinality(Alike(rows, r)) > 1

Reloaded(side) == [side EXCEPT !.rows = {[r EXCEPT !.pos = 9 - r.pos] : r \in @}]
Reversed(items) ==
    LET other == [b \in Buckets |-> IF b = "added" THEN "removed"
                                    ELSE IF b = "removed" THEN "added" ELSE b]
    IN  {Item(other[i.bucket], i.to, i.from, i.basis, i.subtype) : i \in items}

\* Unless a side holds rows that are alike, the report depends on the two
\* images and not on the order in which their edges were loaded, and comparing
\* them the other way round reports the reverse.
ContentDerived ==
    LET again == DiffEdges([comparison EXCEPT !.from = Reloaded(@), !.to = Reloaded(@)])
        back == DiffEdges([comparison EXCEPT !.from = comparison.to, !.to = comparison.from])
    IN  ~Ties(FromRows) /\ ~Ties(ToRows) =>
            /\ Faces(again.items) = Faces(Items)
            /\ Faces(back.items) = Faces(Reversed(Items))
            /\ again.annotationOnly = edges.annotationOnly
            /\ back.unchanged = edges.unchanged

\* An entity leaves the comparison only as an empty endpoint of an edge and
\* under a known boundary; otherwise any difference is reported.
OnlyStubsExcluded ==
    \A i \in entities :
        LET from == comparison.from
            to == comparison.to
            StubOn(side) == /\ i.key \in DOMAIN side.entities
                            /\ side.entities[i.key] = Empty
                            /\ Incident(side, i.key) # {}
        IN  /\ i.bucket \in {"excluded", "asymmetry"} =>
                   from.basis.known /\ to.basis.known /\ (StubOn(from) \/ StubOn(to))
            /\ i.bucket = "unchanged" =>
                   /\ i.key \in DOMAIN from.entities \cap DOMAIN to.entities
                   /\ from.entities[i.key] = to.entities[i.key]

\* A state diff accounts for every row, can be replayed, pairs nothing without
\* evidence and does not depend on load order (the four contracts at the head
\* of graph/diff.py).
DiffExact ==
    comparison # Idle =>
        EveryRowOnce /\ Replays /\ NothingGuessed /\ ContentDerived /\ OnlyStubsExcluded
=============================================================================
