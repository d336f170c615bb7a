--------------------------- MODULE ClaimIdentity ---------------------------
(***************************************************************************)
(* Claim ids of relationships in an overlay whose upstream may predate     *)
(* them: graph/legacy_identity.py, the materialising operations of         *)
(* graph/entity_graph.py, the rows and the migration of storage/sqlite.py, *)
(* and their use in service/state.py and service/state_diff.py.            *)
(*                                                                         *)
(* A release published before claim ids has none in its bytes, for ever.   *)
(* The overlay mints them and keeps, per identity tuple, the list of ids   *)
(* it gave to the tuple's parallel edges in their order, so that the next  *)
(* pull of an image without ids finds the same ids again.  What an edge    *)
(* really is, whatever id it carries, is its thing, which the code cannot  *)
(* see.                                                                    *)
(***************************************************************************)
EXTENDS Naturals, Sequences, FiniteSets, SequencesExt

CONSTANTS
    Tuples,         \* identity tuples of relationships
    TypeOf,         \* the relationship type of a tuple
    Firsts,         \* images to start from: sequences of tuples
    MaxThings,      \* edges ever published
    MaxReleases,    \* releases
    MaxMints,       \* claim ids minted by the overlay
    MaxStamps       \* records that name a claim id

VARIABLES
    release,    \* what the publisher last published: [image, identified, owned]
    things,     \* the number of edges published so far
    releases,   \* the number of releases so far
    history,    \* per tuple, the things ids were lined up with
    shifted,    \* tuples whose published edges no longer line up
    era,        \* the overlay: "none", "old" database, "new" database
    rows,       \* graph_relationships in the order of edge_key
    map,        \* the reconcile map in instance_state
    mints,      \* the number of ids minted
    tracked,    \* the release the overlay tracks
    stamps      \* records made about claims

vars == <<release, things, releases, history, shifted, era, rows, map, mints, tracked, stamps>>

NoClaim == <<"none", 0>>
Types == {TypeOf[t] : t \in Tuples}
Claims(image) == {image[i].claim : i \in DOMAIN image} \ {NoClaim}

\* The edges at the positions in keep, in their order.
EdgesAt(image, keep) ==
    LET upTo[n \in 0 .. Len(image)] ==
            IF n = 0 THEN <<>>
            ELSE IF n \in keep THEN Append(upTo[n - 1], image[n]) ELSE upTo[n - 1]
    IN  upTo[Len(image)]
OfTuple(image, t) == EdgesAt(image, {i \in DOMAIN image : image[i].tuple = t})
ThingsOf(image, t) == [i \in DOMAIN OfTuple(image, t) |-> OfTuple(image, t)[i].thing]
Edge(t, thing, claim, receipt) ==
    [tuple |-> t, thing |-> thing, claim |-> claim, receipt |-> receipt]

-----------------------------------------------------------------------------
(* Operations on a graph image. *)

\* from_dict refuses a claim id that occurs twice.
Loads(image) ==
    \A i, j \in DOMAIN image :
        image[i].claim = image[j].claim /\ image[i].claim # NoClaim => i = j

\* relabel_clone_receipts: receipts of another instance are not referenced.
RelabelCloneReceipts(image) ==
    [i \in DOMAIN image |-> [image[i] EXCEPT !.receipt = "none"]]

\* The id that the map has for the next edge without one of its tuple.
Reusable(acc, reuse, e) ==
    LET position == acc.seen[e.tuple] + 1
    IN  IF position <= Len(reuse[e.tuple]) /\ reuse[e.tuple][position] \notin acc.used
        THEN reuse[e.tuple][position] ELSE NoClaim
Started(image) ==
    [image |-> <<>>, used |-> Claims(image), seen |-> [t \in Tuples |-> 0],
     mints |-> mints, given |-> [t \in Tuples |-> <<>>]]
Placed(acc, e, claim, minted) ==
    [image |-> Append(acc.image, [e EXCEPT !.claim = claim]),
     used |-> acc.used \cup ({claim} \ {NoClaim}),
     seen |-> [acc.seen EXCEPT ![e.tuple] = @ + 1],
     mints |-> acc.mints + minted,
     given |-> [acc.given EXCEPT ![e.tuple] = Append(@, claim)]]
Kept(acc, e) == [acc EXCEPT !.image = Append(@, e)]

\* An edge without an id takes the map's, or a fresh one if ids are minted.
Named(acc, e, reuse, minting) ==
    LET known == Reusable(acc, reuse, e)
    IN  IF e.claim # NoClaim THEN Kept(acc, e)
        ELSE IF known = NoClaim /\ minting THEN Placed(acc, e, <<"own", acc.mints + 1>>, 1)
        ELSE Placed(acc, e, known, 0)
AllNamed(image, reuse, minting) ==
    LET upTo[n \in 0 .. Len(image)] ==
            IF n = 0 THEN Started(image) ELSE Named(upTo[n - 1], image[n], reuse, minting)
    IN  upTo[Len(image)]

\* backfill_missing_claim_ids, and annotate_claim_ids_from_map, which mints none.
Backfill(image, reuse) == AllNamed(image, reuse, TRUE)
Annotate(image, reuse) == AllNamed(image, reuse, FALSE).image

\* Mutant: what the image does not show is forgotten.
ForgetTheRest(entries, given) ==
    [t \in Tuples |-> IF given[t] = <<>> THEN entries[t] ELSE given[t]]

\* record_minted_identities: positions that the image covers are replaced.
RecordMinted(entries, given) ==
    [t \in Tuples |-> given[t] \o SubSeq(entries[t], Len(given[t]) + 1, Len(entries[t]))]

\* extract_owned_subgraph by what the new release does not own.
LocalOverlay(image, owned) ==
    EdgesAt(image, {i \in DOMAIN image : TypeOf[image[i].tuple] \notin owned})

\* merge_graphs refuses an overlay edge whose tuple or id is in the graph merged
\* so far, parallel edges of the overlay included.  (The endpoints come with the
\* extracted edges, so none is missing.)
Merges(base, overlay) ==
    /\ \A i \in DOMAIN base, j \in DOMAIN overlay : base[i].tuple # overlay[j].tuple
    /\ \A i, j \in DOMAIN overlay : overlay[i].tuple = overlay[j].tuple => i = j
    /\ Claims(base) \cap Claims(overlay) = {}

\* _relationship_row and the plain INSERT: every row has an id, no id twice.
Saves(image) == Loads(image) /\ \A i \in DOMAIN image : image[i].claim # NoClaim

-----------------------------------------------------------------------------
(* The publisher. *)

Bundle(r) ==
    [i \in DOMAIN r.image |->
        Edge(r.image[i].tuple, r.image[i].thing,
             IF r.identified THEN <<"pub", r.image[i].thing[2]>> ELSE NoClaim, "theirs")]

\* A new release: its edges line up with the past or they do not.
Publish(image, identified, owned) ==
    LET Agrees(h, now) == \A k \in DOMAIN h \cap DOMAIN now : h[k] = now[k]
    IN  /\ releases < MaxReleases /\ releases' = releases + 1
        /\ release' = [image |-> image, identified |-> identified, owned |-> owned]
        /\ shifted' = shifted \cup {t \in Tuples : ~Agrees(history[t], ThingsOf(image, t))}
        /\ history' = [t \in Tuples |->
              IF Len(ThingsOf(image, t)) > Len(history[t]) THEN ThingsOf(image, t)
              ELSE history[t]]
        /\ UNCHANGED <<era, rows, map, mints, tracked, stamps>>

Published(t, thing) == [tuple |-> t, thing |-> thing]

PublishNew ==
    /\ things < MaxThings
    /\ things' = things + 1
    /\ \E t \in Tuples :
          /\ TypeOf[t] \in release.owned
          /\ Publish(Append(release.image, Published(t, <<"pub", things + 1>>)),
                     release.identified, release.owned)

\* An edge that was dropped comes back.
PublishAgain ==
    /\ ~release.identified
    /\ \E t \in Tuples :
          LET back == Len(ThingsOf(release.image, t)) + 1
          IN  /\ TypeOf[t] \in release.owned
              /\ back <= Len(history[t]) /\ history[t][back][1] = "pub"
              /\ Publish(Append(release.image, Published(t, history[t][back])),
                         FALSE, release.owned)
    /\ UNCHANGED things

PublishWithout ==
    /\ \E i \in DOMAIN release.image :
          Publish(RemoveAt(release.image, i), release.identified, release.owned)
    /\ UNCHANGED things

\* The publisher's own database is migrated: its releases carry ids from now on.
PublisherUpgrades ==
    /\ ~release.identified
    /\ Publish(release.image, TRUE, release.owned)
    /\ UNCHANGED things

\* A type moves between the publisher and its overlays.
PublishOwnership ==
    /\ \E type \in Types :
          LET owned == IF type \in release.owned THEN release.owned \ {type}
                       ELSE release.owned \cup {type}
          IN  /\ owned # {}
              /\ Publish(LocalOverlay(release.image, Types \ owned), release.identified, owned)
    /\ UNCHANGED things

-----------------------------------------------------------------------------
(* The overlay. *)

NoMap == [t \in Tuples |-> <<>>]

\* service_create_state_overlay: graph and map in one transaction.
CreateOverlay ==
    /\ era = "none"
    /\ LET image == RelabelCloneReceipts(Bundle(release))
           filled == Backfill(image, NoMap)
       IN  /\ Loads(image) /\ Saves(filled.image) /\ filled.mints <= MaxMints
           /\ rows' = filled.image
           /\ map' = RecordMinted(NoMap, filled.given)
           /\ mints' = filled.mints
    /\ era' = "new" /\ tracked' = release
    /\ UNCHANGED <<release, things, releases, history, shifted, stamps>>

\* _migrate_claim_identity: an id per row, all of them recorded.
Migrate ==
    /\ era = "old"
    /\ rows' = [i \in DOMAIN rows |-> [rows[i] EXCEPT !.claim = <<"own", mints + i>>]]
    /\ mints' = mints + Len(rows)
    /\ map' = [t \in Tuples |->
          LET mine == OfTuple(rows', t) IN [i \in DOMAIN mine |-> mine[i].claim]]
    /\ era' = "new"
    /\ UNCHANGED <<release, things, releases, history, shifted, tracked, stamps>>

\* service_pull_state_apply: backfill with the stored map, merge, one commit.
Pull ==
    /\ era = "new" /\ release # tracked
    /\ LET image == RelabelCloneReceipts(Bundle(release))
           local == LocalOverlay(rows, release.owned)
           filled == Backfill(image, map)
           merged == filled.image \o local
       IN  /\ Loads(image) /\ Merges(filled.image, local) /\ Saves(merged)
           /\ filled.mints <= MaxMints
           /\ rows' = merged
           /\ map' = RecordMinted(map, filled.given)
           /\ mints' = filled.mints
    /\ tracked' = release
    /\ UNCHANGED <<release, things, releases, history, shifted, era, stamps>>

\* apply_relationship creates a local edge and mints its id.
AddLocal ==
    /\ era = "new" /\ mints < MaxMints
    /\ \E t \in Tuples :
          /\ TypeOf[t] \notin tracked.owned /\ OfTuple(rows, t) = <<>>
          /\ rows' = Append(rows, Edge(t, <<"own", mints + 1>>, <<"own", mints + 1>>, "ours"))
    /\ mints' = mints + 1
    /\ UNCHANGED <<release, things, releases, history, shifted, era, map, tracked, stamps>>

\* An attestation, a feedback or a receipt names a claim.
Stamp ==
    /\ era = "new" /\ Cardinality(stamps) < MaxStamps
    /\ \E i \in DOMAIN rows :
          stamps' = stamps \cup {[thing |-> rows[i].thing, claim |-> rows[i].claim]}
    /\ UNCHANGED <<release, things, releases, history, shifted, era, rows, map, mints, tracked>>

-----------------------------------------------------------------------------
Numbered(first) == [i \in DOMAIN first |-> Published(first[i], <<"pub", i>>)]
Owned(first) == {TypeOf[first[i]] : i \in DOMAIN first}

\* No overlay yet, or one whose database predates claim ids, with or without
\* local edges of its own.
Init ==
    /\ \E first \in Firsts :
          /\ release = [image |-> Numbered(first), identified |-> FALSE, owned |-> Owned(first)]
          /\ things = Len(first) /\ releases = 1
          /\ \/ era = "none" /\ rows = <<>>
             \/ /\ era = "old"
                /\ \E local \in {<<>>} \cup {<<t>> : t \in {x \in Tuples : TypeOf[x] \notin Owned(first)}} :
                      rows = RelabelCloneReceipts(Bundle(release))
                             \o [i \in DOMAIN local |-> Edge(local[i], <<"old", i>>, NoClaim, "ours")]
    /\ history = [t \in Tuples |->
          IF era = "old" THEN ThingsOf(rows, t) ELSE ThingsOf(release.image, t)]
    /\ shifted = {} /\ map = NoMap /\ mints = 0 /\ stamps = {}
    /\ tracked = release

Next ==
    \/ PublishNew \/ PublishAgain \/ PublishWithout \/ PublisherUpgrades \/ PublishOwnership
    \/ CreateOverlay \/ Migrate \/ Pull \/ AddLocal \/ Stamp

Spec == Init /\ [][Next]_vars

-----------------------------------------------------------------------------
\* Every row has one id of its own and names no receipt of another instance.
RowsIdentified ==
    era = "new" =>
        /\ Saves(rows)
        /\ \A i \in DOMAIN rows : rows[i].receipt # "theirs"

\* The diff of an overlay with its upstream sees the ids that the tables hold:
\* the map explains every edge of a tracked release that has none itself.
MapExplains ==
    era = "new" /\ ~tracked.identified =>
        LET seen == Annotate(Bundle(tracked), map)
        IN  \A i \in DOMAIN seen : \E j \in DOMAIN rows :
                rows[j].thing = seen[i].thing /\ rows[j].claim = seen[i].claim

\* What a record was made about is what its claim id still names, through
\* migration, pulls, edges dropped and restored, and types changing hands: as
\* long as the publisher's parallel edges keep their places, and until its own
\* ids replace the minted ones.
StampsHold ==
    \A s \in stamps : \A i \in DOMAIN rows :
        rows[i].tuple \notin shifted =>
            /\ rows[i].claim = s.claim => rows[i].thing = s.thing
            /\ rows[i].thing = s.thing =>
                  \/ rows[i].claim = s.claim
                  \/ s.claim[1] = "own" /\ rows[i].claim[1] = "pub"

\* Claim ids are unique, explained and stable.
IdentityHolds == RowsIdentified /\ MapExplains /\ StampsHold
=============================================================================
