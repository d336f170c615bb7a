---------------------------- MODULE OverlayPull -----------------------------
(* An overlay instance that tracks a published state: releases arrive through *)
(* a moving tag, a pull is previewed and then applied step by step, over      *)
(* directories, files and one database transaction.  Another process writes   *)
(* local claims meanwhile, a crash may cut the apply short anywhere, and the  *)
(* operator repairs.  Which types the publisher owns stays the same.          *)
EXTENDS Integers, Sequences

CONSTANTS
    Entities,    \* entities of the publisher's types
    Content,     \* Content[r]: the entities release r holds, for r in 1..Len(Content)
    Rules,       \* constraints and decision policies that may be added to the active config
    Breaking,    \* releases marked breaking, or whose config the overlay does not compose with
    None,
    MaxCrashes,  \* bound: crashes
    MaxEdits     \* bound: hand edits of files

VARIABLES
    tag,         \* the release the tracked transport ref resolves to
    releases,    \* .cruxible/upstream/releases/<id>: absent, partial or whole
    current,     \* .cruxible/upstream/current: the release it is a whole copy of, or None
    config,      \* the active composed config
    provenance,  \* instance.json: the recorded digest of the active config, if any
    tracked,     \* instance.json: the upstream release, with its members' digests
    lock,        \* cruxible.lock.yaml: the config it was built from
    graph,       \* the database: the publisher's entities, and the local claims on them
    receipt,     \* the database: the latest pull-apply receipt
    receipted,   \* the database: the rules for whose addition there is a receipt
    preview,     \* the last preview's apply digest
    pull,        \* the apply in progress
    settled,     \* history: the last apply returned, and no file was edited since
    crashes, edits

files == <<releases, current, config, provenance, tracked, lock>>
database == <<graph, receipt, receipted>>
bounds == <<crashes, edits>>
vars == <<tag, files, database, preview, pull, settled, bounds>>

Releases == 1..Len(Content)

-----------------------------------------------------------------------------
Idle == [pc |-> "idle"]

\* The bytes of the composed config: the release it is composed over, who wrote
\* it and the rules added since it was composed.
Composed(r, writer) == [base |-> r, by |-> writer, rules |-> {}]

\* The release whose graph the database holds.
Applied == IF receipt = None THEN 1 ELSE receipt.release

\* verify_tracked_upstream: current/ is byte for byte the release that is tracked.
Verified == current = tracked

\* _verify_release_immutability: an existing copy of the release is the release.
Immutable(r) == releases[r] # "partial"

\* The blocking conflicts of a pull: a breaking release, an overlay that does
\* not compose with it, a local claim on an entity it removed.
Conflicting(r, claims) == r \in Breaking \/ ~(claims \subseteq Content[r])

\* _compute_state_apply_digest
ApplyDigest(from, to) == <<from, to>>

\* verify_config_integrity: what the daemon checks of the active config before
\* it serves an instance.
ConfigIntact == provenance = None \/ provenance = config

-----------------------------------------------------------------------------
\* A new overlay, as service_create_state_overlay leaves it.
Init ==
    /\ tag = 1
    /\ releases = [r \in Releases |-> IF r = 1 THEN "whole" ELSE "absent"]
    /\ current = 1 /\ config = Composed(1, "pull") /\ provenance = None
    /\ tracked = 1 /\ lock = 1
    /\ graph = [up |-> Content[1], claims |-> {}]
    /\ receipt = None /\ receipted = {}
    /\ preview = None /\ pull = Idle
    /\ settled = TRUE
    /\ crashes = 0 /\ edits = 0

\* service_publish_state: the tag moves to a new release.
Publish ==
    /\ tag < Len(Content)
    /\ tag' = tag + 1
    /\ UNCHANGED <<files, database, preview, pull, settled, bounds>>

\* A claim of the overlay's own on an entity of the publisher, by any process;
\* check_upstream_type_ownership keeps such writes off the publisher's types.
AddClaim(e) ==
    /\ e \in graph.up \ graph.claims
    /\ graph' = [graph EXCEPT !.claims = @ \cup {e}]
    /\ UNCHANGED <<tag, files, receipt, receipted, preview, pull, settled, bounds>>

\* The local relationship is retired from the graph.
DropClaim(e) ==
    /\ e \in graph.claims
    /\ graph' = [graph EXCEPT !.claims = @ \ {e}]
    /\ UNCHANGED <<tag, files, receipt, receipted, preview, pull, settled, bounds>>

\* service_pull_state_preview
Preview(repair) ==
    /\ pull = Idle
    /\ repair \/ Verified
    /\ Immutable(tag)
    /\ preview' = ApplyDigest(tracked, tag)
    /\ UNCHANGED <<tag, files, database, pull, settled, bounds>>

-----------------------------------------------------------------------------
\* service_pull_state_apply, up to its last early refusal.
StartApply(repair) ==
    /\ pull = Idle
    /\ repair \/ Verified
    /\ Immutable(tag)
    /\ preview = ApplyDigest(tracked, tag)
    /\ ~Conflicting(tag, graph.claims)
    /\ tag # tracked \/ repair
    /\ pull' = [pc |-> "snapshot", target |-> tag, claims |-> {}]
    /\ settled' = FALSE
    /\ UNCHANGED <<tag, files, database, preview, bounds>>

\* The pre-pull snapshot reads the graph in its own transaction, and leaves it
\* in the handle's cache, where load_graph finds it later.
PrePullSnapshot ==
    /\ pull.pc = "snapshot"
    /\ pull' = [pull EXCEPT !.pc = "release", !.claims = graph.claims]
    /\ UNCHANGED <<tag, files, database, preview, settled, bounds>>

\* _materialize_upstream_bundle copies the bundle to releases/<id> ...
StoreRelease ==
    /\ pull.pc = "release"
    /\ releases' = [releases EXCEPT ![pull.target] = "whole"]
    /\ pull' = [pull EXCEPT !.pc = "current"]
    /\ UNCHANGED <<tag, current, config, provenance, tracked, lock, database,
                   preview, settled, bounds>>

\* ... and current/ is removed and copied again.
ReplaceCurrent ==
    /\ pull.pc = "current"
    /\ current' = pull.target
    /\ pull' = [pull EXCEPT !.pc = "compose"]
    /\ UNCHANGED <<tag, releases, config, provenance, tracked, lock, database,
                   preview, settled, bounds>>

\* write_runtime_composed_config replaces the active config.
Compose ==
    /\ pull.pc = "compose"
    /\ config' = Composed(pull.target, "pull")
    /\ pull' = [pull EXCEPT !.pc = "commit"]
    /\ UNCHANGED <<tag, releases, current, provenance, tracked, lock, database,
                   preview, settled, bounds>>

\* MUTANT of Dangling: the merge trusts the conflicts the preview found.
NeverDangling(claims, r) == FALSE

\* _find_dangling_reference_conflicts, on the graph that is merged.
Dangling(claims, r) == ~(claims \subseteq Content[r])

\* The merged graph and its receipt commit together, unless a claim was added
\* that the release leaves dangling: then the apply fails with its files written.
Commit ==
    /\ pull.pc = "commit"
    /\ IF Dangling(pull.claims, pull.target)
       THEN /\ pull' = Idle
            /\ UNCHANGED database
       ELSE /\ graph' = [up |-> Content[pull.target], claims |-> pull.claims]
            /\ receipt' = [previous |-> tracked, release |-> pull.target]
            /\ pull' = [pull EXCEPT !.pc = "track"]
            /\ UNCHANGED receipted
    /\ UNCHANGED <<tag, files, preview, settled, bounds>>

\* set_upstream_metadata, after the commit on purpose.
Track ==
    /\ pull.pc = "track"
    /\ tracked' = pull.target
    /\ pull' = [pull EXCEPT !.pc = "lock"]
    /\ UNCHANGED <<tag, releases, current, config, provenance, lock, database,
                   preview, settled, bounds>>

\* service_lock, from the config that is active now; the apply returns.
Lock ==
    /\ pull.pc = "lock"
    /\ lock' = config.base
    /\ pull' = Idle
    /\ settled' = TRUE
    /\ UNCHANGED <<tag, releases, current, config, provenance, tracked, database,
                   preview, bounds>>

\* The process dies: between two steps, or in the middle of a copy.
Crash ==
    /\ pull # Idle
    /\ crashes < MaxCrashes
    /\ crashes' = crashes + 1
    /\ pull' = Idle
    /\ \/ UNCHANGED <<releases, current, provenance>>
       \/ /\ pull.pc = "release" /\ releases[pull.target] = "absent"
          /\ releases' = [releases EXCEPT ![pull.target] = "partial"]
          /\ UNCHANGED <<current, provenance>>
       \/ /\ pull.pc = "current"
          /\ current' = None
          /\ UNCHANGED <<releases, provenance>>
       \/ /\ pull.pc = "rule"
          /\ provenance' = pull.provenance
          /\ UNCHANGED <<releases, current>>
    /\ UNCHANGED <<tag, config, tracked, lock, database, preview, settled, edits>>

-----------------------------------------------------------------------------
\* service_reload_config of an overlay: verify the tracked config, compose it
\* again, record the digest of what was written.
ReloadConfig ==
    /\ pull = Idle
    /\ Verified
    /\ config' = Composed(current, "reload")
    /\ provenance' = Composed(current, "reload")
    /\ UNCHANGED <<tag, releases, current, tracked, lock, database, preview, pull,
                   settled, bounds>>

\* service_add_constraint, service_add_decision_policy: the rule is checked and
\* receipted inside a transaction, and the last act before its commit replaces
\* the active config and, where one is recorded, its digest in instance.json.
SaveRule(k) ==
    /\ pull = Idle
    /\ k \notin config.rules
    /\ pull' = [pc |-> "rule", rule |-> k, config |-> config, provenance |-> provenance]
    /\ config' = [base |-> config.base, rules |-> config.rules \cup {k},
                  by |-> IF provenance = None THEN "pull" ELSE "reload"]
    /\ provenance' = IF provenance = None THEN None ELSE config'
    /\ UNCHANGED <<tag, releases, current, tracked, lock, database, preview, settled, bounds>>

CommitRule ==
    /\ pull.pc = "rule"
    /\ receipted' = receipted \cup {pull.rule}
    /\ pull' = Idle
    /\ UNCHANGED <<tag, files, graph, receipt, preview, settled, bounds>>

\* The transaction fails: the prior bytes and the prior digest are put back.
UndoRule ==
    /\ pull.pc = "rule"
    /\ config' = pull.config
    /\ provenance' = pull.provenance
    /\ pull' = Idle
    /\ UNCHANGED <<tag, releases, current, tracked, lock, database, preview, settled, bounds>>

\* What the refusal of a half-copied release asks for: delete it and pull again.
DeleteRelease(r) ==
    /\ pull = Idle
    /\ releases[r] = "partial"
    /\ releases' = [releases EXCEPT ![r] = "absent"]
    /\ UNCHANGED <<tag, current, config, provenance, tracked, lock, database,
                   preview, pull, settled, bounds>>

\* Somebody edits current/, which repair is for, or the active config.
EditByHand ==
    /\ pull = Idle
    /\ edits < MaxEdits
    /\ edits' = edits + 1
    /\ \/ current' = None /\ UNCHANGED config
       \/ config' = [config EXCEPT !.by = "hand"] /\ UNCHANGED current
    /\ settled' = FALSE
    /\ UNCHANGED <<tag, releases, provenance, tracked, lock, database, preview, pull, crashes>>

Next ==
    \/ Publish
    \/ \E e \in Entities : AddClaim(e) \/ DropClaim(e)
    \/ \E repair \in BOOLEAN : Preview(repair) \/ StartApply(repair)
    \/ PrePullSnapshot \/ StoreRelease \/ ReplaceCurrent \/ Compose
    \/ Commit \/ Track \/ Lock
    \/ Crash
    \/ ReloadConfig
    \/ \E k \in Rules : SaveRule(k)
    \/ CommitRule \/ UndoRule
    \/ \E r \in Releases : DeleteRelease(r)
    \/ EditByHand

Spec == Init /\ [][Next]_vars

-----------------------------------------------------------------------------
\* The last pull receipt explains the database's graph, and no local claim
\* points at an entity that a pull removed.
GraphExplained ==
    /\ graph.up = Content[Applied]
    /\ graph.claims \subseteq graph.up

\* instance.json never runs ahead of the database, and while it lags behind no
\* reader can mistake current/ for the release it names.
StaleIsRefused ==
    /\ tracked <= Applied
    /\ pull = Idle /\ tracked # Applied => ~Verified

\* Once an apply has returned, everything it wrote is of one release.
SettledCoherent ==
    settled =>
        /\ releases[tracked] = "whole"
        /\ current = tracked
        /\ config.base = tracked
        /\ lock = tracked
        /\ Applied = tracked

\* A rule is in force only if a receipt says who added it, unless the process
\* died before the receipt's commit (save_config is not part of it).
RulesReceipted ==
    crashes = 0 /\ pull = Idle => config.rules \subseteq receipted

\* A pull keeps files, database and bookkeeping explainable across crashes,
\* hand edits, repairs, rules whose receipt fails to commit and local writes of
\* another process (service_pull_state_apply; "which a re-run repairs").
PullExplainable == GraphExplained /\ StaleIsRefused /\ SettledCoherent /\ RulesReceipted

\* While nobody edits a file, the daemon finds the active config intact: it is
\* to "Refuse a materialized config whose exact bytes changed out of band", and
\* a pull that was applied is not out of band (verify_config_integrity).
AppliedConfigServes == settled => ConfigIntact
=============================================================================
