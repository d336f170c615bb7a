----------------------------- MODULE Relocation -----------------------------
(* Governed instances of one daemon: the registry of their directories, the   *)
(* manager of the ones it has loaded, backups, restores and relocations, and  *)
(* the daemon being killed between any two of their steps.  The routes run    *)
(* one request at a time on the event loop, so only a crash separates steps.  *)
EXTENDS Integers, FiniteSets

CONSTANTS
    Ids,        \* governed instance ids
    Dirs,       \* directories, none of which contains another
    Default,    \* governed_instance_location: the directory the server derives from an id
    None,
    MaxWrites,  \* bound: writes made to one instance
    MaxArtifacts \* bound: backups kept

VARIABLES
    disk,       \* what a directory holds: an instance with its writes, or nothing
    registry,   \* the daemon's database: the location recorded for an id
    loaded,     \* the manager: the directory of the instance object it serves
    artifacts,  \* backup artifacts: an image under the id it was taken for
    op,         \* the restore or relocation in progress
    acked,      \* history: writes acknowledged to the callers of an id
    lost        \* history: ids whose directory was destroyed, until a restore brings it back

vars == <<disk, registry, loaded, artifacts, op, acked, lost>>

-----------------------------------------------------------------------------
\* A directory's content: whose state it is (no file in it says so) and its writes.
Image == [of : Ids, writes : 0..MaxWrites]

Idle == [pc |-> "idle"]

\* Where an operator puts an instance: a directory of his own, or the one the
\* server derives for this very id.
Targets(id) == {d \in Dirs : \A other \in Ids \ {id} : Default[other] # d}

\* _registry_record_points_to_healthy_instance: the directory loads as a
\* governed instance.  Nothing in it is compared with the id.
Healthy(id) == registry[id] # None /\ disk[registry[id]] # None

\* InstanceManager.get: the object in the manager, or the registered one.
Serving(id) == IF loaded[id] # None THEN loaded[id] ELSE registry[id]
Servable(id) == (loaded[id] # None \/ registry[id] # None) /\ disk[Serving(id)] # None

\* The UNIQUE(backend, location) constraint of the registry.
Free(id, d) == \A other \in Ids \ {id} : registry[other] # d

Init ==
    \E known \in SUBSET Ids, away \in [id : Ids, image : Image] :
        /\ away.image.of = away.id
        /\ registry = [id \in Ids |-> IF id \in known THEN Default[id] ELSE None]
        /\ disk = [d \in Dirs |->
              IF \E id \in known : Default[id] = d
              THEN [of |-> CHOOSE id \in known : Default[id] = d, writes |-> 0] ELSE None]
        /\ loaded = [id \in Ids |-> None]
        /\ artifacts = {away}
        /\ op = Idle
        /\ acked = [id \in Ids |-> 0]
        /\ lost = Ids \ known

\* A committed write to an instance the daemon serves.
Write(id) ==
    /\ op = Idle
    /\ Servable(id)
    /\ disk[Serving(id)].writes < MaxWrites
    /\ disk' = [disk EXCEPT ![Serving(id)].writes = @ + 1]
    /\ acked' = IF id \in lost THEN acked ELSE [acked EXCEPT ![id] = @ + 1]
    /\ loaded' = [loaded EXCEPT ![id] = Serving(id)]
    /\ UNCHANGED <<registry, artifacts, op, lost>>

\* backup_instance: a consistent copy, renamed into place at once.
Backup(id) ==
    /\ op = Idle
    /\ Servable(id)
    /\ Cardinality(artifacts) < MaxArtifacts
    /\ artifacts' = artifacts \cup {[id |-> id, image |-> disk[Serving(id)]]}
    /\ loaded' = [loaded EXCEPT ![id] = Serving(id)]
    /\ UNCHANGED <<disk, registry, op, acked, lost>>

-----------------------------------------------------------------------------
\* restore_instance, up to its last refusal: the id is not loaded, its record
\* does not point at a healthy instance, the target is empty.
StartRestore(artifact, d) ==
    /\ op = Idle
    /\ loaded[artifact.id] = None
    /\ ~Healthy(artifact.id)
    /\ disk[d] = None
    /\ op' = [pc |-> "install", kind |-> "restore", id |-> artifact.id,
              image |-> artifact.image, to |-> d]
    /\ UNCHANGED <<disk, registry, loaded, artifacts, acked, lost>>

\* relocate_instance, up to the backup it takes: an instance that loads, a
\* target that is neither its own directory nor a registered one, and empty.
StartRelocate(id, d) ==
    /\ op = Idle
    /\ Servable(id)
    /\ registry[id] # None
    /\ Free(id, d)
    /\ d # Serving(id)
    /\ disk[d] = None
    /\ \E remove \in BOOLEAN :
        op' = [pc |-> "install", kind |-> "relocate", id |-> id, to |-> d,
               image |-> disk[Serving(id)], from |-> Serving(id), remove |-> remove]
    /\ loaded' = [loaded EXCEPT ![id] = Serving(id)]
    /\ UNCHANGED <<disk, registry, artifacts, acked, lost>>

\* MUTANT of Install: the source is removed as soon as its copy is in place.
InstallAndRemove ==
    /\ op.pc = "install"
    /\ disk' = [d \in Dirs |->
          CASE d = op.to -> op.image
            [] op.kind = "relocate" /\ d = op.from /\ op.remove -> None
            [] OTHER -> disk[d]]
    /\ op' = [op EXCEPT !.pc = IF registry[op.id] = None THEN "create" ELSE "repoint"]
    /\ UNCHANGED <<registry, loaded, artifacts, acked, lost>>

\* service_restore_instance: the staged directory is renamed to the target.
Install ==
    /\ op.pc = "install"
    /\ disk' = [disk EXCEPT ![op.to] = op.image]
    /\ op' = [op EXCEPT !.pc = IF registry[op.id] = None THEN "create" ELSE "repoint"]
    /\ UNCHANGED <<registry, loaded, artifacts, acked, lost>>

\* create_governed_instance_with_id: a row at the derived location.
CreateRow ==
    /\ op.pc = "create"
    /\ registry' = [registry EXCEPT ![op.id] = Default[op.id]]
    /\ op' = [op EXCEPT !.pc = IF Default[op.id] = op.to THEN "register" ELSE "repoint"]
    /\ UNCHANGED <<disk, loaded, artifacts, acked, lost>>

\* update_governed_instance_location; a location another row has violates the
\* table's constraint, and the request fails with the directory installed.
Repoint ==
    /\ op.pc = "repoint"
    /\ IF Free(op.id, op.to)
       THEN /\ registry' = [registry EXCEPT ![op.id] = op.to]
            /\ op' = [op EXCEPT !.pc = "register"]
       ELSE /\ op' = Idle
            /\ UNCHANGED registry
    /\ UNCHANGED <<disk, loaded, artifacts, acked, lost>>

\* manager.register: from here on the daemon serves the new directory.  A
\* restore has told its caller what it brought back.
Register ==
    /\ op.pc = "register"
    /\ loaded' = [loaded EXCEPT ![op.id] = op.to]
    /\ op' = IF op.kind = "relocate" /\ op.remove THEN [op EXCEPT !.pc = "remove"] ELSE Idle
    /\ IF op.kind = "restore" /\ op.image.of = op.id
       THEN /\ acked' = [acked EXCEPT ![op.id] = op.image.writes]
            /\ lost' = lost \ {op.id}
       ELSE UNCHANGED <<acked, lost>>
    /\ UNCHANGED <<disk, registry, artifacts>>

\* rmtree of the source; a failure is logged and leaves the directory there.
RemoveSource ==
    /\ op.pc = "remove"
    /\ op' = Idle
    /\ \/ disk' = [disk EXCEPT ![op.from] = None]
       \/ UNCHANGED disk
    /\ UNCHANGED <<registry, loaded, artifacts, acked, lost>>

\* The daemon is killed and started again.
Crash ==
    /\ op' = Idle
    /\ loaded' = [id \in Ids |-> None]
    /\ UNCHANGED <<disk, registry, artifacts, acked, lost>>

\* A directory is destroyed while the daemon is down: what restore is for.
Damage(d) ==
    /\ op = Idle
    /\ \A id \in Ids : loaded[id] = None
    /\ disk[d] # None
    /\ disk' = [disk EXCEPT ![d] = None]
    /\ lost' = lost \cup {id \in Ids : registry[id] = d}
    /\ acked' = [id \in Ids |-> IF registry[id] = d THEN 0 ELSE acked[id]]
    /\ UNCHANGED <<registry, loaded, artifacts, op>>

Next ==
    \/ \E id \in Ids : Write(id) \/ Backup(id)
    \/ \E a \in artifacts : \E d \in Targets(a.id) : StartRestore(a, d)
    \/ \E id \in Ids : \E d \in Targets(id) : StartRelocate(id, d)
    \/ Install \/ CreateRow \/ Repoint \/ Register \/ RemoveSource
    \/ Crash
    \/ \E d \in Dirs : Damage(d)

Spec == Init /\ [][Next]_vars

-----------------------------------------------------------------------------
\* At every step of a relocation or a restore, and whatever step a crash cuts
\* short, an instance whose directory was not destroyed is registered at a
\* directory that holds its own state with exactly the writes its callers were
\* told of, and between requests the manager serves that directory
\* (relocate_instance, restore_instance, service_relocate_instance).
NothingStranded ==
    /\ \A id \in Ids \ lost :
        /\ registry[id] # None
        /\ disk[registry[id]] = [of |-> id, writes |-> acked[id]]
    /\ op = Idle =>
        \A id \in Ids : loaded[id] # None => loaded[id] = registry[id]
=============================================================================
