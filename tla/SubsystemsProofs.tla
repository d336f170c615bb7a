-------------------------- MODULE SubsystemsProofs --------------------------
(* What is proved of the subsystems of MCSubsystems, in this order.  A        *)
(* relocation or restore that is cut short strands nobody.  A pull stays      *)
(* explainable through crashes, hand edits and repairs.  The telemetry buffer *)
(* loses no observation without counting it.  A workflow commits what was     *)
(* previewed.  A claim id keeps naming the edge that it was given to.         *)
EXTENDS MCSubsystems, PositionTheorems, FiniteSetTheorems, TLAPS

-----------------------------------------------------------------------------
(* The inductive invariant of Relocation.                                     *)

Image == [of : Instances, writes : 0..MaxWrites]
Restorings ==
    [pc : {"install", "create", "repoint", "register"}, kind : {"restore"},
     id : Instances, image : Image, to : Dirs]
Relocatings ==
    [pc : {"install", "repoint", "register", "remove"}, kind : {"relocate"},
     id : Instances, image : Image, to : Dirs, from : Dirs, remove : BOOLEAN]

\* A directory that no other instance is given by the server.
OwnTarget(id, d) == \A other \in Instances \ {id} : MCDefault[other] # d

RelocationTypes ==
    /\ disk \in [Dirs -> Image \cup {None}]
    /\ registry \in [Instances -> Dirs \cup {None}]
    /\ loaded \in [Instances -> Dirs \cup {None}]
    /\ artifacts \subseteq [id : Instances, image : Image]
    /\ op \in {[pc |-> "idle"]} \cup Restorings \cup Relocatings
    /\ acked \in [Instances -> 0..MaxWrites]
    /\ lost \subseteq Instances

\* Nobody is registered at the directory derived for another instance, which
\* is why a row can be created there without looking.
RowsPlaced ==
    \A id \in Instances : registry[id] # None => OwnTarget(id, registry[id])

\* No two rows name one directory.
RowsDistinct ==
    \A x, y \in Instances : registry[x] # None /\ registry[x] = registry[y] => x = y

\* The manager serves what is registered, but for the instance being moved.
ManagerCurrent ==
    \A id \in Instances :
        loaded[id] # None /\ (op.pc # "idle" => id # op.id) => loaded[id] = registry[id]

\* An instance that was not destroyed is registered at its own state.
StatesKept ==
    \A id \in Instances \ lost :
        /\ registry[id] # None
        /\ disk[registry[id]] = [of |-> id, writes |-> acked[id]]

\* What a restore knows at each of its steps: it is for an instance that is gone.
RestoreInv ==
    op \in Restorings =>
        /\ op.id \in lost
        /\ loaded[op.id] = None
        /\ OwnTarget(op.id, op.to)
        /\ op.pc = "install" => disk[op.to] = None
        /\ op.pc # "install" => disk[op.to] = op.image
        /\ op.pc = "register" => registry[op.id] = op.to

\* What a relocation knows: until the row moves the source is registered and
\* equal to the copy, and afterwards no row names it.
RelocateInv ==
    op \in Relocatings =>
        /\ OwnTarget(op.id, op.to)
        /\ op.from # op.to
        /\ op.pc = "install" => disk[op.to] = None
        /\ op.pc \in {"repoint", "register"} => disk[op.to] = op.image
        /\ op.pc \in {"install", "repoint"} =>
              registry[op.id] = op.from /\ loaded[op.id] = op.from /\ disk[op.from] = op.image
        /\ op.pc \in {"register", "remove"} =>
              registry[op.id] = op.to /\ \A id \in Instances : registry[id] # op.from
        /\ op.pc = "remove" => loaded[op.id] = op.to

RelocationInv ==
    /\ RelocationTypes /\ RowsPlaced /\ RowsDistinct /\ ManagerCurrent
    /\ StatesKept /\ RestoreInv /\ RelocateInv

-----------------------------------------------------------------------------
\* The derived directories: each id has one of its own.
LEMMA OwnDefault ==
    /\ MCDefault \in [Instances -> Dirs]
    /\ \A x, y \in Instances : MCDefault[x] = MCDefault[y] => x = y
    /\ \A id \in Instances : OwnTarget(id, MCDefault[id])
<1>1. MCDefault \in OwnDirectories
  BY DirectoriesAssumption DEF MCDefault
<1> QED
  BY <1>1 DEF OwnDirectories, OwnTarget

\* A target of Relocation is a directory of nobody else.
LEMMA TargetsOwn ==
    ASSUME NEW id \in Instances, NEW d \in Moves!Targets(id)
    PROVE  d \in Dirs /\ OwnTarget(id, d)
BY DEF Moves!Targets, OwnTarget

\* The invariant contains the property.
LEMMA RelocationInvImplies == RelocationInv => NothingStranded
<1> SUFFICES ASSUME RelocationInv PROVE NothingStranded
  OBVIOUS
<1>1. op = [pc |-> "idle"] => op.pc = "idle"
  OBVIOUS
<1> QED
  BY <1>1 DEF RelocationInv, NothingStranded, Moves!NothingStranded, Moves!Idle, StatesKept,
              ManagerCurrent

\* The installed instances of Init are at their derived directories, unharmed.
LEMMA RelocationInit == Moves!Init => RelocationInv
<1> SUFFICES ASSUME Moves!Init PROVE RelocationInv
  OBVIOUS
<1>1. PICK known \in SUBSET Instances, away \in [id : Instances, image : Image] :
        /\ registry = [id \in Instances |-> IF id \in known THEN MCDefault[id] ELSE None]
        /\ disk = [d \in Dirs |->
              IF \E id \in known : MCDefault[id] = d
              THEN [of |-> CHOOSE id \in known : MCDefault[id] = d, writes |-> 0] ELSE None]
        /\ loaded = [id \in Instances |-> None]
        /\ artifacts = {away}
        /\ op = [pc |-> "idle"]
        /\ acked = [id \in Instances |-> 0]
        /\ lost = Instances \ known
  BY Zenon DEF Moves!Init, Moves!Image, Moves!Idle, Image
<1>2. op.pc = "idle" /\ op \notin Restorings /\ op \notin Relocatings
  BY <1>1 DEF Restorings, Relocatings
<1>3. \A d \in Dirs : (\E id \in known : MCDefault[id] = d) =>
          (CHOOSE id \in known : MCDefault[id] = d) \in known
  OBVIOUS
<1>4. \A d \in Dirs : disk[d] \in Image \cup {None}
  BY <1>1, <1>3, DirectoriesAssumption DEF Image
<1>5. \A id \in known : (CHOOSE x \in known : MCDefault[x] = MCDefault[id]) = id
  BY OwnDefault
<1>6. StatesKept
  BY <1>1, <1>5, OwnDefault, DirectoriesAssumption DEF StatesKept
<1>7. RelocationTypes
  BY <1>1, <1>4, OwnDefault, DirectoriesAssumption DEF RelocationTypes
<1>8. RowsPlaced /\ RowsDistinct /\ ManagerCurrent
  BY <1>1, OwnDefault, DirectoriesAssumption DEF RowsPlaced, RowsDistinct, ManagerCurrent
<1> QED
  BY <1>2, <1>6, <1>7, <1>8 DEF RelocationInv, RestoreInv, RelocateInv

-----------------------------------------------------------------------------
\* Between requests the manager's answer is the registered directory.
LEMMA ServesRegistered ==
    ASSUME RelocationInv, op = [pc |-> "idle"], NEW id \in Instances, Moves!Servable(id)
    PROVE  /\ Moves!Serving(id) = registry[id]
           /\ registry[id] \in Dirs
           /\ disk[registry[id]] \in Image
<1>1. op.pc = "idle"
  OBVIOUS
<1>2. loaded[id] # None => loaded[id] = registry[id]
  BY <1>1 DEF RelocationInv, ManagerCurrent
<1> QED
  BY <1>2, DirectoriesAssumption
     DEF Moves!Servable, Moves!Serving, RelocationInv, RelocationTypes

\* A write lands in the directory of the instance it was made to, which is
\* nobody else's.
LEMMA WriteStep ==
    ASSUME RelocationInv, NEW id \in Instances, Moves!Write(id)
    PROVE  RelocationInv'
<1>1. op = [pc |-> "idle"] /\ op' = op /\ Moves!Servable(id)
  BY DEF Moves!Write, Moves!Idle
<1>2. op.pc = "idle" /\ op \notin Restorings /\ op \notin Relocatings
  BY <1>1 DEF Restorings, Relocatings
<1> DEFINE d == registry[id]
<1>3. Moves!Serving(id) = d /\ d \in Dirs /\ disk[d] \in Image
  BY <1>1, ServesRegistered
<1>4. /\ disk[d].writes < MaxWrites
      /\ disk' = [disk EXCEPT ![d].writes = @ + 1]
      /\ acked' = IF id \in lost THEN acked ELSE [acked EXCEPT ![id] = @ + 1]
      /\ loaded' = [loaded EXCEPT ![id] = d]
      /\ registry' = registry /\ artifacts' = artifacts /\ lost' = lost
  BY <1>3 DEF Moves!Write
<1>5. RelocationTypes /\ RowsPlaced /\ RowsDistinct /\ ManagerCurrent /\ StatesKept
  BY DEF RelocationInv
<1>6. d # None
  BY <1>3, DirectoriesAssumption
<1>7. disk'[d] = [of |-> disk[d].of, writes |-> disk[d].writes + 1] /\ disk'[d] \in Image
  BY <1>3, <1>4, <1>5, DirectoriesAssumption DEF RelocationTypes, Image
<1>8. disk' \in [Dirs -> Image \cup {None}] /\ \A x \in Dirs \ {d} : disk'[x] = disk[x]
  BY <1>3, <1>4, <1>5, <1>7 DEF RelocationTypes
<1>9. RelocationTypes'
  <2>1. id \notin lost => acked[id] = disk[d].writes
    <3> SUFFICES ASSUME id \in Instances \ lost PROVE acked[id] = disk[d].writes
      OBVIOUS
    <3>1. disk[d] = [of |-> id, writes |-> acked[id]]
      BY <1>5 DEF StatesKept
    <3> QED
      BY <3>1
  <2>2. acked' \in [Instances -> 0..MaxWrites]
    BY <1>4, <1>5, <2>1, DirectoriesAssumption DEF RelocationTypes
  <2> QED
    BY <1>1, <1>3, <1>4, <1>5, <1>8, <2>2 DEF RelocationTypes
<1>10. StatesKept'
  <2> SUFFICES ASSUME NEW x \in Instances \ lost
               PROVE  /\ registry[x] # None
                      /\ disk'[registry[x]] = [of |-> x, writes |-> acked'[x]]
    BY <1>4 DEF StatesKept
  <2>1. registry[x] # None /\ registry[x] \in Dirs
        /\ disk[registry[x]] = [of |-> x, writes |-> acked[x]]
    BY <1>5 DEF StatesKept, RelocationTypes
  <2>2. CASE x = id
    <3>1. acked'[x] = acked[x] + 1
      BY <1>4, <1>5, <2>2 DEF RelocationTypes
    <3> QED
      BY <1>7, <2>1, <2>2, <3>1
  <2>3. CASE x # id
    <3>1. registry[x] # d
      BY <1>5, <1>6, <2>1, <2>3 DEF RowsDistinct
    <3>2. acked'[x] = acked[x]
      BY <1>4, <1>5, <2>3 DEF RelocationTypes
    <3> QED
      BY <1>8, <2>1, <3>1, <3>2
  <2> QED
    BY <2>2, <2>3
<1>11. RowsPlaced' /\ RowsDistinct' /\ ManagerCurrent'
  BY <1>1, <1>2, <1>4, <1>5 DEF RowsPlaced, RowsDistinct, ManagerCurrent, RelocationTypes
<1> QED
  BY <1>1, <1>2, <1>9, <1>10, <1>11 DEF RelocationInv, RestoreInv, RelocateInv

\* A backup changes no instance.
LEMMA BackupStep ==
    ASSUME RelocationInv, NEW id \in Instances, Moves!Backup(id)
    PROVE  RelocationInv'
<1>1. op = [pc |-> "idle"] /\ op' = op /\ Moves!Servable(id)
  BY DEF Moves!Backup, Moves!Idle
<1>2. op.pc = "idle" /\ op \notin Restorings /\ op \notin Relocatings
  BY <1>1 DEF Restorings, Relocatings
<1>3. Moves!Serving(id) = registry[id] /\ registry[id] \in Dirs /\ disk[registry[id]] \in Image
  BY <1>1, ServesRegistered
<1>4. /\ artifacts' = artifacts \cup {[id |-> id, image |-> disk[registry[id]]]}
      /\ loaded' = [loaded EXCEPT ![id] = registry[id]]
      /\ UNCHANGED <<disk, registry, acked, lost>>
  BY <1>3 DEF Moves!Backup
<1>5. RelocationTypes'
  BY <1>1, <1>3, <1>4 DEF RelocationInv, RelocationTypes
<1>6. RowsPlaced' /\ RowsDistinct' /\ ManagerCurrent' /\ StatesKept'
  BY <1>1, <1>2, <1>4
     DEF RelocationInv, RelocationTypes, RowsPlaced, RowsDistinct, ManagerCurrent, StatesKept
<1> QED
  BY <1>1, <1>2, <1>5, <1>6 DEF RelocationInv, RestoreInv, RelocateInv

\* A restore starts for an instance that is gone: one that stands is healthy.
LEMMA StartRestoreStep ==
    ASSUME RelocationInv, NEW a \in artifacts, NEW d \in Moves!Targets(a.id),
           Moves!StartRestore(a, d)
    PROVE  RelocationInv'
<1>1. a \in [id : Instances, image : Image]
  BY DEF RelocationInv, RelocationTypes
<1>2. d \in Dirs /\ OwnTarget(a.id, d)
  BY <1>1, TargetsOwn
<1>3. /\ op = [pc |-> "idle"]
      /\ loaded[a.id] = None
      /\ ~(registry[a.id] # None /\ disk[registry[a.id]] # None)
      /\ disk[d] = None
      /\ op' = [pc |-> "install", kind |-> "restore", id |-> a.id, image |-> a.image, to |-> d]
      /\ UNCHANGED <<disk, registry, loaded, artifacts, acked, lost>>
  BY DEF Moves!StartRestore, Moves!Idle, Moves!Healthy
<1>4. op.pc = "idle"
  BY <1>3
<1>5. op' \in Restorings /\ op' \notin Relocatings
      /\ op'.pc = "install" /\ op'.id = a.id /\ op'.to = d
  BY <1>1, <1>2, <1>3 DEF Restorings, Relocatings
<1>6. a.id \in lost
  <2> SUFFICES ASSUME a.id \notin lost PROVE FALSE
    OBVIOUS
  <2>1. disk[registry[a.id]] = [of |-> a.id, writes |-> acked[a.id]]
        /\ registry[a.id] # None
    BY <1>1 DEF RelocationInv, StatesKept
  <2>2. [of |-> a.id, writes |-> acked[a.id]] \in Image
    BY <1>1 DEF RelocationInv, RelocationTypes, Image
  <2> QED
    BY <1>3, <2>1, <2>2, DirectoriesAssumption DEF Image
<1>7. RelocationTypes' /\ RowsPlaced' /\ RowsDistinct' /\ StatesKept'
  BY <1>3, <1>5 DEF RelocationInv, RelocationTypes, RowsPlaced, RowsDistinct, StatesKept
<1>8. ManagerCurrent'
  BY <1>3, <1>4, <1>5 DEF RelocationInv, ManagerCurrent
<1>9. RestoreInv' /\ RelocateInv'
  BY <1>2, <1>3, <1>5, <1>6 DEF RestoreInv, RelocateInv
<1> QED
  BY <1>7, <1>8, <1>9 DEF RelocationInv

\* A relocation starts with the registered directory as its source.
LEMMA StartRelocateStep ==
    ASSUME RelocationInv, NEW id \in Instances, NEW d \in Moves!Targets(id),
           Moves!StartRelocate(id, d)
    PROVE  RelocationInv'
<1>1. op = [pc |-> "idle"] /\ Moves!Servable(id)
  BY DEF Moves!StartRelocate, Moves!Idle
<1>2. op.pc = "idle"
  BY <1>1
<1>3. d \in Dirs /\ OwnTarget(id, d)
  BY TargetsOwn
<1>4. Moves!Serving(id) = registry[id] /\ registry[id] \in Dirs /\ disk[registry[id]] \in Image
  BY <1>1, ServesRegistered
<1>5. PICK remove \in BOOLEAN :
        op' = [pc |-> "install", kind |-> "relocate", id |-> id, to |-> d,
               image |-> disk[registry[id]], from |-> registry[id], remove |-> remove]
  BY <1>4 DEF Moves!StartRelocate
<1>6. /\ d # registry[id]
      /\ disk[d] = None
      /\ loaded' = [loaded EXCEPT ![id] = registry[id]]
      /\ UNCHANGED <<disk, registry, artifacts, acked, lost>>
  BY <1>4 DEF Moves!StartRelocate
<1>7. op' \in Relocatings /\ op' \notin Restorings
  BY <1>3, <1>4, <1>5 DEF Restorings, Relocatings
<1>8. /\ op'.pc = "install" /\ op'.id = id /\ op'.to = d
      /\ op'.from = registry[id] /\ op'.image = disk[registry[id]]
  BY <1>5
<1>9. RelocationTypes' /\ RowsPlaced' /\ RowsDistinct' /\ StatesKept'
  BY <1>4, <1>6, <1>7 DEF RelocationInv, RelocationTypes, RowsPlaced, RowsDistinct, StatesKept
<1>10. ManagerCurrent'
  BY <1>2, <1>6, <1>8 DEF RelocationInv, RelocationTypes, ManagerCurrent
<1>11. loaded'[id] = registry[id]
  BY <1>6 DEF RelocationInv, RelocationTypes
<1>12. RestoreInv' /\ RelocateInv'
  BY <1>3, <1>6, <1>7, <1>8, <1>11 DEF RestoreInv, RelocateInv
<1> QED
  BY <1>9, <1>10, <1>12 DEF RelocationInv

-----------------------------------------------------------------------------
\* A step in progress belongs to a restore or to a relocation.
LEMMA InProgress ==
    ASSUME RelocationInv, op.pc # "idle"
    PROVE  /\ op \in Restorings \/ op \in Relocatings
           /\ ~(op \in Restorings /\ op \in Relocatings)
           /\ op.id \in Instances /\ op.to \in Dirs /\ op.image \in Image
           /\ OwnTarget(op.id, op.to)
BY DEF RelocationInv, RelocationTypes, RestoreInv, RelocateInv, Restorings, Relocatings

\* The copy is installed in an empty directory, at which nobody is registered
\* whose state must be kept.
LEMMA InstallStep ==
    ASSUME RelocationInv, Moves!Install
    PROVE  RelocationInv'
<1> DEFINE to == op.to
           id == op.id
           pc == IF registry[id] = None THEN "create" ELSE "repoint"
<1>1. /\ op.pc = "install"
      /\ disk' = [disk EXCEPT ![to] = op.image]
      /\ op' = [op EXCEPT !.pc = pc]
      /\ UNCHANGED <<registry, loaded, artifacts, acked, lost>>
  BY DEF Moves!Install
<1>2. RelocationTypes /\ RowsPlaced /\ RowsDistinct /\ ManagerCurrent /\ StatesKept
      /\ RestoreInv /\ RelocateInv
  BY DEF RelocationInv
<1>3. /\ op \in Restorings \/ op \in Relocatings
      /\ id \in Instances /\ to \in Dirs /\ op.image \in Image
  BY <1>1, InProgress
<1>4. disk[to] = None
  BY <1>1, <1>2, <1>3 DEF RestoreInv, RelocateInv
<1>5. disk' \in [Dirs -> Image \cup {None}] /\ disk'[to] = op.image
      /\ \A x \in Dirs \ {to} : disk'[x] = disk[x]
  BY <1>1, <1>2, <1>3 DEF RelocationTypes
<1>6. op \in Restorings => op' \in Restorings /\ op' \notin Relocatings
  BY <1>1 DEF Restorings, Relocatings
<1>7. op \in Relocatings => op' \in Relocatings /\ op' \notin Restorings /\ pc = "repoint"
                             /\ op'.from = op.from
  <2> SUFFICES ASSUME op \in Relocatings
               PROVE  op' \in Relocatings /\ op' \notin Restorings /\ pc = "repoint"
                      /\ op'.from = op.from
    OBVIOUS
  <2>1. registry[id] = op.from /\ op.from \in Dirs
    BY <1>1, <1>2 DEF RelocateInv, Relocatings
  <2>2. pc = "repoint"
    BY <2>1, DirectoriesAssumption
  <2> QED
    BY <1>1, <2>2 DEF Restorings, Relocatings
<1>8. op'.pc = pc /\ op'.id = id /\ op'.to = to /\ op'.image = op.image
  BY <1>1, <1>3 DEF Restorings, Relocatings
<1>9. RelocationTypes' /\ RowsPlaced' /\ RowsDistinct'
  BY <1>1, <1>2, <1>3, <1>5, <1>6, <1>7 DEF RelocationTypes, RowsPlaced, RowsDistinct
<1>10. ManagerCurrent'
  BY <1>1, <1>2, <1>8 DEF ManagerCurrent
<1>11. StatesKept'
  <2> SUFFICES ASSUME NEW x \in Instances \ lost
               PROVE  /\ registry[x] # None
                      /\ disk'[registry[x]] = [of |-> x, writes |-> acked[x]]
    BY <1>1 DEF StatesKept
  <2>1. registry[x] # None /\ registry[x] \in Dirs
        /\ disk[registry[x]] = [of |-> x, writes |-> acked[x]]
    BY <1>2 DEF StatesKept, RelocationTypes
  <2>2. [of |-> x, writes |-> acked[x]] \in Image
    BY <1>2 DEF RelocationTypes, Image
  <2>3. registry[x] # to
    BY <1>4, <2>1, <2>2, DirectoriesAssumption DEF Image
  <2> QED
    BY <1>5, <2>1, <2>3
<1>12. RestoreInv'
  BY <1>1, <1>2, <1>3, <1>5, <1>6, <1>7, <1>8 DEF RestoreInv
<1>13. RelocateInv'
  <2> SUFFICES ASSUME op \in Relocatings PROVE RelocateInv'
    BY <1>3, <1>6 DEF RelocateInv
  <2>1. op.from \in Dirs \ {to}
    BY <1>2 DEF RelocateInv, Relocatings
  <2> QED
    BY <1>1, <1>2, <1>5, <1>7, <1>8, <2>1 DEF RelocateInv
<1> QED
  BY <1>9, <1>10, <1>11, <1>12, <1>13 DEF RelocationInv

\* A row is created only for an instance that is gone, at a directory that is
\* nobody else's.
LEMMA CreateRowStep ==
    ASSUME RelocationInv, Moves!CreateRow
    PROVE  RelocationInv'
<1> DEFINE id == op.id
           pc == IF MCDefault[id] = op.to THEN "register" ELSE "repoint"
<1>1. /\ op.pc = "create"
      /\ registry' = [registry EXCEPT ![id] = MCDefault[id]]
      /\ op' = [op EXCEPT !.pc = pc]
      /\ UNCHANGED <<disk, loaded, artifacts, acked, lost>>
  BY DEF Moves!CreateRow
<1>2. RelocationTypes /\ RowsPlaced /\ RowsDistinct /\ ManagerCurrent /\ StatesKept
      /\ RestoreInv
  BY DEF RelocationInv
<1>3. op \in Restorings
  BY <1>1, InProgress DEF Relocatings
<1>4. id \in Instances /\ MCDefault[id] \in Dirs /\ OwnTarget(id, MCDefault[id])
      /\ MCDefault[id] # None
  BY <1>3, OwnDefault, DirectoriesAssumption DEF Restorings
<1>5. op' \in Restorings /\ op' \notin Relocatings /\ op'.pc = pc /\ op'.id = id
      /\ op'.to = op.to /\ op'.image = op.image
  BY <1>1, <1>3 DEF Restorings, Relocatings
<1>6. registry' \in [Instances -> Dirs \cup {None}] /\ registry'[id] = MCDefault[id]
      /\ \A x \in Instances \ {id} : registry'[x] = registry[x]
  BY <1>1, <1>2, <1>4 DEF RelocationTypes
<1>7. id \in lost /\ loaded[id] = None
  BY <1>2, <1>3 DEF RestoreInv
<1>8. RelocationTypes'
  BY <1>1, <1>2, <1>5, <1>6 DEF RelocationTypes
<1>9. RowsPlaced'
  BY <1>2, <1>4, <1>6 DEF RowsPlaced, OwnTarget
<1>10. \A x \in Instances \ {id} : registry[x] # MCDefault[id]
  BY <1>2, <1>4 DEF RowsPlaced, OwnTarget
<1>11. RowsDistinct'
  BY <1>2, <1>4, <1>6, <1>10 DEF RowsDistinct
<1>12. ManagerCurrent' /\ StatesKept'
  BY <1>1, <1>2, <1>5, <1>6, <1>7 DEF ManagerCurrent, StatesKept
<1>13. RestoreInv' /\ RelocateInv'
  BY <1>1, <1>2, <1>3, <1>5, <1>6 DEF RestoreInv, RelocateInv
<1> QED
  BY <1>8, <1>9, <1>11, <1>12, <1>13 DEF RelocationInv

\* Moving the row strands nobody: a restored instance was gone, a relocated one
\* finds an equal copy at its new directory.
LEMMA RepointStep ==
    ASSUME RelocationInv, Moves!Repoint, \A x \in Instances \ {op.id} : registry[x] # op.to
    PROVE  RelocationInv'
<1> DEFINE id == op.id
           to == op.to
<1>1. /\ op.pc = "repoint"
      /\ registry' = [registry EXCEPT ![id] = to]
      /\ op' = [op EXCEPT !.pc = "register"]
      /\ UNCHANGED <<disk, loaded, artifacts, acked, lost>>
  BY DEF Moves!Repoint, Moves!Free
<1>2. RelocationTypes /\ RowsPlaced /\ RowsDistinct /\ ManagerCurrent /\ StatesKept
      /\ RestoreInv /\ RelocateInv
  BY DEF RelocationInv
<1>3. /\ op \in Restorings \/ op \in Relocatings
      /\ id \in Instances /\ to \in Dirs /\ op.image \in Image /\ OwnTarget(id, to)
  BY <1>1, InProgress
<1>4. to # None
  BY <1>3, DirectoriesAssumption
<1>5. registry' \in [Instances -> Dirs \cup {None}] /\ registry'[id] = to
      /\ \A x \in Instances \ {id} : registry'[x] = registry[x]
  BY <1>1, <1>2, <1>3 DEF RelocationTypes
<1>6. op \in Restorings => op' \in Restorings /\ op' \notin Relocatings
  BY <1>1 DEF Restorings, Relocatings
<1>7. op \in Relocatings => op' \in Relocatings /\ op' \notin Restorings /\ op'.from = op.from
  BY <1>1 DEF Restorings, Relocatings
<1>8. op'.pc = "register" /\ op'.id = id /\ op'.to = to /\ op'.image = op.image
  BY <1>1, <1>3 DEF Restorings, Relocatings
<1>9. disk[to] = op.image
  BY <1>1, <1>2, <1>3 DEF RestoreInv, RelocateInv
<1>10. RelocationTypes'
  BY <1>1, <1>2, <1>3, <1>5, <1>6, <1>7 DEF RelocationTypes
<1>11. RowsPlaced' /\ RowsDistinct'
  BY <1>2, <1>3, <1>4, <1>5 DEF RowsPlaced, RowsDistinct
<1>12. ManagerCurrent'
  BY <1>1, <1>2, <1>5, <1>8 DEF ManagerCurrent
<1>13. StatesKept'
  <2> SUFFICES ASSUME NEW x \in Instances \ lost
               PROVE  /\ registry'[x] # None
                      /\ disk[registry'[x]] = [of |-> x, writes |-> acked[x]]
    BY <1>1 DEF StatesKept
  <2>1. registry[x] # None /\ disk[registry[x]] = [of |-> x, writes |-> acked[x]]
    BY <1>2 DEF StatesKept
  <2>2. CASE x = id
    <3>1. op \in Relocatings
      BY <1>2, <1>3, <2>2 DEF RestoreInv
    <3>2. disk[registry[x]] = op.image
      BY <1>1, <1>2, <2>2, <3>1 DEF RelocateInv
    <3> QED
      BY <1>4, <1>5, <1>9, <2>1, <2>2, <3>2
  <2>3. CASE x # id
    BY <1>5, <2>1, <2>3
  <2> QED
    BY <2>2, <2>3
<1>14. RestoreInv'
  BY <1>1, <1>2, <1>3, <1>5, <1>6, <1>7, <1>8 DEF RestoreInv
<1>15. RelocateInv'
  <2> SUFFICES ASSUME op \in Relocatings PROVE RelocateInv'
    BY <1>3, <1>6 DEF RelocateInv
  <2>1. registry[id] = op.from /\ op.from # to /\ op.from # None
    BY <1>1, <1>2, DirectoriesAssumption DEF RelocateInv, Relocatings
  <2>2. \A x \in Instances : registry'[x] # op.from
    BY <1>2, <1>3, <1>5, <2>1 DEF RowsDistinct
  <2> QED
    BY <1>1, <1>3, <1>5, <1>7, <1>8, <1>9, <2>1, <2>2 DEF RelocateInv
<1> QED
  BY <1>10, <1>11, <1>12, <1>13, <1>14, <1>15 DEF RelocationInv

\* A request that ends with nothing but itself changed: the manager serves what
\* is registered, so the next request may rely on it.
LEMMA EndStep ==
    ASSUME RelocationInv, op' = [pc |-> "idle"],
           \A id \in Instances : loaded[id] # None => loaded[id] = registry[id],
           UNCHANGED <<disk, registry, loaded, artifacts, acked, lost>>
    PROVE  RelocationInv'
<1>1. op'.pc = "idle" /\ op' \notin Restorings /\ op' \notin Relocatings
  BY DEF Restorings, Relocatings
<1> QED
  BY <1>1 DEF RelocationInv, RelocationTypes, RowsPlaced, RowsDistinct, ManagerCurrent,
              StatesKept, RestoreInv, RelocateInv

\* The table's constraint refuses the row: the old one still stands.
LEMMA RepointRefusedStep ==
    ASSUME RelocationInv, Moves!Repoint, ~ \A x \in Instances \ {op.id} : registry[x] # op.to
    PROVE  RelocationInv'
<1>1. /\ op.pc = "repoint"
      /\ op' = [pc |-> "idle"]
      /\ UNCHANGED <<disk, registry, loaded, artifacts, acked, lost>>
  BY DEF Moves!Repoint, Moves!Free, Moves!Idle
<1>2. op \in Restorings \/ op \in Relocatings
  BY <1>1, InProgress
<1>3. loaded[op.id] # None => loaded[op.id] = registry[op.id]
  BY <1>1, <1>2 DEF RelocationInv, RestoreInv, RelocateInv
<1>4. \A id \in Instances : loaded[id] # None => loaded[id] = registry[id]
  BY <1>3 DEF RelocationInv, ManagerCurrent
<1> QED
  BY <1>1, <1>4, EndStep

\* The manager turns to the new directory; a restore gives back what it brought.
LEMMA RegisterStep ==
    ASSUME RelocationInv, Moves!Register
    PROVE  RelocationInv'
<1> DEFINE id == op.id
           to == op.to
<1>1. /\ op.pc = "register"
      /\ loaded' = [loaded EXCEPT ![id] = to]
      /\ op' = IF op.kind = "relocate" /\ op.remove
               THEN [op EXCEPT !.pc = "remove"] ELSE [pc |-> "idle"]
      /\ IF op.kind = "restore" /\ op.image.of = id
         THEN /\ acked' = [acked EXCEPT ![id] = op.image.writes]
              /\ lost' = lost \ {id}
         ELSE UNCHANGED <<acked, lost>>
      /\ UNCHANGED <<disk, registry, artifacts>>
  BY DEF Moves!Register, Moves!Idle
<1>2. RelocationTypes /\ RowsPlaced /\ RowsDistinct /\ ManagerCurrent /\ StatesKept
      /\ RestoreInv /\ RelocateInv
  BY DEF RelocationInv
<1>3. /\ op \in Restorings \/ op \in Relocatings
      /\ id \in Instances /\ to \in Dirs /\ op.image \in Image
  BY <1>1, InProgress
<1>4. registry[id] = to /\ disk[to] = op.image /\ to # None
  BY <1>1, <1>2, <1>3, DirectoriesAssumption DEF RestoreInv, RelocateInv
<1>5. loaded' \in [Instances -> Dirs \cup {None}] /\ loaded'[id] = registry[id]
      /\ \A x \in Instances \ {id} : loaded'[x] = loaded[x]
  BY <1>1, <1>2, <1>3, <1>4 DEF RelocationTypes
<1>6. \/ /\ op \in Relocatings
         /\ op' \in Relocatings /\ op' \notin Restorings /\ op'.pc = "remove"
         /\ op'.id = id /\ op'.to = to /\ op'.from = op.from /\ op'.image = op.image
      \/ op' = [pc |-> "idle"] /\ op' \notin Relocatings /\ op' \notin Restorings
  BY <1>1, <1>3 DEF Restorings, Relocatings
<1>7. op.image = [of |-> op.image.of, writes |-> op.image.writes]
      /\ op.image.writes \in 0..MaxWrites
  BY <1>3 DEF Image
<1>8. RelocationTypes'
  <2>1. acked' \in [Instances -> 0..MaxWrites] /\ lost' \subseteq Instances
    BY <1>1, <1>2, <1>3, <1>7 DEF RelocationTypes
  <2> QED
    BY <1>1, <1>2, <1>5, <1>6, <2>1 DEF RelocationTypes
<1>9. RowsPlaced' /\ RowsDistinct'
  BY <1>1, <1>2 DEF RowsPlaced, RowsDistinct
<1>10. ManagerCurrent'
  BY <1>1, <1>2, <1>5 DEF ManagerCurrent
<1>11. StatesKept'
  <2> SUFFICES ASSUME NEW x \in Instances \ lost'
               PROVE  /\ registry[x] # None
                      /\ disk[registry[x]] = [of |-> x, writes |-> acked'[x]]
    BY <1>1, Zenon DEF StatesKept
  <2>1. CASE x \in lost
    <3>1. x = id /\ op.image.of = id /\ acked' = [acked EXCEPT ![id] = op.image.writes]
      BY <1>1, <2>1
    <3>2. acked'[id] = op.image.writes
      BY <1>2, <1>3, <3>1 DEF RelocationTypes
    <3> QED
      BY <1>4, <1>7, <3>1, <3>2
  <2>2. CASE x \notin lost
    <3>1. registry[x] # None /\ disk[registry[x]] = [of |-> x, writes |-> acked[x]]
      BY <1>2, <2>2 DEF StatesKept
    <3>2. CASE x # id
      BY <1>1, <1>2, <3>1, <3>2 DEF RelocationTypes
    <3>3. CASE x = id
      <4>1. op \in Relocatings
        BY <1>2, <1>3, <2>2, <3>3 DEF RestoreInv
      <4>2. acked' = acked
        BY <1>1, <4>1 DEF Relocatings
      <4> QED
        BY <3>1, <4>2
    <3> QED
      BY <3>2, <3>3
  <2> QED
    BY <2>1, <2>2
<1>12. RestoreInv' /\ RelocateInv'
  BY <1>1, <1>2, <1>4, <1>5, <1>6 DEF RestoreInv, RelocateInv
<1> QED
  BY <1>8, <1>9, <1>10, <1>11, <1>12 DEF RelocationInv

\* The source is removed, or not, when no row names it any more.
LEMMA RemoveSourceStep ==
    ASSUME RelocationInv, Moves!RemoveSource
    PROVE  RelocationInv'
<1>1. /\ op.pc = "remove"
      /\ op' = [pc |-> "idle"]
      /\ disk' = [disk EXCEPT ![op.from] = None] \/ disk' = disk
      /\ UNCHANGED <<registry, loaded, artifacts, acked, lost>>
  BY DEF Moves!RemoveSource, Moves!Idle
<1>2. op \in Relocatings
  BY <1>1, InProgress DEF Restorings
<1>3. op'.pc = "idle" /\ op' \notin Restorings /\ op' \notin Relocatings
  BY <1>1 DEF Restorings, Relocatings
<1>4. op.from \in Dirs /\ op.id \in Instances
      /\ loaded[op.id] = registry[op.id] /\ \A id \in Instances : registry[id] # op.from
  BY <1>1, <1>2 DEF RelocationInv, RelocateInv, Relocatings
<1>5. disk' \in [Dirs -> Image \cup {None}]
      /\ \A x \in Dirs \ {op.from} : disk'[x] = disk[x]
  BY <1>1, <1>4 DEF RelocationInv, RelocationTypes
<1>6. RelocationTypes'
  BY <1>1, <1>5 DEF RelocationInv, RelocationTypes
<1>7. StatesKept'
  BY <1>1, <1>4, <1>5 DEF RelocationInv, RelocationTypes, StatesKept
<1>8. RowsPlaced' /\ RowsDistinct' /\ ManagerCurrent'
  BY <1>1, <1>3, <1>4 DEF RelocationInv, RowsPlaced, RowsDistinct, ManagerCurrent
<1> QED
  BY <1>3, <1>6, <1>7, <1>8 DEF RelocationInv, RestoreInv, RelocateInv

\* A crash forgets the request and the manager; the rows and directories are
\* what they were.
LEMMA CrashStep ==
    ASSUME RelocationInv, Moves!Crash
    PROVE  RelocationInv'
<1>1. /\ op' = [pc |-> "idle"]
      /\ loaded' = [id \in Instances |-> None]
      /\ UNCHANGED <<disk, registry, artifacts, acked, lost>>
  BY DEF Moves!Crash, Moves!Idle
<1>2. op'.pc = "idle" /\ op' \notin Restorings /\ op' \notin Relocatings
  BY <1>1 DEF Restorings, Relocatings
<1> QED
  BY <1>1, <1>2 DEF RelocationInv, RelocationTypes, RowsPlaced, RowsDistinct, ManagerCurrent,
                    StatesKept, RestoreInv, RelocateInv

\* A destroyed directory takes down the instance registered there and no other.
LEMMA DamageStep ==
    ASSUME RelocationInv, NEW d \in Dirs, Moves!Damage(d)
    PROVE  RelocationInv'
<1>1. /\ op = [pc |-> "idle"] /\ op' = op
      /\ disk' = [disk EXCEPT ![d] = None]
      /\ lost' = lost \cup {id \in Instances : registry[id] = d}
      /\ acked' = [id \in Instances |-> IF registry[id] = d THEN 0 ELSE acked[id]]
      /\ UNCHANGED <<registry, loaded, artifacts>>
  BY DEF Moves!Damage, Moves!Idle
<1>2. op.pc = "idle" /\ op \notin Restorings /\ op \notin Relocatings
  BY <1>1 DEF Restorings, Relocatings
<1>3. disk' \in [Dirs -> Image \cup {None}] /\ \A x \in Dirs \ {d} : disk'[x] = disk[x]
  BY <1>1 DEF RelocationInv, RelocationTypes
<1>4. RelocationTypes'
  BY <1>1, <1>3, DirectoriesAssumption DEF RelocationInv, RelocationTypes
<1>5. StatesKept'
  BY <1>1, <1>3 DEF RelocationInv, RelocationTypes, StatesKept
<1>6. RowsPlaced' /\ RowsDistinct' /\ ManagerCurrent'
  BY <1>1, <1>2 DEF RelocationInv, RowsPlaced, RowsDistinct, ManagerCurrent
<1> QED
  BY <1>1, <1>2, <1>4, <1>5, <1>6 DEF RelocationInv, RestoreInv, RelocateInv

\* No step of the daemon or of its surroundings breaks the invariant.
LEMMA RelocationNext == RelocationInv /\ Moves!Next => RelocationInv'
<1> SUFFICES ASSUME RelocationInv, Moves!Next PROVE RelocationInv'
  OBVIOUS
<1>1. CASE \E id \in Instances : Moves!Write(id) \/ Moves!Backup(id)
  BY <1>1, WriteStep, BackupStep
<1>2. CASE \E a \in artifacts : \E d \in Moves!Targets(a.id) : Moves!StartRestore(a, d)
  BY <1>2, StartRestoreStep
<1>3. CASE \E id \in Instances : \E d \in Moves!Targets(id) : Moves!StartRelocate(id, d)
  BY <1>3, StartRelocateStep
<1>4. CASE Moves!Install
  BY <1>4, InstallStep
<1>5. CASE Moves!CreateRow
  BY <1>5, CreateRowStep
<1>6. CASE Moves!Repoint
  BY <1>6, RepointStep, RepointRefusedStep
<1>7. CASE Moves!Register
  BY <1>7, RegisterStep
<1>8. CASE Moves!RemoveSource
  BY <1>8, RemoveSourceStep
<1>9. CASE Moves!Crash
  BY <1>9, CrashStep
<1>10. CASE \E d \in Dirs : Moves!Damage(d)
  BY <1>10, DamageStep
<1> QED
  BY <1>1, <1>2, <1>3, <1>4, <1>5, <1>6, <1>7, <1>8, <1>9, <1>10 DEF Moves!Next

\* The invariant is about the variables of Relocation only.
LEMMA RelocationStutter ==
    ASSUME RelocationInv, UNCHANGED relocationVars
    PROVE  RelocationInv'
BY DEF relocationVars, RelocationInv, RelocationTypes, RowsPlaced, RowsDistinct,
       ManagerCurrent, StatesKept, RestoreInv, RelocateInv

\* For any number of instances, directories, writes and backups: wherever a
\* relocation or a restore is cut short, an instance whose directory was not
\* destroyed is registered at a directory that holds its own state with exactly
\* the writes its callers were told of, and between requests the manager serves
\* that directory (relocate_instance, restore_instance in runtime/api.py,
\* update_governed_instance_location in server/registry.py).
THEOREM NobodyStranded == Spec => []NothingStranded
<1>1. Init => RelocationInv
  BY RelocationInit DEF Init
<1>2. RelocationInv /\ [Next]_vars => RelocationInv'
  <2> SUFFICES ASSUME RelocationInv, [Next]_vars PROVE RelocationInv'
    OBVIOUS
  <2>1. Moves!Next \/ UNCHANGED relocationVars
    BY DEF Next, vars, relocationVars
  <2> QED
    BY <2>1, RelocationNext, RelocationStutter
<1> QED
  BY <1>1, <1>2, RelocationInvImplies, PTL DEF Spec

-----------------------------------------------------------------------------
(* The inductive invariant of OverlayPull.                                    *)

Known == Overlay!Releases
PullSteps == {"snapshot", "release", "current", "compose", "commit", "track", "lock"}
Configs == [base : Known, by : {"pull", "reload", "hand"}, rules : SUBSET Rules]

\* An apply and a rule being saved, the two things that take several steps.
Pulling ==
    /\ pull.pc \in PullSteps
    /\ pull.target \in Known
    /\ pull = [pc |-> pull.pc, target |-> pull.target, claims |-> pull.claims]
Saving ==
    /\ pull.pc = "rule"
    /\ pull.rule \in Rules
    /\ pull.config \in Configs

PullTypes ==
    /\ tag \in Known /\ tracked \in Known
    /\ receipt \in [previous : Known, release : Known] \cup {None}
    /\ releases \in [Known -> {"absent", "partial", "whole"}]
    /\ config \in Configs
    /\ graph = [up |-> graph.up, claims |-> graph.claims]
    /\ crashes \in Nat /\ settled \in BOOLEAN
    /\ pull = [pc |-> "idle"] \/ Pulling \/ Saving

\* Bookkeeping lags behind the database and the database behind the tag; an
\* apply moves to a release that is no older than either.
ReleasesOrdered ==
    /\ tracked <= Overlay!Applied
    /\ Overlay!Applied <= tag
    /\ pull.pc \in PullSteps => Overlay!Applied <= pull.target /\ pull.target <= tag

\* What the files show at each step of an apply.
StepsShow ==
    /\ pull.pc \notin {"track", "lock"} /\ tracked # Overlay!Applied => current # tracked
    /\ pull.pc \in {"current", "compose", "commit", "track", "lock"} =>
          releases[pull.target] = "whole"
    /\ pull.pc \in {"compose", "commit", "track", "lock"} => current = pull.target
    /\ pull.pc \in {"commit", "track", "lock"} => config.base = pull.target
    /\ pull.pc \in {"track", "lock"} => Overlay!Applied = pull.target
    /\ pull.pc = "lock" => tracked = pull.target

\* A settled overlay is not in the middle of an apply; a rule being saved keeps
\* the release the config is composed over.
SettledInv ==
    /\ Overlay!SettledCoherent
    /\ settled => pull.pc \notin PullSteps
    /\ pull.pc = "rule" => pull.config.base = config.base

\* Until a process died, the rules in force are the receipted ones and the one
\* being saved.
RulesInv ==
    crashes = 0 =>
        /\ pull.pc # "rule" => config.rules \subseteq receipted
        /\ pull.pc = "rule" => /\ config.rules \subseteq receipted \cup {pull.rule}
                               /\ pull.config.rules \subseteq receipted

PullInv ==
    /\ PullTypes /\ Overlay!GraphExplained /\ ReleasesOrdered /\ StepsShow
    /\ SettledInv /\ RulesInv

-----------------------------------------------------------------------------
\* There is a first release.
LEMMA FirstRelease == Known = 1..Len(Content) /\ Len(Content) \in Nat /\ 1 \in Known
<1>1. Len(Content) \in Nat /\ Len(Content) # 0
  BY ReleasesAssumption
<1> QED
  BY <1>1 DEF Known, Overlay!Releases

\* None is neither a release nor a receipt.
LEMMA NoneKnown == None \notin Known /\ None \notin [previous : Known, release : Known]
BY FirstRelease, ReleasesAssumption

\* The release of the database is one of the releases.
LEMMA AppliedKnown == PullTypes => Overlay!Applied \in Known
BY FirstRelease DEF PullTypes, Overlay!Applied

\* The invariant contains the property.
LEMMA PullInvImplies == PullInv => PullExplainable
<1> SUFFICES ASSUME PullInv PROVE PullExplainable
  OBVIOUS
<1>1. pull = [pc |-> "idle"] => pull.pc = "idle"
  OBVIOUS
<1> QED
  BY <1>1 DEF PullInv, PullExplainable, Overlay!PullExplainable, Overlay!StaleIsRefused,
              Overlay!RulesReceipted, Overlay!Idle, Overlay!Verified, ReleasesOrdered,
              StepsShow, SettledInv, RulesInv

\* A new overlay is of one release.
LEMMA PullInit == Overlay!Init => PullInv
<1> SUFFICES ASSUME Overlay!Init PROVE PullInv
  OBVIOUS
<1>1. /\ tag = 1 /\ current = 1 /\ tracked = 1 /\ lock = 1
      /\ releases = [r \in Known |-> IF r = 1 THEN "whole" ELSE "absent"]
      /\ config = [base |-> 1, by |-> "pull", rules |-> {}]
      /\ graph = [up |-> Content[1], claims |-> {}]
      /\ receipt = None /\ receipted = {} /\ settled = TRUE /\ crashes = 0
      /\ pull = [pc |-> "idle"]
  BY DEF Overlay!Init, Overlay!Composed, Overlay!Idle, Known
<1>2. pull.pc = "idle" /\ Overlay!Applied = 1
  BY <1>1 DEF Overlay!Applied
<1>3. PullTypes
  <2>1. config \in Configs
    BY <1>1, FirstRelease DEF Configs
  <2>2. releases \in [Known -> {"absent", "partial", "whole"}]
    BY <1>1
  <2>3. graph = [up |-> graph.up, claims |-> graph.claims]
    BY <1>1
  <2> QED
    BY <1>1, <2>1, <2>2, <2>3, FirstRelease DEF PullTypes
<1>4. Overlay!GraphExplained
  BY <1>1, <1>2 DEF Overlay!GraphExplained
<1>5. ReleasesOrdered /\ StepsShow
  BY <1>1, <1>2 DEF ReleasesOrdered, StepsShow, PullSteps
<1>6. SettledInv /\ RulesInv
  BY <1>1, <1>2, FirstRelease DEF SettledInv, RulesInv, Overlay!SettledCoherent, PullSteps
<1> QED
  BY <1>3, <1>4, <1>5, <1>6 DEF PullInv

-----------------------------------------------------------------------------
\* A step in progress is an apply or the saving of a rule.
LEMMA PullKinds ==
    ASSUME PullTypes
    PROVE  /\ pull.pc \in PullSteps => Pulling
           /\ pull.pc = "rule" => Saving
           /\ pull.pc = "idle" <=> pull = [pc |-> "idle"]
           /\ pull.pc \in {"idle", "rule"} \cup PullSteps
BY DEF PullTypes, Pulling, Saving, PullSteps

\* An apply that moves on keeps its target.
LEMMA PullAdvances ==
    ASSUME Pulling, NEW after \in PullSteps,
           \/ pull' = [pull EXCEPT !.pc = after]
           \/ pull' = [pull EXCEPT !.pc = after, !.claims = graph.claims]
    PROVE  Pulling' /\ pull'.pc = after /\ pull'.target = pull.target
BY Zenon DEF Pulling

\* What an apply in progress may rely on.
LEMMA ApplyFacts ==
    ASSUME PullInv, pull.pc \in PullSteps
    PROVE  /\ Pulling
           /\ ~settled
           /\ Overlay!Applied \in Known /\ pull.target \in Known /\ Known \subseteq Nat
           /\ tracked <= Overlay!Applied /\ Overlay!Applied <= pull.target
           /\ pull.target <= tag
BY PullKinds, AppliedKnown, FirstRelease
   DEF PullInv, SettledInv, ReleasesOrdered, Pulling, PullSteps

\* The steps of an apply before its transaction, which touch files only.
LEMMA FileSteps ==
    ASSUME PullInv,
           \/ Overlay!PrePullSnapshot \/ Overlay!StoreRelease
           \/ Overlay!ReplaceCurrent \/ Overlay!Compose
    PROVE  PullInv'
<1> DEFINE after == CASE pull.pc = "snapshot" -> "release"
                     [] pull.pc = "release" -> "current"
                     [] pull.pc = "current" -> "compose"
                     [] OTHER -> "commit"
<1>1. /\ pull.pc \in {"snapshot", "release", "current", "compose"}
      /\ \/ pull' = [pull EXCEPT !.pc = after]
         \/ pull' = [pull EXCEPT !.pc = after, !.claims = graph.claims]
      /\ releases' = IF pull.pc = "release" THEN [releases EXCEPT ![pull.target] = "whole"]
                                            ELSE releases
      /\ current' = IF pull.pc = "current" THEN pull.target ELSE current
      /\ config' = IF pull.pc = "compose"
                   THEN [base |-> pull.target, by |-> "pull", rules |-> {}] ELSE config
      /\ UNCHANGED <<tag, tracked, receipt, graph, receipted, settled, crashes, lock>>
  BY Zenon DEF Overlay!PrePullSnapshot, Overlay!StoreRelease, Overlay!ReplaceCurrent,
         Overlay!Compose, Overlay!files, Overlay!database, Overlay!bounds, Overlay!Composed
<1>2. PullTypes /\ Overlay!GraphExplained /\ ReleasesOrdered /\ StepsShow
      /\ SettledInv /\ RulesInv
  BY DEF PullInv
<1>3. /\ Pulling /\ ~settled
      /\ Overlay!Applied \in Known /\ pull.target \in Known /\ Known \subseteq Nat
      /\ tracked <= Overlay!Applied /\ Overlay!Applied <= pull.target /\ pull.target <= tag
  BY <1>1, ApplyFacts DEF PullSteps
<1>4. Pulling' /\ pull'.pc = after /\ pull'.target = pull.target
  BY <1>1, <1>3, PullAdvances, Zenon DEF PullSteps
<1>5. Overlay!Applied' = Overlay!Applied
  BY <1>1 DEF Overlay!Applied
<1>6. PullTypes'
  <2>1. config' \in Configs
    BY <1>1, <1>2, <1>3 DEF PullTypes, Configs
  <2>2. releases' \in [Known -> {"absent", "partial", "whole"}]
    BY <1>1, <1>2, <1>3 DEF PullTypes
  <2> QED
    BY <1>1, <1>2, <1>4, <2>1, <2>2 DEF PullTypes
<1>7. Overlay!GraphExplained' /\ ReleasesOrdered'
  BY <1>1, <1>2, <1>3, <1>4, <1>5 DEF Overlay!GraphExplained, ReleasesOrdered
<1>8. StepsShow'
  BY <1>1, <1>2, <1>3, <1>4, <1>5 DEF StepsShow, PullTypes
<1>9. SettledInv' /\ RulesInv'
  BY <1>1, <1>2, <1>3, <1>4 DEF SettledInv, RulesInv, Overlay!SettledCoherent
<1> QED
  BY <1>6, <1>7, <1>8, <1>9 DEF PullInv

\* A request that ends without touching the database or what is tracked: an
\* apply that is refused or dies before its transaction, whatever it did to
\* the files, leaves no copy that passes for the tracked release by mistake.
LEMMA RequestEnds ==
    ASSUME PullInv, pull' = [pc |-> "idle"],
           releases' \in [Known -> {"absent", "partial", "whole"}],
           settled => releases' = releases /\ current' = current,
           current' \in {current, None},
           crashes' \in Nat, crashes' = 0 => crashes = 0 /\ pull.pc # "rule",
           UNCHANGED <<tag, config, tracked, lock, graph, receipt, receipted, settled>>
    PROVE  PullInv'
<1>1. PullTypes /\ Overlay!GraphExplained /\ ReleasesOrdered /\ StepsShow
      /\ SettledInv /\ RulesInv
  BY DEF PullInv
<1>2. pull'.pc = "idle"
  OBVIOUS
<1>3. Overlay!Applied' = Overlay!Applied
  BY DEF Overlay!Applied
<1>4. PullTypes'
  BY <1>1 DEF PullTypes
<1>5. Overlay!GraphExplained' /\ ReleasesOrdered'
  BY <1>1, <1>2, <1>3 DEF Overlay!GraphExplained, ReleasesOrdered, PullSteps
<1>6. tracked # Overlay!Applied => current # tracked
  <2>1. CASE pull.pc \in {"track", "lock"}
    BY <1>1, <2>1 DEF StepsShow
  <2>2. CASE pull.pc \notin {"track", "lock"}
    BY <1>1, <2>2 DEF StepsShow
  <2> QED
    BY <2>1, <2>2
<1>7. StepsShow'
  BY <1>1, <1>2, <1>3, <1>6, NoneKnown DEF StepsShow, PullTypes
<1>8. SettledInv' /\ RulesInv'
  BY <1>1, <1>2, <1>3 DEF SettledInv, RulesInv, Overlay!SettledCoherent, PullSteps
<1> QED
  BY <1>4, <1>5, <1>7, <1>8 DEF PullInv

\* A process that dies forgets the request, and at worst leaves a directory
\* half copied; a rule's digest that was not yet recorded is of no account here.
LEMMA PullCrash ==
    ASSUME PullInv, Overlay!Crash
    PROVE  PullInv'
<1>1. /\ crashes' = crashes + 1
      /\ pull' = [pc |-> "idle"]
      /\ \/ releases' = releases /\ current' = current
         \/ /\ pull.pc = "release"
            /\ releases' = [releases EXCEPT ![pull.target] = "partial"]
            /\ current' = current
         \/ pull.pc = "current" /\ current' = None /\ releases' = releases
      /\ UNCHANGED <<tag, config, tracked, lock, graph, receipt, receipted, settled>>
  BY DEF Overlay!Crash, Overlay!Idle, Overlay!database
<1>2. PullTypes /\ SettledInv
  BY DEF PullInv
<1>3. crashes' \in Nat /\ crashes' # 0
  BY <1>1, <1>2 DEF PullTypes
<1>4. releases' \in [Known -> {"absent", "partial", "whole"}]
  BY <1>1, <1>2 DEF PullTypes
<1>5. settled => releases' = releases /\ current' = current
  BY <1>1, <1>2 DEF SettledInv, PullSteps
<1> QED
  BY <1>1, <1>3, <1>4, <1>5, RequestEnds

\* The transaction: refused, with the files already written, or committed with
\* the receipt that explains the new graph.
LEMMA CommitStep ==
    ASSUME PullInv, Overlay!Commit
    PROVE  PullInv'
<1>1. PullTypes /\ Overlay!GraphExplained /\ ReleasesOrdered /\ StepsShow
      /\ SettledInv /\ RulesInv
  BY DEF PullInv
<1>2. pull.pc = "commit" /\ UNCHANGED <<tag, releases, current, config, tracked, lock, settled,
                                        crashes>>
  BY DEF Overlay!Commit, Overlay!files, Overlay!bounds
<1>3. CASE Overlay!Dangling(pull.claims, pull.target)
  <2>1. pull' = [pc |-> "idle"] /\ UNCHANGED <<graph, receipt, receipted>>
    BY <1>3 DEF Overlay!Commit, Overlay!Idle, Overlay!database
  <2>2. crashes' \in Nat /\ releases' \in [Known -> {"absent", "partial", "whole"}]
    BY <1>1, <1>2 DEF PullTypes
  <2> QED
    BY <1>2, <2>1, <2>2, RequestEnds
<1>4. CASE ~Overlay!Dangling(pull.claims, pull.target)
  <2>1. /\ graph' = [up |-> Content[pull.target], claims |-> pull.claims]
        /\ receipt' = [previous |-> tracked, release |-> pull.target]
        /\ pull' = [pull EXCEPT !.pc = "track"]
        /\ receipted' = receipted
        /\ pull.claims \subseteq Content[pull.target]
    BY <1>4 DEF Overlay!Commit, Overlay!Dangling
  <2>2. /\ Pulling /\ ~settled
        /\ Overlay!Applied \in Known /\ pull.target \in Known /\ Known \subseteq Nat
        /\ tracked <= Overlay!Applied /\ Overlay!Applied <= pull.target /\ pull.target <= tag
    BY <1>2, ApplyFacts DEF PullSteps
  <2>3. Pulling' /\ pull'.pc = "track" /\ pull'.target = pull.target
    BY <2>1, <2>2, PullAdvances DEF PullSteps
  <2>4. receipt' \in [previous : Known, release : Known] /\ receipt'.release = pull.target
    BY <1>1, <2>1, <2>2 DEF PullTypes
  <2>5. Overlay!Applied' = pull.target
    BY <2>4, NoneKnown DEF Overlay!Applied
  <2>6. PullTypes'
    BY <1>1, <1>2, <2>1, <2>3, <2>4 DEF PullTypes
  <2>7. Overlay!GraphExplained'
    BY <2>1, <2>5 DEF Overlay!GraphExplained
  <2>8. ReleasesOrdered'
    BY <1>1, <1>2, <2>2, <2>3, <2>5 DEF ReleasesOrdered, PullTypes
  <2>9. StepsShow'
    BY <1>1, <1>2, <2>3, <2>5 DEF StepsShow
  <2>10. SettledInv' /\ RulesInv'
    BY <1>1, <1>2, <2>1, <2>2, <2>3 DEF SettledInv, RulesInv, Overlay!SettledCoherent
  <2> QED
    BY <2>6, <2>7, <2>8, <2>9, <2>10 DEF PullInv
<1> QED
  BY <1>3, <1>4

\* instance.json follows the database.
LEMMA TrackStep ==
    ASSUME PullInv, Overlay!Track
    PROVE  PullInv'
<1>1. /\ pull.pc = "track" /\ tracked' = pull.target
      /\ pull' = [pull EXCEPT !.pc = "lock"]
      /\ UNCHANGED <<tag, releases, current, config, lock, graph, receipt, receipted, settled,
                     crashes>>
  BY DEF Overlay!Track, Overlay!database, Overlay!bounds
<1>2. PullTypes /\ Overlay!GraphExplained /\ ReleasesOrdered /\ StepsShow
      /\ SettledInv /\ RulesInv
  BY DEF PullInv
<1>3. /\ Pulling /\ ~settled
      /\ Overlay!Applied \in Known /\ pull.target \in Known /\ Known \subseteq Nat
  BY <1>1, ApplyFacts DEF PullSteps
<1>4. Pulling' /\ pull'.pc = "lock" /\ pull'.target = pull.target
  BY <1>1, <1>3, PullAdvances DEF PullSteps
<1>5. Overlay!Applied' = Overlay!Applied /\ Overlay!Applied = pull.target
  BY <1>1, <1>2 DEF Overlay!Applied, StepsShow
<1>6. PullTypes'
  BY <1>1, <1>2, <1>3, <1>4 DEF PullTypes
<1>7. Overlay!GraphExplained' /\ ReleasesOrdered'
  BY <1>1, <1>2, <1>3, <1>4, <1>5 DEF Overlay!GraphExplained, ReleasesOrdered, PullSteps
<1>8. StepsShow'
  BY <1>1, <1>2, <1>4, <1>5 DEF StepsShow
<1>9. SettledInv' /\ RulesInv'
  BY <1>1, <1>2, <1>3, <1>4 DEF SettledInv, RulesInv, Overlay!SettledCoherent
<1> QED
  BY <1>6, <1>7, <1>8, <1>9 DEF PullInv

\* The apply returns with everything of one release.
LEMMA LockStep ==
    ASSUME PullInv, Overlay!Lock
    PROVE  PullInv'
<1>1. /\ pull.pc = "lock" /\ lock' = config.base
      /\ pull' = [pc |-> "idle"] /\ settled' = TRUE
      /\ UNCHANGED <<tag, releases, current, config, tracked, graph, receipt, receipted, crashes>>
  BY DEF Overlay!Lock, Overlay!Idle, Overlay!database, Overlay!bounds
<1>2. PullTypes /\ Overlay!GraphExplained /\ ReleasesOrdered /\ StepsShow
      /\ SettledInv /\ RulesInv
  BY DEF PullInv
<1>3. pull'.pc = "idle" /\ Overlay!Applied' = Overlay!Applied
  BY <1>1 DEF Overlay!Applied
<1>4. /\ releases[tracked] = "whole" /\ current = tracked /\ config.base = tracked
      /\ Overlay!Applied = tracked
  BY <1>1, <1>2 DEF StepsShow
<1>5. PullTypes'
  BY <1>1, <1>2 DEF PullTypes
<1>6. Overlay!GraphExplained' /\ ReleasesOrdered' /\ StepsShow'
  BY <1>1, <1>2, <1>3, <1>4 DEF Overlay!GraphExplained, ReleasesOrdered, StepsShow, PullSteps
<1>7. SettledInv' /\ RulesInv'
  BY <1>1, <1>2, <1>3, <1>4 DEF SettledInv, RulesInv, Overlay!SettledCoherent, PullSteps
<1> QED
  BY <1>5, <1>6, <1>7 DEF PullInv

\* An apply starts from a release that is no older than what is tracked and
\* what the database holds.
LEMMA StartApplyStep ==
    ASSUME PullInv, NEW repair \in BOOLEAN, Overlay!StartApply(repair)
    PROVE  PullInv'
<1>1. /\ pull = [pc |-> "idle"] /\ pull' = [pc |-> "snapshot", target |-> tag, claims |-> {}]
      /\ settled' = FALSE
      /\ UNCHANGED <<tag, releases, current, config, tracked, lock, graph, receipt, receipted,
                     crashes>>
  BY DEF Overlay!StartApply, Overlay!Idle, Overlay!files, Overlay!database, Overlay!bounds
<1>2. PullTypes /\ Overlay!GraphExplained /\ ReleasesOrdered /\ StepsShow
      /\ SettledInv /\ RulesInv
  BY DEF PullInv
<1>3. pull.pc = "idle" /\ pull'.pc = "snapshot" /\ pull'.target = tag
      /\ pull' = [pc |-> pull'.pc, target |-> pull'.target, claims |-> pull'.claims]
  BY <1>1
<1>4. Overlay!Applied' = Overlay!Applied
  BY <1>1 DEF Overlay!Applied
<1>5. Pulling'
  BY <1>2, <1>3 DEF Pulling, PullTypes, PullSteps
<1>6. PullTypes'
  BY <1>1, <1>2, <1>5, Zenon DEF PullTypes
<1>7. Overlay!GraphExplained' /\ StepsShow'
  BY <1>1, <1>2, <1>3, <1>4 DEF Overlay!GraphExplained, StepsShow
<1>8. ReleasesOrdered'
  BY <1>1, <1>2, <1>3, <1>4, FirstRelease DEF ReleasesOrdered, PullTypes
<1>9. SettledInv' /\ RulesInv'
  BY <1>1, <1>2, <1>3 DEF SettledInv, RulesInv, Overlay!SettledCoherent
<1> QED
  BY <1>6, <1>7, <1>8, <1>9 DEF PullInv

\* The tag only moves forward.
LEMMA PublishStep ==
    ASSUME PullInv, Overlay!Publish
    PROVE  PullInv'
<1>1. /\ tag < Len(Content) /\ tag' = tag + 1
      /\ UNCHANGED <<releases, current, config, tracked, lock, graph, receipt, receipted, pull,
                     settled, crashes>>
  BY DEF Overlay!Publish, Overlay!files, Overlay!database, Overlay!bounds
<1>2. PullTypes /\ Overlay!GraphExplained /\ ReleasesOrdered /\ StepsShow
      /\ SettledInv /\ RulesInv
  BY DEF PullInv
<1>3. Overlay!Applied' = Overlay!Applied /\ Overlay!Applied \in Known
  BY <1>1, <1>2, AppliedKnown DEF Overlay!Applied
<1>4. tag' \in Known /\ Known \subseteq Nat
  BY <1>1, <1>2, FirstRelease DEF PullTypes
<1>5. PullTypes'
  BY <1>1, <1>2, <1>4 DEF PullTypes, Pulling, Saving
<1>6. Overlay!GraphExplained' /\ StepsShow' /\ SettledInv' /\ RulesInv'
  BY <1>1, <1>2, <1>3
     DEF Overlay!GraphExplained, StepsShow, SettledInv, RulesInv, Overlay!SettledCoherent
<1>7. pull.pc \in PullSteps => pull.target \in Known
  BY <1>2, PullKinds DEF Pulling
<1>8. ReleasesOrdered'
  BY <1>1, <1>2, <1>3, <1>4, <1>7 DEF ReleasesOrdered, PullTypes
<1> QED
  BY <1>5, <1>6, <1>8 DEF PullInv

\* Local claims point at entities the graph has.
LEMMA ClaimSteps ==
    ASSUME PullInv, NEW e \in Entities, Overlay!AddClaim(e) \/ Overlay!DropClaim(e)
    PROVE  PullInv'
<1>1. /\ \/ e \in graph.up /\ graph' = [graph EXCEPT !.claims = @ \cup {e}]
         \/ graph' = [graph EXCEPT !.claims = @ \ {e}]
      /\ UNCHANGED <<tag, releases, current, config, tracked, lock, receipt, receipted, pull,
                     settled, crashes>>
  BY DEF Overlay!AddClaim, Overlay!DropClaim, Overlay!files, Overlay!bounds
<1>2. PullTypes /\ Overlay!GraphExplained /\ ReleasesOrdered /\ StepsShow
      /\ SettledInv /\ RulesInv
  BY DEF PullInv
<1>3. Overlay!Applied' = Overlay!Applied
  BY <1>1 DEF Overlay!Applied
<1>4. /\ graph' = [up |-> graph'.up, claims |-> graph'.claims]
      /\ graph'.up = graph.up
      /\ \/ graph'.claims = graph.claims \cup {e} /\ e \in graph.up
         \/ graph'.claims = graph.claims \ {e}
  BY <1>1, <1>2 DEF PullTypes
<1>5. PullTypes'
  BY <1>1, <1>2, <1>4 DEF PullTypes, Pulling, Saving
<1>6. Overlay!GraphExplained'
  BY <1>2, <1>3, <1>4 DEF Overlay!GraphExplained
<1>7. ReleasesOrdered' /\ StepsShow' /\ SettledInv' /\ RulesInv'
  BY <1>1, <1>2, <1>3
     DEF ReleasesOrdered, StepsShow, SettledInv, RulesInv, Overlay!SettledCoherent
<1> QED
  BY <1>5, <1>6, <1>7 DEF PullInv

\* Steps of an idle overlay that change neither the database nor the
\* bookkeeping, and leave the config over the release it was composed over, or
\* over the verified one.
LEMMA IdleSteps ==
    ASSUME PullInv, pull = [pc |-> "idle"], pull' = pull,
           config' \in Configs, config'.rules \subseteq config.rules,
           config'.base = config.base \/ (config'.base = current /\ current = tracked),
           releases' \in [Known -> {"absent", "partial", "whole"}],
           \A r \in Known : releases[r] = "whole" => releases'[r] = "whole",
           current' = current \/ (current' = None /\ ~settled'),
           settled' = settled \/ settled' = FALSE,
           UNCHANGED <<tag, tracked, lock, graph, receipt, receipted, crashes>>
    PROVE  PullInv'
<1>1. PullTypes /\ Overlay!GraphExplained /\ ReleasesOrdered /\ StepsShow
      /\ SettledInv /\ RulesInv
  BY DEF PullInv
<1>2. pull.pc = "idle" /\ pull'.pc = "idle"
  OBVIOUS
<1>3. Overlay!Applied' = Overlay!Applied
  BY DEF Overlay!Applied
<1>4. PullTypes'
  BY <1>1, Zenon DEF PullTypes
<1>5. Overlay!GraphExplained' /\ ReleasesOrdered'
  BY <1>1, <1>2, <1>3 DEF Overlay!GraphExplained, ReleasesOrdered, PullSteps
<1>6. StepsShow'
  BY <1>1, <1>2, <1>3, NoneKnown DEF StepsShow, PullTypes
<1>7. Overlay!SettledCoherent'
  BY <1>1, <1>3, Zenon DEF SettledInv, Overlay!SettledCoherent, PullTypes
<1>8. SettledInv' /\ RulesInv'
  BY <1>1, <1>2, <1>7 DEF SettledInv, RulesInv, PullSteps
<1> QED
  BY <1>4, <1>5, <1>6, <1>8 DEF PullInv

\* A reload composes over the release that was just verified.
LEMMA ReloadStep ==
    ASSUME PullInv, Overlay!ReloadConfig
    PROVE  PullInv'
<1>1. /\ pull = [pc |-> "idle"] /\ current = tracked
      /\ config' = [base |-> current, by |-> "reload", rules |-> {}]
      /\ UNCHANGED <<tag, releases, current, tracked, lock, graph, receipt, receipted, pull,
                     settled, crashes>>
  BY DEF Overlay!ReloadConfig, Overlay!Idle, Overlay!Verified, Overlay!Composed,
         Overlay!database, Overlay!bounds
<1>2. PullTypes
  BY DEF PullInv
<1>3. config' \in Configs /\ config'.base = current /\ config'.rules \subseteq config.rules
  BY <1>1, <1>2 DEF PullTypes, Configs
<1>4. releases' \in [Known -> {"absent", "partial", "whole"}]
  BY <1>1, <1>2 DEF PullTypes
<1> QED
  BY <1>1, <1>3, <1>4, IdleSteps

\* Deleting a half-copied release touches no whole one.
LEMMA DeleteReleaseStep ==
    ASSUME PullInv, NEW r \in Known, Overlay!DeleteRelease(r)
    PROVE  PullInv'
<1>1. /\ pull = [pc |-> "idle"] /\ releases[r] = "partial"
      /\ releases' = [releases EXCEPT ![r] = "absent"]
      /\ UNCHANGED <<tag, current, config, tracked, lock, graph, receipt, receipted, pull,
                     settled, crashes>>
  BY DEF Overlay!DeleteRelease, Overlay!Idle, Overlay!database, Overlay!bounds
<1>2. PullTypes
  BY DEF PullInv
<1>3. /\ releases' \in [Known -> {"absent", "partial", "whole"}]
      /\ \A x \in Known : releases[x] = "whole" => releases'[x] = "whole"
  BY <1>1, <1>2 DEF PullTypes
<1>4. config' \in Configs
  BY <1>1, <1>2 DEF PullTypes
<1> QED
  BY <1>1, <1>3, <1>4, IdleSteps

\* A hand edit unsettles the overlay.
LEMMA EditStep ==
    ASSUME PullInv, Overlay!EditByHand
    PROVE  PullInv'
<1>1. /\ pull = [pc |-> "idle"] /\ settled' = FALSE
      /\ \/ current' = None /\ config' = config
         \/ config' = [config EXCEPT !.by = "hand"] /\ current' = current
      /\ UNCHANGED <<tag, releases, tracked, lock, graph, receipt, receipted, pull, crashes>>
  BY DEF Overlay!EditByHand, Overlay!Idle, Overlay!database
<1>2. PullTypes
  BY DEF PullInv
<1>3. config' \in Configs /\ config'.base = config.base /\ config'.rules = config.rules
  BY <1>1, <1>2 DEF PullTypes, Configs
<1>4. releases' \in [Known -> {"absent", "partial", "whole"}]
  BY <1>1, <1>2 DEF PullTypes
<1> QED
  BY <1>1, <1>3, <1>4, IdleSteps, Zenon

\* A rule is in the file before its receipt is in the database.
LEMMA SaveRuleStep ==
    ASSUME PullInv, NEW k \in Rules, Overlay!SaveRule(k)
    PROVE  PullInv'
<1>1. /\ pull = [pc |-> "idle"]
      /\ pull' = [pc |-> "rule", rule |-> k, config |-> config, provenance |-> provenance]
      /\ config' = [base |-> config.base, rules |-> config.rules \cup {k},
                    by |-> IF provenance = None THEN "pull" ELSE "reload"]
      /\ UNCHANGED <<tag, releases, current, tracked, lock, graph, receipt, receipted, settled,
                     crashes>>
  BY DEF Overlay!SaveRule, Overlay!Idle, Overlay!database, Overlay!bounds
<1>2. PullTypes /\ Overlay!GraphExplained /\ ReleasesOrdered /\ StepsShow
      /\ SettledInv /\ RulesInv
  BY DEF PullInv
<1>3. pull.pc = "idle" /\ pull'.pc = "rule" /\ pull'.rule = k /\ pull'.config = config
  BY <1>1
<1>4. Overlay!Applied' = Overlay!Applied
  BY <1>1 DEF Overlay!Applied
<1>5. config' \in Configs /\ config'.base = config.base
      /\ config'.rules = config.rules \cup {k}
  BY <1>1, <1>2 DEF PullTypes, Configs
<1>6. Saving'
  BY <1>2, <1>3 DEF Saving, PullTypes, Configs, Known
<1>7. PullTypes'
  BY <1>1, <1>2, <1>5, <1>6 DEF PullTypes
<1>8. Overlay!GraphExplained' /\ ReleasesOrdered' /\ StepsShow'
  BY <1>1, <1>2, <1>3, <1>4 DEF Overlay!GraphExplained, ReleasesOrdered, StepsShow, PullSteps
<1>9. SettledInv' /\ RulesInv'
  BY <1>1, <1>2, <1>3, <1>4, <1>5 DEF SettledInv, RulesInv, Overlay!SettledCoherent, PullSteps
<1> QED
  BY <1>7, <1>8, <1>9 DEF PullInv

\* The receipt commits, or the prior bytes are put back.
LEMMA RuleEnds ==
    ASSUME PullInv, Overlay!CommitRule \/ Overlay!UndoRule
    PROVE  PullInv'
<1>1. /\ pull.pc = "rule" /\ pull' = [pc |-> "idle"]
      /\ \/ receipted' = receipted \cup {pull.rule} /\ config' = config
         \/ receipted' = receipted /\ config' = pull.config
      /\ UNCHANGED <<tag, releases, current, tracked, lock, graph, receipt, settled, crashes>>
  BY DEF Overlay!CommitRule, Overlay!UndoRule, Overlay!Idle, Overlay!files, Overlay!database,
         Overlay!bounds
<1>2. PullTypes /\ Overlay!GraphExplained /\ ReleasesOrdered /\ StepsShow
      /\ SettledInv /\ RulesInv
  BY DEF PullInv
<1>3. pull'.pc = "idle" /\ Saving
  BY <1>1, <1>2, PullKinds
<1>4. Overlay!Applied' = Overlay!Applied
  BY <1>1 DEF Overlay!Applied
<1>5. PullTypes'
  BY <1>1, <1>2, <1>3 DEF PullTypes, Saving
<1>6. Overlay!GraphExplained' /\ ReleasesOrdered' /\ StepsShow'
  BY <1>1, <1>2, <1>3, <1>4 DEF Overlay!GraphExplained, ReleasesOrdered, StepsShow, PullSteps
<1>7. SettledInv' /\ RulesInv'
  BY <1>1, <1>2, <1>3, <1>4 DEF SettledInv, RulesInv, Overlay!SettledCoherent, PullSteps
<1> QED
  BY <1>5, <1>6, <1>7 DEF PullInv

\* The invariant is about the variables of OverlayPull, the preview and the
\* recorded digest excepted.
LEMMA PullStutter ==
    ASSUME PullInv,
           UNCHANGED <<tag, releases, current, config, tracked, lock, graph, receipt, receipted,
                       pull, settled, crashes>>
    PROVE  PullInv'
<1>1. Overlay!Applied' = Overlay!Applied
  BY DEF Overlay!Applied
<1> QED
  BY <1>1 DEF PullInv, PullTypes, Pulling, Saving, Overlay!GraphExplained, ReleasesOrdered,
              StepsShow, SettledInv, RulesInv, Overlay!SettledCoherent

\* No step of a pull or of its surroundings breaks the invariant.
LEMMA PullNext == PullInv /\ Overlay!Next => PullInv'
<1> SUFFICES ASSUME PullInv, Overlay!Next PROVE PullInv'
  OBVIOUS
<1>1. CASE Overlay!Publish
  BY <1>1, PublishStep
<1>2. CASE \E e \in Entities : Overlay!AddClaim(e) \/ Overlay!DropClaim(e)
  BY <1>2, ClaimSteps
<1>3. ASSUME NEW repair \in BOOLEAN, Overlay!Preview(repair) PROVE PullInv'
  <2>1. UNCHANGED <<tag, releases, current, config, tracked, lock, graph, receipt, receipted,
                    pull, settled, crashes>>
    BY <1>3 DEF Overlay!Preview, Overlay!files, Overlay!database, Overlay!bounds
  <2> QED
    BY <2>1, PullStutter
<1>4. ASSUME NEW repair \in BOOLEAN, Overlay!StartApply(repair) PROVE PullInv'
  BY <1>4, StartApplyStep
<1>5. CASE \/ Overlay!PrePullSnapshot \/ Overlay!StoreRelease
           \/ Overlay!ReplaceCurrent \/ Overlay!Compose
  BY <1>5, FileSteps
<1>6. CASE Overlay!Commit
  BY <1>6, CommitStep
<1>7. CASE Overlay!Track
  BY <1>7, TrackStep
<1>8. CASE Overlay!Lock
  BY <1>8, LockStep
<1>9. CASE Overlay!Crash
  BY <1>9, PullCrash
<1>10. CASE Overlay!ReloadConfig
  BY <1>10, ReloadStep
<1>11. CASE \E k \in Rules : Overlay!SaveRule(k)
  BY <1>11, SaveRuleStep
<1>12. CASE Overlay!CommitRule \/ Overlay!UndoRule
  BY <1>12, RuleEnds
<1>13. CASE \E r \in Overlay!Releases : Overlay!DeleteRelease(r)
  BY <1>13, DeleteReleaseStep DEF Known
<1>14. CASE Overlay!EditByHand
  BY <1>14, EditStep
<1> QED
  BY <1>1, <1>2, <1>3, <1>4, <1>5, <1>6, <1>7, <1>8, <1>9, <1>10, <1>11, <1>12, <1>13, <1>14
     DEF Overlay!Next

\* For any entities and rules and any number of crashes and hand edits: the
\* last pull receipt explains the graph, instance.json lags behind the database
\* at most and then no reader takes current/ for the release it names, an apply
\* that returned left files, lock and database of one release, and rules in
\* force have receipts unless a process died (service_pull_state_apply in
\* service/state.py, service_add_constraint in service/config_mutations.py).
THEOREM PullsExplained == Spec => []PullExplainable
<1>1. Init => PullInv
  BY PullInit DEF Init
<1>2. PullInv /\ [Next]_vars => PullInv'
  <2> SUFFICES ASSUME PullInv, [Next]_vars PROVE PullInv'
    OBVIOUS
  <2>1. Overlay!Next \/ UNCHANGED pullVars
    BY DEF Next, vars, pullVars
  <2>2. CASE UNCHANGED pullVars
    BY <2>2, PullStutter DEF pullVars
  <2> QED
    BY <2>1, <2>2, PullNext
<1> QED
  BY <1>1, <1>2, PullInvImplies, PTL DEF Spec

-----------------------------------------------------------------------------
(* Telemetry: batches, what they amount to and when they began.               *)

Aggregates == [calls : Nat, first : Nat]
IsBatch(b) ==
    /\ b = [s \in DOMAIN b |-> b[s]] /\ DOMAIN b \subseteq Surfaces
    /\ \A s \in DOMAIN b : b[s] \in Aggregates

\* The first stamp of a surface in a batch, if it is there.
FirstStamps(b, s) == IF s \in DOMAIN b THEN {b[s].first} ELSE {}

\* The sums of the model are totals.
LEMMA SumIsTotal ==
    ASSUME NEW f
    PROVE  Buffer!SumFunction(f) = Total(f, DOMAIN f)
  BY DEF Total, Adds, Pick, Buffer!SumFunction, Buffer!SumFunctionOnSet,
         Buffer!FoldFunctionOnSet, Buffer!MapThenFoldSet

\* The empty batch.
LEMMA EmptyBatch ==
    /\ IsBatch(Buffer!Empty) /\ DOMAIN Buffer!Empty = {}
    /\ \A s : Buffer!CallsOf(Buffer!Empty, s) = 0 /\ FirstStamps(Buffer!Empty, s) = {}
  BY DEF Buffer!Empty, IsBatch, Buffer!CallsOf, FirstStamps

\* The calls of a surface in a batch.
LEMMA CallsOfNat ==
    ASSUME NEW b, IsBatch(b), NEW s
    PROVE  Buffer!CallsOf(b, s) \in Nat
  BY DEF IsBatch, Buffer!CallsOf, Aggregates

\* One batch folded into another: calls add up, and the earlier stamp is kept.
LEMMA FoldedBatch ==
    ASSUME NEW b, IsBatch(b), NEW c, IsBatch(c)
    PROVE  LET f == Buffer!Fold(b, c)
           IN  /\ IsBatch(f) /\ DOMAIN f = DOMAIN b \cup DOMAIN c
               /\ \A s : /\ Buffer!CallsOf(f, s) = Buffer!CallsOf(b, s) + Buffer!CallsOf(c, s)
                         /\ FirstStamps(f, s) \subseteq FirstStamps(b, s) \cup FirstStamps(c, s)
                         /\ \A y \in FirstStamps(b, s) \cup FirstStamps(c, s) :
                               \E x \in FirstStamps(f, s) : x <= y
  <1> DEFINE f == Buffer!Fold(b, c)
             V(s) == CASE s \notin DOMAIN c -> b[s]
                       [] s \notin DOMAIN b -> c[s]
                       [] OTHER -> Buffer!Absorb(c[s], b[s])
  <1>1. f = [s \in DOMAIN c \cup DOMAIN b |-> V(s)]
    BY DEF Buffer!Fold
  <1>2. ASSUME NEW s \in DOMAIN b, s \notin DOMAIN c PROVE V(s) = b[s]
    BY <1>2
  <1>3. ASSUME NEW s \in DOMAIN c, s \notin DOMAIN b PROVE V(s) = c[s]
    BY <1>3
  <1>4. ASSUME NEW s \in DOMAIN b, s \in DOMAIN c
        PROVE  /\ V(s) \in Aggregates /\ V(s).calls = b[s].calls + c[s].calls
               /\ V(s).first \in {b[s].first, c[s].first}
               /\ V(s).first <= b[s].first /\ V(s).first <= c[s].first
    <2>1. V(s) = Buffer!Absorb(c[s], b[s])
      BY <1>4
    <2>2. b[s] \in Aggregates /\ c[s] \in Aggregates
      BY <1>4 DEF IsBatch
    <2>3. /\ b[s].calls \in Nat /\ c[s].calls \in Nat /\ b[s].first \in Nat /\ c[s].first \in Nat
      BY <2>2 DEF Aggregates
    <2> DEFINE e == Buffer!Earlier(c[s].first, b[s].first)
               n == c[s].calls + b[s].calls
    <2>4. V(s) = [calls |-> n, first |-> e]
      BY <2>1 DEF Buffer!Absorb
    <2>5. /\ e \in {b[s].first, c[s].first} /\ e \in Nat /\ e <= b[s].first /\ e <= c[s].first
          /\ n \in Nat /\ n = b[s].calls + c[s].calls
      BY <2>3 DEF Buffer!Earlier
    <2> HIDE DEF e, n, V
    <2> QED
      BY <2>4, <2>5 DEF Aggregates
  <1>5. DOMAIN f = DOMAIN b \cup DOMAIN c /\ \A s \in DOMAIN b \cup DOMAIN c : f[s] = V(s)
    BY <1>1
  <1> HIDE DEF V, f
  <1>6. \A s \in DOMAIN f : f[s] \in Aggregates
    BY <1>2, <1>3, <1>4, <1>5 DEF IsBatch
  <1>7. IsBatch(f)
    <2>1. f = [s \in DOMAIN f |-> f[s]]
      BY <1>1
    <2> QED
      BY <1>5, <1>6, <2>1 DEF IsBatch
  <1>8. \A s : Buffer!CallsOf(f, s) = Buffer!CallsOf(b, s) + Buffer!CallsOf(c, s)
    <2>1. ASSUME NEW s, s \in DOMAIN b, s \in DOMAIN c
          PROVE  Buffer!CallsOf(f, s) = Buffer!CallsOf(b, s) + Buffer!CallsOf(c, s)
      BY <1>4, <1>5, <2>1 DEF Buffer!CallsOf
    <2>2. ASSUME NEW s, s \in DOMAIN b, s \notin DOMAIN c
          PROVE  Buffer!CallsOf(f, s) = Buffer!CallsOf(b, s) + Buffer!CallsOf(c, s)
      BY <1>2, <1>5, <2>2, CallsOfNat DEF Buffer!CallsOf
    <2>3. ASSUME NEW s, s \notin DOMAIN b, s \in DOMAIN c
          PROVE  Buffer!CallsOf(f, s) = Buffer!CallsOf(b, s) + Buffer!CallsOf(c, s)
      BY <1>3, <1>5, <2>3, CallsOfNat DEF Buffer!CallsOf
    <2>4. ASSUME NEW s, s \notin DOMAIN b, s \notin DOMAIN c
          PROVE  Buffer!CallsOf(f, s) = Buffer!CallsOf(b, s) + Buffer!CallsOf(c, s)
      BY <1>5, <2>4 DEF Buffer!CallsOf
    <2> QED
      BY <2>1, <2>2, <2>3, <2>4
  <1>9. ASSUME NEW s
        PROVE  /\ FirstStamps(f, s) \subseteq FirstStamps(b, s) \cup FirstStamps(c, s)
               /\ \A y \in FirstStamps(b, s) \cup FirstStamps(c, s) : \E x \in FirstStamps(f, s) : x <= y
    <2>1. /\ s \in DOMAIN b => b[s].first \in Nat
          /\ s \in DOMAIN c => c[s].first \in Nat
      BY DEF IsBatch, Aggregates
    <2>2. CASE s \in DOMAIN b /\ s \in DOMAIN c
      BY <1>4, <1>5, <2>2 DEF FirstStamps
    <2>3. CASE s \in DOMAIN b /\ s \notin DOMAIN c
      BY <1>2, <1>5, <2>1, <2>3 DEF FirstStamps
    <2>4. CASE s \notin DOMAIN b /\ s \in DOMAIN c
      BY <1>3, <1>5, <2>1, <2>4 DEF FirstStamps
    <2>5. CASE s \notin DOMAIN b /\ s \notin DOMAIN c
      BY <1>5, <2>5 DEF FirstStamps
    <2> QED
      BY <2>2, <2>3, <2>4, <2>5
  <1> QED
    BY <1>5, <1>7, <1>8, <1>9 DEF f

\* The calls of a batch, over all surfaces.
LEMMA CallsNat ==
    ASSUME NEW b, IsBatch(b)
    PROVE  /\ Buffer!Calls(b) \in Nat
           /\ Buffer!Calls(b) = Total([s \in Surfaces |-> Buffer!CallsOf(b, s)], Surfaces)
           /\ [s \in Surfaces |-> Buffer!CallsOf(b, s)] \in [Surfaces -> Nat]
  <1> DEFINE f == [s \in Surfaces |-> Buffer!CallsOf(b, s)]
  <1>1. f \in [Surfaces -> Nat]
    BY CallsOfNat
  <1>2. Buffer!Calls(b) = Total(f, Surfaces)
    <2>1. Buffer!Calls(b) = Buffer!SumFunction(f)
      BY DEF Buffer!Calls
    <2>2. DOMAIN f = Surfaces
      OBVIOUS
    <2> HIDE DEF f
    <2> QED
      BY <2>1, <2>2, SumIsTotal
  <1>3. Total(f, Surfaces) \in Nat
    <2> HIDE DEF f
    <2> QED
      BY <1>1, TotalNat, TelemetryAssumption
  <1> QED
    BY <1>1, <1>2, <1>3

\* Batches that amount to another, surface by surface, amount to it in all.
LEMMA CallsSplit ==
    ASSUME NEW a, IsBatch(a), NEW b, IsBatch(b), NEW c, IsBatch(c),
           \A s \in Surfaces : Buffer!CallsOf(a, s) = Buffer!CallsOf(b, s) + Buffer!CallsOf(c, s)
    PROVE  Buffer!Calls(a) = Buffer!Calls(b) + Buffer!Calls(c)
  <1> DEFINE f(x) == [s \in Surfaces |-> Buffer!CallsOf(x, s)]
  <1>1. /\ Buffer!Calls(a) = Total(f(a), Surfaces) /\ f(a) \in [Surfaces -> Nat]
        /\ Buffer!Calls(b) = Total(f(b), Surfaces) /\ f(b) \in [Surfaces -> Nat]
        /\ Buffer!Calls(c) = Total(f(c), Surfaces) /\ f(c) \in [Surfaces -> Nat]
    BY CallsNat
  <1>2. \A s \in Surfaces : f(a)[s] = f(b)[s] + f(c)[s]
    OBVIOUS
  <1> HIDE DEF f
  <1>3. f(a) \in [Surfaces -> Int] /\ f(b) \in [Surfaces -> Int] /\ f(c) \in [Surfaces -> Int]
    BY <1>1
  <1> QED
    BY <1>1, <1>2, <1>3, TotalOfSums, TelemetryAssumption

\* A fold adds up, and nothing amounts to nothing.
LEMMA CallsFolded ==
    ASSUME NEW b, IsBatch(b), NEW c, IsBatch(c)
    PROVE  Buffer!Calls(Buffer!Fold(b, c)) = Buffer!Calls(b) + Buffer!Calls(c)
  <1> DEFINE a == Buffer!Fold(b, c)
  <1>1. IsBatch(a) /\ \A s : Buffer!CallsOf(a, s) = Buffer!CallsOf(b, s) + Buffer!CallsOf(c, s)
    BY FoldedBatch, Zenon
  <1> HIDE DEF a
  <1>2. Buffer!Calls(a) = Buffer!Calls(b) + Buffer!Calls(c)
    BY <1>1, CallsSplit
  <1> QED
    BY <1>2 DEF a

\* The empty batch has no calls.
LEMMA CallsEmpty == Buffer!Calls(Buffer!Empty) = 0
  <1>1. \A s \in Surfaces : Buffer!CallsOf(Buffer!Empty, s)
                              = Buffer!CallsOf(Buffer!Empty, s) + Buffer!CallsOf(Buffer!Empty, s)
    BY EmptyBatch
  <1>2. Buffer!Calls(Buffer!Empty) = Buffer!Calls(Buffer!Empty) + Buffer!Calls(Buffer!Empty)
    BY <1>1, EmptyBatch, CallsSplit
  <1>3. Buffer!Calls(Buffer!Empty) \in Nat
    BY EmptyBatch, CallsNat, Zenon
  <1>4. \A n \in Nat : n = n + n => n = 0
    OBVIOUS
  <1> QED
    BY <1>2, <1>3, <1>4, Zenon

\* A batch of one observation has one.
LEMMA OneObservation ==
    ASSUME NEW s \in Surfaces, NEW n \in Nat
    PROVE  LET one == [x \in {s} |-> [calls |-> 1, first |-> n]]
           IN  /\ IsBatch(one) /\ Buffer!Calls(one) = 1
               /\ \A u : /\ Buffer!CallsOf(one, u) = (IF u = s THEN 1 ELSE 0)
                         /\ FirstStamps(one, u) = (IF u = s THEN {n} ELSE {})
  <1> DEFINE one == [x \in {s} |-> [calls |-> 1, first |-> n]]
             f == [u \in Surfaces |-> Buffer!CallsOf(one, u)]
             z == [u \in Surfaces |-> 0]
  <1>1. DOMAIN one = {s} /\ one[s] = [calls |-> 1, first |-> n]
    OBVIOUS
  <1>2. one = [x \in DOMAIN one |-> one[x]]
    OBVIOUS
  <1> HIDE DEF one
  <1>3. one[s].calls = 1 /\ one[s].first = n /\ one[s] \in Aggregates
    BY <1>1 DEF Aggregates
  <1>4. IsBatch(one)
    BY <1>1, <1>2, <1>3 DEF IsBatch
  <1>5. \A u : /\ Buffer!CallsOf(one, u) = (IF u = s THEN 1 ELSE 0)
               /\ FirstStamps(one, u) = (IF u = s THEN {n} ELSE {})
    BY <1>1, <1>3 DEF Buffer!CallsOf, FirstStamps
  <1>6. Buffer!Calls(one) = 1
    <2>1. Buffer!Calls(one) = Total(f, Surfaces) /\ f \in [Surfaces -> Nat]
      BY <1>4, CallsNat
    <2>2. f[s] = 1 /\ \A u \in Surfaces : u # s => f[u] = 0
      BY <1>5
    <2>3. z \in [Surfaces -> Int] /\ \A u \in Surfaces : z[u] = 0
      OBVIOUS
    <2> HIDE DEF f, z
    <2>4. Total(z, Surfaces) = 0
      BY <2>3, TotalZero, TelemetryAssumption
    <2>5. f \in [Surfaces -> Int] /\ \A u \in Surfaces : u # s => f[u] = z[u]
      BY <2>1, <2>2, <2>3
    <2>6. Total(f, Surfaces) = Total(z, Surfaces) - z[s] + f[s]
      BY <2>3, <2>5, TotalChanged, TelemetryAssumption
    <2> QED
      BY <2>1, <2>2, <2>3, <2>4, <2>6
  <1> QED
    BY <1>4, <1>5, <1>6 DEF one

\* A sum over the threads, of which one takes a step.
LEMMA FlightChange ==
    ASSUME NEW a \in [Flushers -> Nat], NEW b \in [Flushers -> Nat], NEW t \in Flushers,
           \A u \in Flushers : u # t => b[u] = a[u]
    PROVE  /\ Buffer!SumFunction(a) \in Nat /\ Buffer!SumFunction(b) \in Nat
           /\ Buffer!SumFunction(b) = Buffer!SumFunction(a) - a[t] + b[t]
  <1>1. Buffer!SumFunction(a) = Total(a, Flushers) /\ Buffer!SumFunction(b) = Total(b, Flushers)
    BY SumIsTotal
  <1>2. a \in [Flushers -> Int] /\ b \in [Flushers -> Int]
    OBVIOUS
  <1>3. Total(b, Flushers) = Total(a, Flushers) - a[t] + b[t]
    BY <1>2, TotalChanged, TelemetryAssumption
  <1>4. Total(a, Flushers) \in Nat /\ Total(b, Flushers) \in Nat
    BY TotalNat, TelemetryAssumption
  <1> QED
    BY <1>1, <1>3, <1>4

\* A sum over threads that hold nothing.
LEMMA FlightNone ==
    ASSUME NEW a \in [Flushers -> Nat], \A u \in Flushers : a[u] = 0
    PROVE  Buffer!SumFunction(a) = 0
  <1>1. Buffer!SumFunction(a) = Total(a, Flushers) /\ a \in [Flushers -> Int]
    BY SumIsTotal
  <1> QED
    BY <1>1, TotalZero, TelemetryAssumption

\* S is part of T and holds something as early as each of its members: the same
\* moment is the first one of both.
Coarser(S, T) == S \subseteq T /\ \A y \in T : \E x \in S : x <= y

\* The histories are batches, counts are numbers, and a thread that is idle
\* holds nothing.
TelemetryTypes ==
    /\ IsBatch(pending) /\ IsBatch(stored) /\ IsBatch(kept)
    /\ droppedObs \in Nat /\ droppedEvents \in Nat /\ clock \in Nat
    /\ refused \in Nat /\ events \in Nat /\ storedDrops \in [obs : Nat, evs : Nat]
    /\ DOMAIN flush = Flushers
    /\ \A t \in Flushers :
        /\ flush[t] = [pc |-> flush[t].pc, batch |-> flush[t].batch,
                       obs |-> flush[t].obs, evs |-> flush[t].evs]
        /\ IsBatch(flush[t].batch) /\ flush[t].obs \in Nat /\ flush[t].evs \in Nat
        /\ flush[t].pc = "idle" => flush[t] = Buffer!Idle

\* What is kept of a surface is what is known of it everywhere.
KeptWhole(s) ==
    /\ Buffer!CallsOf(kept, s) = Buffer!CallsEverywhere(s)
    /\ Coarser(FirstStamps(kept, s), Buffer!StampsEverywhere(s))

\* The inductive invariant of the telemetry buffer.
TelemetryInv ==
    /\ TelemetryTypes
    /\ \A s \in Surfaces \ shed : KeptWhole(s)
    /\ Buffer!ObservationsEverywhere = Buffer!Calls(kept) + refused
    /\ Buffer!EventsEverywhere = events

\* The first stamp survives when stamps are merged.
LEMMA FirstSurvives ==
    ASSUME NEW b, IsBatch(b), NEW s, NEW S \in SUBSET Nat, NEW T,
           Coarser(FirstStamps(b, s), S), Coarser(T, S)
    PROVE  Coarser(FirstStamps(b, s), T)
<1>1. CASE s \in DOMAIN b
  <2> DEFINE x == b[s].first
  <2>1. FirstStamps(b, s) = {x}
    BY <1>1 DEF FirstStamps
  <2> HIDE DEF x
  <2>2. x \in S /\ x \in Nat /\ \A y \in S : x <= y
    BY <2>1, Zenon DEF Coarser
  <2>3. PICK z \in T : z <= x
    BY <2>2 DEF Coarser
  <2>4. z \in Nat /\ x <= z
    BY <2>2 DEF Coarser
  <2>5. z = x
    BY <2>2, <2>3, <2>4
  <2> QED
    BY <2>1, <2>2, <2>3, <2>5 DEF Coarser
<1>2. CASE s \notin DOMAIN b
  BY <1>2 DEF FirstStamps, Coarser
<1> QED
  BY <1>1, <1>2

\* Where the stamps of a surface are.
StampsPlaced ==
    \A s : /\ Buffer!StampsEverywhere(s) \subseteq Nat
          /\ \A x : x \in Buffer!StampsEverywhere(s)
                     <=> \/ x \in FirstStamps(pending, s) \/ x \in FirstStamps(stored, s)
                         \/ \E t \in Flushers : x \in FirstStamps(flush[t].batch, s)

\* They are in the buffer, in the rows or in flight.
LEMMA StampsAre == TelemetryTypes => StampsPlaced
<1> SUFFICES ASSUME TelemetryTypes, NEW s
             PROVE  /\ Buffer!StampsEverywhere(s) \subseteq Nat
                    /\ \A x : x \in Buffer!StampsEverywhere(s)
                              <=> \/ x \in FirstStamps(pending, s) \/ x \in FirstStamps(stored, s)
                                  \/ \E t \in Flushers : x \in FirstStamps(flush[t].batch, s)
  BY DEF StampsPlaced
<1>1. \A x : x \in Buffer!StampsEverywhere(s)
               <=> \E b : /\ b \in {pending, stored} \cup {flush[t].batch : t \in Flushers}
                          /\ s \in DOMAIN b /\ x = b[s].first
  BY DEF Buffer!StampsEverywhere
<1>2. \A b : b \in {pending, stored} \cup {flush[t].batch : t \in Flushers}
               <=> b = pending \/ b = stored \/ \E t \in Flushers : b = flush[t].batch
  OBVIOUS
<1>3. \A b : IsBatch(b) => \A x \in FirstStamps(b, s) : x \in Nat
  BY DEF IsBatch, FirstStamps, Aggregates
<1>4. \A b, x : x \in FirstStamps(b, s) <=> s \in DOMAIN b /\ x = b[s].first
  BY DEF FirstStamps
<1>5. \A x : x \in Buffer!StampsEverywhere(s)
               <=> \/ x \in FirstStamps(pending, s) \/ x \in FirstStamps(stored, s)
                   \/ \E t \in Flushers : x \in FirstStamps(flush[t].batch, s)
  BY <1>1, <1>2, <1>4
<1> QED
  BY <1>3, <1>5 DEF TelemetryTypes

\* The sums over the threads.
LEMMA FlightNat ==
    ASSUME TelemetryTypes, NEW s
    PROVE  /\ [t \in Flushers |-> Buffer!CallsOf(flush[t].batch, s)] \in [Flushers -> Nat]
           /\ [t \in Flushers |-> Buffer!Calls(flush[t].batch) + flush[t].obs] \in [Flushers -> Nat]
           /\ [t \in Flushers |-> flush[t].evs] \in [Flushers -> Nat]
<1>1. \A t \in Flushers : /\ Buffer!CallsOf(flush[t].batch, s) \in Nat
                          /\ Buffer!Calls(flush[t].batch) \in Nat
                          /\ flush[t].obs \in Nat /\ flush[t].evs \in Nat
  BY CallsOfNat, CallsNat, Zenon DEF TelemetryTypes
<1> QED
  BY <1>1

\* A step of one thread that moves calls and stamps between the buffer, the
\* rows and its batch leaves what is kept whole.
LEMMA ThreadKeepsSurface ==
    ASSUME TelemetryTypes, TelemetryTypes', NEW t \in Flushers, NEW s, KeptWhole(s), kept' = kept,
           \A u \in Flushers : u # t => flush'[u] = flush[u],
           Buffer!CallsOf(pending', s) + Buffer!CallsOf(stored', s)
             + Buffer!CallsOf(flush'[t].batch, s)
           = Buffer!CallsOf(pending, s) + Buffer!CallsOf(stored, s)
             + Buffer!CallsOf(flush[t].batch, s),
           Coarser(FirstStamps(pending', s) \cup FirstStamps(stored', s) \cup FirstStamps(flush'[t].batch, s),
                   FirstStamps(pending, s) \cup FirstStamps(stored, s) \cup FirstStamps(flush[t].batch, s))
    PROVE  KeptWhole(s)'
<1>1. Buffer!CallsEverywhere(s)' = Buffer!CallsEverywhere(s)
  <2> DEFINE a == [u \in Flushers |-> Buffer!CallsOf(flush[u].batch, s)]
             b == [u \in Flushers |-> Buffer!CallsOf(flush'[u].batch, s)]
             p == Buffer!CallsOf(pending, s)
             q == Buffer!CallsOf(stored, s)
             pp == Buffer!CallsOf(pending', s)
             qq == Buffer!CallsOf(stored', s)
  <2>1. a \in [Flushers -> Nat] /\ b \in [Flushers -> Nat]
    <3>1. \A u \in Flushers : IsBatch(flush[u].batch) /\ IsBatch(flush'[u].batch)
      BY DEF TelemetryTypes
    <3> QED
      BY <3>1, CallsOfNat
  <2>2. \A u \in Flushers : u # t => b[u] = a[u]
    OBVIOUS
  <2>3. pp + qq + b[t] = p + q + a[t]
    OBVIOUS
  <2>4. p \in Nat /\ q \in Nat /\ pp \in Nat /\ qq \in Nat
    BY CallsOfNat DEF TelemetryTypes
  <2>5. /\ Buffer!CallsEverywhere(s) = p + q + Buffer!SumFunction(a)
        /\ Buffer!CallsEverywhere(s)' = pp + qq + Buffer!SumFunction(b)
    BY DEF Buffer!CallsEverywhere
  <2> HIDE DEF a, b, p, q, pp, qq
  <2>6. /\ Buffer!SumFunction(a) \in Nat /\ Buffer!SumFunction(b) \in Nat
        /\ Buffer!SumFunction(b) = Buffer!SumFunction(a) - a[t] + b[t]
    BY <2>1, <2>2, FlightChange
  <2>7. a[t] \in Nat /\ b[t] \in Nat
    BY <2>1
  <2>8. pp + qq + Buffer!SumFunction(b) = p + q + Buffer!SumFunction(a)
    BY <2>3, <2>4, <2>6, <2>7
  <2> QED
    BY <2>5, <2>8
<1>2. Coarser(Buffer!StampsEverywhere(s)', Buffer!StampsEverywhere(s))
  <2> DEFINE S == Buffer!StampsEverywhere(s)
             T == Buffer!StampsEverywhere(s)'
             L == FirstStamps(pending, s) \cup FirstStamps(stored, s) \cup FirstStamps(flush[t].batch, s)
             M == FirstStamps(pending', s) \cup FirstStamps(stored', s) \cup FirstStamps(flush'[t].batch, s)
  <2>1. /\ S \subseteq Nat
        /\ \A x : x \in S <=> \/ x \in L
                              \/ \E u \in Flushers \ {t} : x \in FirstStamps(flush[u].batch, s)
    BY StampsAre DEF StampsPlaced
  <2>2. /\ T \subseteq Nat
        /\ \A x : x \in T <=> \/ x \in FirstStamps(pending', s) \/ x \in FirstStamps(stored', s)
                              \/ \E u \in Flushers : x \in FirstStamps(flush'[u].batch, s)
    <3>1. StampsPlaced'
      BY StampsAre, PTL
    <3> QED
      BY <3>1 DEF StampsPlaced
  <2>3. \A x : x \in T <=> \/ x \in M
                           \/ \E u \in Flushers \ {t} : x \in FirstStamps(flush[u].batch, s)
    BY <2>2
  <2>4. Coarser(M, L)
    OBVIOUS
  <2> HIDE DEF S, T, L, M
  <2>5. T \subseteq S
    BY <2>1, <2>3, <2>4 DEF Coarser
  <2>6. \A y \in S : \E x \in T : x <= y
    <3> SUFFICES ASSUME NEW y \in S PROVE \E x \in T : x <= y
      OBVIOUS
    <3>1. CASE y \in L
      BY <2>3, <2>4, <3>1 DEF Coarser
    <3>2. CASE \E u \in Flushers \ {t} : y \in FirstStamps(flush[u].batch, s)
      <4>1. y \in T /\ y \in Nat
        BY <2>1, <2>3, <3>2
      <4>2. y <= y
        BY <4>1
      <4> QED
        BY <4>1, <4>2
    <3> QED
      BY <2>1, <3>1, <3>2
  <2> QED
    BY <2>5, <2>6 DEF Coarser, S, T
<1>3. Coarser(FirstStamps(kept, s), Buffer!StampsEverywhere(s)')
  <2>1. Buffer!StampsEverywhere(s) \in SUBSET Nat /\ IsBatch(kept)
        /\ Coarser(FirstStamps(kept, s), Buffer!StampsEverywhere(s))
    BY StampsAre DEF TelemetryTypes, KeptWhole, StampsPlaced
  <2> QED
    BY <1>2, <2>1, FirstSurvives
<1> QED
  BY <1>1, <1>3 DEF KeptWhole

\* A step of one thread that moves observations and events between the counts.
LEMMA ThreadKeepsCounts ==
    ASSUME TelemetryTypes, TelemetryTypes', NEW t \in Flushers,
           \A u \in Flushers : u # t => flush'[u] = flush[u],
           Buffer!Calls(pending') + droppedObs' + Buffer!Calls(stored') + storedDrops'.obs
             + Buffer!Calls(flush'[t].batch) + flush'[t].obs
           = Buffer!Calls(pending) + droppedObs + Buffer!Calls(stored) + storedDrops.obs
             + Buffer!Calls(flush[t].batch) + flush[t].obs,
           droppedEvents' + storedDrops'.evs + flush'[t].evs
           = droppedEvents + storedDrops.evs + flush[t].evs
    PROVE  /\ Buffer!ObservationsEverywhere' = Buffer!ObservationsEverywhere
           /\ Buffer!EventsEverywhere' = Buffer!EventsEverywhere
<1> DEFINE a == [u \in Flushers |-> Buffer!Calls(flush[u].batch) + flush[u].obs]
           b == [u \in Flushers |-> Buffer!Calls(flush'[u].batch) + flush'[u].obs]
           c == [u \in Flushers |-> flush[u].evs]
           d == [u \in Flushers |-> flush'[u].evs]
           m == Buffer!Calls(pending) + droppedObs + Buffer!Calls(stored) + storedDrops.obs
           n == Buffer!Calls(pending') + droppedObs' + Buffer!Calls(stored') + storedDrops'.obs
           k == droppedEvents + storedDrops.evs
           l == droppedEvents' + storedDrops'.evs
<1>1. \A u \in Flushers : /\ Buffer!Calls(flush[u].batch) \in Nat /\ flush[u].obs \in Nat
                          /\ Buffer!Calls(flush'[u].batch) \in Nat /\ flush'[u].obs \in Nat
                          /\ flush[u].evs \in Nat /\ flush'[u].evs \in Nat
  BY CallsNat, Zenon DEF TelemetryTypes
<1>2. a \in [Flushers -> Nat] /\ b \in [Flushers -> Nat] /\ c \in [Flushers -> Nat]
      /\ d \in [Flushers -> Nat]
  BY <1>1
<1>3. \A u \in Flushers : u # t => b[u] = a[u] /\ d[u] = c[u]
  OBVIOUS
<1>4. m \in Nat /\ n \in Nat /\ k \in Nat /\ l \in Nat
  <2>1. /\ Buffer!Calls(pending) \in Nat /\ Buffer!Calls(stored) \in Nat
        /\ Buffer!Calls(pending') \in Nat /\ Buffer!Calls(stored') \in Nat
    BY CallsNat, Zenon DEF TelemetryTypes
  <2>2. /\ droppedObs \in Nat /\ droppedEvents \in Nat /\ storedDrops.obs \in Nat
        /\ storedDrops.evs \in Nat /\ droppedObs' \in Nat /\ droppedEvents' \in Nat
        /\ storedDrops'.obs \in Nat /\ storedDrops'.evs \in Nat
    BY DEF TelemetryTypes
  <2> QED
    BY <2>1, <2>2
<1>5. n + b[t] = m + a[t]
  <2>1. /\ b[t] = Buffer!Calls(flush'[t].batch) + flush'[t].obs
        /\ a[t] = Buffer!Calls(flush[t].batch) + flush[t].obs
    OBVIOUS
  <2>2. n + Buffer!Calls(flush'[t].batch) + flush'[t].obs
        = m + Buffer!Calls(flush[t].batch) + flush[t].obs
    OBVIOUS
  <2> HIDE DEF a, b, m, n
  <2> QED
    BY <1>1, <1>4, <2>1, <2>2
<1>6. l + d[t] = k + c[t]
  OBVIOUS
<1>7. /\ Buffer!ObservationsEverywhere = m + Buffer!SumFunction(a)
      /\ Buffer!ObservationsEverywhere' = n + Buffer!SumFunction(b)
      /\ Buffer!EventsEverywhere = k + Buffer!SumFunction(c)
      /\ Buffer!EventsEverywhere' = l + Buffer!SumFunction(d)
  BY DEF Buffer!ObservationsEverywhere, Buffer!EventsEverywhere
<1> HIDE DEF a, b, c, d, m, n, k, l
<1>8. /\ Buffer!SumFunction(a) \in Nat /\ Buffer!SumFunction(b) \in Nat
      /\ Buffer!SumFunction(b) = Buffer!SumFunction(a) - a[t] + b[t]
  BY <1>2, <1>3, FlightChange, Zenon
<1>9. /\ Buffer!SumFunction(c) \in Nat /\ Buffer!SumFunction(d) \in Nat
      /\ Buffer!SumFunction(d) = Buffer!SumFunction(c) - c[t] + d[t]
  BY <1>2, <1>3, FlightChange
<1>10. a[t] \in Nat /\ b[t] \in Nat /\ c[t] \in Nat /\ d[t] \in Nat
  BY <1>2
<1>11. n + Buffer!SumFunction(b) = m + Buffer!SumFunction(a)
  BY <1>4, <1>5, <1>8, <1>10
<1>12. l + Buffer!SumFunction(d) = k + Buffer!SumFunction(c)
  BY <1>4, <1>6, <1>9, <1>10
<1> QED
  BY <1>7, <1>11, <1>12

\* What a flushing thread does moves calls, stamps and counts around.
LEMMA ThreadStep ==
    ASSUME TelemetryInv, TelemetryTypes', NEW t \in Flushers,
           \A u \in Flushers : u # t => flush'[u] = flush[u],
           kept' = kept, refused' = refused, events' = events, shed \subseteq shed',
           \A s \in Surfaces \ shed' :
              /\ Buffer!CallsOf(pending', s) + Buffer!CallsOf(stored', s)
                   + Buffer!CallsOf(flush'[t].batch, s)
                 = Buffer!CallsOf(pending, s) + Buffer!CallsOf(stored, s)
                   + Buffer!CallsOf(flush[t].batch, s)
              /\ Coarser(FirstStamps(pending', s) \cup FirstStamps(stored', s) \cup FirstStamps(flush'[t].batch, s),
                         FirstStamps(pending, s) \cup FirstStamps(stored, s) \cup FirstStamps(flush[t].batch, s)),
           Buffer!Calls(pending') + droppedObs' + Buffer!Calls(stored') + storedDrops'.obs
             + Buffer!Calls(flush'[t].batch) + flush'[t].obs
           = Buffer!Calls(pending) + droppedObs + Buffer!Calls(stored) + storedDrops.obs
             + Buffer!Calls(flush[t].batch) + flush[t].obs,
           droppedEvents' + storedDrops'.evs + flush'[t].evs
           = droppedEvents + storedDrops.evs + flush[t].evs
    PROVE  TelemetryInv'
<1>1. TelemetryTypes
  BY DEF TelemetryInv
<1>2. \A s \in Surfaces \ shed' : KeptWhole(s)'
  <2> SUFFICES ASSUME NEW s \in Surfaces \ shed' PROVE KeptWhole(s)'
    OBVIOUS
  <2>1. KeptWhole(s)
    BY DEF TelemetryInv
  <2> QED
    BY <1>1, <2>1, ThreadKeepsSurface, Zenon
<1>3. /\ Buffer!ObservationsEverywhere' = Buffer!ObservationsEverywhere
      /\ Buffer!EventsEverywhere' = Buffer!EventsEverywhere
  BY <1>1, ThreadKeepsCounts
<1> QED
  BY <1>2, <1>3 DEF TelemetryInv

\* A batch kept as it is has the same stamps.
LEMMA CoarserSelf ==
    ASSUME NEW S, NEW T, S = T, S \subseteq Nat
    PROVE  Coarser(S, T)
  BY DEF Coarser

\* The stamps of batches are numbers.
LEMMA FirstsNat ==
    ASSUME NEW b, IsBatch(b), NEW s
    PROVE  FirstStamps(b, s) \subseteq Nat
  BY DEF IsBatch, FirstStamps, Aggregates

\* An idle thread holds nothing.
LEMMA IdleHolds ==
    /\ Buffer!Idle.batch = Buffer!Empty /\ Buffer!Idle.obs = 0 /\ Buffer!Idle.evs = 0
    /\ Buffer!Idle.pc = "idle" /\ IsBatch(Buffer!Idle.batch)
    /\ Buffer!Idle = [pc |-> Buffer!Idle.pc, batch |-> Buffer!Idle.batch,
                      obs |-> Buffer!Idle.obs, evs |-> Buffer!Idle.evs]
<1> DEFINE e == Buffer!Empty
<1>1. Buffer!Idle = [pc |-> "idle", batch |-> e, obs |-> 0, evs |-> 0]
  BY DEF Buffer!Idle
<1>2. IsBatch(e)
  BY EmptyBatch
<1> HIDE DEF e
<1>3. /\ Buffer!Idle.batch = e /\ Buffer!Idle.obs = 0 /\ Buffer!Idle.evs = 0
      /\ Buffer!Idle.pc = "idle"
  BY <1>1
<1> QED
  BY <1>1, <1>2, <1>3 DEF e

\* The types of the thread a step is about, and of the others.
LEMMA FlushTypes ==
    ASSUME TelemetryTypes, NEW t \in Flushers, NEW new, flush' = [flush EXCEPT ![t] = new],
           new = [pc |-> new.pc, batch |-> new.batch, obs |-> new.obs, evs |-> new.evs],
           IsBatch(new.batch), new.obs \in Nat, new.evs \in Nat,
           new.pc = "idle" => new = Buffer!Idle
    PROVE  /\ flush'[t] = new /\ \A u \in Flushers : u # t => flush'[u] = flush[u]
           /\ DOMAIN flush' = Flushers
           /\ \A u \in Flushers :
                /\ flush'[u] = [pc |-> flush'[u].pc, batch |-> flush'[u].batch,
                               obs |-> flush'[u].obs, evs |-> flush'[u].evs]
                /\ IsBatch(flush'[u].batch) /\ flush'[u].obs \in Nat /\ flush'[u].evs \in Nat
                /\ flush'[u].pc = "idle" => flush'[u] = Buffer!Idle
<1>1. /\ flush'[t] = new /\ \A u \in Flushers : u # t => flush'[u] = flush[u]
      /\ DOMAIN flush' = Flushers
  BY DEF TelemetryTypes
<1>2. ASSUME NEW u \in Flushers
      PROVE  /\ flush'[u] = [pc |-> flush'[u].pc, batch |-> flush'[u].batch,
                             obs |-> flush'[u].obs, evs |-> flush'[u].evs]
             /\ IsBatch(flush'[u].batch) /\ flush'[u].obs \in Nat /\ flush'[u].evs \in Nat
             /\ flush'[u].pc = "idle" => flush'[u] = Buffer!Idle
  <2>1. CASE u = t
    BY <1>1, <2>1
  <2>2. CASE u # t
    <3>1. flush'[u] = flush[u]
      BY <1>1, <2>2
    <3> QED
      BY <3>1 DEF TelemetryTypes
  <2> QED
    BY <2>1, <2>2
<1> QED
  BY <1>1, <1>2

\* flush takes the batch and the counts out of the buffer.
LEMMA DrainStep ==
    ASSUME TelemetryInv, NEW t \in Flushers, Buffer!Drain(t)
    PROVE  TelemetryInv'
<1> DEFINE new == [pc |-> "write", batch |-> pending, obs |-> droppedObs, evs |-> droppedEvents]
<1>1. /\ flush[t].pc = "idle" /\ flush' = [flush EXCEPT ![t] = new]
      /\ pending' = Buffer!Empty /\ droppedObs' = 0 /\ droppedEvents' = 0
      /\ UNCHANGED <<stored, storedDrops, clock, kept, refused, events, shed>>
  BY DEF Buffer!Drain, Buffer!storeVars, Buffer!historyVars
<1>2. /\ new.pc = "write" /\ new.batch = pending /\ new.obs = droppedObs
      /\ new.evs = droppedEvents
      /\ new = [pc |-> new.pc, batch |-> new.batch, obs |-> new.obs, evs |-> new.evs]
  OBVIOUS
<1> HIDE DEF new
<1>3. TelemetryTypes
  BY DEF TelemetryInv
<1>4. IsBatch(new.batch) /\ new.obs \in Nat /\ new.evs \in Nat
  BY <1>2, <1>3 DEF TelemetryTypes
<1>5. flush'[t] = new /\ \A u \in Flushers : u # t => flush'[u] = flush[u]
  BY <1>1, <1>2, <1>3, <1>4, FlushTypes, Zenon
<1>6. TelemetryTypes'
  <2>1. IsBatch(Buffer!Empty)
    BY EmptyBatch
  <2> QED
    BY <1>1, <1>2, <1>3, <1>4, <2>1, FlushTypes DEF TelemetryTypes
<1>7. flush[t].batch = Buffer!Empty /\ flush[t].obs = 0 /\ flush[t].evs = 0
  BY <1>1, <1>3, IdleHolds DEF TelemetryTypes
<1>8. ASSUME NEW s
      PROVE  /\ Buffer!CallsOf(pending', s) + Buffer!CallsOf(stored', s)
                  + Buffer!CallsOf(flush'[t].batch, s)
                = Buffer!CallsOf(pending, s) + Buffer!CallsOf(stored, s)
                  + Buffer!CallsOf(flush[t].batch, s)
             /\ Coarser(FirstStamps(pending', s) \cup FirstStamps(stored', s) \cup FirstStamps(flush'[t].batch, s),
                        FirstStamps(pending, s) \cup FirstStamps(stored, s) \cup FirstStamps(flush[t].batch, s))
  <2>1. Buffer!CallsOf(Buffer!Empty, s) = 0 /\ FirstStamps(Buffer!Empty, s) = {}
    BY EmptyBatch
  <2>2. Buffer!CallsOf(pending, s) \in Nat /\ Buffer!CallsOf(stored, s) \in Nat
    BY <1>3, CallsOfNat DEF TelemetryTypes
  <2>3. FirstStamps(pending, s) \subseteq Nat /\ FirstStamps(stored, s) \subseteq Nat
    BY <1>3, FirstsNat DEF TelemetryTypes
  <2>4. FirstStamps(pending', s) \cup FirstStamps(stored', s) \cup FirstStamps(flush'[t].batch, s)
        = FirstStamps(pending, s) \cup FirstStamps(stored, s) \cup FirstStamps(flush[t].batch, s)
    BY <1>1, <1>2, <1>5, <1>7, <2>1
  <2>5. 0 + Buffer!CallsOf(stored, s) + Buffer!CallsOf(pending, s)
        = Buffer!CallsOf(pending, s) + Buffer!CallsOf(stored, s) + 0
    BY <2>2
  <2>6. FirstStamps(pending, s) \cup FirstStamps(stored, s) \cup FirstStamps(flush[t].batch, s) \subseteq Nat
    BY <1>7, <2>1, <2>3
  <2>7. Coarser(FirstStamps(pending', s) \cup FirstStamps(stored', s) \cup FirstStamps(flush'[t].batch, s),
                FirstStamps(pending, s) \cup FirstStamps(stored, s) \cup FirstStamps(flush[t].batch, s))
    BY <2>4, <2>6, CoarserSelf, Zenon
  <2> QED
    BY <1>1, <1>2, <1>5, <1>7, <2>1, <2>5, <2>7
<1>9. Buffer!Calls(pending) \in Nat /\ Buffer!Calls(stored) \in Nat
  BY <1>3, CallsNat, Zenon DEF TelemetryTypes
<1>10. droppedObs \in Nat /\ storedDrops.obs \in Nat /\ droppedEvents \in Nat
       /\ storedDrops.evs \in Nat
  BY <1>3 DEF TelemetryTypes
<1>11. Buffer!Calls(pending') + droppedObs' + Buffer!Calls(stored') + storedDrops'.obs
         + Buffer!Calls(flush'[t].batch) + flush'[t].obs
       = Buffer!Calls(pending) + droppedObs + Buffer!Calls(stored) + storedDrops.obs
         + Buffer!Calls(flush[t].batch) + flush[t].obs
  BY <1>1, <1>2, <1>5, <1>7, <1>9, <1>10, CallsEmpty
<1>12. droppedEvents' + storedDrops'.evs + flush'[t].evs
       = droppedEvents + storedDrops.evs + flush[t].evs
  BY <1>1, <1>2, <1>5, <1>7, <1>10
<1>13. kept' = kept /\ refused' = refused /\ events' = events /\ shed \subseteq shed'
  BY <1>1
<1> QED
  BY <1>5, <1>6, <1>8, <1>11, <1>12, <1>13, ThreadStep, Zenon

\* merge_best_effort folds the batch into the rows and the counts into theirs.
LEMMA MergeStep ==
    ASSUME TelemetryInv, NEW t \in Flushers, Buffer!Merge(t)
    PROVE  TelemetryInv'
<1> DEFINE b == flush[t].batch
<1>1. /\ stored' = Buffer!Fold(b, stored) /\ flush' = [flush EXCEPT ![t] = Buffer!Idle]
      /\ storedDrops' = [obs |-> storedDrops.obs + flush[t].obs,
                         evs |-> storedDrops.evs + flush[t].evs]
      /\ UNCHANGED <<pending, droppedObs, droppedEvents, clock, kept, refused, events, shed>>
  BY DEF Buffer!Merge, Buffer!bufferVars, Buffer!historyVars
<1>2. TelemetryTypes
  BY DEF TelemetryInv
<1>3. flush'[t] = Buffer!Idle /\ \A u \in Flushers : u # t => flush'[u] = flush[u]
  BY <1>1, <1>2 DEF TelemetryTypes
<1>4. /\ IsBatch(b) /\ flush[t].obs \in Nat /\ flush[t].evs \in Nat
      /\ IsBatch(stored) /\ IsBatch(pending)
      /\ storedDrops.obs \in Nat /\ storedDrops.evs \in Nat /\ droppedObs \in Nat
      /\ droppedEvents \in Nat
  BY <1>2 DEF TelemetryTypes
<1>5. storedDrops'.obs = storedDrops.obs + flush[t].obs
      /\ storedDrops'.evs = storedDrops.evs + flush[t].evs
      /\ storedDrops' \in [obs : Nat, evs : Nat]
  BY <1>1, <1>4
<1> HIDE DEF b
<1>6. /\ IsBatch(stored')
      /\ \A s : /\ Buffer!CallsOf(stored', s) = Buffer!CallsOf(b, s) + Buffer!CallsOf(stored, s)
                /\ FirstStamps(stored', s) \subseteq FirstStamps(b, s) \cup FirstStamps(stored, s)
                /\ \A y \in FirstStamps(b, s) \cup FirstStamps(stored, s) :
                      \E x \in FirstStamps(stored', s) : x <= y
  BY <1>1, <1>4, FoldedBatch, Zenon
<1>7. TelemetryTypes'
  BY <1>1, <1>2, <1>5, <1>6, FlushTypes, IdleHolds DEF TelemetryTypes
<1>8. ASSUME NEW s
      PROVE  /\ Buffer!CallsOf(pending', s) + Buffer!CallsOf(stored', s)
                  + Buffer!CallsOf(flush'[t].batch, s)
                = Buffer!CallsOf(pending, s) + Buffer!CallsOf(stored, s)
                  + Buffer!CallsOf(flush[t].batch, s)
             /\ Coarser(FirstStamps(pending', s) \cup FirstStamps(stored', s) \cup FirstStamps(flush'[t].batch, s),
                        FirstStamps(pending, s) \cup FirstStamps(stored, s) \cup FirstStamps(flush[t].batch, s))
  <2>1. /\ Buffer!CallsOf(flush'[t].batch, s) = 0 /\ FirstStamps(flush'[t].batch, s) = {}
    BY <1>3, EmptyBatch, IdleHolds
  <2>2. /\ Buffer!CallsOf(pending, s) \in Nat /\ Buffer!CallsOf(stored, s) \in Nat
        /\ Buffer!CallsOf(b, s) \in Nat
    BY <1>4, CallsOfNat
  <2>3. FirstStamps(pending, s) \subseteq Nat
    BY <1>4, FirstsNat
  <2>4. Coarser(FirstStamps(pending, s) \cup FirstStamps(stored', s),
                FirstStamps(pending, s) \cup FirstStamps(stored, s) \cup FirstStamps(b, s))
    BY <1>6, <2>3 DEF Coarser
  <2>5. FirstStamps(pending', s) \cup FirstStamps(stored', s) \cup FirstStamps(flush'[t].batch, s)
        = FirstStamps(pending, s) \cup FirstStamps(stored', s)
    BY <1>1, <2>1
  <2>6. Buffer!CallsOf(pending, s) + Buffer!CallsOf(stored', s) + 0
        = Buffer!CallsOf(pending, s) + Buffer!CallsOf(stored, s) + Buffer!CallsOf(b, s)
    BY <1>6, <2>2
  <2> QED
    BY <1>1, <2>1, <2>4, <2>5, <2>6, Zenon DEF b
<1>9. /\ Buffer!Calls(pending) \in Nat /\ Buffer!Calls(stored) \in Nat /\ Buffer!Calls(b) \in Nat
      /\ Buffer!Calls(stored') = Buffer!Calls(b) + Buffer!Calls(stored)
      /\ Buffer!Calls(flush'[t].batch) = 0 /\ flush'[t].obs = 0 /\ flush'[t].evs = 0
  BY <1>1, <1>3, <1>4, CallsNat, CallsFolded, CallsEmpty, IdleHolds, Zenon
<1>10. Buffer!Calls(pending') + droppedObs' + Buffer!Calls(stored') + storedDrops'.obs
         + Buffer!Calls(flush'[t].batch) + flush'[t].obs
       = Buffer!Calls(pending) + droppedObs + Buffer!Calls(stored) + storedDrops.obs
         + Buffer!Calls(b) + flush[t].obs
  BY <1>1, <1>4, <1>5, <1>9
<1>11. droppedEvents' + storedDrops'.evs + flush'[t].evs
       = droppedEvents + storedDrops.evs + flush[t].evs
  BY <1>1, <1>4, <1>5, <1>9
<1>12. kept' = kept /\ refused' = refused /\ events' = events /\ shed \subseteq shed'
  BY <1>1
<1> QED
  BY <1>3, <1>7, <1>8, <1>10, <1>11, <1>12, ThreadStep, Zenon DEF b

\* merge_best_effort refuses: the thread still holds its batch.
LEMMA RefuseStep ==
    ASSUME TelemetryInv, NEW t \in Flushers, Buffer!Refuse(t)
    PROVE  TelemetryInv'
<1> DEFINE b == flush[t].batch
           m == flush[t].obs
           n == flush[t].evs
           new == [pc |-> "restore", batch |-> b, obs |-> m, evs |-> n]
<1>1. /\ flush' = [flush EXCEPT ![t].pc = "restore"]
      /\ UNCHANGED <<pending, droppedObs, droppedEvents, stored, storedDrops, clock, kept,
                     refused, events, shed>>
  BY DEF Buffer!Refuse, Buffer!bufferVars, Buffer!storeVars, Buffer!historyVars
<1>2. TelemetryTypes
  BY DEF TelemetryInv
<1>3. flush[t] = [pc |-> flush[t].pc, batch |-> b, obs |-> m, evs |-> n]
  BY <1>2 DEF TelemetryTypes
<1>4. IsBatch(b) /\ m \in Nat /\ n \in Nat
  BY <1>2 DEF TelemetryTypes
<1>5. [flush[t] EXCEPT !.pc = "restore"] = new
  <2> DEFINE pc == flush[t].pc
  <2>1. flush[t] = [pc |-> pc, batch |-> b, obs |-> m, evs |-> n]
    BY <1>3
  <2> HIDE DEF b, m, n, pc
  <2> QED
    BY <2>1
<1>6. flush' = [flush EXCEPT ![t] = new]
  BY <1>1, <1>5, Zenon
<1>7. /\ new.pc = "restore" /\ new.batch = b /\ new.obs = m /\ new.evs = n
      /\ new = [pc |-> new.pc, batch |-> new.batch, obs |-> new.obs, evs |-> new.evs]
  <2> HIDE DEF b, m, n
  <2> QED
    OBVIOUS
<1> HIDE DEF new
<1>8. flush'[t] = new /\ \A u \in Flushers : u # t => flush'[u] = flush[u]
  BY <1>2, <1>6 DEF TelemetryTypes
<1>9. IsBatch(new.batch) /\ new.obs \in Nat /\ new.evs \in Nat
  BY <1>4, <1>7
<1>10. TelemetryTypes'
  BY <1>1, <1>2, <1>6, <1>7, <1>9, FlushTypes DEF TelemetryTypes
<1>11. flush'[t].batch = flush[t].batch /\ flush'[t].obs = flush[t].obs
       /\ flush'[t].evs = flush[t].evs
  BY <1>7, <1>8
<1>12. \A s : Coarser(FirstStamps(pending', s) \cup FirstStamps(stored', s) \cup FirstStamps(flush'[t].batch, s),
                      FirstStamps(pending, s) \cup FirstStamps(stored, s) \cup FirstStamps(flush[t].batch, s))
  <2> SUFFICES ASSUME NEW s
               PROVE  Coarser(FirstStamps(pending', s) \cup FirstStamps(stored', s) \cup FirstStamps(flush'[t].batch, s),
                              FirstStamps(pending, s) \cup FirstStamps(stored, s) \cup FirstStamps(flush[t].batch, s))
    OBVIOUS
  <2>1. FirstStamps(pending, s) \subseteq Nat /\ FirstStamps(stored, s) \subseteq Nat /\ FirstStamps(b, s) \subseteq Nat
    BY <1>2, <1>4, FirstsNat DEF TelemetryTypes
  <2> QED
    BY <1>1, <1>11, <2>1, CoarserSelf
<1> QED
  BY <1>1, <1>8, <1>10, <1>11, <1>12, ThreadStep, Zenon

\* Part of a batch is a batch; the two parts amount to the whole.
LEMMA BatchParts ==
    ASSUME NEW b, IsBatch(b), NEW missed \in SUBSET (DOMAIN b)
    PROVE  LET back == Buffer!Restrict(b, DOMAIN b \ missed)
               gone == Buffer!Restrict(b, missed)
           IN  /\ IsBatch(back) /\ IsBatch(gone)
               /\ Buffer!Calls(b) = Buffer!Calls(back) + Buffer!Calls(gone)
               /\ \A s : s \notin missed => /\ Buffer!CallsOf(back, s) = Buffer!CallsOf(b, s)
                                          /\ FirstStamps(back, s) = FirstStamps(b, s)
<1> DEFINE back == Buffer!Restrict(b, DOMAIN b \ missed)
           gone == Buffer!Restrict(b, missed)
<1>1. /\ DOMAIN back = DOMAIN b \ missed /\ \A s \in DOMAIN b \ missed : back[s] = b[s]
      /\ back = [s \in DOMAIN back |-> back[s]]
  BY DEF Buffer!Restrict
<1>2. /\ DOMAIN gone = missed /\ \A s \in missed : gone[s] = b[s]
      /\ gone = [s \in DOMAIN gone |-> gone[s]]
  BY DEF Buffer!Restrict
<1> HIDE DEF back, gone
<1>3. IsBatch(back) /\ IsBatch(gone)
  BY <1>1, <1>2 DEF IsBatch
<1>4. \A s : s \notin missed => /\ Buffer!CallsOf(back, s) = Buffer!CallsOf(b, s)
                              /\ FirstStamps(back, s) = FirstStamps(b, s)
  BY <1>1 DEF Buffer!CallsOf, FirstStamps
<1>5. ASSUME NEW s \in Surfaces
      PROVE  Buffer!CallsOf(b, s) = Buffer!CallsOf(back, s) + Buffer!CallsOf(gone, s)
  <2>1. Buffer!CallsOf(b, s) \in Nat
    BY CallsOfNat
  <2>2. CASE s \in missed
    <3>1. Buffer!CallsOf(back, s) = 0 /\ Buffer!CallsOf(gone, s) = Buffer!CallsOf(b, s)
      BY <1>1, <1>2, <2>2 DEF Buffer!CallsOf
    <3> QED
      BY <2>1, <3>1
  <2>3. CASE s \notin missed
    <3>1. Buffer!CallsOf(gone, s) = 0 /\ Buffer!CallsOf(back, s) = Buffer!CallsOf(b, s)
      BY <1>1, <1>2, <1>4, <2>3 DEF Buffer!CallsOf
    <3> QED
      BY <2>1, <3>1
  <2> QED
    BY <2>2, <2>3
<1>6. Buffer!Calls(b) = Buffer!Calls(back) + Buffer!Calls(gone)
  BY <1>3, <1>5, CallsSplit
<1> QED
  BY <1>3, <1>4, <1>6 DEF back, gone

\* _restore folds back what fits and counts what does not as dropped.
LEMMA RestoreStep ==
    ASSUME TelemetryInv, NEW t \in Flushers, Buffer!Restore(t)
    PROVE  TelemetryInv'
<1> DEFINE b == flush[t].batch
<1>1. PICK drop \in SUBSET (DOMAIN b) :
        /\ pending' = Buffer!Fold(Buffer!Restrict(b, DOMAIN b \ drop), pending)
        /\ droppedObs' = droppedObs + flush[t].obs + Buffer!Calls(Buffer!Restrict(b, drop))
        /\ shed' = shed \cup drop
  BY Zenon DEF Buffer!Restore
<1>2. /\ droppedEvents' = droppedEvents + flush[t].evs
      /\ flush' = [flush EXCEPT ![t] = Buffer!Idle]
      /\ UNCHANGED <<stored, storedDrops, clock, kept, refused, events>>
  BY DEF Buffer!Restore, Buffer!storeVars
<1>3. TelemetryTypes
  BY DEF TelemetryInv
<1>4. flush'[t] = Buffer!Idle /\ \A u \in Flushers : u # t => flush'[u] = flush[u]
  BY <1>2, <1>3 DEF TelemetryTypes
<1>5. /\ IsBatch(b) /\ flush[t].obs \in Nat /\ flush[t].evs \in Nat
      /\ IsBatch(stored) /\ IsBatch(pending)
      /\ storedDrops.obs \in Nat /\ storedDrops.evs \in Nat /\ droppedObs \in Nat
      /\ droppedEvents \in Nat
  BY <1>3 DEF TelemetryTypes
<1> HIDE DEF b
<1> DEFINE back == Buffer!Restrict(b, DOMAIN b \ drop)
           gone == Buffer!Restrict(b, drop)
<1>6. /\ IsBatch(back) /\ IsBatch(gone) /\ Buffer!Calls(b) = Buffer!Calls(back) + Buffer!Calls(gone)
      /\ \A s : s \notin drop => /\ Buffer!CallsOf(back, s) = Buffer!CallsOf(b, s)
                                 /\ FirstStamps(back, s) = FirstStamps(b, s)
  BY <1>5, BatchParts, Zenon
<1>7. pending' = Buffer!Fold(back, pending)
      /\ droppedObs' = droppedObs + flush[t].obs + Buffer!Calls(gone)
  BY <1>1
<1> HIDE DEF back, gone
<1>8. /\ IsBatch(pending')
      /\ \A s : /\ Buffer!CallsOf(pending', s) = Buffer!CallsOf(back, s) + Buffer!CallsOf(pending, s)
                /\ FirstStamps(pending', s) \subseteq FirstStamps(back, s) \cup FirstStamps(pending, s)
                /\ \A y \in FirstStamps(back, s) \cup FirstStamps(pending, s) :
                      \E x \in FirstStamps(pending', s) : x <= y
  <2>1. IsBatch(back) /\ IsBatch(pending) /\ pending' = Buffer!Fold(back, pending)
    BY <1>5, <1>6, <1>7
  <2> QED
    BY <2>1, FoldedBatch, Zenon
<1>9. /\ Buffer!Calls(pending) \in Nat /\ Buffer!Calls(stored) \in Nat /\ Buffer!Calls(b) \in Nat
      /\ Buffer!Calls(back) \in Nat /\ Buffer!Calls(gone) \in Nat
      /\ Buffer!Calls(pending') = Buffer!Calls(back) + Buffer!Calls(pending)
      /\ Buffer!Calls(flush'[t].batch) = 0 /\ flush'[t].obs = 0 /\ flush'[t].evs = 0
  BY <1>4, <1>5, <1>6, <1>7, CallsNat, CallsFolded, CallsEmpty, IdleHolds, Zenon
<1>10. droppedObs' \in Nat /\ droppedEvents' \in Nat
  BY <1>2, <1>5, <1>7, <1>9
<1>11. TelemetryTypes'
  BY <1>2, <1>3, <1>8, <1>10, FlushTypes, IdleHolds DEF TelemetryTypes
<1>12. ASSUME NEW s \in Surfaces \ shed'
      PROVE  /\ Buffer!CallsOf(pending', s) + Buffer!CallsOf(stored', s)
                  + Buffer!CallsOf(flush'[t].batch, s)
                = Buffer!CallsOf(pending, s) + Buffer!CallsOf(stored, s)
                  + Buffer!CallsOf(flush[t].batch, s)
             /\ Coarser(FirstStamps(pending', s) \cup FirstStamps(stored', s) \cup FirstStamps(flush'[t].batch, s),
                        FirstStamps(pending, s) \cup FirstStamps(stored, s) \cup FirstStamps(flush[t].batch, s))
  <2>1. /\ Buffer!CallsOf(flush'[t].batch, s) = 0 /\ FirstStamps(flush'[t].batch, s) = {}
    BY <1>4, EmptyBatch, IdleHolds
  <2>2. /\ Buffer!CallsOf(pending, s) \in Nat /\ Buffer!CallsOf(stored, s) \in Nat
        /\ Buffer!CallsOf(b, s) \in Nat
    BY <1>5, CallsOfNat
  <2>3. FirstStamps(stored, s) \subseteq Nat
    BY <1>5, FirstsNat
  <2>4. Buffer!CallsOf(back, s) = Buffer!CallsOf(b, s) /\ FirstStamps(back, s) = FirstStamps(b, s)
    BY <1>1, <1>6
  <2>5. Coarser(FirstStamps(pending', s) \cup FirstStamps(stored, s),
                FirstStamps(pending, s) \cup FirstStamps(stored, s) \cup FirstStamps(b, s))
    BY <1>8, <2>3, <2>4 DEF Coarser
  <2>6. FirstStamps(pending', s) \cup FirstStamps(stored', s) \cup FirstStamps(flush'[t].batch, s)
        = FirstStamps(pending', s) \cup FirstStamps(stored, s)
    BY <1>2, <2>1
  <2>7. Buffer!CallsOf(pending', s) + Buffer!CallsOf(stored, s) + 0
        = Buffer!CallsOf(pending, s) + Buffer!CallsOf(stored, s) + Buffer!CallsOf(b, s)
    BY <1>8, <2>2, <2>4
  <2> QED
    BY <1>2, <2>1, <2>5, <2>6, <2>7, Zenon DEF b
<1>13. Buffer!Calls(pending') + droppedObs' + Buffer!Calls(stored') + storedDrops'.obs
         + Buffer!Calls(flush'[t].batch) + flush'[t].obs
       = Buffer!Calls(pending) + droppedObs + Buffer!Calls(stored) + storedDrops.obs
         + Buffer!Calls(b) + flush[t].obs
  BY <1>2, <1>5, <1>6, <1>7, <1>9
<1>14. droppedEvents' + storedDrops'.evs + flush'[t].evs
       = droppedEvents + storedDrops.evs + flush[t].evs
  BY <1>2, <1>5, <1>9
<1>15. kept' = kept /\ refused' = refused /\ events' = events /\ shed \subseteq shed'
  BY <1>1, <1>2
<1> QED
  BY <1>4, <1>11, <1>12, <1>13, <1>14, <1>15, ThreadStep DEF b

\* add merges an observation into the buffer, and into what is kept.
LEMMA AddStep ==
    ASSUME TelemetryInv, NEW s \in Surfaces, Buffer!Add(s)
    PROVE  TelemetryInv'
<1> DEFINE one == [x \in {s} |-> [calls |-> 1, first |-> clock + 1]]
<1>1. /\ clock' = clock + 1
      /\ \/ /\ droppedObs' = droppedObs + 1 /\ refused' = refused + 1
            /\ pending' = pending /\ kept' = kept
         \/ /\ pending' = Buffer!Fold(one, pending) /\ kept' = Buffer!Fold(one, kept)
            /\ droppedObs' = droppedObs /\ refused' = refused
      /\ UNCHANGED <<droppedEvents, flush, stored, storedDrops, events, shed>>
  BY DEF Buffer!Add, Buffer!storeVars
<1>2. TelemetryTypes
  BY DEF TelemetryInv
<1>3. /\ clock \in Nat /\ clock + 1 \in Nat /\ droppedObs \in Nat /\ refused \in Nat
      /\ IsBatch(pending) /\ IsBatch(kept) /\ IsBatch(stored) /\ storedDrops.obs \in Nat
  BY <1>2 DEF TelemetryTypes
<1>4. /\ IsBatch(one) /\ Buffer!Calls(one) = 1
      /\ \A u : Buffer!CallsOf(one, u) \in Nat /\ FirstStamps(one, u) \subseteq Nat
  BY <1>3, OneObservation, CallsOfNat, FirstsNat, Zenon
<1> HIDE DEF one
<1>5. Buffer!EventsEverywhere' = Buffer!EventsEverywhere
  BY <1>1 DEF Buffer!EventsEverywhere
<1> DEFINE r == Buffer!SumFunction([t \in Flushers |-> Buffer!Calls(flush[t].batch) + flush[t].obs])
<1>6. r \in Nat
  <2> DEFINE a == [t \in Flushers |-> Buffer!Calls(flush[t].batch) + flush[t].obs]
  <2>1. a \in [Flushers -> Nat]
    BY <1>2, FlightNat
  <2>2. Buffer!SumFunction(a) = Total(a, Flushers)
    <3> HIDE DEF a
    <3> QED
      BY <2>1, SumIsTotal
  <2> HIDE DEF a
  <2>3. Total(a, Flushers) \in Nat
    BY <2>1, TotalNat, TelemetryAssumption
  <2> QED
    BY <2>2, <2>3 DEF a
<1>7. /\ Buffer!ObservationsEverywhere = Buffer!Calls(pending) + droppedObs + Buffer!Calls(stored)
                                          + storedDrops.obs + r
      /\ Buffer!ObservationsEverywhere' = Buffer!Calls(pending') + droppedObs'
                                           + Buffer!Calls(stored) + storedDrops.obs + r
  BY <1>1 DEF Buffer!ObservationsEverywhere
<1> HIDE DEF r
<1>8. Buffer!Calls(pending) \in Nat /\ Buffer!Calls(stored) \in Nat /\ Buffer!Calls(kept) \in Nat
  BY <1>3, CallsNat, Zenon
<1>9. Buffer!ObservationsEverywhere = Buffer!Calls(kept) + refused
      /\ Buffer!EventsEverywhere = events /\ \A u \in Surfaces \ shed : KeptWhole(u)
  BY DEF TelemetryInv
<1>10. CASE /\ droppedObs' = droppedObs + 1 /\ refused' = refused + 1
            /\ pending' = pending /\ kept' = kept
  <2>1. TelemetryTypes'
    BY <1>1, <1>2, <1>3, <1>10 DEF TelemetryTypes
  <2>2. \A u \in Surfaces \ shed' : KeptWhole(u)'
    BY <1>1, <1>9, <1>10, Zenon DEF KeptWhole, Buffer!CallsEverywhere, Buffer!StampsEverywhere
  <2>3. Buffer!ObservationsEverywhere' = Buffer!Calls(kept') + refused'
    BY <1>3, <1>6, <1>7, <1>8, <1>9, <1>10
  <2> QED
    BY <1>1, <1>5, <1>9, <2>1, <2>2, <2>3 DEF TelemetryInv
<1>11. CASE /\ pending' = Buffer!Fold(one, pending) /\ kept' = Buffer!Fold(one, kept)
            /\ droppedObs' = droppedObs /\ refused' = refused
  <2>1. /\ IsBatch(pending')
        /\ \A u : /\ Buffer!CallsOf(pending', u) = Buffer!CallsOf(one, u) + Buffer!CallsOf(pending, u)
                  /\ FirstStamps(pending', u) \subseteq FirstStamps(one, u) \cup FirstStamps(pending, u)
                  /\ \A y \in FirstStamps(one, u) \cup FirstStamps(pending, u) :
                        \E x \in FirstStamps(pending', u) : x <= y
    BY <1>3, <1>4, <1>11, FoldedBatch, Zenon
  <2>2. /\ IsBatch(kept')
        /\ \A u : /\ Buffer!CallsOf(kept', u) = Buffer!CallsOf(one, u) + Buffer!CallsOf(kept, u)
                  /\ FirstStamps(kept', u) \subseteq FirstStamps(one, u) \cup FirstStamps(kept, u)
                  /\ \A y \in FirstStamps(one, u) \cup FirstStamps(kept, u) :
                        \E x \in FirstStamps(kept', u) : x <= y
    BY <1>3, <1>4, <1>11, FoldedBatch, Zenon
  <2>3. TelemetryTypes'
    BY <1>1, <1>2, <1>3, <1>11, <2>1, <2>2 DEF TelemetryTypes
  <2>4. /\ Buffer!Calls(pending') = 1 + Buffer!Calls(pending)
        /\ Buffer!Calls(kept') = 1 + Buffer!Calls(kept)
    BY <1>3, <1>4, <1>11, CallsFolded
  <2>5. Buffer!ObservationsEverywhere' = Buffer!Calls(kept') + refused'
    BY <1>3, <1>6, <1>7, <1>8, <1>9, <1>11, <2>4
  <2>6. ASSUME NEW u \in Surfaces \ shed' PROVE KeptWhole(u)'
    <3>1. KeptWhole(u)
      BY <1>1, <1>9
    <3> DEFINE g == Buffer!SumFunction([t \in Flushers |-> Buffer!CallsOf(flush[t].batch, u)])
               S == Buffer!StampsEverywhere(u)
               T == Buffer!StampsEverywhere(u)'
    <3>2. g \in Nat
      <4> DEFINE a == [t \in Flushers |-> Buffer!CallsOf(flush[t].batch, u)]
      <4>1. a \in [Flushers -> Nat]
        BY <1>2, FlightNat
      <4>2. Buffer!SumFunction(a) = Total(a, Flushers)
        <5> HIDE DEF a
        <5> QED
          BY <4>1, SumIsTotal
      <4> HIDE DEF a
      <4>3. Total(a, Flushers) \in Nat
        BY <4>1, TotalNat, TelemetryAssumption
      <4> QED
        BY <4>2, <4>3 DEF a
    <3>3. /\ Buffer!CallsEverywhere(u) = Buffer!CallsOf(pending, u) + Buffer!CallsOf(stored, u) + g
          /\ Buffer!CallsEverywhere(u)' = Buffer!CallsOf(pending', u) + Buffer!CallsOf(stored, u) + g
      BY <1>1 DEF Buffer!CallsEverywhere
    <3> HIDE DEF g
    <3>4. /\ Buffer!CallsOf(pending, u) \in Nat /\ Buffer!CallsOf(stored, u) \in Nat
          /\ Buffer!CallsOf(kept, u) \in Nat /\ Buffer!CallsOf(one, u) \in Nat
      BY <1>3, <1>4, CallsOfNat
    <3>5. Buffer!CallsOf(kept', u) = Buffer!CallsEverywhere(u)'
      BY <2>1, <2>2, <3>1, <3>2, <3>3, <3>4 DEF KeptWhole
    <3>6. /\ S \subseteq Nat
          /\ \A x : x \in S <=> \/ x \in FirstStamps(pending, u) \/ x \in FirstStamps(stored, u)
                                \/ \E t \in Flushers : x \in FirstStamps(flush[t].batch, u)
      BY <1>2, StampsAre DEF StampsPlaced
    <3>7. /\ T \subseteq Nat
          /\ \A x : x \in T <=> \/ x \in FirstStamps(pending', u) \/ x \in FirstStamps(stored, u)
                                \/ \E t \in Flushers : x \in FirstStamps(flush[t].batch, u)
      <4>1. StampsPlaced'
        BY <2>3, StampsAre, PTL
      <4> QED
        BY <1>1, <4>1 DEF StampsPlaced
    <3>8. Coarser(FirstStamps(kept, u), S)
      BY <3>1 DEF KeptWhole
    <3> HIDE DEF S, T
    <3> DEFINE W == S \cup FirstStamps(one, u)
    <3>9. Coarser(FirstStamps(kept', u), W)
      <4>1. FirstStamps(kept', u) \subseteq W
        BY <2>2, <3>8 DEF Coarser
      <4>2. ASSUME NEW y \in W PROVE \E x \in FirstStamps(kept', u) : x <= y
        <5>1. CASE y \in FirstStamps(one, u)
          BY <2>2, <5>1
        <5>2. CASE y \in S
          <6>1. PICK z \in FirstStamps(kept, u) : z <= y
            BY <3>8, <5>2 DEF Coarser
          <6>2. PICK x \in FirstStamps(kept', u) : x <= z
            BY <2>2
          <6>3. x \in Nat /\ z \in Nat /\ y \in Nat
            BY <1>3, <2>2, <3>6, <5>2, FirstsNat
          <6>4. x <= y
            BY <6>1, <6>2, <6>3
          <6> QED
            BY <6>4
        <5> QED
          BY <5>1, <5>2
      <4> QED
        BY <4>1, <4>2 DEF Coarser
    <3>10. Coarser(T, W)
      <4>1. T \subseteq W
        BY <2>1, <3>6, <3>7
      <4>2. ASSUME NEW y \in W PROVE \E x \in T : x <= y
        <5>1. CASE y \in FirstStamps(one, u) \cup FirstStamps(pending, u)
          BY <2>1, <3>7, <5>1, Zenon
        <5>2. CASE y \notin FirstStamps(one, u) \cup FirstStamps(pending, u)
          <6>1. y \in T /\ y \in Nat
            BY <3>6, <3>7, <5>2
          <6>2. y <= y
            BY <6>1
          <6> QED
            BY <6>1, <6>2
        <5> QED
          BY <5>1, <5>2
      <4> QED
        BY <4>1, <4>2 DEF Coarser
    <3>11. W \in SUBSET Nat
      BY <1>4, <3>6, Zenon
    <3> HIDE DEF W
    <3>12. Coarser(FirstStamps(kept', u), T)
      BY <2>2, <3>9, <3>10, <3>11, FirstSurvives
    <3> QED
      BY <3>5, <3>12 DEF KeptWhole, T
  <2> QED
    BY <1>1, <1>5, <1>9, <2>3, <2>5, <2>6 DEF TelemetryInv
<1> QED
  BY <1>1, <1>10, <1>11

\* A sum over the threads is a number.
LEMMA FlightSum ==
    ASSUME NEW a \in [Flushers -> Nat]
    PROVE  Buffer!SumFunction(a) \in Nat
<1>1. Buffer!SumFunction(a) = Total(a, Flushers)
  BY SumIsTotal
<1>2. Total(a, Flushers) \in Nat
  BY TotalNat, TelemetryAssumption
<1> QED
  BY <1>1, <1>2

\* add_dropped_events counts an event.
LEMMA AddEventsStep ==
    ASSUME TelemetryInv, Buffer!AddDroppedEvents
    PROVE  TelemetryInv'
<1>1. /\ events' = events + 1 /\ droppedEvents' = droppedEvents + 1
      /\ UNCHANGED <<pending, droppedObs, flush, stored, storedDrops, clock, kept, refused, shed>>
  BY DEF Buffer!AddDroppedEvents, Buffer!storeVars
<1>2. TelemetryTypes
  BY DEF TelemetryInv
<1>3. events \in Nat /\ droppedEvents \in Nat /\ storedDrops.evs \in Nat
  BY <1>2 DEF TelemetryTypes
<1>4. TelemetryTypes'
  BY <1>1, <1>2, <1>3 DEF TelemetryTypes
<1>5. \A u \in Surfaces \ shed' : KeptWhole(u)'
  BY <1>1, Zenon DEF TelemetryInv, KeptWhole, Buffer!CallsEverywhere, Buffer!StampsEverywhere
<1>6. Buffer!ObservationsEverywhere' = Buffer!Calls(kept') + refused'
  BY <1>1 DEF TelemetryInv, Buffer!ObservationsEverywhere
<1>7. Buffer!EventsEverywhere' = events'
  <2> DEFINE r == Buffer!SumFunction([t \in Flushers |-> flush[t].evs])
  <2>1. r \in Nat
    BY <1>2, FlightNat, FlightSum
  <2>2. /\ droppedEvents + storedDrops.evs + r = events
        /\ Buffer!EventsEverywhere' = droppedEvents' + storedDrops.evs + r
    BY <1>1 DEF TelemetryInv, Buffer!EventsEverywhere
  <2> HIDE DEF r
  <2> QED
    BY <1>1, <1>3, <2>1, <2>2
<1> QED
  BY <1>4, <1>5, <1>6, <1>7 DEF TelemetryInv

\* With an empty buffer and idle threads, what is kept is what is in the rows.
LEMMA RowsAlone ==
    ASSUME pending = Buffer!Empty, droppedObs = 0, droppedEvents = 0,
           flush = [t \in Flushers |-> Buffer!Idle],
           IsBatch(stored), kept = stored, storedDrops \in [obs : Nat, evs : Nat], clock \in Nat,
           refused = storedDrops.obs, events = storedDrops.evs
    PROVE  TelemetryInv
<1>1. TelemetryTypes
  <2>1. \A t \in Flushers : flush[t] = Buffer!Idle
    OBVIOUS
  <2>2. IsBatch(Buffer!Empty)
    BY EmptyBatch
  <2>3. \A t \in Flushers :
          /\ flush[t] = [pc |-> flush[t].pc, batch |-> flush[t].batch,
                         obs |-> flush[t].obs, evs |-> flush[t].evs]
          /\ IsBatch(flush[t].batch) /\ flush[t].obs \in Nat /\ flush[t].evs \in Nat
          /\ flush[t].pc = "idle" => flush[t] = Buffer!Idle
    BY <2>1, IdleHolds
  <2>4. storedDrops.obs \in Nat /\ storedDrops.evs \in Nat /\ DOMAIN flush = Flushers
    OBVIOUS
  <2> QED
    BY <2>2, <2>3, <2>4 DEF TelemetryTypes
<1>2. \A t \in Flushers : flush[t].batch = Buffer!Empty /\ flush[t].obs = 0 /\ flush[t].evs = 0
  BY IdleHolds
<1>3. ASSUME NEW s PROVE KeptWhole(s)
  <2> DEFINE a == [t \in Flushers |-> Buffer!CallsOf(flush[t].batch, s)]
  <2>1. \A t \in Flushers : a[t] = 0
    BY <1>2, EmptyBatch
  <2>2. a \in [Flushers -> Nat]
    BY <1>1, FlightNat
  <2>3. Buffer!CallsEverywhere(s) = Buffer!CallsOf(pending, s) + Buffer!CallsOf(stored, s)
                                     + Buffer!SumFunction(a)
    BY DEF Buffer!CallsEverywhere
  <2> HIDE DEF a
  <2>4. Buffer!SumFunction(a) = 0
    BY <2>1, <2>2, FlightNone
  <2>5. Buffer!CallsOf(pending, s) = 0 /\ Buffer!CallsOf(stored, s) \in Nat
    BY EmptyBatch, CallsOfNat
  <2>6. Buffer!CallsOf(kept, s) = Buffer!CallsEverywhere(s)
    BY <2>3, <2>4, <2>5
  <2>7. \A x : x \in Buffer!StampsEverywhere(s) <=> x \in FirstStamps(stored, s)
    BY <1>1, <1>2, EmptyBatch, StampsAre DEF StampsPlaced
  <2>8. FirstStamps(stored, s) \subseteq Nat
    BY FirstsNat
  <2>9. Coarser(FirstStamps(kept, s), Buffer!StampsEverywhere(s))
    BY <2>7, <2>8, CoarserSelf
  <2> QED
    BY <2>6, <2>9 DEF KeptWhole
<1>4. Buffer!ObservationsEverywhere = Buffer!Calls(kept) + refused
  <2> DEFINE a == [t \in Flushers |-> Buffer!Calls(flush[t].batch) + flush[t].obs]
  <2>1. \A t \in Flushers : a[t] = 0
    BY <1>2, CallsEmpty
  <2>2. a \in [Flushers -> Nat]
    BY <2>1
  <2>3. Buffer!ObservationsEverywhere = Buffer!Calls(pending) + droppedObs + Buffer!Calls(stored)
                                         + storedDrops.obs + Buffer!SumFunction(a)
    BY DEF Buffer!ObservationsEverywhere
  <2> HIDE DEF a
  <2>4. Buffer!SumFunction(a) = 0
    BY <2>1, <2>2, FlightNone
  <2>5. Buffer!Calls(pending) = 0 /\ Buffer!Calls(stored) \in Nat /\ storedDrops.obs \in Nat
    BY CallsEmpty, CallsNat, Zenon
  <2> QED
    BY <2>3, <2>4, <2>5
<1>5. Buffer!EventsEverywhere = events
  <2> DEFINE a == [t \in Flushers |-> flush[t].evs]
  <2>1. \A t \in Flushers : a[t] = 0
    BY <1>2
  <2>2. a \in [Flushers -> Nat]
    BY <2>1
  <2>3. Buffer!EventsEverywhere = droppedEvents + storedDrops.evs + Buffer!SumFunction(a)
    BY DEF Buffer!EventsEverywhere
  <2> HIDE DEF a
  <2>4. Buffer!SumFunction(a) = 0
    BY <2>1, <2>2, FlightNone
  <2>5. storedDrops.evs \in Nat
    OBVIOUS
  <2> QED
    BY <2>3, <2>4, <2>5
<1> QED
  BY <1>1, <1>3, <1>4, <1>5 DEF TelemetryInv

\* What the lemma above asks for.
OnlyRows ==
    /\ pending = Buffer!Empty /\ droppedObs = 0 /\ droppedEvents = 0
    /\ flush = [t \in Flushers |-> Buffer!Idle]
    /\ IsBatch(stored) /\ kept = stored /\ storedDrops \in [obs : Nat, evs : Nat] /\ clock \in Nat
    /\ refused = storedDrops.obs /\ events = storedDrops.evs

\* As an implication, so that it can be used of the next state.
LEMMA OnlyRowsKept == OnlyRows => TelemetryInv
  BY RowsAlone DEF OnlyRows

\* Initially there is nothing anywhere.
LEMMA TelemetryInit == Buffer!Init => TelemetryInv
<1> SUFFICES ASSUME Buffer!Init PROVE OnlyRows
  BY OnlyRowsKept
<1>1. IsBatch(Buffer!Empty)
  BY EmptyBatch
<1> QED
  BY <1>1 DEF Buffer!Init, OnlyRows

\* A killed process leaves the rows.
LEMMA KillStep ==
    ASSUME TelemetryInv, Buffer!Kill
    PROVE  TelemetryInv'
<1>1. OnlyRows'
  BY DEF Buffer!Kill, Buffer!storeVars, OnlyRows, TelemetryInv, TelemetryTypes
<1> QED
  BY <1>1, OnlyRowsKept, PTL

\* The invariant says that everything is accounted for.
LEMMA TelemetryInvImplies == TelemetryInv => Accounted
<1> SUFFICES ASSUME TelemetryInv PROVE Accounted
  OBVIOUS
<1>1. ASSUME NEW s \in Surfaces \ shed
      PROVE  /\ s \in DOMAIN kept <=> Buffer!StampsEverywhere(s) # {}
             /\ s \in DOMAIN kept =>
                  kept[s] = [calls |-> Buffer!CallsEverywhere(s),
                             first |-> Buffer!Min(Buffer!StampsEverywhere(s))]
  <2> DEFINE S == Buffer!StampsEverywhere(s)
  <2>1. KeptWhole(s) /\ IsBatch(kept) /\ S \subseteq Nat
    BY StampsAre DEF TelemetryInv, TelemetryTypes, StampsPlaced
  <2>2. Coarser(FirstStamps(kept, s), S) /\ Buffer!CallsOf(kept, s) = Buffer!CallsEverywhere(s)
    BY <2>1 DEF KeptWhole
  <2> HIDE DEF S
  <2>3. s \in DOMAIN kept <=> S # {}
    BY <2>2 DEF Coarser, FirstStamps
  <2>4. ASSUME s \in DOMAIN kept
        PROVE  kept[s] = [calls |-> Buffer!CallsEverywhere(s), first |-> Buffer!Min(S)]
    <3> DEFINE x == kept[s].first
               n == kept[s].calls
    <3>1. x \in S /\ \A y \in S : x <= y
      BY <2>2, <2>4 DEF Coarser, FirstStamps
    <3>2. n = Buffer!CallsEverywhere(s)
      BY <2>2, <2>4 DEF Buffer!CallsOf
    <3>3. kept[s] \in Aggregates
      BY <2>1, <2>4 DEF IsBatch
    <3>4. kept[s] = [calls |-> n, first |-> x]
      BY <3>3 DEF Aggregates
    <3> HIDE DEF x, n
    <3>5. Buffer!Min(S) \in S /\ \A y \in S : Buffer!Min(S) <= y
      <4>1. \E z \in S : \A y \in S : z <= y
        BY <3>1
      <4>2. Buffer!Min(S) = CHOOSE z \in S : \A y \in S : z <= y
        BY Zenon DEF Buffer!Min
      <4> QED
        BY <4>1, <4>2, Zenon
    <3>6. Buffer!Min(S) = x
      <4> DEFINE m == Buffer!Min(S)
      <4>1. m \in Nat /\ x \in Nat /\ m <= x /\ x <= m
        BY <2>1, <3>1, <3>5, Zenon
      <4> HIDE DEF m
      <4>2. m = x
        BY <4>1
      <4> QED
        BY <4>2 DEF m
    <3> QED
      BY <3>2, <3>4, <3>6
  <2> QED
    BY <2>3, <2>4 DEF S
<1> QED
  BY <1>1 DEF TelemetryInv, Accounted, Buffer!Accounted

\* No step of the buffer, of a flush or of the process breaks the invariant.
LEMMA TelemetryNext == TelemetryInv /\ Buffer!Next => TelemetryInv'
  BY AddStep, AddEventsStep, DrainStep, MergeStep, RefuseStep, RestoreStep, KillStep
     DEF Buffer!Next

\* Nothing of telemetry changes.
LEMMA TelemetryStutter == TelemetryInv /\ UNCHANGED telemetryVars => TelemetryInv'
<1> SUFFICES ASSUME TelemetryInv, UNCHANGED telemetryVars PROVE TelemetryInv'
  OBVIOUS
<1>1. UNCHANGED <<pending, droppedObs, droppedEvents, flush, stored, storedDrops, clock, kept,
                  refused, events, shed>>
  BY DEF telemetryVars
<1>2. TelemetryTypes'
  BY <1>1 DEF TelemetryInv, TelemetryTypes
<1>3. \A s : /\ Buffer!CallsEverywhere(s)' = Buffer!CallsEverywhere(s)
             /\ Buffer!StampsEverywhere(s)' = Buffer!StampsEverywhere(s)
  BY <1>1 DEF Buffer!CallsEverywhere, Buffer!StampsEverywhere
<1>4. \A s \in Surfaces \ shed' : KeptWhole(s)'
  BY <1>1, <1>3 DEF TelemetryInv, KeptWhole
<1>5. /\ Buffer!ObservationsEverywhere' = Buffer!ObservationsEverywhere
      /\ Buffer!EventsEverywhere' = Buffer!EventsEverywhere
  BY <1>1 DEF Buffer!ObservationsEverywhere, Buffer!EventsEverywhere
<1> QED
  BY <1>1, <1>2, <1>4, <1>5 DEF TelemetryInv

\* For any finite sets of surfaces and of flushing threads, any cap on the
\* buffer and any number of observations, events and kills: the rows, the
\* buffer and the batches in flight together hold exactly what add accepted,
\* each surface with its first stamp, and what found no room is in the drop
\* count (add, flush, _restore, merge_best_effort in telemetry/buffer.py and
\* telemetry/store.py).
THEOREM NothingMiscounted == Spec => []Accounted
<1>1. Init => TelemetryInv
  BY TelemetryInit DEF Init
<1>2. TelemetryInv /\ [Next]_vars => TelemetryInv'
  <2> SUFFICES ASSUME TelemetryInv, [Next]_vars PROVE TelemetryInv'
    OBVIOUS
  <2>1. Buffer!Next \/ UNCHANGED telemetryVars
    BY DEF Next, vars, telemetryVars
  <2> QED
    BY <2>1, TelemetryNext, TelemetryStutter
<1> QED
  BY <1>1, <1>2, TelemetryInvImplies, PTL DEF Spec

-----------------------------------------------------------------------------
(* Canonical workflows: what the steps compute. *)

\* Rows taken out of a list are a list of such rows.
LEMMA ChosenRows ==
    ASSUME NEW X, NEW s \in Seq(X), NEW keep
    PROVE  Workflow!RowsAt(s, keep) \in Seq(X)
  <1>1. Workflow!RowsAt(s, keep) = Chosen(s, keep)
    BY DEF Workflow!RowsAt, Chosen
  <1> QED
    BY <1>1, ChosenPlaces

\* An output: rows in a list, and read metadata.
IsOutput(o) == o = [items |-> o.items, meta |-> o.meta] /\ IsList(o.items)

\* What Output makes of a list is an output.
LEMMA OutputIs ==
    ASSUME NEW items, IsList(items), NEW meta
    PROVE  IsOutput(Workflow!Output(items, meta))
  <1> DEFINE o == Workflow!Output(items, meta)
  <1>1. o = [items |-> items, meta |-> meta]
    BY DEF Workflow!Output
  <1>2. o.items = items /\ o.meta = meta
    BY <1>1
  <1> HIDE DEF o
  <1>3. IsOutput(o)
    BY <1>1, <1>2 DEF IsOutput
  <1> QED
    BY <1>3 DEF o

\* A list whose rows are changed one by one is a list.
LEMMA ShiftedList ==
    ASSUME NEW s, IsList(s), NEW named
    PROVE  IsList(Workflow!Shifted(s, named))
  <1> DEFINE moved == Workflow!Shifted(s, named)
  <1>1. DOMAIN s = 1 .. Len(s) /\ Len(s) \in Nat
    BY DEF IsList
  <1>2. DOMAIN moved = 1 .. Len(s) /\ moved = [i \in 1 .. Len(s) |-> moved[i]]
    BY <1>1 DEF Workflow!Shifted
  <1> HIDE DEF moved
  <1>3. IsList(moved)
    BY <1>1, <1>2, ListOf
  <1> QED
    BY <1>3 DEF moved

\* The rows of a join are rows of its right side.
LEMMA JoinedRows ==
    ASSUME NEW l, IsOutput(l), NEW r, IsOutput(r), NEW named
    PROVE  IsOutput(Workflow!JoinOutput(l, r, named))
  <1> DEFINE n == Len(l.items)
             X == {r.items[i] : i \in 1 .. Len(r.items)}
             A == Seq(X)
             W(i) == Workflow!RowsAt(r.items, {k \in DOMAIN r.items : r.items[k].id = l.items[i].id})
             Plus(x, i) == x \o W(i)
             F == [x \in A |-> [i \in 1 .. n |-> Plus(x, i)]]
             id == [i \in 1 .. n |-> i]
             Body(g) == [i \in 0 .. Len(l.items) |-> IF i = 0 THEN <<>> ELSE Plus(g[i - 1], i)]
             f == CHOOSE g : g = Body(g)
  <1>1. r.items \in Seq(X) /\ n \in Nat
    BY ListIsSeq, Zenon DEF IsOutput, IsList
  <1>2. \A i \in 1 .. n : W(i) \in A
    <2> HIDE DEF X
    <2> QED
      BY <1>1, ChosenRows
  <1> HIDE DEF W, X
  <1>3. F \in [A -> [1 .. n -> A]]
    <2>1. \A x \in A, i \in 1 .. n : Plus(x, i) \in A
      BY <1>2
    <2> HIDE DEF A, Plus
    <2> QED
      BY <2>1
  <1>4. id \in [1 .. n -> 1 .. n] /\ <<>> \in A /\ \A i \in 1 .. n : id[i] = i
    OBVIOUS
  <1>5. PICK d : d \in [0 .. n -> A] /\ d[0] = <<>>
                 /\ \A i \in 1 .. n : d[i] = F[d[i - 1]][id[i]]
    <2> HIDE DEF A, F, n, id
    <2>1. \E d : Along(d, A, F, <<>>, n, id)
      BY <1>1, <1>3, <1>4, TakenAlong, Zenon
    <2> QED
      BY <2>1, Zenon DEF Along
  <1>6. \A i \in 1 .. n : d[i] = Plus(d[i - 1], i)
    <2> HIDE DEF A, n, id, Plus
    <2>1. \A i \in 1 .. n : d[i - 1] \in A /\ id[i] = i
      BY <1>1, <1>4, <1>5
    <2>2. \A i \in 1 .. n : F[d[i - 1]][i] = Plus(d[i - 1], i)
      BY <2>1
    <2> HIDE DEF F
    <2> QED
      BY <1>5, <2>1, <2>2
  <1>7. d = Body(d)
    <2> HIDE DEF Plus
    <2>1. \A i \in 0 .. n : d[i] = Body(d)[i]
      BY <1>5, <1>6
    <2> QED
      BY <2>1, <1>5, Zenon
  <1>8. f = Body(f)
    <2> HIDE DEF Plus
    <2> QED
      BY <1>7
  <1>9. Workflow!JoinOutput(l, r, named)
        = Workflow!Output(Workflow!Shifted(f[n], named), Workflow!MergeReadMetadata(l.meta, r.meta))
    BY DEF Workflow!JoinOutput, W
  <1> HIDE DEF f
  <1>10. f[0] = <<>> /\ \A i \in 1 .. n : f[i] = Plus(f[i - 1], i)
    <2> HIDE DEF Plus
    <2> QED
      BY <1>1, <1>8
  <1> DEFINE G == {i \in 0 .. n : f[i] \in A}
  <1>11. ASSUME NEW i \in 1 .. n, i - 1 \in G PROVE i \in G
    <2>1. f[i - 1] \in A /\ W(i) \in A /\ f[i] = Plus(f[i - 1], i)
      BY <1>2, <1>10, <1>11
    <2> HIDE DEF G
    <2>2. f[i] \in A
      BY <2>1
    <2> QED
      BY <2>2 DEF G
  <1>12. 0 \in G /\ n \in 0 .. n
    <2> HIDE DEF A
    <2> QED
      BY <1>1, <1>4, <1>10
  <1>13. n \in G
    <2> HIDE DEF G, n
    <2> QED
      BY <1>1, <1>11, <1>12, CountingUp, Zenon
  <1>14. IsList(f[n])
    <2>1. f[n] \in Seq(X)
      BY <1>13
    <2> QED
      BY <2>1, SeqIsList
  <1>15. IsList(Workflow!Shifted(f[n], named))
    BY <1>14, ShiftedList
  <1> QED
    BY <1>9, <1>15, OutputIs

\* What a query yields is an output.
LEMMA QueryRows ==
    ASSUME NEW g, IsFiniteSet(Workflow!Ids(g)), NEW limit \in Nat
    PROVE  IsOutput(Workflow!QueryOutput(g, limit))
  <1> DEFINE all == Workflow!Cardinality(Workflow!Ids(g))
             given == Workflow!Min({limit, all})
             found == Workflow!Ascending(Workflow!Ids(g))
             items == [i \in 1 .. given |-> [id |-> found[i], val |-> g.entities[found[i]]]]
             meta == IF given < all THEN "truncated" ELSE "complete"
             o == Workflow!QueryOutput(g, limit)
  <1>1. all \in Nat
    <2>1. all = Cardinality(Workflow!Ids(g))
      BY DEF Cardinality, Workflow!Cardinality
    <2> QED
      BY <2>1, FS_CardinalityType
  <1>2. given \in Nat
    <2> HIDE DEF all
    <2> DEFINE S == {limit, all}
    <2>1. \E z \in S : \A y \in S : z <= y
      BY <1>1
    <2>2. S \subseteq Nat /\ given = Workflow!Min(S)
      BY <1>1
    <2> HIDE DEF S, given
    <2>3. Workflow!Min(S) = CHOOSE z \in S : \A y \in S : z <= y
      BY Zenon DEF Workflow!Min
    <2>4. Workflow!Min(S) \in S
      BY <2>1, <2>3, Zenon
    <2> QED
      BY <2>2, <2>4, Zenon
  <1>3. o = Workflow!Output(items, meta)
    BY DEF Workflow!QueryOutput
  <1>4. IsList(items)
    <2> HIDE DEF given
    <2>1. DOMAIN items = 1 .. given /\ items = [i \in 1 .. given |-> items[i]]
      OBVIOUS
    <2> HIDE DEF items
    <2> QED
      BY <1>2, <2>1, ListOf
  <1> HIDE DEF items, meta, o, given, all
  <1>5. IsOutput(o)
    BY <1>3, <1>4, OutputIs
  <1> QED
    BY <1>5 DEF o

\* What the transforms yield are outputs.
LEMMA TransformRows ==
    ASSUME NEW o, IsOutput(o), NEW named
    PROVE  /\ IsOutput(Workflow!ShapeOutput(o, named))
           /\ IsOutput(Workflow!FilterOutput(o, named))
           /\ IsOutput(Workflow!MadeOutput(o, named))
  <1> DEFINE s == o.items
             shaped == [i \in DOMAIN s |-> [s[i] EXCEPT !.val = (@ + 1 + named) % 3]]
             X == {s[i] : i \in 1 .. Len(s)}
  <1>1. IsList(s)
    BY DEF IsOutput
  <1>2. IsList(shaped)
    <2> HIDE DEF s
    <2>1. DOMAIN s = 1 .. Len(s) /\ Len(s) \in Nat
      BY <1>1 DEF IsList
    <2>2. DOMAIN shaped = 1 .. Len(s) /\ shaped = [i \in 1 .. Len(s) |-> shaped[i]]
      BY <2>1
    <2> HIDE DEF shaped
    <2> QED
      BY <2>1, <2>2, ListOf
  <1>3. ASSUME NEW keep PROVE IsList(Workflow!RowsAt(s, keep))
    <2> HIDE DEF s
    <2>1. s \in Seq(X)
      BY <1>1, ListIsSeq
    <2> HIDE DEF X
    <2>2. Workflow!RowsAt(s, keep) \in Seq(X)
      BY <2>1, ChosenRows
    <2> QED
      BY <2>2, SeqIsList
  <1>4. Workflow!ShapeOutput(o, named) = Workflow!Output(shaped, o.meta)
    BY DEF Workflow!ShapeOutput
  <1>5. PICK a : Workflow!FilterOutput(o, named) = Workflow!Output(Workflow!RowsAt(s, a), o.meta)
    BY Zenon DEF Workflow!FilterOutput
  <1>6. PICK b : Workflow!MadeOutput(o, named)
                 = Workflow!Output(Workflow!Shifted(Workflow!RowsAt(s, b), named), Workflow!NoMeta)
    BY Zenon DEF Workflow!MadeOutput, Workflow!FirstWins
  <1> HIDE DEF s, shaped
  <1>7. IsList(Workflow!Shifted(Workflow!RowsAt(s, b), named))
    BY <1>3, ShiftedList
  <1> QED
    BY <1>2, <1>3, <1>4, <1>5, <1>6, <1>7, OutputIs

\* What a provider yields is an output.
LEMMA ProviderRows ==
    ASSUME NEW o, IsOutput(o), NEW listed \in BOOLEAN, NEW adds, IsList(adds)
    PROVE  IsOutput(Workflow!ProviderOutput(o, listed, adds))
  <1> DEFINE s == o.items
             given == [i \in DOMAIN s |-> [s[i] EXCEPT !.val = 2 - @]]
             items == given \o adds
             meta == IF listed THEN o.meta ELSE Workflow!NoMeta
  <1>1. IsList(s)
    BY DEF IsOutput
  <1>2. IsList(given)
    <2> HIDE DEF s
    <2>1. DOMAIN s = 1 .. Len(s) /\ Len(s) \in Nat
      BY <1>1 DEF IsList
    <2>2. DOMAIN given = 1 .. Len(s) /\ given = [i \in 1 .. Len(s) |-> given[i]]
      BY <2>1
    <2> HIDE DEF given
    <2> QED
      BY <2>1, <2>2, ListOf
  <1>3. Workflow!ProviderOutput(o, listed, adds) = Workflow!Output(items, meta)
    BY DEF Workflow!ProviderOutput
  <1> HIDE DEF s, given
  <1>4. IsList(items)
    BY <1>2, ListConcat
  <1> QED
    BY <1>3, <1>4, OutputIs

-----------------------------------------------------------------------------
(* Canonical workflows: sets applied to graphs. *)

IsTable(f) == f = [k \in DOMAIN f |-> f[k]]
IsGraph(g) ==
    /\ g = [entities |-> g.entities, edges |-> g.edges, pending |-> g.pending]
    /\ IsTable(g.entities) /\ IsTable(g.edges)
    /\ Workflow!Sound(g)

\* What the steps of a run may have made of its base: entities and edges were
\* added, and an edge that awaits review is as it was.
Grown(base, g) ==
    /\ IsGraph(base) /\ IsGraph(g)
    /\ DOMAIN base.entities \subseteq DOMAIN g.entities
    /\ DOMAIN base.edges \subseteq DOMAIN g.edges
    /\ g.pending = base.pending
    /\ \A e \in g.pending : g.edges[e] = base.edges[e]

\* How many of either appeared.
Appeared(base, g) ==
    Cardinality(DOMAIN g.entities \ DOMAIN base.entities)
    + Cardinality(DOMAIN g.edges \ DOMAIN base.edges)

\* The collected rows, put into the base, give the graph.
Covers(base, g, delta) ==
    /\ g.entities = Workflow!Upsert(base.entities, delta.entities)
    /\ g.edges = Workflow!Upsert(base.edges, delta.edges)

\* Rows put into a table.
LEMMA UpsertIs ==
    ASSUME NEW old, NEW new
    PROVE  LET u == Workflow!Upsert(old, new)
           IN  /\ IsTable(u) /\ DOMAIN u = DOMAIN old \cup DOMAIN new
               /\ \A k \in DOMAIN new : u[k] = new[k]
               /\ \A k \in DOMAIN old \ DOMAIN new : u[k] = old[k]
  BY DEF Workflow!Upsert, IsTable

\* Tables are equal when their rows are.
LEMMA SameTable ==
    ASSUME NEW f, IsTable(f), NEW g, IsTable(g), DOMAIN f = DOMAIN g,
           \A k \in DOMAIN f : f[k] = g[k]
    PROVE  f = g
  BY DEF IsTable

\* Rows put in twice: the rows of the first time that the second leaves, and
\* the rows of the second, are what was put in.
LEMMA UpsertTwice ==
    ASSUME NEW base, NEW a, NEW new, NEW keys, NEW g, g = Workflow!Upsert(base, a),
           NEW h, h = Workflow!Upsert(g, new), keys = DOMAIN new
    PROVE  h = Workflow!Upsert(base, Workflow!Upsert(a, [k \in keys |-> h[k]]))
  <1> DEFINE now == [k \in keys |-> h[k]]
             b == Workflow!Upsert(a, now)
             u == Workflow!Upsert(base, b)
  <1>1. DOMAIN now = keys /\ \A k \in keys : now[k] = h[k]
    OBVIOUS
  <1> HIDE DEF now
  <1>2. /\ IsTable(g) /\ DOMAIN g = DOMAIN base \cup DOMAIN a
        /\ \A k \in DOMAIN a : g[k] = a[k]
        /\ \A k \in DOMAIN base \ DOMAIN a : g[k] = base[k]
    BY UpsertIs, SMT DEF Workflow!Upsert, IsTable
  <1>3. /\ IsTable(h) /\ DOMAIN h = DOMAIN g \cup keys
        /\ \A k \in DOMAIN g \ keys : h[k] = g[k]
    BY UpsertIs, Zenon
  <1>4. /\ DOMAIN b = DOMAIN a \cup keys /\ \A k \in keys : b[k] = h[k]
        /\ \A k \in DOMAIN a \ keys : b[k] = a[k]
    <2>1. /\ DOMAIN b = DOMAIN a \cup DOMAIN now /\ \A k \in DOMAIN now : b[k] = now[k]
          /\ \A k \in DOMAIN a \ DOMAIN now : b[k] = a[k]
      BY UpsertIs, Zenon
    <2> HIDE DEF b
    <2> QED
      BY <1>1, <2>1
  <1> HIDE DEF b
  <1>5. /\ IsTable(u) /\ DOMAIN u = DOMAIN base \cup DOMAIN b
        /\ \A k \in DOMAIN b : u[k] = b[k]
        /\ \A k \in DOMAIN base \ DOMAIN b : u[k] = base[k]
    BY UpsertIs, Zenon
  <1> HIDE DEF u
  <1>6. DOMAIN h = DOMAIN u
    BY <1>2, <1>3, <1>4, <1>5
  <1>7. ASSUME NEW k \in DOMAIN h PROVE h[k] = u[k]
    <2>1. CASE k \in keys
      BY <1>4, <1>5, <2>1
    <2>2. CASE k \notin keys /\ k \in DOMAIN a
      BY <1>2, <1>3, <1>4, <1>5, <2>2
    <2>3. CASE k \notin keys /\ k \notin DOMAIN a
      BY <1>2, <1>3, <1>4, <1>5, <2>3
    <2> QED
      BY <2>1, <2>2, <2>3
  <1>8. h = u
    BY <1>3, <1>5, <1>6, <1>7, SameTable
  <1> QED
    BY <1>8, Zenon DEF u, b, now

\* The keys of a list of rows are finitely many.
LEMMA KeysFinite ==
    ASSUME NEW items, IsList(items)
    PROVE  /\ IsFiniteSet(Workflow!Keys(items))
           /\ \A t : IsFiniteSet(DOMAIN Workflow!Edges(items, t))
  <1>1. DOMAIN items = 1 .. Len(items) /\ Len(items) \in Nat
    BY DEF IsList
  <1>2. IsFiniteSet(1 .. Len(items))
    BY <1>1, FS_Interval
  <1> DEFINE D == 1 .. Len(items)
             K == {items[i].id : i \in D}
  <1>3. Workflow!Keys(items) = K
    BY <1>1 DEF Workflow!Keys
  <1>4. IsFiniteSet(K)
    <2> HIDE DEF D
    <2>1. IsFiniteSet(D)
      BY <1>2 DEF D
    <2> DEFINE f == [i \in D |-> items[i].id]
    <2>2. IsFiniteSet({f[i] : i \in D})
      <3>1. DOMAIN f = D /\ f = [i \in D |-> f[i]]
        OBVIOUS
      <3> HIDE DEF f
      <3> QED
        BY <2>1, <3>1, ValuesFinite
    <2>3. {f[i] : i \in D} = K
      OBVIOUS
    <2> QED
      BY <2>2, <2>3
  <1> HIDE DEF K
  <1>5. ASSUME NEW t PROVE IsFiniteSet(DOMAIN Workflow!Edges(items, t))
    <2> DEFINE f == [k \in K |-> <<k, t>>]
    <2>1. {f[k] : k \in K} = {<<k, t>> : k \in K}
      OBVIOUS
    <2>2. IsFiniteSet({f[k] : k \in K})
      <3>1. DOMAIN f = K /\ f = [k \in K |-> f[k]]
        OBVIOUS
      <3> HIDE DEF f
      <3> QED
        BY <1>4, <3>1, ValuesFinite
    <2>3. DOMAIN Workflow!Edges(items, t) = {<<k, t>> : k \in K}
      BY <1>3 DEF Workflow!Edges
    <2> QED
      BY <2>1, <2>2, <2>3
  <1> QED
    BY <1>3, <1>4, <1>5

\* The two ways to write a cardinality.
LEMMA SameCount == \A S : Workflow!Cardinality(S) = Cardinality(S)
  BY DEF Cardinality, Workflow!Cardinality

\* The parts of a sound graph.
LEMMA SoundIs ==
    ASSUME NEW g
    PROVE  Workflow!Sound(g) <=>
               /\ IsFiniteSet(DOMAIN g.entities) /\ IsFiniteSet(DOMAIN g.edges)
               /\ \A e \in DOMAIN g.edges : {e[1], e[2]} \subseteq DOMAIN g.entities
               /\ g.pending \subseteq DOMAIN g.edges
  <1>1. \A S : Workflow!IsFiniteSet(S) <=> IsFiniteSet(S)
    BY DEF IsFiniteSet, Workflow!IsFiniteSet
  <1> QED
    BY <1>1 DEF Workflow!Sound, Workflow!Ids

\* Nothing put into rows that go into a table.
LEMMA UpsertNothing ==
    ASSUME NEW old, NEW a, NEW new, DOMAIN new = {}
    PROVE  Workflow!Upsert(old, Workflow!Upsert(a, new)) = Workflow!Upsert(old, a)
  <1> DEFINE b == Workflow!Upsert(a, new)
  <1>1. DOMAIN b = DOMAIN a /\ \A k \in DOMAIN a : b[k] = a[k]
    BY DEF Workflow!Upsert
  <1> HIDE DEF b
  <1>2. Workflow!Upsert(old, b) = Workflow!Upsert(old, a)
    BY <1>1 DEF Workflow!Upsert
  <1> QED
    BY <1>2 DEF b

\* An entity set that is not refused makes the graph grow by what it counts as
\* created.
LEMMA EntitiesApplied ==
    ASSUME NEW base, NEW g, Grown(base, g), NEW items, IsList(items), NEW rules,
           Workflow!ApplyEntitySet(g, items, rules).ok
    PROVE  LET a == Workflow!ApplyEntitySet(g, items, rules)
           IN  /\ Grown(base, a.graph) /\ a.create \in Nat
               /\ Appeared(base, a.graph) = Appeared(base, g) + a.create
               /\ \A delta : Covers(base, g, delta) =>
                      Covers(base, a.graph, Workflow!Collect(delta, g, a.graph, items, 0))
  <1> DEFINE a == Workflow!ApplyEntitySet(g, items, rules)
             new == [id \in Workflow!Keys(items) |-> Workflow!NewValue(items, id)]
             h == [g EXCEPT !.entities = Workflow!Upsert(@, new)]
             E == Workflow!Upsert(g.entities, new)
             K == Workflow!Keys(items)
  <1>1. a.graph = h /\ a.create = Cardinality(DOMAIN new \ DOMAIN g.entities)
    <2>1. a = Workflow!Refused \/ a = Workflow!Counted(h, g.entities, new)
      BY DEF Workflow!ApplyEntitySet
    <2>2. a.ok
      OBVIOUS
    <2>3. Workflow!Refused.ok = FALSE
      BY DEF Workflow!Refused
    <2> HIDE DEF a, h, new, E, K
    <2>4. a = Workflow!Counted(h, g.entities, new)
      BY <2>1, <2>2, <2>3
    <2> QED
      BY <2>4, SameCount DEF Workflow!Counted, Workflow!Applied
  <1>2. DOMAIN new = K /\ IsFiniteSet(K)
    BY KeysFinite
  <1> HIDE DEF new, K, a
  <1>3. g = [entities |-> g.entities, edges |-> g.edges, pending |-> g.pending]
    BY DEF Grown, IsGraph
  <1>4. h = [entities |-> E, edges |-> g.edges, pending |-> g.pending]
    <2> HIDE DEF E
    <2>1. h = [g EXCEPT !.entities = E]
      BY DEF E
    <2> DEFINE x == g.entities
               y == g.edges
               z == g.pending
    <2>2. g = [entities |-> x, edges |-> y, pending |-> z]
      BY <1>3
    <2> HIDE DEF x, y, z, h
    <2>3. h = [entities |-> E, edges |-> y, pending |-> z]
      BY <2>1, <2>2
    <2> QED
      BY <2>3 DEF y, z
  <1>5. /\ IsTable(E) /\ DOMAIN E = DOMAIN g.entities \cup K
    BY <1>2, UpsertIs, Zenon
  <1> HIDE DEF E, h
  <1>6. h.entities = E /\ h.edges = g.edges /\ h.pending = g.pending
    BY <1>4
  <1>7. /\ IsFiniteSet(DOMAIN g.entities) /\ IsFiniteSet(DOMAIN g.edges)
        /\ \A e \in DOMAIN g.edges : {e[1], e[2]} \subseteq DOMAIN g.entities
        /\ g.pending \subseteq DOMAIN g.edges
    BY SoundIs DEF Grown, IsGraph
  <1>8. /\ IsFiniteSet(DOMAIN E)
        /\ Cardinality(DOMAIN E \ DOMAIN base.entities)
           = Cardinality(DOMAIN g.entities \ DOMAIN base.entities)
             + Cardinality(K \ DOMAIN g.entities)
        /\ Cardinality(DOMAIN g.entities \ DOMAIN base.entities) \in Nat
        /\ Cardinality(K \ DOMAIN g.entities) \in Nat
    <2> DEFINE A == DOMAIN g.entities
               B == DOMAIN base.entities
    <2>1. B \in SUBSET A /\ IsFiniteSet(A)
      BY <1>7 DEF Grown
    <2>2. DOMAIN E = A \cup K
      BY <1>5
    <2> HIDE DEF A, B
    <2>3. /\ Cardinality((A \cup K) \ B) = Cardinality(A \ B) + Cardinality(K \ A)
          /\ Cardinality(A \ B) \in Nat /\ Cardinality(K \ A) \in Nat /\ IsFiniteSet(A \cup K)
      BY <1>2, <2>1, AppearTwice
    <2> QED
      BY <2>2, <2>3 DEF A, B
  <1>9. Workflow!Sound(h)
    BY <1>5, <1>6, <1>7, <1>8, SoundIs
  <1>10. IsGraph(h)
    BY <1>4, <1>5, <1>6, <1>9 DEF IsGraph, Grown
  <1>11. Grown(base, h)
    BY <1>5, <1>6, <1>10 DEF Grown
  <1>12. Appeared(base, h) = Appeared(base, g) + Cardinality(K \ DOMAIN g.entities)
    <2> DEFINE x == Cardinality(DOMAIN g.edges \ DOMAIN base.edges)
    <2>1. x \in Nat
      BY <1>7, FS_Difference, FS_CardinalityType, Zenon
    <2> QED
      BY <1>6, <1>8, <2>1 DEF Appeared
  <1>13. ASSUME NEW delta, Covers(base, g, delta)
         PROVE  Covers(base, h, Workflow!Collect(delta, g, h, items, 0))
    <2> DEFINE c == Workflow!Collect(delta, g, h, items, 0)
               no == [e \in {} |-> h.edges[e]]
               now == [k \in K |-> E[k]]
    <2>1. K \cap Workflow!Ids(h) = K
      BY <1>5, <1>6 DEF Workflow!Ids
    <2>2. /\ c.entities = Workflow!Upsert(delta.entities, now)
          /\ c.edges = Workflow!Upsert(delta.edges, no)
      BY <1>6, <2>1 DEF Workflow!Collect, Workflow!Collected, K
    <2>3. E = Workflow!Upsert(base.entities, c.entities)
      <3>1. E = Workflow!Upsert(g.entities, new) /\ K = DOMAIN new
            /\ g.entities = Workflow!Upsert(base.entities, delta.entities)
        BY <1>2, <1>13 DEF E, Covers
      <3> QED
        BY <2>2, <3>1, UpsertTwice
    <2>4. g.edges = Workflow!Upsert(base.edges, c.edges)
      <3>1. g.edges = Workflow!Upsert(base.edges, delta.edges)
        BY <1>13 DEF Covers
      <3>2. DOMAIN no = {}
        OBVIOUS
      <3> HIDE DEF no
      <3> QED
        BY <2>2, <3>1, <3>2, UpsertNothing
    <2> HIDE DEF c
    <2>5. Covers(base, h, c)
      BY <1>6, <2>3, <2>4 DEF Covers
    <2> QED
      BY <2>5 DEF c
  <1>14. a.create = Cardinality(K \ DOMAIN g.entities)
    BY <1>1, <1>2
  <1> QED
    BY <1>1, <1>8, <1>11, <1>12, <1>13, <1>14 DEF a

\* A relationship set that is not refused makes the graph grow by what it
\* counts as created, has ends for its edges and leaves what awaits review.
LEMMA RelationshipsApplied ==
    ASSUME NEW base, NEW g, Grown(base, g), NEW items, IsList(items), NEW target, target # 0,
           NEW rules, Workflow!ApplyRelationshipSet(g, items, target, rules).ok
    PROVE  LET a == Workflow!ApplyRelationshipSet(g, items, target, rules)
           IN  /\ Grown(base, a.graph) /\ a.create \in Nat
               /\ Appeared(base, a.graph) = Appeared(base, g) + a.create
               /\ \A delta : Covers(base, g, delta) =>
                      Covers(base, a.graph, Workflow!Collect(delta, g, a.graph, items, target))
  <1> DEFINE a == Workflow!ApplyRelationshipSet(g, items, target, rules)
             new == Workflow!Edges(items, target)
             h == [g EXCEPT !.edges = Workflow!Upsert(@, new)]
             E == Workflow!Upsert(g.edges, new)
             K == DOMAIN new
             I == Workflow!Keys(items)
             denied == \/ Workflow!Refuses(new, rules)
                       \/ K # {} /\ target \notin Workflow!Ids(g)
                       \/ I \ Workflow!Ids(g) # {}
                       \/ "guarded" \in rules /\ \E e \in K : new[e] = 0
                       \/ \E e \in K \cap g.pending : new[e] # g.edges[e]
  <1>1. a = IF denied THEN Workflow!Refused ELSE Workflow!Counted(h, g.edges, new)
    BY DEF Workflow!ApplyRelationshipSet
  <1>2. ~denied
    <2> HIDE DEF a, denied, h, new
    <2>1. a.ok
      BY DEF a
    <2>2. Workflow!Refused.ok = FALSE
      BY DEF Workflow!Refused
    <2> QED
      BY <1>1, <2>1, <2>2
  <1>3. a.graph = h /\ a.create = Cardinality(K \ DOMAIN g.edges)
    <2> HIDE DEF a, h, new, denied, E
    <2>1. a = Workflow!Counted(h, g.edges, new)
      BY <1>1, <1>2
    <2> QED
      BY <2>1, SameCount DEF Workflow!Counted, Workflow!Applied
  <1>4. K = {<<k, target>> : k \in I} /\ IsFiniteSet(K)
    <2>1. IsFiniteSet(K)
      BY KeysFinite
    <2> QED
      BY <2>1 DEF Workflow!Edges
  <1> HIDE DEF a
  <1>5. g = [entities |-> g.entities, edges |-> g.edges, pending |-> g.pending]
    BY DEF Grown, IsGraph
  <1>6. h = [entities |-> g.entities, edges |-> E, pending |-> g.pending]
    <2> HIDE DEF E
    <2>1. h = [g EXCEPT !.edges = E]
      BY DEF E
    <2> DEFINE x == g.entities
               y == g.edges
               z == g.pending
    <2>2. g = [entities |-> x, edges |-> y, pending |-> z]
      BY <1>5
    <2> HIDE DEF x, y, z, h
    <2>3. h = [entities |-> x, edges |-> E, pending |-> z]
      BY <2>1, <2>2
    <2> QED
      BY <2>3 DEF x, z
  <1>7. /\ K # {} => target \in DOMAIN g.entities
        /\ I \subseteq DOMAIN g.entities
        /\ \A e \in K \cap g.pending : new[e] = g.edges[e]
    BY <1>2 DEF Workflow!Ids
  <1> HIDE DEF new, I, denied
  <1>8. /\ IsTable(E) /\ DOMAIN E = DOMAIN g.edges \cup K
        /\ \A k \in K : E[k] = new[k]
        /\ \A k \in DOMAIN g.edges \ K : E[k] = g.edges[k]
    BY UpsertIs, Zenon
  <1> HIDE DEF E, h, K
  <1>9. h.entities = g.entities /\ h.edges = E /\ h.pending = g.pending
    BY <1>6
  <1>10. /\ IsFiniteSet(DOMAIN g.entities) /\ IsFiniteSet(DOMAIN g.edges)
         /\ \A e \in DOMAIN g.edges : {e[1], e[2]} \subseteq DOMAIN g.entities
         /\ g.pending \subseteq DOMAIN g.edges
    BY SoundIs DEF Grown, IsGraph
  <1>11. /\ IsFiniteSet(DOMAIN E)
         /\ Cardinality(DOMAIN E \ DOMAIN base.edges)
            = Cardinality(DOMAIN g.edges \ DOMAIN base.edges)
              + Cardinality(K \ DOMAIN g.edges)
         /\ Cardinality(DOMAIN g.edges \ DOMAIN base.edges) \in Nat
         /\ Cardinality(K \ DOMAIN g.edges) \in Nat
    <2> DEFINE A == DOMAIN g.edges
               B == DOMAIN base.edges
    <2>1. B \in SUBSET A
      BY DEF Grown
    <2>2. IsFiniteSet(A) /\ IsFiniteSet(K) /\ DOMAIN E = A \cup K
      BY <1>4, <1>8, <1>10
    <2> HIDE DEF A, B
    <2>3. /\ Cardinality((A \cup K) \ B) = Cardinality(A \ B) + Cardinality(K \ A)
          /\ Cardinality(A \ B) \in Nat /\ Cardinality(K \ A) \in Nat /\ IsFiniteSet(A \cup K)
      BY <2>1, <2>2, AppearTwice, Zenon
    <2> QED
      BY <2>2, <2>3 DEF A, B
  <1>12. \A e \in DOMAIN E : {e[1], e[2]} \subseteq DOMAIN g.entities
    <2>1. \A e \in K : {e[1], e[2]} \subseteq DOMAIN g.entities
      BY <1>4, <1>7
    <2> QED
      BY <1>8, <1>10, <2>1
  <1>13. Workflow!Sound(h)
    BY <1>8, <1>9, <1>10, <1>11, <1>12, SoundIs
  <1>14. IsGraph(h)
    BY <1>6, <1>8, <1>9, <1>13 DEF IsGraph, Grown
  <1>15. \A e \in g.pending : E[e] = g.edges[e]
    BY <1>7, <1>8, <1>10
  <1>16. Grown(base, h)
    BY <1>8, <1>9, <1>14, <1>15 DEF Grown
  <1>17. Appeared(base, h) = Appeared(base, g) + Cardinality(K \ DOMAIN g.edges)
    <2> DEFINE x == Cardinality(DOMAIN g.entities \ DOMAIN base.entities)
    <2>1. x \in Nat
      BY <1>10, FS_Difference, FS_CardinalityType, Zenon
    <2> QED
      BY <1>9, <1>11, <2>1 DEF Appeared
  <1>18. ASSUME NEW delta, Covers(base, g, delta)
         PROVE  Covers(base, h, Workflow!Collect(delta, g, h, items, target))
    <2> DEFINE c == Workflow!Collect(delta, g, h, items, target)
               no == [k \in {} |-> h.entities[k]]
               now == [k \in K |-> E[k]]
    <2>1. DOMAIN Workflow!Edges(items, target) \cap DOMAIN h.edges = K
      BY <1>8, <1>9 DEF K, new
    <2>2. /\ c.entities = Workflow!Upsert(delta.entities, no)
          /\ c.edges = Workflow!Upsert(delta.edges, now)
      BY <1>9, <2>1 DEF Workflow!Collect, Workflow!Collected
    <2>3. E = Workflow!Upsert(base.edges, c.edges)
      <3>1. E = Workflow!Upsert(g.edges, new) /\ K = DOMAIN new
            /\ g.edges = Workflow!Upsert(base.edges, delta.edges)
        BY <1>18 DEF E, Covers, K
      <3> QED
        BY <2>2, <3>1, UpsertTwice
    <2>4. g.entities = Workflow!Upsert(base.entities, c.entities)
      <3>1. g.entities = Workflow!Upsert(base.entities, delta.entities)
        BY <1>18 DEF Covers
      <3>2. DOMAIN no = {}
        OBVIOUS
      <3> HIDE DEF no
      <3> QED
        BY <2>2, <3>1, <3>2, UpsertNothing
    <2> HIDE DEF c
    <2>5. Covers(base, h, c)
      BY <1>9, <2>3, <2>4 DEF Covers
    <2> QED
      BY <2>5 DEF c
  <1> QED
    BY <1>3, <1>11, <1>16, <1>17, <1>18 DEF a

\* Either kind of set.
LEMMA SetApplied ==
    ASSUME NEW base, NEW g, Grown(base, g), NEW items, IsList(items), NEW target,
           NEW rules, Workflow!ApplySet(g, items, target, rules).ok
    PROVE  LET a == Workflow!ApplySet(g, items, target, rules)
           IN  /\ Grown(base, a.graph) /\ a.create \in Nat
               /\ Appeared(base, a.graph) = Appeared(base, g) + a.create
               /\ \A delta : Covers(base, g, delta) =>
                      Covers(base, a.graph, Workflow!Collect(delta, g, a.graph, items, target))
  <1>1. CASE target = 0
    BY <1>1, EntitiesApplied, Zenon DEF Workflow!ApplySet
  <1>2. CASE target # 0
    <2>1. Workflow!ApplySet(g, items, target, rules)
          = Workflow!ApplyRelationshipSet(g, items, target, rules)
      BY <1>2, Zenon DEF Workflow!ApplySet
    <2>2. Workflow!ApplyRelationshipSet(g, items, target, rules).ok
      BY <2>1
    <2>3. LET a == Workflow!ApplyRelationshipSet(g, items, target, rules)
          IN  /\ Grown(base, a.graph) /\ a.create \in Nat
              /\ Appeared(base, a.graph) = Appeared(base, g) + a.create
              /\ \A delta : Covers(base, g, delta) =>
                     Covers(base, a.graph, Workflow!Collect(delta, g, a.graph, items, target))
      BY <1>2, <2>2, RelationshipsApplied, Zenon
    <2> QED
      BY <2>1, <2>3, Zenon
  <1> QED
    BY <1>1, <1>2

-----------------------------------------------------------------------------
(* Canonical workflows: the counts of a preview. *)

CreatePart(x) == IF "create" \in DOMAIN x THEN x.create ELSE 0
IsPreviews(p) == IsList(p) /\ \A i \in 1 .. Len(p) : CreatePart(p[i]) \in Nat

\* The creations of a preview are the total of its parts.
LEMMA CreatesTotal ==
    ASSUME NEW p, IsPreviews(p)
    PROVE  LET f == [i \in 1 .. Len(p) |-> CreatePart(p[i])]
           IN  /\ Workflow!Creates(p) = Total(f, 1 .. Len(p)) /\ f \in [1 .. Len(p) -> Nat]
               /\ Workflow!Creates(p) \in Nat /\ IsFiniteSet(1 .. Len(p))
  <1> DEFINE D == 1 .. Len(p)
             f == [i \in D |-> CreatePart(p[i])]
  <1>1. DOMAIN p = D /\ Len(p) \in Nat
    BY DEF IsPreviews, IsList
  <1>2. IsFiniteSet(D)
    BY <1>1, FS_Interval
  <1>3. f \in [D -> Nat] /\ DOMAIN f = D
    BY DEF IsPreviews
  <1>4. Workflow!Creates(p) = Workflow!SumFunction(f)
    BY <1>1 DEF Workflow!Creates, CreatePart
  <1> HIDE DEF f, D
  <1>5. Workflow!SumFunction(f) = Total(f, DOMAIN f)
    BY DEF Total, Adds, Pick, Workflow!SumFunction, Workflow!SumFunctionOnSet,
           Workflow!FoldFunctionOnSet, Workflow!MapThenFoldSet
  <1>6. Total(f, D) \in Nat
    BY <1>2, <1>3, TotalNat
  <1>7. Workflow!Creates(p) = Total(f, D)
    BY <1>3, <1>4, <1>5
  <1> QED
    BY <1>2, <1>3, <1>6, <1>7 DEF f, D

\* Nothing was created by nothing.
LEMMA CreatesNothing == IsPreviews(<<>>) /\ Workflow!Creates(<<>>) = 0
  <1>1. IsPreviews(<<>>)
    <2>1. <<>> \in Seq({})
      OBVIOUS
    <2>2. IsList(<<>>) /\ Len(<<>>) = 0
      BY <2>1, SeqIsList, Zenon
    <2> QED
      BY <2>2 DEF IsPreviews
  <1> DEFINE p == <<>>
             f == [i \in 1 .. Len(p) |-> CreatePart(p[i])]
  <1>2. Workflow!Creates(p) = Total(f, 1 .. Len(p)) /\ f \in [1 .. Len(p) -> Nat]
        /\ IsFiniteSet(1 .. Len(p))
    <2> HIDE DEF p
    <2> QED
      BY <1>1, CreatesTotal, Zenon DEF p
  <1>3. 1 .. Len(p) = {}
    OBVIOUS
  <1> HIDE DEF f
  <1>4. Total(f, {}) = 0
    <2>1. f \in [{} -> Int] /\ IsFiniteSet({})
      BY <1>2, <1>3
    <2> QED
      BY <2>1, TotalZero, Zenon
  <1> QED
    BY <1>1, <1>2, <1>3, <1>4

\* One part more.
LEMMA CreatesOne ==
    ASSUME NEW p, IsPreviews(p), NEW x, CreatePart(x) \in Nat
    PROVE  /\ IsPreviews(Append(p, x))
           /\ Workflow!Creates(Append(p, x)) = Workflow!Creates(p) + CreatePart(x)
  <1> DEFINE q == Append(p, x)
             n == Len(p)
             f == [i \in 1 .. n |-> CreatePart(p[i])]
             h == [i \in 1 .. Len(q) |-> CreatePart(q[i])]
  <1>1. /\ IsList(q) /\ Len(q) = n + 1 /\ q[n + 1] = x /\ n \in Nat
        /\ \A i \in 1 .. n : q[i] = p[i]
    <2>1. IsList(p)
      BY DEF IsPreviews
    <2>2. /\ IsList(q) /\ Len(q) = n + 1 /\ q[n + 1] = x
          /\ \A i \in 1 .. n : q[i] = p[i]
      BY <2>1, ListAppend
    <2> QED
      BY <2>1, <2>2 DEF IsList
  <1> HIDE DEF q
  <1>2. \A i \in 1 .. n + 1 : i \in 1 .. n \/ i = n + 1
    BY <1>1
  <1>3. IsPreviews(q)
    BY <1>1, <1>2 DEF IsPreviews
  <1>4. /\ Workflow!Creates(p) = Total(f, 1 .. n) /\ f \in [1 .. n -> Nat]
        /\ IsFiniteSet(1 .. n)
    BY CreatesTotal
  <1>5. /\ Workflow!Creates(q) = Total(h, 1 .. Len(q)) /\ h \in [1 .. Len(q) -> Nat]
    BY <1>3, CreatesTotal
  <1>6. 1 .. Len(q) = (1 .. n) \cup {n + 1} /\ n + 1 \notin 1 .. n
    BY <1>1
  <1>7. (\A i \in 1 .. n : h[i] = f[i]) /\ h[n + 1] = CreatePart(x)
    BY <1>1, <1>6
  <1> HIDE DEF h, f
  <1>8. f \in [1 .. n -> Int] /\ h \in [(1 .. n) \cup {n + 1} -> Int]
    BY <1>4, <1>5, <1>6
  <1> DEFINE S == 1 .. n
             y == n + 1
  <1>9. Total(h, S \cup {y}) = Total(f, S) + h[y]
    <2>1. IsFiniteSet(S) /\ y \notin S /\ f \in [S -> Int] /\ h \in [S \cup {y} -> Int]
          /\ \A i \in S : h[i] = f[i]
      BY <1>4, <1>6, <1>7, <1>8
    <2> HIDE DEF S, y
    <2> QED
      BY <2>1, TotalInsert
  <1>10. Workflow!Creates(q) = Workflow!Creates(p) + CreatePart(x)
    BY <1>4, <1>5, <1>6, <1>7, <1>9, Zenon
  <1> QED
    BY <1>3, <1>10 DEF q

-----------------------------------------------------------------------------
(* Canonical workflows: a plan runs the same every time. *)

\* What a step sees of a run, beside the registered artifacts.
View(r) == [graph |-> r.graph, outputs |-> r.outputs, previews |-> r.previews]
Fresh(base) == [graph |-> base, outputs |-> <<>>, previews |-> <<>>]

\* The sets that an apply step applies, and what comes of them.
FirstSet(s, t) ==
    LET p == Workflow!Sets(s)[1]
    IN  Workflow!ApplySet(t.graph, t.outputs[p[1]].items, p[2], s.rules)
SecondSet(s, t) ==
    LET p == Workflow!Sets(s)[2]
    IN  Workflow!ApplySet(FirstSet(s, t).graph, t.outputs[p[1]].items, p[2], s.rules)
CountsOf(a) == [create |-> a.create, update |-> a.update, noop |-> a.noop]

\* Rows that cannot be registered, and what is previewed of the ones that can.
Clashes(items, known) ==
    \/ \E i \in DOMAIN items : items[i].id \in DOMAIN known /\ known[items[i].id] # items[i].val
    \/ \E i, j \in DOMAIN items : items[i].id = items[j].id /\ items[i].val # items[j].val
RegisterPreview(items, known) ==
    LET new == Workflow!Keys(items) \ DOMAIN known
    IN  [registered |-> Workflow!Cardinality(new),
         noops |-> Len(items) - Workflow!Cardinality(new)]

\* Whether a step can be taken, and what it yields: functions of its view.
Can(s, known, t) ==
    LET source == t.outputs[s.src]
    IN  /\ s.kind = "not_truncated" => source.meta = "complete"
        /\ s.kind = "count" => Len(source.items) >= s.least
        /\ s.kind = "register" => ~Clashes(source.items, known)
        /\ s.kind \in Workflow!Appliers => FirstSet(s, t).ok
        /\ s.kind = "apply_all" => SecondSet(s, t).ok
NamedIn(s, t) == IF s.ref = 0 THEN 0 ELSE Len(t.outputs[s.ref].items)
Yielded(s, t) ==
    LET source == t.outputs[s.src]
    IN  CASE s.kind = "query" -> Workflow!QueryOutput(t.graph, s.limit)
          [] s.kind = "shape" -> Workflow!ShapeOutput(source, NamedIn(s, t))
          [] s.kind = "filter" -> Workflow!FilterOutput(source, NamedIn(s, t))
          [] s.kind = "join" -> Workflow!JoinOutput(source, t.outputs[s.right], NamedIn(s, t))
          [] s.kind = "make" -> Workflow!MadeOutput(source, NamedIn(s, t))
          [] s.kind = "provider" -> Workflow!ProviderOutput(source, s.listed, s.adds)
          [] s.kind \in Workflow!Appliers -> Workflow!Output(<<>>, Workflow!NoMeta)
          [] OTHER -> source
GraphAfter(s, t) ==
    IF s.kind = "apply_all" THEN SecondSet(s, t).graph
    ELSE IF s.kind \in Workflow!Appliers THEN FirstSet(s, t).graph ELSE t.graph
PreviewsAfter(s, known, t) ==
    IF s.kind = "register"
    THEN Append(t.previews, RegisterPreview(t.outputs[s.src].items, known))
    ELSE IF s.kind = "apply_all"
    THEN t.previews \o <<CountsOf(FirstSet(s, t)), CountsOf(SecondSet(s, t))>>
    ELSE IF s.kind \in Workflow!Appliers THEN t.previews \o <<CountsOf(FirstSet(s, t))>>
    ELSE t.previews
After(s, known, t) ==
    [graph |-> GraphAfter(s, t), outputs |-> Append(t.outputs, Yielded(s, t)),
     previews |-> PreviewsAfter(s, known, t)]

\* The views of a run of p, from a base and known artifacts, before its steps
\* up to n.
Trace(T, p, base, known, n) ==
    /\ T[1] = Fresh(base)
    /\ \A i \in 1 .. n - 1 : Can(p[i], known, T[i]) /\ T[i + 1] = After(p[i], known, T[i])
Reaches(p, base, known, n, t) == \E T : Trace(T, p, base, known, n) /\ T[n] = t

\* A run starts from its base.
LEMMA ReachesFresh ==
    ASSUME NEW p, NEW base, NEW known
    PROVE  Reaches(p, base, known, 1, Fresh(base))
  <1> DEFINE T == [i \in {1} |-> Fresh(base)]
  <1>1. T[1] = Fresh(base)
    OBVIOUS
  <1> HIDE DEF T
  <1>2. Trace(T, p, base, known, 1)
    BY <1>1 DEF Trace
  <1> QED
    BY <1>1, <1>2 DEF Reaches

\* A step more.
LEMMA ReachesNext ==
    ASSUME NEW p, NEW base, NEW known, NEW n \in Nat \ {0}, NEW t,
           Reaches(p, base, known, n, t), Can(p[n], known, t)
    PROVE  Reaches(p, base, known, n + 1, After(p[n], known, t))
  <1>1. PICK T : Trace(T, p, base, known, n) /\ T[n] = t
    BY DEF Reaches
  <1> DEFINE u == After(p[n], known, t)
             S == [i \in 1 .. n + 1 |-> IF i = n + 1 THEN u ELSE T[i]]
  <1>2. S[n + 1] = u /\ \A i \in 1 .. n : S[i] = T[i]
    <2> HIDE DEF u
    <2> QED
      OBVIOUS
  <1> HIDE DEF S
  <1>3. S[1] = Fresh(base)
    BY <1>1, <1>2 DEF Trace
  <1>4. ASSUME NEW i \in 1 .. (n + 1) - 1
        PROVE  Can(p[i], known, S[i]) /\ S[i + 1] = After(p[i], known, S[i])
    <2>1. CASE i = n
      BY <1>1, <1>2, <2>1
    <2>2. CASE i # n
      <3>1. i \in 1 .. n - 1 /\ i \in 1 .. n /\ i + 1 \in 1 .. n
        BY <2>2
      <3> QED
        BY <1>1, <1>2, <3>1 DEF Trace
    <2> QED
      BY <2>1, <2>2
  <1>5. Trace(S, p, base, known, n + 1)
    BY <1>3, <1>4 DEF Trace
  <1> QED
    BY <1>2, <1>5 DEF Reaches, u

\* Two runs of one plan over the same state see the same, and what one of them
\* did the other can do.
LEMMA SameViews ==
    ASSUME NEW p, NEW base, NEW known, NEW n \in Nat \ {0}, NEW m \in Nat \ {0}, n <= m,
           NEW t, Reaches(p, base, known, n, t), NEW u, Reaches(p, base, known, m, u)
    PROVE  /\ n = m => t = u
           /\ n < m => Can(p[n], known, t)
  <1>1. PICK T : Trace(T, p, base, known, n) /\ T[n] = t
    BY DEF Reaches
  <1>2. PICK U : Trace(U, p, base, known, m) /\ U[m] = u
    BY DEF Reaches
  <1> DEFINE k == n - 1
             S == {i \in 0 .. k : T[i + 1] = U[i + 1]}
  <1>3. k \in Nat /\ 0 \in S
    BY <1>1, <1>2 DEF Trace
  <1>4. ASSUME NEW i \in 1 .. k, i - 1 \in S PROVE i \in S
    <2>1. i \in 1 .. n - 1 /\ i \in 1 .. m - 1 /\ (i - 1) + 1 = i /\ i \in 0 .. k
      OBVIOUS
    <2>2. T[i] = U[i]
      BY <1>4, <2>1
    <2>3. T[i + 1] = After(p[i], known, T[i]) /\ U[i + 1] = After(p[i], known, U[i])
      BY <1>1, <1>2, <2>1 DEF Trace
    <2> QED
      BY <2>1, <2>2, <2>3
  <1>5. k \in S
    <2>1. \A i \in 1 .. k : i - 1 \in S => i \in S
      BY <1>4
    <2>2. k \in 0 .. k
      BY <1>3
    <2> HIDE DEF S, k
    <2> QED
      BY <1>3, <2>1, <2>2, CountingUp
  <1>6. T[n] = U[n]
    BY <1>5
  <1>7. n < m => Can(p[n], known, U[n])
    BY <1>2 DEF Trace
  <1> QED
    BY <1>1, <1>2, <1>6, <1>7

-----------------------------------------------------------------------------
(* Canonical workflows: the invariant of a run. *)

IsRun(r) ==
    r = [mode |-> r.mode, at |-> r.at, base |-> r.base, graph |-> r.graph, known |-> r.known,
         store |-> r.store, outputs |-> r.outputs, previews |-> r.previews,
         delta |-> r.delta]

\* A plan with at most one step that registers.
Once(p) == \A i, j \in DOMAIN p : p[i].kind = "register" /\ p[j].kind = "register" => i = j

\* It runs over the stored state.
RunShape(p, base, known, r) ==
    /\ IsRun(r) /\ r.mode \in {"preview", "check", "apply"}
    /\ r.at \in 1 .. Len(p) + 1
    /\ r.base = base /\ r.known = known

\* Each step taken left an output.
RunOutputs(outs, n) ==
    /\ IsList(outs) /\ Len(outs) = n - 1
    /\ \A i \in 1 .. n - 1 : IsOutput(outs[i])

\* The graph grew by what was counted, and all of it was collected.
RunWrites(base, r) ==
    /\ Grown(base, r.graph)
    /\ IsPreviews(r.previews) /\ Workflow!Creates(r.previews) = Appeared(base, r.graph)
    /\ r.mode = "apply" => Covers(base, r.graph, r.delta)

\* What was registered before is what was known, up to the step that registers.
RunStore(p, known, r) ==
    \/ r.store = known
    \/ r.mode = "apply" /\ \E i \in 1 .. r.at - 1 : p[i].kind = "register"
RunSteady(p, base, known, r) == Once(p) => Reaches(p, base, known, r.at, View(r))

RunInv(p, base, known, r) ==
    /\ RunShape(p, base, known, r)
    /\ RunOutputs(r.outputs, r.at)
    /\ RunWrites(base, r)
    /\ RunStore(p, known, r) /\ RunSteady(p, base, known, r)

\* A step that does what its view says takes the run on.
LEMMA RunAdvances ==
    ASSUME NEW p, NEW base, NEW known, NEW r, RunInv(p, base, known, r),
           Workflow!Compiled(p), r.at <= Len(p),
           NEW q, IsRun(q), q.mode = r.mode, q.at = r.at + 1, q.base = r.base, q.known = r.known,
           NEW o, IsOutput(o), q.outputs = Append(r.outputs, o),
           RunWrites(base, q),
           q.store = r.store \/ (r.mode = "apply" /\ p[r.at].kind = "register"),
           Once(p) => /\ Can(p[r.at], known, View(r))
                      /\ View(q) = After(p[r.at], known, View(r))
    PROVE  RunInv(p, base, known, q)
  <1> DEFINE n == r.at
  <1>1. n \in Nat \ {0} /\ Len(p) \in Nat /\ n <= Len(p) /\ n + 1 \in 1 .. Len(p) + 1
    BY DEF RunInv, RunShape, Workflow!Compiled
  <1>2. RunShape(p, base, known, q)
    BY <1>1 DEF RunInv, RunShape
  <1>3. /\ IsList(q.outputs) /\ Len(q.outputs) = n /\ q.outputs[n] = o
        /\ \A i \in 1 .. n - 1 : q.outputs[i] = r.outputs[i]
    <2>1. IsList(r.outputs) /\ Len(r.outputs) = n - 1
      BY DEF RunInv, RunOutputs
    <2> DEFINE s == r.outputs
               t == Append(s, o)
    <2>2. /\ IsList(t) /\ Len(t) = Len(s) + 1 /\ t[Len(s) + 1] = o
          /\ \A i \in 1 .. Len(s) : t[i] = s[i]
      BY <2>1, ListAppend
    <2> HIDE DEF t, s
    <2>3. q.outputs = t /\ Len(s) = n - 1
      BY <2>1 DEF t, s
    <2> QED
      BY <1>1, <2>2, <2>3 DEF s
  <1>4. RunOutputs(q.outputs, q.at)
    <2>1. ASSUME NEW i \in 1 .. (n + 1) - 1
          PROVE  IsOutput(q.outputs[i])
      <3>1. CASE i = n
        BY <1>3, <3>1
      <3>2. CASE i # n
        <4>1. i \in 1 .. n - 1
          BY <1>1, <3>2
        <4> QED
          BY <1>3, <4>1 DEF RunInv, RunOutputs
      <3> QED
        BY <3>1, <3>2, Zenon
    <2> QED
      BY <1>1, <1>3, <2>1 DEF RunOutputs
  <1>6. RunStore(p, known, q)
    <2>1. CASE q.store = r.store
      <3>1. CASE r.store = known
        BY <2>1, <3>1 DEF RunStore
      <3>2. CASE r.store # known
        <4>1. PICK i \in 1 .. n - 1 : p[i].kind = "register"
          BY <3>2 DEF RunInv, RunStore
        <4>2. i \in 1 .. q.at - 1
          BY <1>1
        <4>3. r.mode = "apply"
          BY <3>2 DEF RunInv, RunStore
        <4> QED
          BY <4>1, <4>2, <4>3 DEF RunStore
      <3> QED
        BY <3>1, <3>2
    <2>2. CASE r.mode = "apply" /\ p[n].kind = "register"
      <3>1. n \in 1 .. q.at - 1
        BY <1>1
      <3> QED
        BY <2>2, <3>1 DEF RunStore
    <2> QED
      BY <2>1, <2>2
  <1>7. RunSteady(p, base, known, q)
    <2> SUFFICES ASSUME Once(p) PROVE Reaches(p, base, known, q.at, View(q))
      BY DEF RunSteady
    <2>1. Reaches(p, base, known, n, View(r)) /\ Can(p[n], known, View(r))
      BY DEF RunInv, RunSteady
    <2>2. Reaches(p, base, known, n + 1, After(p[n], known, View(r)))
      <3> DEFINE t == View(r)
      <3> HIDE DEF t, n
      <3> QED
        BY <1>1, <2>1, ReachesNext DEF t
    <2> QED
      BY <2>2
  <1> QED
    BY <1>2, <1>4, <1>6, <1>7 DEF RunInv

\* What a step reads of an earlier one.
LEMMA EarlierOutput ==
    ASSUME NEW p, NEW base, NEW known, NEW r, RunInv(p, base, known, r),
           NEW k \in 1 .. r.at - 1
    PROVE  IsOutput(r.outputs[k]) /\ IsList(r.outputs[k].items)
  BY DEF RunInv, RunOutputs, IsOutput

\* A run begins over the tables and the artifacts.
LEMMA RunBegins ==
    ASSUME NEW p, Workflow!Compiled(p), NEW base, IsGraph(base), NEW known,
           NEW mode \in {"preview", "check", "apply"}, NEW r,
           r = [mode |-> mode, at |-> 1, base |-> base, graph |-> base, known |-> known,
                store |-> known, outputs |-> <<>>, previews |-> <<>>,
                delta |-> [entities |-> <<>>, edges |-> <<>>]]
    PROVE  RunInv(p, base, known, r)
  <1>1. /\ r.mode = mode /\ r.at = 1 /\ r.base = base /\ r.graph = base /\ r.known = known
        /\ r.store = known /\ r.outputs = <<>> /\ r.previews = <<>>
        /\ r.delta = [entities |-> <<>>, edges |-> <<>>]
    OBVIOUS
  <1>2. IsRun(r)
    BY DEF IsRun
  <1>3. RunShape(p, base, known, r)
    BY <1>1, <1>2 DEF RunShape, Workflow!Compiled
  <1>4. RunOutputs(r.outputs, r.at)
    <2>1. <<>> \in Seq({}) /\ Len(<<>>) = 0
      OBVIOUS
    <2>2. IsList(<<>>)
      BY <2>1, SeqIsList, Zenon
    <2> QED
      BY <1>1, <2>1, <2>2 DEF RunOutputs
  <1>6. Grown(base, base)
    BY DEF Grown
  <1>7. Appeared(base, base) = 0
    <2>1. /\ DOMAIN base.entities \ DOMAIN base.entities = {}
          /\ DOMAIN base.edges \ DOMAIN base.edges = {}
      OBVIOUS
    <2>2. Cardinality({}) = 0
      BY FS_EmptySet
    <2>3. /\ Cardinality(DOMAIN base.entities \ DOMAIN base.entities) = 0
          /\ Cardinality(DOMAIN base.edges \ DOMAIN base.edges) = 0
      BY <2>1, <2>2, Zenon
    <2> QED
      BY <2>3 DEF Appeared
  <1>8. Covers(base, base, r.delta)
    <2>1. ASSUME NEW f, IsTable(f) PROVE Workflow!Upsert(f, <<>>) = f
      <3>1. DOMAIN <<>> = {}
        OBVIOUS
      <3>2. Workflow!Upsert(f, <<>>) = [k \in DOMAIN f |-> f[k]]
        BY <3>1 DEF Workflow!Upsert
      <3> QED
        BY <2>1, <3>2 DEF IsTable
    <2>2. IsTable(base.entities) /\ IsTable(base.edges)
      BY DEF IsGraph
    <2>3. r.delta.entities = <<>> /\ r.delta.edges = <<>>
      BY <1>1
    <2> QED
      BY <2>1, <2>2, <2>3 DEF Covers
  <1>9. RunWrites(base, r)
    BY <1>1, <1>6, <1>7, <1>8, CreatesNothing DEF RunWrites
  <1>10. RunStore(p, known, r)
    BY <1>1 DEF RunStore
  <1>11. RunSteady(p, base, known, r)
    BY <1>1, ReachesFresh DEF RunSteady, View, Fresh
  <1> QED
    BY <1>3, <1>4, <1>9, <1>10, <1>11 DEF RunInv

-----------------------------------------------------------------------------
(* Canonical workflows: the invariant and the service's steps. *)

\* What the client holds is what the plan comes to over the state it saw.
Promise(p, h) ==
    /\ h.mode = "held"
    /\ Once(p) => \E t : /\ Reaches(p, h.base, h.store, Len(p) + 1, t)
                         /\ t.graph = h.graph /\ t.previews = h.digest.previews

\* An apply stored what its run came to, or ended at a step that could not be
\* taken or called a provider.
Outcome(p, stored_, shown, l) ==
    /\ RunInv(p, l.run.base, l.run.known, l.run)
    /\ l.ok => stored_ = l.run.graph /\ shown = stored_ /\ l.run.at = Len(p) + 1
    /\ ~l.ok => /\ l.run.at \in 1 .. Len(p)
                /\ Once(p) => \/ p[l.run.at].kind = "provider"
                              \/ ~Can(p[l.run.at], l.run.known, View(l.run))

WorkflowInv ==
    /\ Workflow!Compiled(plan) /\ IsGraph(tables)
    /\ Workflow!Running => RunInv(plan, tables, sources, run)
    /\ run.mode \in {"check", "checked", "apply"} => held # Workflow!Nothing
    /\ held # Workflow!Nothing => Promise(plan, held)
    /\ last.mode = "apply" => held # Workflow!Nothing /\ Outcome(plan, tables, image, last)

\* What the start of a plan is.
LEMMA WorkflowInit == Workflow!Init => WorkflowInv
  <1> SUFFICES ASSUME Workflow!Init PROVE WorkflowInv
    OBVIOUS
  <1>1. plan \in Plans /\ tables \in Starts /\ run.mode = "idle"
        /\ held = Workflow!Nothing /\ last.mode = "none"
    BY DEF Workflow!Init, Workflow!Idle, Workflow!Nothing
  <1>2. Workflow!Compiled(plan)
    BY <1>1, PlansAssumption
  <1>3. IsGraph(tables)
    <2> DEFINE x == [k \in DOMAIN tables.entities |-> tables.entities[k]]
               y == [e \in DOMAIN tables.edges |-> tables.edges[e]]
               z == tables.pending
    <2>1. tables = WGraph(x, y, z) /\ Workflow!Sound(tables)
      BY <1>1, StartsAssumption
    <2>2. IsTable(x) /\ IsTable(y)
      BY DEF IsTable
    <2> HIDE DEF x, y, z
    <2>3. tables = [entities |-> x, edges |-> y, pending |-> z]
      BY <2>1 DEF WGraph
    <2> QED
      BY <2>1, <2>2, <2>3 DEF IsGraph
  <1> QED
    BY <1>1, <1>2, <1>3 DEF WorkflowInv, Workflow!Running

\* A step of a run that keeps the run's invariant.
LEMMA RunKeeps ==
    ASSUME WorkflowInv, UNCHANGED Workflow!Rest,
           run'.mode \in {"check", "checked", "apply"} => held # Workflow!Nothing,
           run'.mode \in {"preview", "check", "apply"} => RunInv(plan, tables, sources, run')
    PROVE  WorkflowInv'
  <1>1. UNCHANGED <<plan, tables, image, head, sources, held, last, others>>
    BY DEF Workflow!Rest
  <1>2. Workflow!Compiled(plan)' /\ IsGraph(tables)'
    BY <1>1 DEF WorkflowInv, IsGraph, IsTable
  <1>3. Workflow!Running' => RunInv(plan, tables, sources, run)'
    BY <1>1 DEF Workflow!Running
  <1>4. (held # Workflow!Nothing => Promise(plan, held))'
    BY <1>1 DEF WorkflowInv
  <1>5. (last.mode = "apply" => held # Workflow!Nothing /\ Outcome(plan, tables, image, last))'
    BY <1>1 DEF WorkflowInv
  <1> QED
    BY <1>1, <1>2, <1>3, <1>4, <1>5 DEF WorkflowInv

\* A preview, a second preview and the run inside the transaction begin.
LEMMA BeginStep ==
    ASSUME WorkflowInv, Workflow!StartPreview \/ Workflow!StartApply \/ Workflow!EnterTransaction
    PROVE  WorkflowInv'
  <1>1. PICK mode \in {"preview", "check", "apply"} :
            /\ run' = Workflow!Begin(mode) /\ UNCHANGED Workflow!Rest
            /\ mode \in {"check", "apply"} => held # Workflow!Nothing
    BY DEF WorkflowInv, Workflow!StartPreview, Workflow!StartApply, Workflow!EnterTransaction
  <1>2. run' = [mode |-> mode, at |-> 1, base |-> tables, graph |-> tables, known |-> sources,
                store |-> sources, outputs |-> <<>>, previews |-> <<>>,
                delta |-> [entities |-> <<>>, edges |-> <<>>]]
    BY <1>1 DEF Workflow!Begin
  <1>3. Workflow!Compiled(plan) /\ IsGraph(tables)
    BY DEF WorkflowInv
  <1>4. RunInv(plan, tables, sources, run')
    BY <1>2, <1>3, RunBegins
  <1>5. run'.mode = mode
    BY <1>2
  <1> QED
    BY <1>1, <1>4, <1>5, RunKeeps

\* A run that ends at a step it cannot take, or at a provider, leaves all as it was.
LEMMA RaiseStep ==
    ASSUME WorkflowInv, Workflow!More, Workflow!Raise,
           Once(plan) => \/ plan[run.at].kind = "provider"
                         \/ ~Can(plan[run.at], sources, View(run))
    PROVE  WorkflowInv'
  <1>1. /\ run'.mode = "idle"
        /\ last' = [mode |-> run.mode, ok |-> FALSE, run |-> run]
        /\ UNCHANGED <<plan, tables, image, head, sources, held, others>>
    BY DEF Workflow!Raise, Workflow!Idle
  <1>2. Workflow!Compiled(plan)' /\ IsGraph(tables)'
    BY <1>1 DEF WorkflowInv, IsGraph, IsTable
  <1>3. ~Workflow!Running' /\ (held # Workflow!Nothing => Promise(plan, held))'
    BY <1>1 DEF WorkflowInv, Workflow!Running
  <1>4. last'.mode = run.mode /\ last'.ok = FALSE /\ last'.run = run
    BY <1>1
  <1>5. RunInv(plan, tables, sources, run) /\ run.at <= Len(plan)
    BY DEF WorkflowInv, Workflow!More
  <1>6. run.base = tables /\ run.known = sources /\ run.at \in 1 .. Len(plan) /\ Len(plan) \in Nat
    BY <1>5 DEF RunInv, RunShape, WorkflowInv, Workflow!Compiled
  <1>7. Outcome(plan, tables, image, last)'
    <2>1. RunInv(plan, run.base, run.known, run)
      BY <1>5, <1>6
    <2> QED
      BY <1>1, <1>4, <1>6, <2>1 DEF Outcome
  <1>8. (last.mode = "apply" => held # Workflow!Nothing /\ Outcome(plan, tables, image, last))'
    BY <1>1, <1>4, <1>7 DEF WorkflowInv
  <1> QED
    BY <1>1, <1>2, <1>3, <1>8 DEF WorkflowInv

\* The client gets what the plan came to.
LEMMA FinishPreviewStep ==
    ASSUME WorkflowInv, Workflow!FinishPreview
    PROVE  WorkflowInv'
  <1>1. /\ run'.mode = "idle" /\ last'.mode # "apply"
        /\ held' = [mode |-> "held", digest |-> Workflow!ApplyDigest(run), base |-> run.base,
                    store |-> sources, graph |-> run.graph]
        /\ UNCHANGED <<plan, tables, image, head, sources, others>>
        /\ Workflow!Running /\ run.at > Len(plan)
    BY DEF Workflow!FinishPreview, Workflow!Idle, Workflow!Ended, Workflow!Over
  <1>2. Workflow!Compiled(plan)' /\ IsGraph(tables)'
    BY <1>1 DEF WorkflowInv, IsGraph, IsTable
  <1>3. /\ held'.mode = "held" /\ held'.base = run.base /\ held'.store = sources
        /\ held'.graph = run.graph /\ held'.digest.previews = run.previews
    BY <1>1 DEF Workflow!ApplyDigest
  <1>4. /\ run.at = Len(plan) + 1 /\ run.base = tables
        /\ Once(plan) => Reaches(plan, tables, sources, Len(plan) + 1, View(run))
    BY <1>1 DEF WorkflowInv, RunInv, RunShape, RunSteady, Workflow!Compiled
  <1>5. View(run).graph = run.graph /\ View(run).previews = run.previews
    BY DEF View
  <1>6. Promise(plan, held)'
    BY <1>1, <1>3, <1>4, <1>5 DEF Promise
  <1> QED
    BY <1>1, <1>2, <1>6 DEF WorkflowInv, Workflow!Running

\* The second preview agrees with the first, or the apply ends.
LEMMA CheckDigestStep ==
    ASSUME WorkflowInv, Workflow!CheckDigest
    PROVE  WorkflowInv'
  <1>1. held # Workflow!Nothing /\ run.mode = "check"
    BY DEF WorkflowInv, Workflow!CheckDigest
  <1>2. CASE run' = [mode |-> "checked"] /\ UNCHANGED Workflow!Rest
    <2>1. run'.mode = "checked"
      BY <1>2
    <2> QED
      BY <1>1, <1>2, <2>1, RunKeeps
  <1>3. CASE Workflow!Raise
    <2>1. /\ run'.mode = "idle" /\ last'.mode = "check"
          /\ UNCHANGED <<plan, tables, image, head, sources, held, others>>
      BY <1>1, <1>3 DEF Workflow!Raise, Workflow!Idle
    <2>2. Workflow!Compiled(plan)' /\ IsGraph(tables)'
      BY <2>1 DEF WorkflowInv, IsGraph, IsTable
    <2>3. ~Workflow!Running' /\ (held # Workflow!Nothing => Promise(plan, held))'
      BY <2>1 DEF WorkflowInv, Workflow!Running
    <2> QED
      BY <2>1, <2>2, <2>3 DEF WorkflowInv
  <1> QED
    BY <1>2, <1>3 DEF Workflow!CheckDigest

\* The collected rows make the tables what the run computed.
LEMMA WorkflowCommits ==
    ASSUME WorkflowInv, Workflow!Commit
    PROVE  WorkflowInv'
  <1>1. /\ run'.mode = "idle" /\ run.mode = "apply" /\ Workflow!Running /\ run.at > Len(plan)
        /\ tables' = [tables EXCEPT
              !.entities = Workflow!Upsert(@, run.delta.entities),
              !.edges = Workflow!Upsert(@, run.delta.edges)]
        /\ image' = run.graph
        /\ last' = [mode |-> run.mode, ok |-> TRUE, run |-> run]
        /\ UNCHANGED <<plan, held, others>>
    BY DEF Workflow!Commit, Workflow!Idle, Workflow!Ended, Workflow!Over
  <1>2. RunInv(plan, tables, sources, run)
    BY <1>1 DEF WorkflowInv
  <1>3. /\ run.at = Len(plan) + 1 /\ run.base = tables /\ run.known = sources
        /\ Grown(tables, run.graph) /\ Covers(tables, run.graph, run.delta)
    BY <1>1, <1>2 DEF WorkflowInv, RunInv, RunShape, RunWrites, Workflow!Compiled
  <1>4. tables' = run.graph
    <2> DEFINE x == Workflow!Upsert(tables.entities, run.delta.entities)
               y == Workflow!Upsert(tables.edges, run.delta.edges)
               a == tables.entities
               b == tables.edges
               c == tables.pending
               g == run.graph
    <2>1. tables = [entities |-> a, edges |-> b, pending |-> c]
      BY <1>3 DEF Grown, IsGraph
    <2>2. tables' = [tables EXCEPT !.entities = x, !.edges = y]
      BY <1>1
    <2>3. g.entities = x /\ g.edges = y /\ g.pending = c
          /\ g = [entities |-> g.entities, edges |-> g.edges, pending |-> g.pending]
      BY <1>3 DEF Covers, Grown, IsGraph
    <2> HIDE DEF x, y, a, b, c, g
    <2>4. tables' = [entities |-> x, edges |-> y, pending |-> c]
      BY <2>1, <2>2, Zenon
    <2> QED
      BY <2>3, <2>4 DEF g
  <1>5. IsGraph(run.graph)
    BY <1>3 DEF Grown
  <1>6. Workflow!Compiled(plan)' /\ IsGraph(tables)'
    BY <1>1, <1>4, <1>5, Zenon DEF WorkflowInv, IsGraph, IsTable
  <1>7. ~Workflow!Running' /\ (held # Workflow!Nothing => Promise(plan, held))'
    BY <1>1 DEF WorkflowInv, Workflow!Running
  <1>8. last'.mode = "apply" /\ last'.ok = TRUE /\ last'.run = run
    BY <1>1
  <1>9. Outcome(plan, tables, image, last)'
    <2>1. RunInv(plan, run.base, run.known, run)
      BY <1>2, <1>3
    <2> QED
      BY <1>1, <1>3, <1>4, <1>8, <2>1 DEF Outcome
  <1>10. (last.mode = "apply" => held # Workflow!Nothing /\ Outcome(plan, tables, image, last))'
    BY <1>1, <1>9 DEF WorkflowInv
  <1>11. WorkflowInv'
    BY <1>1, <1>6, <1>7, <1>10 DEF WorkflowInv
  <1> QED
    BY <1>11

\* Somebody else's write leaves the tables a sound graph.
LEMMA OtherWriteStep ==
    ASSUME WorkflowInv, Workflow!OtherWrite
    PROVE  WorkflowInv'
  <1>1. PICK id, v : tables' = [tables EXCEPT !.entities = Workflow!Upsert(@, [k \in {id} |-> v])]
    BY Zenon DEF Workflow!OtherWrite
  <1>2. /\ run.mode \in {"idle", "checked"} /\ last'.mode = "none"
        /\ UNCHANGED <<plan, image, head, sources, run, held>>
    BY DEF Workflow!OtherWrite, Workflow!Nothing
  <1> DEFINE one == [k \in {id} |-> v]
             x == Workflow!Upsert(tables.entities, one)
             a == tables.entities
             b == tables.edges
             c == tables.pending
  <1>3. IsGraph(tables)
    BY DEF WorkflowInv
  <1>4. tables' = [entities |-> x, edges |-> b, pending |-> c]
    <2>1. tables' = [tables EXCEPT !.entities = x]
      BY <1>1
    <2>2. tables = [entities |-> a, edges |-> b, pending |-> c]
      BY <1>3 DEF IsGraph
    <2> HIDE DEF x, a, b, c
    <2> QED
      BY <2>1, <2>2
  <1>5. IsTable(x) /\ DOMAIN x = DOMAIN a \cup {id}
    <2>1. DOMAIN one = {id}
      OBVIOUS
    <2> HIDE DEF one, a, b, c
    <2>2. x = Workflow!Upsert(a, one)
      BY DEF a
    <2> HIDE DEF x
    <2> QED
      BY <2>1, <2>2, UpsertIs, Zenon
  <1>6. /\ IsFiniteSet(DOMAIN a) /\ IsFiniteSet(DOMAIN b) /\ c \subseteq DOMAIN b
        /\ \A e \in DOMAIN b : {e[1], e[2]} \subseteq DOMAIN a
    BY <1>3, SoundIs DEF IsGraph
  <1>7. IsTable(b)
    BY <1>3 DEF IsGraph
  <1> DEFINE g == tables'
  <1> HIDE DEF x, a, b, c, one
  <1>8. g = [entities |-> x, edges |-> b, pending |-> c]
    BY <1>4
  <1> HIDE DEF g
  <1>9. g.entities = x /\ g.edges = b /\ g.pending = c
    BY <1>8
  <1>10. Workflow!Sound(g)
    <2>1. IsFiniteSet(DOMAIN x)
      BY <1>5, <1>6, FS_AddElement
    <2> QED
      BY <1>5, <1>6, <1>9, <2>1, SoundIs
  <1>11. IsGraph(g)
    BY <1>5, <1>7, <1>8, <1>9, <1>10 DEF IsGraph
  <1>12. IsGraph(tables')
    BY <1>11 DEF g
  <1>13. Workflow!Compiled(plan)' /\ IsGraph(tables)'
    BY <1>2, <1>12 DEF WorkflowInv, IsGraph, IsTable
  <1> QED
    BY <1>2, <1>13 DEF WorkflowInv, Workflow!Running

-----------------------------------------------------------------------------
(* Canonical workflows: the steps of a plan. *)

\* set_step_output: one output more, and nothing else.
OneMore(r, o) == [r EXCEPT !.at = @ + 1, !.outputs = Append(@, o)]
LEMMA YieldIs ==
    ASSUME NEW r, IsRun(r), NEW o, NEW q, q = OneMore(r, o)
    PROVE  /\ IsRun(q) /\ q.mode = r.mode /\ q.at = r.at + 1 /\ q.base = r.base
           /\ q.graph = r.graph /\ q.known = r.known /\ q.store = r.store
           /\ q.outputs = Append(r.outputs, o) /\ q.previews = r.previews
           /\ q.delta = r.delta
  <1> DEFINE a == r.mode
             b == r.at
             c == r.base
             d == r.graph
             e == r.known
             f == r.store
             g == r.outputs
             h == r.previews
             i == r.delta
             x == b + 1
             y == Append(g, o)
  <1>1. r = [mode |-> a, at |-> b, base |-> c, graph |-> d, known |-> e, store |-> f,
             outputs |-> g, previews |-> h, delta |-> i]
    BY DEF IsRun
  <1>2. q = [r EXCEPT !.at = x, !.outputs = y]
    BY DEF OneMore
  <1> HIDE DEF a, b, c, d, e, f, g, h, i, x, y
  <1>3. q = [mode |-> a, at |-> x, base |-> c, graph |-> d, known |-> e, store |-> f,
             outputs |-> y, previews |-> h, delta |-> i]
    BY <1>1, <1>2, Zenon
  <1>4. /\ q.mode = a /\ q.at = x /\ q.base = c /\ q.graph = d /\ q.known = e /\ q.store = f
        /\ q.outputs = y /\ q.previews = h /\ q.delta = i
    BY <1>3
  <1>5. IsRun(q)
    BY <1>3, <1>4 DEF IsRun
  <1> QED
    BY <1>4, <1>5 DEF a, b, c, d, e, f, g, h, i, x, y

\* The facts about a run in progress.
UnderWay ==
    /\ Workflow!Compiled(plan) /\ RunInv(plan, tables, sources, run) /\ IsRun(run)
    /\ run.at \in 1 .. Len(plan) /\ Len(plan) \in Nat /\ run.at <= Len(plan)
    /\ run.mode \in {"preview", "check", "apply"}
    /\ run.base = tables /\ run.known = sources
    /\ run.mode \in {"check", "checked", "apply"} => held # Workflow!Nothing
LEMMA RunUnderWay == WorkflowInv /\ Workflow!More => UnderWay
  <1> SUFFICES ASSUME WorkflowInv, Workflow!More PROVE UnderWay
    OBVIOUS
  <1>1. /\ Workflow!Compiled(plan) /\ RunInv(plan, tables, sources, run)
        /\ run.at <= Len(plan) /\ run.mode \in {"preview", "check", "apply"}
        /\ run.mode \in {"check", "checked", "apply"} => held # Workflow!Nothing
    BY DEF WorkflowInv, Workflow!More, Workflow!Running
  <1>2. RunShape(plan, tables, sources, run)
    BY <1>1 DEF RunInv
  <1>3. /\ IsRun(run) /\ run.at \in 1 .. Len(plan) + 1 /\ run.base = tables
        /\ run.known = sources
    BY <1>2 DEF RunShape
  <1>4. Len(plan) \in Nat
    BY <1>1 DEF Workflow!Compiled
  <1>5. run.at \in 1 .. Len(plan)
    BY <1>1, <1>3, <1>4
  <1> QED
    BY <1>1, <1>3, <1>4, <1>5 DEF UnderWay

\* A step that reads and transforms, or lets the run go on.
LEMMA PlainYield ==
    ASSUME WorkflowInv, Workflow!More, NEW o, IsOutput(o), Workflow!Yield(run, o),
           plan[run.at].kind \notin Workflow!Appliers \cup {"register", "apply_all"},
           Can(plan[run.at], sources, View(run)), o = Yielded(plan[run.at], View(run))
    PROVE  WorkflowInv'
  <1> DEFINE q == run'
  <1>1. q = OneMore(run, o) /\ UNCHANGED Workflow!Rest
    BY DEF Workflow!Yield, OneMore
  <1>2. /\ Workflow!Compiled(plan) /\ RunInv(plan, tables, sources, run) /\ IsRun(run)
        /\ run.at <= Len(plan)
        /\ run.mode \in {"check", "checked", "apply"} => held # Workflow!Nothing
    BY RunUnderWay DEF UnderWay
  <1> HIDE DEF q
  <1>3. /\ IsRun(q) /\ q.mode = run.mode /\ q.at = run.at + 1 /\ q.base = run.base
        /\ q.graph = run.graph /\ q.known = run.known /\ q.store = run.store
        /\ q.outputs = Append(run.outputs, o) /\ q.previews = run.previews
        /\ q.delta = run.delta
    BY <1>1, <1>2, YieldIs
  <1>4. RunWrites(tables, q)
    BY <1>2, <1>3 DEF RunInv, RunWrites
  <1>5. View(q) = After(plan[run.at], sources, View(run))
    <2>1. /\ View(run).graph = run.graph /\ View(run).outputs = run.outputs
          /\ View(run).previews = run.previews
      BY DEF View
    <2>2. GraphAfter(plan[run.at], View(run)) = run.graph
      BY <2>1 DEF GraphAfter
    <2>3. PreviewsAfter(plan[run.at], sources, View(run)) = run.previews
      BY <2>1 DEF PreviewsAfter
    <2>4. View(q) = [graph |-> run.graph, outputs |-> Append(run.outputs, o),
                     previews |-> run.previews]
      BY <1>3 DEF View
    <2> QED
      BY <2>1, <2>2, <2>3, <2>4 DEF After
  <1>6. RunInv(plan, tables, sources, q)
    BY <1>2, <1>3, <1>4, <1>5, RunAdvances
  <1> QED
    BY <1>1, <1>2, <1>3, <1>6, RunKeeps DEF q

\* What the compiler lets pass, at one step.
LEMMA CompiledStep ==
    ASSUME NEW p, Workflow!Compiled(p), NEW i \in 1 .. Len(p)
    PROVE  /\ i \in DOMAIN p
           /\ p[i].kind = "query" => p[i].limit \in Nat
           /\ p[i].kind # "query" => p[i].src \in 1 .. i - 1
           /\ p[i].kind = "join" => p[i].right \in 1 .. i - 1
           /\ p[i].kind = "provider" => p[i].listed \in BOOLEAN /\ IsList(p[i].adds)
           /\ p[i].kind = "apply_all" => p[i].rels \in 1 .. i - 1
  <1> DEFINE s == p[i]
             Prior(k) == k \in 1 .. i - 1 /\ p[k].kind \in Workflow!Rowed
  <1>1. i \in DOMAIN p
    BY DEF Workflow!Compiled
  <1>2. /\ s.kind = "query" => s.limit \in Nat
        /\ s.kind # "query" => Prior(s.src)
        /\ s.kind = "join" => Prior(s.right)
        /\ s.kind = "provider" =>
               /\ s.listed \in BOOLEAN
               /\ Len(s.adds) \in Nat /\ s.adds = [k \in 1 .. Len(s.adds) |-> s.adds[k]]
        /\ s.kind = "apply_all" => Prior(s.rels)
    BY <1>1, Zenon DEF Workflow!Compiled
  <1> QED
    BY <1>1, <1>2 DEF IsList

\* The rows and metadata of a step's source.
LEMMA StepSource ==
    ASSUME WorkflowInv, Workflow!More, plan[run.at].kind # "query"
    PROVE  LET s == Workflow!Source
           IN  /\ s = View(run).outputs[plan[run.at].src]
               /\ IsOutput(s) /\ IsList(s.items)
  <1> DEFINE k == plan[run.at].src
  <1>1. Workflow!Compiled(plan) /\ RunInv(plan, tables, sources, run) /\ run.at \in 1 .. Len(plan)
    BY RunUnderWay DEF UnderWay
  <1>2. k \in 1 .. run.at - 1
    BY <1>1, CompiledStep
  <1>3. IsOutput(run.outputs[k]) /\ IsList(run.outputs[k].items)
    <2> HIDE DEF k
    <2> QED
      BY <1>1, <1>2, EarlierOutput
  <1>4. Workflow!Source = run.outputs[k] /\ View(run).outputs = run.outputs
    BY DEF Workflow!Source, Workflow!Step, View
  <1> QED
    BY <1>2, <1>3, <1>4

\* What the kinds of steps yield.
LEMMA YieldedIs ==
    ASSUME NEW s, NEW t
    PROVE  /\ s.kind = "query" => Yielded(s, t) = Workflow!QueryOutput(t.graph, s.limit)
           /\ s.kind = "shape" => Yielded(s, t)
                  = Workflow!ShapeOutput(t.outputs[s.src], NamedIn(s, t))
           /\ s.kind = "filter" => Yielded(s, t)
                  = Workflow!FilterOutput(t.outputs[s.src], NamedIn(s, t))
           /\ s.kind = "join" => Yielded(s, t)
                  = Workflow!JoinOutput(t.outputs[s.src], t.outputs[s.right], NamedIn(s, t))
           /\ s.kind = "make" => Yielded(s, t)
                  = Workflow!MadeOutput(t.outputs[s.src], NamedIn(s, t))
           /\ s.kind = "provider" => Yielded(s, t)
                  = Workflow!ProviderOutput(t.outputs[s.src], s.listed, s.adds)
           /\ s.kind \in Workflow!Appliers => Yielded(s, t)
                  = Workflow!Output(<<>>, Workflow!NoMeta)
           /\ s.kind \in {"not_truncated", "count", "register"} =>
                  Yielded(s, t) = t.outputs[s.src]
  BY Zenon DEF Yielded, Workflow!Appliers

\* A query.
LEMMA QueryStep ==
    ASSUME WorkflowInv, Workflow!Query
    PROVE  WorkflowInv'
  <1> DEFINE s == plan[run.at]
             o == Workflow!QueryOutput(run.graph, s.limit)
  <1>1. Workflow!More /\ s.kind = "query" /\ Workflow!Yield(run, o)
    BY DEF Workflow!Query, Workflow!Step
  <1>2. /\ Workflow!Compiled(plan) /\ RunInv(plan, tables, sources, run) /\ IsRun(run)
        /\ run.at \in 1 .. Len(plan)
    BY <1>1, RunUnderWay DEF UnderWay
  <1>3. s.limit \in Nat
    BY <1>1, <1>2, CompiledStep
  <1>4. IsFiniteSet(Workflow!Ids(run.graph))
    <2>1. Workflow!Sound(run.graph)
      BY <1>2 DEF RunInv, RunWrites, Grown, IsGraph
    <2> QED
      BY <2>1, SoundIs DEF Workflow!Ids
  <1>5. IsOutput(o)
    BY <1>3, <1>4, QueryRows
  <1>6. Can(s, sources, View(run))
    BY <1>1 DEF Can, Workflow!Appliers
  <1>7. o = Yielded(s, View(run))
    <2> DEFINE t == View(run)
    <2>1. t.graph = run.graph
      BY DEF View
    <2> HIDE DEF t, s
    <2>2. Yielded(s, t) = Workflow!QueryOutput(t.graph, s.limit)
      BY <1>1, YieldedIs, Zenon
    <2> QED
      BY <2>1, <2>2 DEF t
  <1>9. s.kind \notin Workflow!Appliers \cup {"register", "apply_all"}
    BY <1>1 DEF Workflow!Appliers
  <1> HIDE DEF o
  <1> QED
    BY <1>1, <1>2, <1>5, <1>6, <1>7, <1>9, PlainYield

\* A step that takes its source on, with what it yields.
LEMMA SourceYield ==
    ASSUME WorkflowInv, Workflow!More, NEW o, IsOutput(o), Workflow!Yield(run, o),
           plan[run.at].kind \in {"shape", "filter", "join", "make", "provider"},
           o = Yielded(plan[run.at], View(run))
    PROVE  WorkflowInv'
  <1> DEFINE s == plan[run.at]
  <1>1. Can(s, sources, View(run))
    BY DEF Can, Workflow!Appliers
  <1>2. s.kind \notin Workflow!Appliers \cup {"register", "apply_all"}
    BY DEF Workflow!Appliers
  <1> QED
    BY <1>1, <1>2, PlainYield

\* Shape, filter, join and the making of sets.
LEMMA TransformStep ==
    ASSUME WorkflowInv, Workflow!Transform
    PROVE  WorkflowInv'
  <1> DEFINE s == plan[run.at]
             src == Workflow!Source
             right == run.outputs[s.right]
             m == Workflow!Named
             t == View(run)
  <1>1. /\ Workflow!More
        /\ \/ s.kind = "shape" /\ Workflow!Yield(run, Workflow!ShapeOutput(src, m))
           \/ s.kind = "filter" /\ Workflow!Yield(run, Workflow!FilterOutput(src, m))
           \/ s.kind = "join" /\ Workflow!Yield(run, Workflow!JoinOutput(src, right, m))
           \/ s.kind = "make" /\ Workflow!Yield(run, Workflow!MadeOutput(src, m))
    BY DEF Workflow!Transform, Workflow!Step
  <1>2. src = t.outputs[s.src] /\ IsOutput(src)
    BY <1>1, StepSource
  <1>3. t.outputs = run.outputs
    BY DEF View
  <1>4. m = NamedIn(s, t)
    BY <1>3 DEF Workflow!Named, Workflow!Step, NamedIn
  <1> HIDE DEF src, t, m
  <1>5. CASE s.kind = "shape"
    <2> DEFINE o == Workflow!ShapeOutput(src, m)
    <2>1. IsOutput(o)
      BY <1>2, TransformRows
    <2>2. o = Yielded(s, t)
      BY <1>2, <1>4, <1>5, YieldedIs, Zenon
    <2>3. Workflow!Yield(run, o)
      BY <1>1, <1>5
    <2> HIDE DEF o
    <2> QED
      BY <1>1, <1>5, <2>1, <2>2, <2>3, SourceYield DEF t
  <1>6. CASE s.kind = "filter"
    <2> DEFINE o == Workflow!FilterOutput(src, m)
    <2>1. IsOutput(o)
      BY <1>2, TransformRows
    <2>2. o = Yielded(s, t)
      BY <1>2, <1>4, <1>6, YieldedIs, Zenon
    <2>3. Workflow!Yield(run, o)
      BY <1>1, <1>6
    <2> HIDE DEF o
    <2> QED
      BY <1>1, <1>6, <2>1, <2>2, <2>3, SourceYield DEF t
  <1>7. CASE s.kind = "join"
    <2> DEFINE o == Workflow!JoinOutput(src, right, m)
    <2>1. IsOutput(right)
      <3>1. Workflow!Compiled(plan) /\ RunInv(plan, tables, sources, run) /\ run.at \in 1 .. Len(plan)
        BY <1>1, RunUnderWay DEF UnderWay
      <3>2. s.right \in 1 .. run.at - 1
        BY <1>7, <3>1, CompiledStep
      <3> QED
        BY <3>1, <3>2, EarlierOutput
    <2>2. IsOutput(o)
      <3> HIDE DEF right
      <3> QED
        BY <1>2, <2>1, JoinedRows
    <2>3. o = Yielded(s, t)
      BY <1>2, <1>3, <1>4, <1>7, YieldedIs, Zenon
    <2>4. Workflow!Yield(run, o)
      BY <1>1, <1>7
    <2> HIDE DEF o
    <2> QED
      BY <1>1, <1>7, <2>2, <2>3, <2>4, SourceYield DEF t
  <1>8. CASE s.kind = "make"
    <2> DEFINE o == Workflow!MadeOutput(src, m)
    <2>1. IsOutput(o)
      BY <1>2, TransformRows
    <2>2. o = Yielded(s, t)
      BY <1>2, <1>4, <1>8, YieldedIs, Zenon
    <2>3. Workflow!Yield(run, o)
      BY <1>1, <1>8
    <2> HIDE DEF o
    <2> QED
      BY <1>1, <1>8, <2>1, <2>2, <2>3, SourceYield DEF t
  <1> QED
    BY <1>1, <1>5, <1>6, <1>7, <1>8

\* A provider is called, and answers or cannot be reached.
LEMMA CallProviderStep ==
    ASSUME WorkflowInv, Workflow!CallProvider
    PROVE  WorkflowInv'
  <1> DEFINE s == plan[run.at]
             src == Workflow!Source
             t == View(run)
             o == Workflow!ProviderOutput(src, s.listed, s.adds)
  <1>1. Workflow!More /\ s.kind = "provider" /\ (Workflow!Yield(run, o) \/ Workflow!Raise)
    BY DEF Workflow!CallProvider, Workflow!Step
  <1>2. src = t.outputs[s.src] /\ IsOutput(src)
    BY <1>1, StepSource
  <1>3. s.listed \in BOOLEAN /\ IsList(s.adds)
    <2>1. Workflow!Compiled(plan) /\ run.at \in 1 .. Len(plan)
      BY <1>1, RunUnderWay DEF UnderWay
    <2> QED
      BY <1>1, <2>1, CompiledStep
  <1> HIDE DEF src, t
  <1>4. IsOutput(o)
    BY <1>2, <1>3, ProviderRows
  <1>5. o = Yielded(s, t)
    BY <1>1, <1>2, YieldedIs, Zenon
  <1> HIDE DEF o
  <1>6. CASE Workflow!Yield(run, o)
    BY <1>1, <1>4, <1>5, <1>6, SourceYield DEF t
  <1>7. CASE Workflow!Raise
    BY <1>1, <1>7, RaiseStep
  <1> QED
    BY <1>1, <1>6, <1>7

\* A run with other previews, artifacts, graph and collected rows.
WithStore(r, x, y) == [r EXCEPT !.previews = x, !.store = y]
WithGraph(r, x, y, z) == [r EXCEPT !.graph = x, !.previews = y, !.delta = z]
LEMMA WithIs ==
    ASSUME NEW r, IsRun(r), NEW x, NEW y, NEW z
    PROVE  /\ LET q == WithStore(r, x, y)
              IN  /\ IsRun(q) /\ q.mode = r.mode /\ q.at = r.at /\ q.base = r.base
                  /\ q.graph = r.graph /\ q.known = r.known /\ q.store = y
                  /\ q.outputs = r.outputs /\ q.previews = x /\ q.delta = r.delta
           /\ LET q == WithGraph(r, x, y, z)
              IN  /\ IsRun(q) /\ q.mode = r.mode /\ q.at = r.at /\ q.base = r.base
                  /\ q.graph = x /\ q.known = r.known /\ q.store = r.store
                  /\ q.outputs = r.outputs /\ q.previews = y /\ q.delta = z
  <1> DEFINE a == r.mode
             b == r.at
             c == r.base
             d == r.graph
             e == r.known
             f == r.store
             g == r.outputs
             h == r.previews
             i == r.delta
             q2 == WithStore(r, x, y)
             q3 == WithGraph(r, x, y, z)
  <1>1. r = [mode |-> a, at |-> b, base |-> c, graph |-> d, known |-> e, store |-> f,
             outputs |-> g, previews |-> h, delta |-> i]
    BY DEF IsRun
  <1>2. /\ q2 = [r EXCEPT !.previews = x, !.store = y]
        /\ q3 = [r EXCEPT !.graph = x, !.previews = y, !.delta = z]
    BY DEF WithStore, WithGraph
  <1> HIDE DEF a, b, c, d, e, f, g, h, i, q2, q3
  <1>4. q2 = [mode |-> a, at |-> b, base |-> c, graph |-> d, known |-> e, store |-> y,
              outputs |-> g, previews |-> x, delta |-> i]
    BY <1>1, <1>2, Zenon
  <1>5. q3 = [mode |-> a, at |-> b, base |-> c, graph |-> x, known |-> e, store |-> f,
              outputs |-> g, previews |-> y, delta |-> z]
    BY <1>1, <1>2, Zenon
  <1>7. /\ q2.mode = a /\ q2.at = b /\ q2.base = c /\ q2.graph = d /\ q2.known = e
        /\ q2.store = y /\ q2.outputs = g /\ q2.previews = x /\ q2.delta = i
        /\ IsRun(q2)
    BY <1>4 DEF IsRun
  <1>8. /\ q3.mode = a /\ q3.at = b /\ q3.base = c /\ q3.graph = x /\ q3.known = e
        /\ q3.store = f /\ q3.outputs = g /\ q3.previews = y /\ q3.delta = z
        /\ IsRun(q3)
    BY <1>5 DEF IsRun
  <1> QED
    BY <1>7, <1>8 DEF a, b, c, d, e, f, g, h, i, q2, q3

\* assert_not_truncated and assert_count let the run go on, or end it.
LEMMA GuardStep ==
    ASSUME WorkflowInv, Workflow!Guard
    PROVE  WorkflowInv'
  <1> DEFINE s == plan[run.at]
             src == Workflow!Source
             t == View(run)
             fine == \/ s.kind = "not_truncated" /\ src.meta = "complete"
                     \/ s.kind = "count" /\ Len(src.items) >= s.least
  <1>1. /\ Workflow!More /\ s.kind \in {"not_truncated", "count"}
        /\ fine => Workflow!Yield(run, src)
        /\ ~fine => Workflow!Raise
    BY DEF Workflow!Guard, Workflow!Step, Workflow!Asserts
  <1>2. src = t.outputs[s.src] /\ IsOutput(src)
    BY <1>1, StepSource
  <1>3. Can(s, sources, t) <=> fine
    BY <1>1, <1>2 DEF Can, Workflow!Appliers
  <1>4. CASE ~fine
    BY <1>1, <1>3, <1>4, RaiseStep
  <1>5. CASE fine
    <2>1. src = Yielded(s, t)
      <3> HIDE DEF src, t
      <3> QED
        BY <1>1, <1>2, YieldedIs, Zenon
    <2>2. s.kind \notin Workflow!Appliers \cup {"register", "apply_all"}
      BY <1>1 DEF Workflow!Appliers
    <2>3. Workflow!Yield(run, src) /\ Can(s, sources, t)
      BY <1>1, <1>3, <1>5
    <2> HIDE DEF src, fine
    <2> QED
      BY <1>1, <1>2, <2>1, <2>2, <2>3, PlainYield
  <1> QED
    BY <1>4, <1>5

\* A step that registers finds what was known, if it is the only one.
LEMMA OnlyRegister ==
    ASSUME WorkflowInv, Workflow!More, plan[run.at].kind = "register", Once(plan)
    PROVE  run.store = sources
  <1>1. /\ RunStore(plan, sources, run) /\ run.at \in 1 .. Len(plan) /\ Len(plan) \in Nat
        /\ DOMAIN plan = 1 .. Len(plan)
    BY RunUnderWay DEF UnderWay, RunInv, Workflow!Compiled
  <1>2. ASSUME NEW i \in 1 .. run.at - 1, plan[i].kind = "register" PROVE FALSE
    <2>1. i \in DOMAIN plan /\ run.at \in DOMAIN plan /\ i # run.at
      BY <1>1
    <2> QED
      BY <1>2, <2>1 DEF Once
  <1> QED
    BY <1>1, <1>2 DEF RunStore

\* Rows are registered as artifacts, or one of them clashes.
LEMMA RegisterArtifactsStep ==
    ASSUME WorkflowInv, Workflow!Register
    PROVE  WorkflowInv'
  <1> DEFINE s == plan[run.at]
             src == Workflow!Source
             t == View(run)
             items == src.items
             fresh == Workflow!Keys(items) \ DOMAIN run.store
             all == [k \in DOMAIN run.store \cup fresh |->
                        IF k \in fresh THEN Workflow!NewValue(items, k) ELSE run.store[k]]
             preview_ == RegisterPreview(items, run.store)
             x == Append(run.previews, preview_)
             y == IF run.mode = "apply" THEN all ELSE run.store
             r == WithStore(run, x, y)
             q == run'
  <1>1. /\ Workflow!More /\ s.kind = "register"
        /\ ~Clashes(items, run.store) => Workflow!Yield(r, src)
        /\ Clashes(items, run.store) => Workflow!Raise
    BY DEF Workflow!Register, Workflow!Step, WithStore, RegisterPreview, Clashes
  <1>2. src = t.outputs[s.src] /\ IsOutput(src)
    BY <1>1, StepSource
  <1>3. /\ t.outputs = run.outputs /\ t.graph = run.graph /\ t.previews = run.previews
    BY DEF View
  <1>4. /\ RunInv(plan, tables, sources, run) /\ IsRun(run) /\ Workflow!Compiled(plan)
        /\ run.at <= Len(plan)
        /\ run.mode \in {"check", "checked", "apply"} => held # Workflow!Nothing
    BY <1>1, RunUnderWay DEF UnderWay
  <1>5. Once(plan) => run.store = sources
    BY <1>1, OnlyRegister
  <1>6. Once(plan) => (Can(s, sources, t) <=> ~Clashes(items, run.store))
    BY <1>1, <1>2, <1>5 DEF Can, Workflow!Appliers
  <1>7. CASE Clashes(items, run.store)
    BY <1>1, <1>6, <1>7, RaiseStep
  <1>8. CASE ~Clashes(items, run.store)
    <2>1. CreatePart(preview_) = 0
      BY DEF CreatePart, RegisterPreview
    <2>2. PreviewsAfter(s, run.store, t) = x
      BY <1>1, <1>2, <1>3 DEF PreviewsAfter
    <2> HIDE DEF src, y, preview_
    <2>3. IsPreviews(x) /\ Workflow!Creates(x) = Workflow!Creates(run.previews)
      <3>1. IsPreviews(run.previews)
        BY <1>4 DEF RunInv, RunWrites
      <3>2. Workflow!Creates(run.previews) \in Nat
        BY <3>1, CreatesTotal, Zenon
      <3> QED
        BY <2>1, <3>1, <3>2, CreatesOne
    <2> HIDE DEF x, t
    <2>4. /\ IsRun(r) /\ r.mode = run.mode /\ r.at = run.at /\ r.base = run.base
          /\ r.graph = run.graph /\ r.known = run.known /\ r.store = y
          /\ r.outputs = run.outputs /\ r.previews = x /\ r.delta = run.delta
      BY <1>4, WithIs
    <2>5. Workflow!Yield(r, src)
      BY <1>1, <1>8
    <2> HIDE DEF r
    <2>6. q = OneMore(r, src) /\ UNCHANGED Workflow!Rest
      BY <2>5 DEF Workflow!Yield, OneMore
    <2> HIDE DEF q
    <2>7. /\ IsRun(q) /\ q.mode = r.mode /\ q.at = r.at + 1 /\ q.base = r.base
          /\ q.graph = r.graph /\ q.known = r.known /\ q.store = r.store
          /\ q.outputs = Append(r.outputs, src) /\ q.previews = r.previews
          /\ q.delta = r.delta
      BY <2>4, <2>6, YieldIs
    <2>8. RunWrites(tables, q)
      BY <1>4, <2>3, <2>4, <2>7 DEF RunInv, RunWrites
    <2>10. Once(plan) => View(q) = After(s, sources, t)
      <3> SUFFICES ASSUME Once(plan) PROVE View(q) = After(s, sources, t)
        OBVIOUS
      <3>1. PreviewsAfter(s, sources, t) = x
        BY <1>5, <2>2
      <3>2. GraphAfter(s, t) = run.graph
        BY <1>1, <1>3 DEF GraphAfter, Workflow!Appliers
      <3>3. Yielded(s, t) = src
        BY <1>1, <1>2, YieldedIs, Zenon
      <3>4. View(q) = [graph |-> run.graph, outputs |-> Append(run.outputs, src), previews |-> x]
        BY <2>4, <2>7 DEF View
      <3> QED
        BY <1>3, <3>1, <3>2, <3>3, <3>4 DEF After
    <2>12. y = run.store \/ (run.mode = "apply" /\ s.kind = "register")
      BY <1>1 DEF y
    <2>13. RunInv(plan, tables, sources, q)
      <3>1. /\ q.mode = run.mode /\ q.at = run.at + 1 /\ q.base = run.base /\ q.known = run.known
            /\ q.outputs = Append(run.outputs, src)
            /\ q.store = run.store \/ (run.mode = "apply" /\ s.kind = "register")
        BY <2>4, <2>7, <2>12
      <3>2. Once(plan) => Can(s, sources, View(run)) /\ View(q) = After(s, sources, View(run))
        BY <1>6, <1>8, <2>10 DEF t
      <3> QED
        BY <1>2, <1>4, <2>7, <2>8, <3>1, <3>2, RunAdvances
    <2>14. q.mode = run.mode
      BY <2>4, <2>7
    <2> QED
      BY <1>4, <2>6, <2>13, <2>14, RunKeeps DEF q
  <1> QED
    BY <1>7, <1>8

\* An apply step whose sets were applied.
NoRows == Workflow!Output(<<>>, Workflow!NoMeta)
LEMMA ApplyYield ==
    ASSUME WorkflowInv, Workflow!More, plan[run.at].kind \in Workflow!Appliers,
           NEW g, NEW counts, NEW d, Workflow!Yield(WithGraph(run, g, counts, d), NoRows),
           Grown(tables, g), IsPreviews(counts), Workflow!Creates(counts) = Appeared(tables, g),
           run.mode = "apply" => Covers(tables, g, d),
           Can(plan[run.at], sources, View(run)), g = GraphAfter(plan[run.at], View(run)),
           counts = PreviewsAfter(plan[run.at], sources, View(run))
    PROVE  WorkflowInv'
  <1> DEFINE s == plan[run.at]
             r == WithGraph(run, g, counts, d)
             o == NoRows
             q == run'
  <1>1. /\ RunInv(plan, tables, sources, run) /\ IsRun(run) /\ Workflow!Compiled(plan)
        /\ run.at <= Len(plan)
        /\ run.mode \in {"check", "checked", "apply"} => held # Workflow!Nothing
    BY RunUnderWay DEF UnderWay
  <1>2. IsOutput(o)
    <2>1. <<>> \in Seq({})
      OBVIOUS
    <2>2. IsList(<<>>)
      BY <2>1, SeqIsList, Zenon
    <2> QED
      BY <2>2, OutputIs DEF NoRows
  <1>3. Yielded(s, View(run)) = o
    BY YieldedIs, Zenon DEF NoRows
  <1> HIDE DEF o
  <1>4. /\ IsRun(r) /\ r.mode = run.mode /\ r.at = run.at /\ r.base = run.base
        /\ r.graph = g /\ r.known = run.known /\ r.store = run.store
        /\ r.outputs = run.outputs /\ r.previews = counts /\ r.delta = d
    BY <1>1, WithIs
  <1>5. Workflow!Yield(r, o)
    BY DEF o
  <1> HIDE DEF r
  <1>6. q = OneMore(r, o) /\ UNCHANGED Workflow!Rest
    BY <1>5 DEF Workflow!Yield, OneMore
  <1> HIDE DEF q
  <1>7. /\ IsRun(q) /\ q.mode = r.mode /\ q.at = r.at + 1 /\ q.base = r.base
        /\ q.graph = r.graph /\ q.known = r.known /\ q.store = r.store
        /\ q.outputs = Append(r.outputs, o) /\ q.previews = r.previews
        /\ q.delta = r.delta
    BY <1>4, <1>6, YieldIs
  <1>8. RunWrites(tables, q)
    BY <1>4, <1>7 DEF RunWrites
  <1>10. View(q) = After(s, sources, View(run))
    <2>1. View(run).outputs = run.outputs
      BY DEF View
    <2>2. View(q) = [graph |-> g, outputs |-> Append(run.outputs, o), previews |-> counts]
      BY <1>4, <1>7 DEF View
    <2> QED
      BY <1>3, <2>1, <2>2 DEF After
  <1>12. RunInv(plan, tables, sources, q)
    <2>1. /\ q.mode = run.mode /\ q.at = run.at + 1 /\ q.base = run.base /\ q.known = run.known
          /\ q.outputs = Append(run.outputs, o) /\ q.store = run.store
      BY <1>4, <1>7
    <2> QED
      BY <1>1, <1>2, <1>7, <1>8, <1>10, <2>1, RunAdvances
  <1>13. q.mode = run.mode
    BY <1>4, <1>7
  <1> QED
    BY <1>1, <1>6, <1>12, <1>13, RunKeeps DEF q

\* The sets of an apply step.
LEMMA SetsAre ==
    ASSUME NEW s, s.kind \in Workflow!Appliers
    PROVE  /\ Workflow!Sets(s)[1][1] = s.src
           /\ s.kind # "apply_all" => Len(Workflow!Sets(s)) = 1
           /\ s.kind = "apply_all" => /\ Len(Workflow!Sets(s)) = 2
                                      /\ Workflow!Sets(s)[2][1] = s.rels
  BY DEF Workflow!Sets, Workflow!Appliers

\* What is counted of an applied set.
LEMMA CountsAre ==
    ASSUME NEW a
    PROVE  CreatePart(CountsOf(a)) = a.create
  BY DEF CreatePart, CountsOf

\* Sets of entities and relationships are applied, or one of them is refused.
LEMMA ApplyStep ==
    ASSUME WorkflowInv, Workflow!Apply
    PROVE  WorkflowInv'
  <1> DEFINE s == plan[run.at]
             t == View(run)
             sets == Workflow!Sets(s)
             e1 == sets[1][2]
             e2 == sets[2][2]
             i1 == run.outputs[sets[1][1]].items
             i2 == run.outputs[sets[2][1]].items
             one == Workflow!ApplySet(run.graph, i1, e1, s.rules)
             two == Workflow!ApplySet(one.graph, i2, e2, s.rules)
             d1 == Workflow!Collect(run.delta, run.graph, one.graph, i1, e1)
             d2 == Workflow!Collect(d1, one.graph, two.graph, i2, e2)
             applying == run.mode = "apply"
             p1 == run.previews \o <<CountsOf(one)>>
             p2 == run.previews \o <<CountsOf(one), CountsOf(two)>>
             r1 == WithGraph(run, one.graph, p1, IF applying THEN d1 ELSE run.delta)
             r2 == WithGraph(run, two.graph, p2, IF applying THEN d2 ELSE run.delta)
  <1>1. /\ Workflow!More /\ s.kind \in Workflow!Appliers
        /\ ~one.ok => Workflow!Raise
        /\ one.ok /\ Len(sets) = 1 => Workflow!Yield(r1, NoRows)
        /\ one.ok /\ Len(sets) # 1 /\ ~two.ok => Workflow!Raise
        /\ one.ok /\ Len(sets) # 1 /\ two.ok => Workflow!Yield(r2, NoRows)
    BY Zenon DEF Workflow!Apply, Workflow!Step, WithGraph, NoRows, CountsOf, Workflow!Appliers
  <1>2. t.outputs = run.outputs /\ t.graph = run.graph /\ t.previews = run.previews
    BY DEF View
  <1>3. FirstSet(s, t) = one /\ SecondSet(s, t) = two
    BY <1>2 DEF FirstSet, SecondSet
  <1>4. /\ sets[1][1] = s.src
        /\ Len(sets) = 1 <=> s.kind # "apply_all"
        /\ s.kind = "apply_all" => sets[2][1] = s.rels
    <2>1. s.kind \in Workflow!Appliers
      BY <1>1, Zenon
    <2> HIDE DEF s, one, two, r1, r2, p1, p2, d1, d2, i1, i2, e1, e2
    <2>2. /\ sets[1][1] = s.src
          /\ s.kind # "apply_all" => Len(sets) = 1
          /\ s.kind = "apply_all" => Len(sets) = 2 /\ sets[2][1] = s.rels
      BY <2>1, SetsAre
    <2> HIDE DEF sets
    <2> QED
      BY <2>2
  <1>5. /\ RunInv(plan, tables, sources, run) /\ Workflow!Compiled(plan)
        /\ run.at \in 1 .. Len(plan)
    BY <1>1, RunUnderWay, Zenon DEF UnderWay
  <1>6. IsList(i1) /\ (s.kind = "apply_all" => IsList(i2))
    <2>1. s.kind # "query"
      BY <1>1, Zenon DEF Workflow!Appliers
    <2>2. s.src \in 1 .. run.at - 1 /\ (s.kind = "apply_all" => s.rels \in 1 .. run.at - 1)
      BY <1>5, <2>1, CompiledStep
    <2>3. \A k \in 1 .. run.at - 1 : IsList(run.outputs[k].items)
      BY <1>5, EarlierOutput
    <2> QED
      BY <1>4, <2>2, <2>3
  <1>7. /\ Grown(tables, run.graph) /\ IsPreviews(run.previews)
        /\ Workflow!Creates(run.previews) = Appeared(tables, run.graph)
        /\ applying => Covers(tables, run.graph, run.delta)
    BY <1>5 DEF RunInv, RunWrites
  <1>8. Can(s, sources, t) <=> one.ok /\ (s.kind = "apply_all" => two.ok)
    BY <1>1, <1>3, Zenon DEF Can, Workflow!Appliers
  <1>9. /\ s.kind # "apply_all" => /\ GraphAfter(s, t) = one.graph
                                   /\ PreviewsAfter(s, sources, t) = p1
        /\ s.kind = "apply_all" => /\ GraphAfter(s, t) = two.graph
                                   /\ PreviewsAfter(s, sources, t) = p2
    BY <1>1, <1>2, <1>3, Zenon DEF GraphAfter, PreviewsAfter, Workflow!Appliers
  <1>10. ASSUME one.ok
         PROVE  /\ Grown(tables, one.graph) /\ one.create \in Nat
                /\ Appeared(tables, one.graph) = Appeared(tables, run.graph) + one.create
                /\ applying => Covers(tables, one.graph, d1)
    <2> HIDE DEF i1, e1
    <2> QED
      BY <1>6, <1>7, <1>10, SetApplied
  <1>11. ASSUME one.ok, s.kind = "apply_all", two.ok
         PROVE  /\ Grown(tables, two.graph) /\ two.create \in Nat
                /\ Appeared(tables, two.graph) = Appeared(tables, one.graph) + two.create
                /\ applying => Covers(tables, two.graph, d2)
    <2> HIDE DEF i2, e2, one, d1
    <2> QED
      BY <1>6, <1>10, <1>11, SetApplied
  <1> HIDE DEF one, two, d1, d2, t
  <1>12. one.ok => /\ p1 = Append(run.previews, CountsOf(one)) /\ IsPreviews(p1)
                   /\ Workflow!Creates(p1) = Appeared(tables, run.graph) + one.create
    <2> SUFFICES ASSUME one.ok
                 PROVE  /\ p1 = Append(run.previews, CountsOf(one)) /\ IsPreviews(p1)
                        /\ Workflow!Creates(p1) = Appeared(tables, run.graph) + one.create
      OBVIOUS
    <2> DEFINE c == CountsOf(one)
    <2>1. CreatePart(c) = one.create /\ one.create \in Nat
      BY <1>10, CountsAre
    <2> HIDE DEF c
    <2>2. run.previews \o <<c>> = Append(run.previews, c)
      BY <1>7, ConcatAppends DEF IsPreviews
    <2>3. /\ IsPreviews(Append(run.previews, c))
          /\ Workflow!Creates(Append(run.previews, c))
             = Workflow!Creates(run.previews) + CreatePart(c)
      BY <1>7, <2>1, CreatesOne
    <2> QED
      BY <1>7, <2>1, <2>2, <2>3, Zenon DEF c
  <1>13. CASE ~one.ok \/ (s.kind = "apply_all" /\ ~two.ok)
    <2>1. Workflow!Raise /\ ~Can(s, sources, t)
      BY <1>1, <1>4, <1>8, <1>13
    <2> QED
      BY <1>1, <2>1, RaiseStep DEF t
  <1>14. CASE one.ok /\ s.kind # "apply_all"
    <2> DEFINE g == one.graph
               d == IF applying THEN d1 ELSE run.delta
    <2>1. Workflow!Yield(WithGraph(run, g, p1, d), NoRows)
      BY <1>1, <1>4, <1>14
    <2>2. /\ Grown(tables, g) /\ IsPreviews(p1) /\ Workflow!Creates(p1) = Appeared(tables, g)
          /\ run.mode = "apply" => Covers(tables, g, d)
      BY <1>10, <1>12, <1>14
    <2>3. Can(s, sources, t) /\ g = GraphAfter(s, t) /\ p1 = PreviewsAfter(s, sources, t)
      BY <1>8, <1>9, <1>14
    <2> HIDE DEF g, p1, d
    <2> QED
      BY <1>1, <2>1, <2>2, <2>3, ApplyYield DEF t
  <1>15. CASE one.ok /\ s.kind = "apply_all" /\ two.ok
    <2> DEFINE g == two.graph
               d == IF applying THEN d2 ELSE run.delta
               b == CountsOf(one)
               c == CountsOf(two)
    <2>1. Workflow!Yield(WithGraph(run, g, p2, d), NoRows)
      BY <1>1, <1>4, <1>15
    <2>2. CreatePart(c) = two.create /\ two.create \in Nat
      BY <1>11, <1>15, CountsAre
    <2>3. p2 = Append(p1, c)
      <3>1. p2 = run.previews \o <<b, c>> /\ p1 = Append(run.previews, b)
        BY <1>12, <1>15
      <3> HIDE DEF b, c
      <3>2. run.previews \o <<b, c>> = Append(Append(run.previews, b), c)
        BY <1>7, ConcatAppends DEF IsPreviews
      <3> QED
        BY <3>1, <3>2
    <2>4. IsPreviews(p2) /\ Workflow!Creates(p2) = Workflow!Creates(p1) + two.create
      <3> HIDE DEF p1, p2, c
      <3> QED
        BY <1>12, <1>15, <2>2, <2>3, CreatesOne
    <2>5. Workflow!Creates(p2) = Appeared(tables, g)
      BY <1>10, <1>11, <1>12, <1>15, <2>4
    <2>6. Grown(tables, g) /\ (run.mode = "apply" => Covers(tables, g, d))
      BY <1>11, <1>15
    <2>7. Can(s, sources, t) /\ g = GraphAfter(s, t) /\ p2 = PreviewsAfter(s, sources, t)
      BY <1>8, <1>9, <1>15, Zenon
    <2> HIDE DEF g, p2, d
    <2> QED
      BY <1>1, <2>1, <2>4, <2>5, <2>6, <2>7, ApplyYield DEF t
  <1> QED
    BY <1>13, <1>14, <1>15

\* A plan without two steps that register has at most one.
LEMMA OneRegister ==
    ASSUME Workflow!Compiled(plan), ~Workflow!RegistersTwice
    PROVE  Once(plan)
  <1> DEFINE S == {i \in DOMAIN plan : plan[i].kind = "register"}
  <1>1. DOMAIN plan = 1 .. Len(plan) /\ Len(plan) \in Nat
    BY DEF Workflow!Compiled
  <1>2. IsFiniteSet(1 .. Len(plan))
    BY <1>1, FS_Interval
  <1>3. IsFiniteSet(S)
    BY <1>1, <1>2, FS_Subset
  <1>4. ~(Cardinality(S) > 1)
    BY SameCount DEF Workflow!RegistersTwice
  <1>5. ASSUME NEW i \in S, NEW j \in S, i # j PROVE FALSE
    <2> HIDE DEF S
    <2>1. /\ Cardinality(S \ {i}) = Cardinality(S) - 1 /\ IsFiniteSet(S \ {i})
      BY <1>3, <1>5, FS_RemoveElement
    <2>2. Cardinality(S) \in Nat /\ Cardinality(S \ {i}) \in Nat
      BY <1>3, <2>1, FS_CardinalityType
    <2>3. Cardinality(S \ {i}) # 0
      <3>1. S \ {i} # {}
        BY <1>5
      <3> QED
        BY <2>1, <3>1, FS_EmptySet
    <2> QED
      BY <1>4, <2>1, <2>2, <2>3
  <1> QED
    BY <1>5 DEF Once

\* What an apply committed.
LEMMA CommittedWholeHolds == WorkflowInv => Workflow!CommittedWhole
  <1> SUFFICES ASSUME WorkflowInv, last.mode = "apply", last.ok
               PROVE  /\ tables = last.run.graph
                      /\ image = tables
                      /\ \A e \in DOMAIN tables.edges : {e[1], e[2]} \subseteq Workflow!Ids(tables)
                      /\ \A e \in tables.pending : tables.edges[e] = last.run.base.edges[e]
                      /\ Workflow!Creates(last.run.previews) =
                             Workflow!Cardinality(Workflow!Ids(tables) \ Workflow!Ids(last.run.base))
                             + Workflow!Cardinality(DOMAIN tables.edges \ DOMAIN last.run.base.edges)
    BY DEF Workflow!CommittedWhole
  <1> DEFINE b == last.run.base
  <1>1. Outcome(plan, tables, image, last)
    BY DEF WorkflowInv
  <1>2. tables = last.run.graph /\ image = tables /\ RunWrites(b, last.run)
    BY <1>1 DEF Outcome, RunInv
  <1>3. /\ Grown(b, tables) /\ Workflow!Creates(last.run.previews) = Appeared(b, tables)
    BY <1>2 DEF RunWrites
  <1> HIDE DEF b
  <1>4. /\ \A e \in DOMAIN tables.edges : {e[1], e[2]} \subseteq DOMAIN tables.entities
        /\ \A e \in tables.pending : tables.edges[e] = b.edges[e]
    BY <1>3, SoundIs DEF Grown, IsGraph
  <1> QED
    BY <1>2, <1>3, <1>4, SameCount DEF Appeared, Workflow!Ids, b

\* What an apply makes of the state its preview saw.
LEMMA AsPreviewedHolds == WorkflowInv => Workflow!AsPreviewed
  <1> SUFFICES ASSUME WorkflowInv, last.mode = "apply", ~Workflow!RegistersTwice,
                      held.base = last.run.base, held.store = last.run.known
               PROVE  /\ last.ok => /\ last.run.graph = held.graph
                                    /\ last.run.previews = held.digest.previews
                      /\ ~last.ok => plan[last.run.at].kind = "provider"
    BY DEF Workflow!AsPreviewed
  <1> DEFINE b == held.base
             k == held.store
             n == Len(plan) + 1
             m == last.run.at
             v == View(last.run)
  <1>1. Workflow!Compiled(plan) /\ Promise(plan, held) /\ Outcome(plan, tables, image, last)
    BY DEF WorkflowInv
  <1>2. Once(plan)
    BY <1>1, OneRegister
  <1>3. PICK t : Reaches(plan, b, k, n, t) /\ t.graph = held.graph
                 /\ t.previews = held.digest.previews
    BY <1>1, <1>2 DEF Promise
  <1>4. Reaches(plan, b, k, m, v) /\ m \in 1 .. n
    BY <1>1, <1>2 DEF Outcome, RunInv, RunSteady, RunShape
  <1>5. n \in Nat \ {0} /\ m \in Nat \ {0} /\ m <= n
    BY <1>1, <1>4 DEF Workflow!Compiled
  <1>6. v.graph = last.run.graph /\ v.previews = last.run.previews
    BY DEF View
  <1>7. /\ last.ok => m = n
        /\ ~last.ok => m < n /\ (plan[m].kind = "provider" \/ ~Can(plan[m], k, v))
    BY <1>1, <1>2, <1>5 DEF Outcome, Workflow!Compiled
  <1> HIDE DEF b, k, n, m, v
  <1>8. (m = n => v = t) /\ (m < n => Can(plan[m], k, v))
    BY <1>3, <1>4, <1>5, SameViews
  <1> QED
    BY <1>3, <1>6, <1>7, <1>8 DEF m

\* No step breaks the invariant.
LEMMA WorkflowNext == WorkflowInv /\ Workflow!Next => WorkflowInv'
  BY BeginStep, OtherWriteStep, QueryStep, TransformStep, CallProviderStep, GuardStep,
     RegisterArtifactsStep, ApplyStep, FinishPreviewStep, CheckDigestStep, WorkflowCommits
     DEF Workflow!Next

\* Nothing of the workflow changes.
LEMMA WorkflowStutter == WorkflowInv /\ UNCHANGED workflowVars => WorkflowInv'
  <1> SUFFICES ASSUME WorkflowInv, UNCHANGED workflowVars PROVE WorkflowInv'
    OBVIOUS
  <1>1. UNCHANGED <<plan, tables, image, head, sources, run, held, last, others>>
    BY DEF workflowVars
  <1>2. UNCHANGED Workflow!Rest
    BY <1>1 DEF Workflow!Rest
  <1>3. /\ run'.mode \in {"check", "checked", "apply"} => held # Workflow!Nothing
        /\ run'.mode \in {"preview", "check", "apply"} => RunInv(plan, tables, sources, run')
    BY <1>1 DEF WorkflowInv, Workflow!Running
  <1> QED
    BY <1>2, <1>3, RunKeeps

\* For every plan that the compiler lets pass, every stored graph, and any
\* number of applies and of writes by others in between: the rows collected by
\* an apply make the tables the graph its steps computed, with the counts the
\* client compared; and over the state its preview saw it computes what the
\* preview did, unless a provider cannot be reached: assertions, validation,
\* mutation guards and write policies decide the same (execute_workflow, the
\* step handlers of workflow/step_handlers.py, apply_entity_set,
\* apply_relationship_set, service_apply_workflow).
THEOREM WorkflowsExact == Spec => []WorkflowExact
<1>1. Init => WorkflowInv
  BY WorkflowInit DEF Init
<1>2. WorkflowInv /\ [Next]_vars => WorkflowInv'
  <2> SUFFICES ASSUME WorkflowInv, [Next]_vars PROVE WorkflowInv'
    OBVIOUS
  <2>1. Workflow!Next \/ UNCHANGED workflowVars
    BY DEF Next, vars
  <2> QED
    BY <2>1, WorkflowNext, WorkflowStutter
<1>3. WorkflowInv => WorkflowExact
  BY CommittedWholeHolds, AsPreviewedHolds
     DEF WorkflowExact, Workflow!WorkflowExact
<1> QED
  BY <1>1, <1>2, <1>3, PTL DEF Spec

-----------------------------------------------------------------------------
(* Claim identity: parallel edges and their places. *)

\* The positions of the edges of a tuple, and the place of an edge among them.
At(s, t) == {i \in DOMAIN s : s[i].tuple = t}
PlaceOf(s, i) == Upto(At(s, s[i].tuple), i)

\* One list of things is the start of the other.
IsPre(a, b) == Len(a) <= Len(b) /\ \A p \in 1 .. Len(a) : a[p] = b[p]

\* The things of a tuple: one at the place of each of its edges, and no other.
Lines(s, t, c) ==
    /\ IsList(c) /\ Len(c) = Upto(At(s, t), Len(s))
    /\ \A i \in At(s, t) : Upto(At(s, t), i) \in 1 .. Len(c) /\ c[Upto(At(s, t), i)] = s[i].thing
    /\ \A p \in 1 .. Len(c) : \E i \in At(s, t) : Upto(At(s, t), i) = p

\* What the model computes by going through the image is this list.
LEMMA ThingsLines ==
    ASSUME NEW X, NEW s \in Seq(X), NEW t
    PROVE  Lines(s, t, Identity!ThingsOf(s, t)) /\ Identity!OfTuple(s, t) \in Seq(X)
           /\ DOMAIN Identity!ThingsOf(s, t) = 1 .. Len(Identity!ThingsOf(s, t))
           /\ Len(Identity!OfTuple(s, t)) = Upto(At(s, t), Len(s))
           /\ Placement(s, At(s, t), Identity!OfTuple(s, t), Len(s))
  <1> DEFINE o == Identity!OfTuple(s, t)
             c == [p \in 1 .. Len(o) |-> o[p].thing]
             keep == At(s, t)
  <1>1. o = Chosen(s, keep)
    BY DEF Identity!OfTuple, Identity!EdgesAt, Chosen, At
  <1>2. o \in Seq(X) /\ Placement(s, keep, o, Len(s))
    <2> HIDE DEF o, keep
    <2> QED
      BY <1>1, ChosenPlaces
  <1>3. Identity!ThingsOf(s, t) = c
    <2>1. DOMAIN o = 1 .. Len(o)
      <3> HIDE DEF o
      <3> QED
        BY <1>2
    <2> QED
      BY <2>1 DEF Identity!ThingsOf
  <1>4. IsList(c) /\ Len(c) = Len(o) /\ DOMAIN c = 1 .. Len(c)
    <2>1. Len(o) \in Nat
      <3> HIDE DEF o
      <3> QED
        BY <1>2
    <2>2. DOMAIN c = 1 .. Len(o) /\ c = [p \in 1 .. Len(o) |-> c[p]]
      OBVIOUS
    <2> HIDE DEF c
    <2>3. IsList(c) /\ Len(c) = Len(o)
      BY <2>1, <2>2, ListOf
    <2> QED
      BY <2>2, <2>3
  <1>5. \A p \in 1 .. Len(o) : c[p] = o[p].thing
    OBVIOUS
  <1>6. \A i \in keep : i \in 1 .. Len(s)
    BY DEF At
  <1> HIDE DEF o, c, keep
  <1>7. Lines(s, t, c)
    BY <1>2, <1>4, <1>5, <1>6 DEF Lines, Placement, keep
  <1> QED
    BY <1>2, <1>3, <1>4, <1>7 DEF Placement, o, keep

\* A longer image lines up with a shorter one that it starts with.
LEMMA PrefixLines ==
    ASSUME NEW X, NEW a \in Seq(X), NEW Y, NEW b \in Seq(Y), NEW t, Len(a) <= Len(b),
           \A i \in 1 .. Len(a) : a[i].tuple = b[i].tuple /\ a[i].thing = b[i].thing
    PROVE  /\ IsPre(Identity!ThingsOf(a, t), Identity!ThingsOf(b, t))
           /\ \A i \in 1 .. Len(a) : Upto(At(a, t), i) = Upto(At(b, t), i)
  <1> DEFINE c == Identity!ThingsOf(a, t)
             d == Identity!ThingsOf(b, t)
  <1>1. Lines(a, t, c) /\ Lines(b, t, d)
    <2> HIDE DEF c, d
    <2>1. Lines(a, t, c)
      BY ThingsLines DEF c
    <2>2. Lines(b, t, d)
      BY ThingsLines DEF d
    <2> QED
      BY <2>1, <2>2
  <1>2. ASSUME NEW i \in 1 .. Len(a) PROVE Upto(At(a, t), i) = Upto(At(b, t), i)
    <2>1. At(a, t) \cap (1 .. i) = At(b, t) \cap (1 .. i)
      BY DEF At
    <2> QED
      BY <2>1, Zenon DEF Upto
  <1>3. \A i \in At(a, t) : i \in 1 .. Len(a) /\ i \in At(b, t) /\ a[i].thing = b[i].thing
    BY DEF At
  <1> HIDE DEF c, d
  <1>4. ASSUME NEW p \in 1 .. Len(c) PROVE p \in 1 .. Len(d) /\ c[p] = d[p]
    <2>1. PICK i \in At(a, t) : Upto(At(a, t), i) = p
      BY <1>1 DEF Lines
    <2>2. c[p] = a[i].thing
      BY <2>1, <1>1 DEF Lines
    <2>3. Upto(At(b, t), i) = p
      BY <2>1, <1>2, <1>3
    <2>4. p \in 1 .. Len(d) /\ d[p] = b[i].thing
      BY <2>3, <1>1, <1>3 DEF Lines
    <2> QED
      BY <2>2, <2>4, <1>3
  <1>5. Len(c) <= Len(d)
    <2>1. Len(c) \in Nat /\ Len(d) \in Nat
      BY <1>1 DEF Lines, IsList
    <2>2. Len(c) # 0 => Len(c) \in 1 .. Len(c)
      BY <2>1
    <2> QED
      BY <2>1, <2>2, <1>4
  <1> QED
    BY <1>2, <1>4, <1>5 DEF IsPre, c, d

\* An edge more.
LEMMA AppendLines ==
    ASSUME NEW X, NEW s \in Seq(X), NEW e \in X, NEW t
    PROVE  LET c == Identity!ThingsOf(s, t)
               d == Identity!ThingsOf(Append(s, e), t)
           IN  /\ IsPre(c, d)
               /\ e.tuple = t => Len(d) = Len(c) + 1 /\ d[Len(c) + 1] = e.thing
               /\ e.tuple # t => Len(d) = Len(c)
  <1> DEFINE b == Append(s, e)
             n == Len(s)
             c == Identity!ThingsOf(s, t)
             d == Identity!ThingsOf(b, t)
  <1>1. b \in Seq(X) /\ Len(b) = n + 1 /\ b[n + 1] = e /\ (\A i \in 1 .. n : b[i] = s[i]) /\ n \in Nat
    OBVIOUS
  <1> HIDE DEF b, n
  <1>2. IsPre(c, d) /\ \A i \in 1 .. n : Upto(At(s, t), i) = Upto(At(b, t), i)
    <2>1. Len(s) <= Len(b) /\ \A i \in 1 .. Len(s) : s[i].tuple = b[i].tuple /\ s[i].thing = b[i].thing
      BY <1>1 DEF n
    <2> QED
      BY <1>1, <2>1, PrefixLines DEF n
  <1>3. Lines(s, t, c) /\ Lines(b, t, d)
    BY <1>1, ThingsLines
  <1>4. n + 1 \in At(b, t) <=> e.tuple = t
    BY <1>1 DEF At
  <1>5. Upto(At(b, t), n + 1) = (IF n + 1 \in At(b, t) THEN Upto(At(b, t), n) + 1 ELSE Upto(At(b, t), n))
        /\ Upto(At(b, t), n) \in Nat
    BY <1>1, UptoSteps, Zenon
  <1>6. Upto(At(b, t), n) = Upto(At(s, t), n)
    <2>1. CASE n = 0
      <3>1. 0 \in Nat
        OBVIOUS
      <3>2. Upto(At(b, t), 0) = 0 /\ Upto(At(s, t), 0) = 0
        BY <3>1, UptoSteps
      <3> QED
        BY <2>1, <3>2
    <2>2. CASE n # 0
      BY <2>2, <1>1, <1>2
    <2> QED
      BY <2>1, <2>2
  <1> HIDE DEF c, d
  <1>7. Len(c) = Upto(At(b, t), n) /\ Len(d) = Upto(At(b, t), n + 1)
    BY <1>1, <1>3, <1>6 DEF Lines, n
  <1>8. e.tuple = t => Len(d) = Len(c) + 1 /\ d[Len(c) + 1] = e.thing
    BY <1>1, <1>3, <1>4, <1>5, <1>7 DEF Lines
  <1>9. e.tuple # t => Len(d) = Len(c)
    BY <1>4, <1>5, <1>7
  <1> QED
    BY <1>2, <1>8, <1>9 DEF b, c, d

\* Every edge of b is one of a, and no two of them the same.
Within(b, a, e) ==
    /\ e \in [1 .. Len(b) -> 1 .. Len(a)] /\ \A i, j \in 1 .. Len(b) : e[i] = e[j] => i = j
    /\ \A i \in 1 .. Len(b) : b[i] = a[e[i]]

\* An image without some edges lines up no further.
LEMMA FewerLines ==
    ASSUME NEW X, NEW a \in Seq(X), NEW b \in Seq(X), NEW e, Within(b, a, e), NEW t
    PROVE  Len(Identity!ThingsOf(b, t)) <= Len(Identity!ThingsOf(a, t))
  <1> DEFINE A == At(a, t)
             B == At(b, t)
             f == [i \in B |-> e[i]]
  <1>1. A = A \cap (1 .. Len(a)) /\ B = B \cap (1 .. Len(b)) /\ Len(a) \in Nat
    BY DEF At
  <1>2. IsFiniteSet(A)
    <2>1. IsFiniteSet(1 .. Len(a)) /\ A \subseteq 1 .. Len(a)
      BY <1>1, FS_Interval
    <2> QED
      BY <2>1, FS_Subset
  <1>3. \A i \in B : e[i] \in A
    BY DEF At, Within
  <1>4. f \in [B -> A] /\ \A i, j \in B : f[i] = f[j] => i = j
    <2>1. \A i \in B : i \in 1 .. Len(b)
      BY <1>1
    <2> HIDE DEF A, B
    <2> QED
      BY <2>1, <1>3 DEF Within
  <1>5. f \in Injection(B, A)
    <2> HIDE DEF f, A, B
    <2> QED
      BY <1>4 DEF Injection, IsInjective
  <1>6. Cardinality(B) <= Cardinality(A)
    <2> HIDE DEF f, A, B
    <2> QED
      BY <1>2, <1>5, FS_Injection
  <1>7. /\ Len(Identity!ThingsOf(b, t)) = Upto(B, Len(b))
        /\ Len(Identity!ThingsOf(a, t)) = Upto(A, Len(a))
    <2>1. Lines(b, t, Identity!ThingsOf(b, t)) /\ Lines(a, t, Identity!ThingsOf(a, t))
      BY ThingsLines
    <2> QED
      BY <2>1 DEF Lines
  <1>8. Upto(B, Len(b)) = Cardinality(B) /\ Upto(A, Len(a)) = Cardinality(A)
    BY <1>1, Zenon DEF Upto
  <1> QED
    BY <1>6, <1>7, <1>8

\* What is kept of an image is within it.
LEMMA KeptWithin ==
    ASSUME NEW X, NEW s \in Seq(X), NEW keep
    PROVE  LET b == Identity!EdgesAt(s, keep)
           IN  /\ b \in Seq(X) /\ \E e : Within(b, s, e)
               /\ \A i \in 1 .. Len(b) : \E k \in 1 .. Len(s) : k \in keep /\ b[i] = s[k]
               /\ \A k \in 1 .. Len(s) : k \in keep => \E i \in 1 .. Len(b) : b[i] = s[k]
  <1> DEFINE b == Identity!EdgesAt(s, keep)
             Source(i, k) == k \in 1 .. Len(s) /\ k \in keep /\ Upto(keep, k) = i
             e == [i \in 1 .. Len(b) |-> CHOOSE k : Source(i, k)]
  <1>1. b = Chosen(s, keep)
    BY DEF Identity!EdgesAt, Chosen
  <1> HIDE DEF b
  <1>2. b \in Seq(X) /\ Placement(s, keep, b, Len(s))
    BY <1>1, ChosenPlaces
  <1>3. \A i \in 1 .. Len(b) : \E k : Source(i, k)
    BY <1>2 DEF Placement
  <1>4. \A i \in 1 .. Len(b) : Source(i, e[i])
    <2> HIDE DEF Source
    <2> QED
      BY <1>3
  <1>5. \A i, k : i \in 1 .. Len(b) /\ Source(i, k) => b[i] = s[k]
    BY <1>2 DEF Placement
  <1>6. DOMAIN e = 1 .. Len(b)
    OBVIOUS
  <1> HIDE DEF e
  <1>7. e \in [1 .. Len(b) -> 1 .. Len(s)]
    <2>1. e = [i \in 1 .. Len(b) |-> e[i]]
      BY DEF e
    <2> QED
      BY <2>1, <1>4
  <1>8. Within(b, s, e)
    BY <1>4, <1>5, <1>7 DEF Within
  <1>9. \A k \in 1 .. Len(s) : k \in keep => \E i \in 1 .. Len(b) : b[i] = s[k]
    BY <1>2 DEF Placement
  <1>10. \A i \in 1 .. Len(b) : \E k \in 1 .. Len(s) : k \in keep /\ b[i] = s[k]
    BY <1>4, <1>5
  <1> QED
    BY <1>2, <1>8, <1>9, <1>10 DEF b

\* So is an image without one edge.
LEMMA RemovedWithin ==
    ASSUME NEW X, NEW s \in Seq(X), NEW i \in 1 .. Len(s)
    PROVE  LET b == Identity!RemoveAt(s, i)
           IN  b \in Seq(X) /\ \E e : Within(b, s, e)
  <1> DEFINE b == Identity!RemoveAt(s, i)
             m == Len(s) - 1
             e == [k \in 1 .. m |-> IF k < i THEN k ELSE k + 1]
  <1>1. m \in Nat /\ e \in [1 .. m -> 1 .. Len(s)]
    OBVIOUS
  <1>2. b = SubSeq(s, 1, i - 1) \o SubSeq(s, i + 1, Len(s))
    BY DEF Identity!RemoveAt
  <1> DEFINE u == SubSeq(s, 1, i - 1)
             v == SubSeq(s, i + 1, Len(s))
  <1>3. /\ u \in Seq(X) /\ Len(u) = i - 1 /\ \A k \in 1 .. i - 1 : u[k] = s[k]
        /\ v \in Seq(X) /\ Len(v) = Len(s) - i /\ \A k \in 1 .. Len(s) - i : v[k] = s[i + k]
    <2>1. u \in Seq(X) /\ Len(u) = i - 1 /\ \A k \in 1 .. i - 1 : u[k] = s[k]
      OBVIOUS
    <2>2. CASE i = Len(s)
      <3>1. v = <<>>
        BY <2>2
      <3> QED
        BY <2>1, <2>2, <3>1
    <2>3. CASE i # Len(s)
      <3>1. i + 1 \in 1 .. Len(s) /\ Len(s) \in 1 .. Len(s)
        BY <2>3
      <3>2. v \in Seq(X) /\ Len(v) = Len(s) - i /\ \A k \in 1 .. Len(s) - i : v[k] = s[i + k]
        BY <3>1
      <3> QED
        BY <2>1, <3>2
    <2> QED
      BY <2>2, <2>3
  <1> HIDE DEF u, v
  <1>4. b \in Seq(X) /\ Len(b) = m /\ \A k \in 1 .. m : b[k] = s[e[k]]
    <2>1. b = u \o v
      BY <1>2 DEF u, v
    <2>2. b \in Seq(X) /\ Len(b) = m
      BY <2>1, <1>3
    <2>3. ASSUME NEW k \in 1 .. m PROVE b[k] = s[e[k]]
      <3>1. CASE k < i
        BY <3>1, <2>1, <1>3
      <3>2. CASE ~(k < i)
        <4>1. k - (i - 1) \in 1 .. Len(s) - i /\ b[k] = v[k - (i - 1)]
          BY <3>2, <2>1, <1>3
        <4>2. e[k] = k + 1 /\ i + (k - (i - 1)) = k + 1
          BY <3>2
        <4>3. v[k - (i - 1)] = s[i + (k - (i - 1))]
          BY <4>1, <1>3
        <4> QED
          BY <4>1, <4>2, <4>3
      <3> QED
        BY <3>1, <3>2
    <2> QED
      BY <2>2, <2>3
  <1>5. \A j, k \in 1 .. m : e[j] = e[k] => j = k
    OBVIOUS
  <1> HIDE DEF b, e, m
  <1>6. Within(b, s, e)
    BY <1>1, <1>4, <1>5 DEF Within
  <1> QED
    BY <1>4, <1>6 DEF b

-----------------------------------------------------------------------------
(* Claim identity: the ids given to the edges of an image. *)

IdThings == {"pub", "old", "own"} \X Nat
IdClaims == {"pub", "own", "none"} \X Nat
IdEdges ==
    [tuple : Tuples, thing : IdThings, claim : IdClaims, receipt : {"none", "theirs", "ours"}]
IdMaps == [Tuples -> Seq(IdClaims)]
IdAccs ==
    [image : Seq(IdEdges), used : SUBSET IdClaims, seen : [Tuples -> Nat], mints : Nat,
     given : IdMaps]

\* An edge of a tuple gets an id.
PlacedAs(b, acc, e, t, c, k) ==
    /\ b \in IdAccs
    /\ b.image = Append(acc.image, [e EXCEPT !.claim = c])
    /\ b.used = acc.used \cup ({c} \ {Identity!NoClaim})
    /\ b.seen = [acc.seen EXCEPT ![t] = acc.seen[t] + 1]
    /\ b.mints = acc.mints + k
    /\ b.given = [acc.given EXCEPT ![t] = Append(acc.given[t], c)]

\* The step of the loop that places an edge stays in its types.
LEMMA PlacedIs ==
    ASSUME NEW acc \in IdAccs, NEW e \in IdEdges, NEW c \in IdClaims, NEW k \in Nat
    PROVE  PlacedAs(Identity!Placed(acc, e, c, k), acc, e, e.tuple, c, k)
  <1> DEFINE t == e.tuple
             b == Identity!Placed(acc, e, c, k)
             d == [e EXCEPT !.claim = c]
             im == Append(acc.image, d)
             us == acc.used \cup ({c} \ {Identity!NoClaim})
             se == [acc.seen EXCEPT ![t] = acc.seen[t] + 1]
             mi == acc.mints + k
             gi == [acc.given EXCEPT ![t] = Append(acc.given[t], c)]
  <1>1. acc.image \in Seq(IdEdges) /\ acc.used \in SUBSET IdClaims /\ acc.seen \in [Tuples -> Nat]
        /\ acc.mints \in Nat /\ acc.given \in [Tuples -> Seq(IdClaims)] /\ t \in Tuples
    BY DEF IdAccs, IdEdges, IdMaps
  <1>2. b = [image |-> im, used |-> us, seen |-> se, mints |-> mi, given |-> gi]
    BY DEF Identity!Placed
  <1>3. d \in IdEdges
    BY DEF IdEdges
  <1>4. im \in Seq(IdEdges)
    <2> HIDE DEF d
    <2> QED
      BY <1>1, <1>3
  <1>5. us \in SUBSET IdClaims /\ mi \in Nat
    BY <1>1
  <1>6. se \in [Tuples -> Nat]
    <2> HIDE DEF t
    <2> QED
      BY <1>1
  <1>7. gi \in IdMaps
    <2> HIDE DEF t
    <2>1. Append(acc.given[t], c) \in Seq(IdClaims)
      BY <1>1
    <2> QED
      BY <1>1, <2>1 DEF IdMaps
  <1> HIDE DEF im, us, se, mi, gi
  <1>8. b \in IdAccs
    BY <1>2, <1>4, <1>5, <1>6, <1>7 DEF IdAccs
  <1> QED
    BY <1>2, <1>8 DEF im, us, se, mi, gi, PlacedAs

\* The loop goes on in these types.
LEMMA NamedStays ==
    ASSUME NEW acc \in IdAccs, NEW e \in IdEdges, NEW reuse \in IdMaps, NEW minting \in BOOLEAN
    PROVE  Identity!Named(acc, e, reuse, minting) \in IdAccs
  <1> DEFINE known == Identity!Reusable(acc, reuse, e)
  <1>1. acc.image \in Seq(IdEdges) /\ acc.used \in SUBSET IdClaims /\ acc.seen \in [Tuples -> Nat]
        /\ acc.mints \in Nat /\ acc.given \in IdMaps /\ e.tuple \in Tuples
        /\ reuse[e.tuple] \in Seq(IdClaims)
    BY DEF IdAccs, IdEdges, IdMaps
  <1>2. Identity!NoClaim \in IdClaims /\ <<"own", acc.mints + 1>> \in IdClaims
    BY <1>1 DEF Identity!NoClaim, IdClaims
  <1>3. known \in IdClaims
    <2> DEFINE r == reuse[e.tuple]
               k == acc.seen[e.tuple] + 1
    <2>1. k \in Nat /\ k >= 1 /\ (k <= Len(r) => r[k] \in IdClaims)
      <3>1. k \in Nat /\ k >= 1
        BY <1>1
      <3> HIDE DEF k
      <3> QED
        BY <1>1, <3>1
    <2> QED
      BY <2>1, <1>2 DEF Identity!Reusable
  <1>4. Identity!Kept(acc, e) \in IdAccs
    <2> DEFINE im == Append(acc.image, e)
    <2>1. im \in Seq(IdEdges)
      BY <1>1
    <2>2. Identity!Kept(acc, e) = [acc EXCEPT !.image = im]
      BY DEF Identity!Kept
    <2> HIDE DEF im
    <2> QED
      BY <2>1, <2>2, Zenon DEF IdAccs
  <1>5. Identity!Placed(acc, e, known, 0) \in IdAccs
    <2> HIDE DEF known
    <2> QED
      BY <1>3, PlacedIs, Zenon DEF PlacedAs
  <1>6. Identity!Placed(acc, e, <<"own", acc.mints + 1>>, 1) \in IdAccs
    BY <1>2, PlacedIs, Zenon DEF PlacedAs
  <1> QED
    BY <1>4, <1>5, <1>6 DEF Identity!Named

\* So does the start.
LEMMA StartedIs ==
    ASSUME NEW im \in Seq(IdEdges), mints \in Nat
    PROVE  LET a == Identity!Started(im)
           IN  /\ a \in IdAccs /\ a.image = <<>> /\ a.used = Identity!Claims(im)
               /\ a.seen = [t \in Tuples |-> 0] /\ a.mints = mints
               /\ a.given = [t \in Tuples |-> <<>>]
  <1>1. Identity!Claims(im) \in SUBSET IdClaims
    <2>1. \A i \in DOMAIN im : im[i] \in IdEdges
      OBVIOUS
    <2>2. \A e \in IdEdges : e.claim \in IdClaims
      BY DEF IdEdges
    <2> QED
      BY <2>1, <2>2 DEF Identity!Claims
  <1>2. <<>> \in Seq(IdEdges) /\ <<>> \in Seq(IdClaims)
    OBVIOUS
  <1>3. [t \in Tuples |-> 0] \in [Tuples -> Nat] /\ [t \in Tuples |-> <<>>] \in IdMaps
    BY <1>2 DEF IdMaps
  <1> QED
    BY <1>1, <1>2, <1>3 DEF Identity!Started, IdAccs

\* The loop, edge by edge.
Naming(f, im, reuse, minting) ==
    /\ f \in [0 .. Len(im) -> IdAccs] /\ f[0] = Identity!Started(im)
    /\ \A i \in 1 .. Len(im) : f[i] = Identity!Named(f[i - 1], im[i], reuse, minting)
    /\ Identity!AllNamed(im, reuse, minting) = f[Len(im)]

\* It can be followed.
LEMMA NamingSteps ==
    ASSUME NEW im \in Seq(IdEdges), NEW reuse \in IdMaps, NEW minting \in BOOLEAN, mints \in Nat
    PROVE  \E f : Naming(f, im, reuse, minting)
  <1> DEFINE n == Len(im)
             Go(x, e) == Identity!Named(x, e, reuse, minting)
             F == [x \in IdAccs |-> [e \in IdEdges |-> Go(x, e)]]
             a == Identity!Started(im)
             Body(g) == [i \in 0 .. Len(im) |-> IF i = 0 THEN a ELSE Go(g[i - 1], im[i])]
             f == CHOOSE g : g = Body(g)
  <1>0. \A x \in IdAccs, e \in IdEdges : Go(x, e) \in IdAccs
    BY NamedStays
  <1>1. F \in [IdAccs -> [IdEdges -> IdAccs]]
    <2> HIDE DEF Go
    <2> QED
      BY <1>0
  <1>2. n \in Nat /\ im \in [1 .. n -> IdEdges] /\ a \in IdAccs
    BY StartedIs
  <1> HIDE DEF a, Go
  <1>3. PICK d : d \in [0 .. n -> IdAccs] /\ d[0] = a
                 /\ \A i \in 1 .. n : d[i] = F[d[i - 1]][im[i]]
    <2> HIDE DEF F, n
    <2>1. \E d : Along(d, IdAccs, F, a, n, im)
      BY <1>1, <1>2, TakenAlong, Zenon
    <2> QED
      BY <2>1, Zenon DEF Along
  <1>4. \A i \in 1 .. n : d[i] = Go(d[i - 1], im[i])
    <2>1. \A i \in 1 .. n : d[i - 1] \in IdAccs /\ im[i] \in IdEdges
      BY <1>2, <1>3
    <2>2. \A i \in 1 .. n : F[d[i - 1]][im[i]] = Go(d[i - 1], im[i])
      BY <2>1
    <2> HIDE DEF F
    <2> QED
      BY <1>3, <2>2
  <1>5. d = Body(d)
    <2>1. \A i \in 0 .. n : d[i] = Body(d)[i]
      BY <1>3, <1>4
    <2> QED
      BY <2>1, <1>3
  <1>6. f = Body(f)
    BY <1>5, Zenon
  <1>7. Identity!AllNamed(im, reuse, minting) = f[n]
    BY DEF Identity!AllNamed, Go, a
  <1> HIDE DEF f
  <1>8. f[0] = a /\ \A i \in 1 .. n : f[i] = Go(f[i - 1], im[i])
    BY <1>2, <1>6
  <1> DEFINE G == {i \in 0 .. n : f[i] \in IdAccs}
  <1>9. ASSUME NEW i \in 1 .. n, i - 1 \in G PROVE i \in G
    BY <1>0, <1>2, <1>8, <1>9
  <1>10. 0 \in G
    BY <1>2, <1>8
  <1>11. \A i \in 0 .. n : i \in G
    <2> HIDE DEF G, n
    <2> QED
      BY <1>2, <1>9, <1>10, CountingUp, Zenon
  <1>12. f \in [0 .. n -> IdAccs]
    <2>1. DOMAIN f = 0 .. n /\ f = [i \in 0 .. n |-> f[i]]
      BY <1>6
    <2> QED
      BY <2>1, <1>11
  <1>13. Naming(f, im, reuse, minting)
    BY <1>7, <1>8, <1>12 DEF Naming, Go, a
  <1> QED
    BY <1>13

\* No id occurs twice in a map, and all of them were minted.
MapOK(m, n) ==
    /\ \A t, u \in Tuples : \A p \in 1 .. Len(m[t]), q \in 1 .. Len(m[u]) :
           m[t][p] = m[u][q] => t = u /\ p = q
    /\ \A t \in Tuples : \A p \in 1 .. Len(m[t]) : m[t][p][1] = "own" /\ m[t][p][2] \in 1 .. n

\* The loop after n edges, none of which came with an id: each has the id that
\* the map has at its place, or one minted since.
NamedUpTo(im, reuse, acc, n) ==
    /\ Len(acc.image) = n /\ acc.mints >= mints
    /\ \A t \in Tuples :
           acc.seen[t] = Upto(At(im, t), n) /\ Len(acc.given[t]) = Upto(At(im, t), n)
    /\ \A t \in Tuples : \A p \in 1 .. Len(acc.given[t]) :
           IF p <= Len(reuse[t]) THEN acc.given[t][p] = reuse[t][p]
           ELSE acc.given[t][p][1] = "own" /\ acc.given[t][p][2] \in mints + 1 .. acc.mints
    /\ \A t, u \in Tuples : \A p \in 1 .. Len(acc.given[t]), q \in 1 .. Len(acc.given[u]) :
           acc.given[t][p] = acc.given[u][q] => t = u /\ p = q
    /\ \A c \in acc.used : \E t \in Tuples : \E p \in 1 .. Len(acc.given[t]) : acc.given[t][p] = c
    /\ \A i \in 1 .. n :
           /\ PlaceOf(im, i) \in 1 .. Len(acc.given[im[i].tuple])
           /\ acc.image[i] = [im[i] EXCEPT !.claim = acc.given[im[i].tuple][PlaceOf(im, i)]]

\* No two edges have been given one id.
LEMMA GivenApart ==
    ASSUME NEW im, NEW reuse, NEW acc, NEW n, NamedUpTo(im, reuse, acc, n)
    PROVE  \A t, u \in Tuples : \A p \in 1 .. Len(acc.given[t]), q \in 1 .. Len(acc.given[u]) :
               acc.given[t][p] = acc.given[u][q] => t = u /\ p = q
  BY Zenon DEF NamedUpTo

\* An id is the one of the list, or it is minted.
LEMMA GivenMinted ==
    ASSUME NEW im, NEW reuse, NEW acc, NEW n, NamedUpTo(im, reuse, acc, n)
    PROVE  \A t \in Tuples : \A p \in 1 .. Len(acc.given[t]) : ~(p <= Len(reuse[t])) =>
               acc.given[t][p][1] = "own" /\ acc.given[t][p][2] \in mints + 1 .. acc.mints
  BY Zenon DEF NamedUpTo

\* The id of the next edge.
NextId(reuse, acc, t, r) ==
    IF r <= Len(reuse[t]) THEN reuse[t][r] ELSE <<"own", acc.mints + 1>>

\* The loop gives the next edge this id.
LEMMA NextNamed ==
    ASSUME NEW im \in Seq(IdEdges), NEW reuse \in IdMaps, MapOK(reuse, mints), mints \in Nat,
           NEW minting \in BOOLEAN, NEW n \in 1 .. Len(im), im[n].claim = Identity!NoClaim,
           NEW acc \in IdAccs, NamedUpTo(im, reuse, acc, n - 1),
           minting \/ PlaceOf(im, n) <= Len(reuse[im[n].tuple])
    PROVE  LET t == im[n].tuple
               r == PlaceOf(im, n)
               c == NextId(reuse, acc, t, r)
           IN  /\ r = acc.seen[t] + 1 /\ c \in IdClaims /\ c[1] = "own" /\ c \notin acc.used
               /\ \A u \in Tuples : \A q \in 1 .. Len(acc.given[u]) : acc.given[u][q] # c
               /\ IF r <= Len(reuse[t]) THEN Identity!Named(acc, im[n], reuse, minting)
                                             = Identity!Placed(acc, im[n], c, 0)
                  ELSE Identity!Named(acc, im[n], reuse, minting)
                           = Identity!Placed(acc, im[n], c, 1)
  <1> DEFINE e == im[n]
             t == im[n].tuple
             r == PlaceOf(im, n)
             c == NextId(reuse, acc, t, r)
             k == n - 1
  <1>1. e \in IdEdges /\ t \in Tuples /\ k \in Nat /\ k + 1 = n /\ n \in At(im, t)
    <2>1. e \in IdEdges /\ n \in DOMAIN im /\ k \in Nat /\ k + 1 = n
      OBVIOUS
    <2>2. \A x \in IdEdges : x.tuple \in Tuples
      BY DEF IdEdges
    <2> QED
      BY <2>1, <2>2 DEF At
  <1>2. Upto(At(im, t), k) \in Nat /\ r = Upto(At(im, t), k) + 1
    <2>1. Upto(At(im, t), k) \in Nat /\ Upto(At(im, t), k + 1) = Upto(At(im, t), k) + 1
      <3> HIDE DEF k, t
      <3> QED
        BY <1>1, UptoSteps, Zenon
    <2> QED
      BY <1>1, <2>1 DEF PlaceOf
  <1>3. r = acc.seen[t] + 1 /\ r = Len(acc.given[t]) + 1
    BY <1>1, <1>2, Zenon DEF NamedUpTo
  <1>4. /\ acc.mints \in Nat /\ acc.mints >= mints
        /\ reuse[t] \in Seq(IdClaims) /\ acc.given \in IdMaps
    BY <1>1 DEF IdAccs, IdMaps, NamedUpTo
  <1> HIDE DEF e, t, r, k
  <1>5. c \in IdClaims /\ c[1] = "own" /\ c[2] \in Nat
    <2>1. CASE r <= Len(reuse[t])
      <3>1. r \in 1 .. Len(reuse[t]) /\ c = reuse[t][r]
        BY <2>1, <1>2, <1>4 DEF NextId
      <3>2. c \in IdClaims
        BY <3>1, <1>4
      <3>3. c[1] = "own" /\ c[2] \in 1 .. mints
        BY <1>1, <3>1 DEF MapOK
      <3> QED
        BY <3>2, <3>3
    <2>2. CASE ~(r <= Len(reuse[t]))
      <3>1. c = <<"own", acc.mints + 1>>
        BY <2>2 DEF NextId
      <3> QED
        BY <3>1, <1>4 DEF IdClaims
    <2> QED
      BY <2>1, <2>2
  <1>6. ASSUME NEW u \in Tuples, NEW q \in 1 .. Len(acc.given[u]), acc.given[u][q] = c PROVE FALSE
    <2>1. q \in Nat /\ q >= 1
      BY <1>4 DEF IdMaps
    <2>2. CASE q <= Len(reuse[u])
      <3>1. c = reuse[u][q] /\ q \in 1 .. Len(reuse[u])
        <4>1. Len(reuse[u]) \in Nat
          BY DEF IdMaps
        <4> QED
          BY <2>1, <2>2, <1>6, <4>1 DEF NamedUpTo
      <3>2. c[2] \in 1 .. mints
        BY <3>1, Zenon DEF MapOK
      <3>3. CASE r <= Len(reuse[t])
        <4>1. r \in 1 .. Len(reuse[t]) /\ c = reuse[t][r]
          BY <3>3, <1>2, <1>4 DEF NextId
        <4>2. u = t /\ q = r
          <5> HIDE DEF c
          <5>1. reuse[u][q] = reuse[t][r]
            BY <3>1, <4>1
          <5> QED
            BY <3>1, <4>1, <5>1, <1>1 DEF MapOK
        <4>3. Len(acc.given[t]) \in Nat
          BY <1>1, <1>4 DEF IdMaps
        <4> QED
          BY <4>2, <4>3, <1>3, <2>1
      <3>4. CASE ~(r <= Len(reuse[t]))
        <4>1. c[2] = acc.mints + 1
          BY <3>4 DEF NextId
        <4> QED
          BY <4>1, <3>2, <1>4
      <3> QED
        BY <3>3, <3>4
    <2>3. CASE ~(q <= Len(reuse[u]))
      <3>1. c[2] \in mints + 1 .. acc.mints
        <4>1. \A x \in Tuples : \A i \in 1 .. Len(acc.given[x]) : ~(i <= Len(reuse[x])) =>
                 acc.given[x][i][1] = "own" /\ acc.given[x][i][2] \in mints + 1 .. acc.mints
          BY GivenMinted
        <4> HIDE DEF c
        <4> QED
          BY <2>3, <1>6, <4>1
      <3>2. CASE r <= Len(reuse[t])
        <4>1. r \in 1 .. Len(reuse[t]) /\ c = reuse[t][r]
          BY <3>2, <1>2, <1>4 DEF NextId
        <4>2. c[2] \in 1 .. mints
          BY <4>1, <1>1, Zenon DEF MapOK
        <4> QED
          BY <3>1, <4>2, <1>4
      <3>3. CASE ~(r <= Len(reuse[t]))
        <4>1. c[2] = acc.mints + 1
          BY <3>3 DEF NextId
        <4> QED
          BY <4>1, <3>1, <1>4
      <3> QED
        BY <3>2, <3>3
    <2> QED
      BY <2>2, <2>3
  <1>7. c \notin acc.used
    BY <1>6, Zenon DEF NamedUpTo
  <1>8. e.claim = Identity!NoClaim /\ c # Identity!NoClaim /\ e.tuple = t
    BY <1>5 DEF Identity!NoClaim, e, t
  <1>9. CASE r <= Len(reuse[t])
    <2>1. c = reuse[t][r]
      BY <1>9 DEF NextId
    <2>2. Identity!Reusable(acc, reuse, e) = c
      BY <2>1, <1>9, <1>3, <1>7, <1>8 DEF Identity!Reusable
    <2>3. Identity!Named(acc, e, reuse, minting) = Identity!Placed(acc, e, c, 0)
      BY <2>2, <1>8 DEF Identity!Named
    <2> QED
      BY <2>3, <1>3, <1>5, <1>6, <1>7, <1>9 DEF e, t, r
  <1>10. CASE ~(r <= Len(reuse[t]))
    <2>1. c = <<"own", acc.mints + 1>> /\ minting
      BY <1>10 DEF NextId, r, t
    <2>2. Identity!Reusable(acc, reuse, e) = Identity!NoClaim
      BY <1>10, <1>3, <1>8 DEF Identity!Reusable
    <2>3. Identity!Named(acc, e, reuse, minting) = Identity!Placed(acc, e, c, 1)
      BY <2>1, <2>2, <1>8 DEF Identity!Named
    <2> QED
      BY <2>3, <1>3, <1>5, <1>6, <1>7, <1>10 DEF e, t, r
  <1> QED
    BY <1>9, <1>10

\* What the loop has done is done for one edge more.
LEMMA PlacedNext ==
    ASSUME NEW im \in Seq(IdEdges), NEW reuse \in IdMaps, MapOK(reuse, mints), mints \in Nat,
           NEW minting \in BOOLEAN, NEW n \in 1 .. Len(im), im[n].claim = Identity!NoClaim,
           NEW acc \in IdAccs, NamedUpTo(im, reuse, acc, n - 1),
           minting \/ PlaceOf(im, n) <= Len(reuse[im[n].tuple])
    PROVE  NamedUpTo(im, reuse, Identity!Named(acc, im[n], reuse, minting), n)
  <1> DEFINE e == im[n]
             t == im[n].tuple
             r == PlaceOf(im, n)
             c == NextId(reuse, acc, t, r)
             k == n - 1
             z == IF r <= Len(reuse[t]) THEN 0 ELSE 1
             b == Identity!Placed(acc, e, c, z)
  <1>1. /\ r = acc.seen[t] + 1 /\ c \in IdClaims /\ c[1] = "own" /\ c \notin acc.used
        /\ \A u \in Tuples : \A q \in 1 .. Len(acc.given[u]) : acc.given[u][q] # c
        /\ Identity!Named(acc, e, reuse, minting) = b
    BY NextNamed
  <1>2. e \in IdEdges /\ t \in Tuples /\ k \in Nat /\ k + 1 = n /\ n \in At(im, t) /\ z \in Nat
    <2>1. e \in IdEdges /\ n \in DOMAIN im /\ k \in Nat /\ k + 1 = n /\ z \in Nat
      OBVIOUS
    <2>2. \A x \in IdEdges : x.tuple \in Tuples
      BY DEF IdEdges
    <2> QED
      BY <2>1, <2>2 DEF At
  <1>3. /\ b \in IdAccs /\ b.image = Append(acc.image, [e EXCEPT !.claim = c])
        /\ b.used = acc.used \cup ({c} \ {Identity!NoClaim})
        /\ b.seen = [acc.seen EXCEPT ![t] = acc.seen[t] + 1] /\ b.mints = acc.mints + z
        /\ b.given = [acc.given EXCEPT ![t] = Append(acc.given[t], c)]
    <2>1. t = e.tuple
      OBVIOUS
    <2> HIDE DEF c, z, e, t
    <2>2. PlacedAs(b, acc, e, e.tuple, c, z)
      BY <1>1, <1>2, PlacedIs
    <2>3. PlacedAs(b, acc, e, t, c, z)
      BY <2>1, <2>2
    <2> HIDE DEF b
    <2> QED
      BY <2>3 DEF PlacedAs
  <1>4. /\ acc.mints \in Nat /\ acc.mints >= mints /\ acc.given \in IdMaps
        /\ acc.image \in Seq(IdEdges) /\ acc.seen \in [Tuples -> Nat] /\ Len(acc.image) = k
    BY DEF IdAccs, NamedUpTo
  <1>5. c = NextId(reuse, acc, t, r) /\ z = (IF r <= Len(reuse[t]) THEN 0 ELSE 1)
    OBVIOUS
  <1>20. r = Upto(At(im, t), n)
    BY DEF PlaceOf
  <1>21. im[n] = e /\ im[n].tuple = t /\ PlaceOf(im, n) = r
    OBVIOUS
  <1> HIDE DEF e, t, r, c, k, z, b
  <1>6. /\ \A u \in Tuples : u # t => b.given[u] = acc.given[u] /\ b.seen[u] = acc.seen[u]
        /\ b.given[t] = Append(acc.given[t], c) /\ b.seen[t] = acc.seen[t] + 1
    BY <1>2, <1>3, <1>4, Zenon DEF IdMaps
  <1>7. /\ \A u \in Tuples : acc.given[u] \in Seq(IdClaims) /\ Len(acc.given[u]) \in Nat
        /\ Len(b.given[t]) = Len(acc.given[t]) + 1 /\ b.given[t][Len(acc.given[t]) + 1] = c
        /\ \A q \in 1 .. Len(acc.given[t]) : b.given[t][q] = acc.given[t][q]
    <2>1. \A u \in Tuples : acc.given[u] \in Seq(IdClaims) /\ Len(acc.given[u]) \in Nat
      BY <1>4 DEF IdMaps
    <2> QED
      BY <2>1, <1>1, <1>2, <1>6
  <1> DEFINE New(w, j) == w = t /\ j = Len(acc.given[t]) + 1 /\ b.given[w][j] = c
             Old(w, j) == j \in 1 .. Len(acc.given[w]) /\ b.given[w][j] = acc.given[w][j]
  <1>22. \A w \in Tuples : \A j \in 1 .. Len(b.given[w]) : New(w, j) \/ Old(w, j)
    <2>1. ASSUME NEW w \in Tuples, NEW j \in 1 .. Len(b.given[w]) PROVE New(w, j) \/ Old(w, j)
      <3>1. CASE w # t
        BY <3>1, <1>6
      <3>2. CASE w = t
        <4>1. j \in 1 .. Len(acc.given[t]) + 1 /\ Len(acc.given[t]) \in Nat
          BY <3>2, <1>2, <1>7
        <4>2. CASE j = Len(acc.given[t]) + 1
          BY <3>2, <4>2, <1>7
        <4>3. CASE j # Len(acc.given[t]) + 1
          <5>1. j \in 1 .. Len(acc.given[t])
            <6> DEFINE g == Len(acc.given[t])
            <6>1. j \in 1 .. g + 1 /\ g \in Nat /\ j # g + 1
              BY <4>1, <4>3
            <6> HIDE DEF g
            <6>2. j \in 1 .. g
              BY <6>1
            <6> QED
              BY <6>2 DEF g
          <5> QED
            BY <3>2, <5>1, <1>7
        <4> QED
          BY <4>2, <4>3
      <3> QED
        BY <3>1, <3>2
    <2> QED
      BY <2>1
  <1>23. \A w \in Tuples : \A j \in 1 .. Len(acc.given[w]) :
             j \in 1 .. Len(b.given[w]) /\ b.given[w][j] = acc.given[w][j]
    <2>1. ASSUME NEW w \in Tuples, NEW j \in 1 .. Len(acc.given[w])
          PROVE  j \in 1 .. Len(b.given[w]) /\ b.given[w][j] = acc.given[w][j]
      <3>1. CASE w # t
        BY <3>1, <1>6
      <3>2. CASE w = t
        <4>1. Len(acc.given[t]) \in Nat /\ Len(b.given[t]) = Len(acc.given[t]) + 1
          BY <1>2, <1>7
        <4>2. j \in 1 .. Len(b.given[t])
          BY <3>2, <4>1
        <4> QED
          BY <3>2, <4>2, <1>7
      <3> QED
        BY <3>1, <3>2
    <2> QED
      BY <2>1, Zenon
  <1>24. \A w \in Tuples : \A j : New(w, j) => b.given[w][j] = c /\ w = t /\ j = Len(acc.given[t]) + 1
    OBVIOUS
  <1>25. \A w \in Tuples : \A j : Old(w, j) => b.given[w][j] # c
    BY <1>1
  <1>8. \A u \in Tuples : /\ acc.seen[u] = Upto(At(im, u), k) /\ Len(acc.given[u]) = Upto(At(im, u), k)
                          /\ Upto(At(im, u), n) = IF u = t THEN Upto(At(im, u), k) + 1 ELSE Upto(At(im, u), k)
    <2>1. ASSUME NEW u \in Tuples
          PROVE Upto(At(im, u), n) = IF u = t THEN Upto(At(im, u), k) + 1 ELSE Upto(At(im, u), k)
      <3>1. Upto(At(im, u), k + 1) = IF k + 1 \in At(im, u) THEN Upto(At(im, u), k) + 1 ELSE Upto(At(im, u), k)
        BY <1>2, UptoSteps, Zenon
      <3>2. n \in At(im, u) <=> u = t
        BY <1>2, <1>21 DEF At
      <3> QED
        BY <3>1, <3>2, <1>2
    <2> QED
      BY <2>1 DEF NamedUpTo, k
  <1>9. r = Len(acc.given[t]) + 1
    BY <1>1, <1>2, <1>8, Zenon
  <1>10. Len(b.image) = n /\ b.mints >= mints /\ b.mints \in Nat
    <2>1. Len(b.image) = k + 1
      BY <1>3, <1>4
    <2> QED
      BY <2>1, <1>2, <1>3, <1>4
  <1>11. \A u \in Tuples : b.seen[u] = Upto(At(im, u), n) /\ Len(b.given[u]) = Upto(At(im, u), n)
    BY <1>6, <1>7, <1>8, Zenon
  <1>12. ASSUME NEW u \in Tuples, NEW p \in 1 .. Len(b.given[u])
         PROVE  IF p <= Len(reuse[u]) THEN b.given[u][p] = reuse[u][p]
                ELSE b.given[u][p][1] = "own" /\ b.given[u][p][2] \in mints + 1 .. b.mints
    <2>1. CASE New(u, p)
      <3>1. b.given[u][p] = c /\ p = r
        BY <2>1, <1>7, <1>9
      <3>2. CASE r <= Len(reuse[t])
        BY <2>1, <3>1, <3>2, <1>5 DEF NextId
      <3>3. CASE ~(r <= Len(reuse[t]))
        <4>1. c = <<"own", acc.mints + 1>> /\ z = 1
          BY <3>3, <1>5 DEF NextId
        <4>2. b.mints = acc.mints + 1 /\ c[1] = "own" /\ c[2] = acc.mints + 1
          BY <4>1, <1>3
        <4>3. acc.mints + 1 \in mints + 1 .. acc.mints + 1
          BY <1>4
        <4>4. u = t /\ ~(p <= Len(reuse[u]))
          BY <2>1, <3>1, <3>3
        <4> QED
          BY <4>2, <4>3, <4>4, <3>1
      <3> QED
        BY <3>2, <3>3
    <2>2. CASE Old(u, p)
      <3>1. p \in 1 .. Len(acc.given[u]) /\ b.given[u][p] = acc.given[u][p]
        BY <2>2
      <3>2. IF p <= Len(reuse[u]) THEN acc.given[u][p] = reuse[u][p]
            ELSE acc.given[u][p][1] = "own" /\ acc.given[u][p][2] \in mints + 1 .. acc.mints
        BY <3>1, Zenon DEF NamedUpTo
      <3>3. \A x \in mints + 1 .. acc.mints : x \in mints + 1 .. b.mints
        BY <1>2, <1>3, <1>4
      <3> QED
        BY <3>1, <3>2, <3>3, Zenon
    <2> QED
      BY <2>1, <2>2, <1>22
  <1>13. ASSUME NEW u \in Tuples, NEW v \in Tuples, NEW p \in 1 .. Len(b.given[u]),
                NEW q \in 1 .. Len(b.given[v]), b.given[u][p] = b.given[v][q]
         PROVE  u = v /\ p = q
    <2>1. CASE New(u, p) /\ New(v, q)
      BY <2>1
    <2>2. CASE New(u, p) /\ Old(v, q)
      BY <2>2, <1>13, <1>24, <1>25, Zenon
    <2>3. CASE Old(u, p) /\ New(v, q)
      BY <2>3, <1>13, <1>24, <1>25, Zenon
    <2>4. CASE Old(u, p) /\ Old(v, q)
      <3>1. p \in 1 .. Len(acc.given[u]) /\ q \in 1 .. Len(acc.given[v])
            /\ acc.given[u][p] = acc.given[v][q]
        BY <2>4, <1>13
      <3>2. \A w, x \in Tuples : \A j \in 1 .. Len(acc.given[w]), l \in 1 .. Len(acc.given[x]) :
               acc.given[w][j] = acc.given[x][l] => w = x /\ j = l
        BY GivenApart
      <3> QED
        BY <3>1, <3>2, Zenon
    <2> QED
      BY <2>1, <2>2, <2>3, <2>4, <1>22
  <1>14. ASSUME NEW d \in b.used PROVE \E u \in Tuples : \E p \in 1 .. Len(b.given[u]) : b.given[u][p] = d
    <2>1. CASE d = c
      <3>1. Len(b.given[t]) \in 1 .. Len(b.given[t]) /\ b.given[t][Len(b.given[t])] = c
        BY <1>2, <1>7
      <3> QED
        BY <2>1, <3>1, <1>2
    <2>2. CASE d # c
      <3>1. d \in acc.used
        BY <2>2, <1>3
      <3>2. PICK u \in Tuples : \E p \in 1 .. Len(acc.given[u]) : acc.given[u][p] = d
        BY <3>1 DEF NamedUpTo
      <3>3. PICK p \in 1 .. Len(acc.given[u]) : acc.given[u][p] = d
        BY <3>2
      <3>4. p \in 1 .. Len(b.given[u]) /\ b.given[u][p] = d
        BY <3>3, <1>23, Zenon
      <3> QED
        BY <3>4
    <2> QED
      BY <2>1, <2>2
  <1>15. ASSUME NEW i \in 1 .. n
         PROVE  /\ PlaceOf(im, i) \in 1 .. Len(b.given[im[i].tuple])
                /\ b.image[i] = [im[i] EXCEPT !.claim = b.given[im[i].tuple][PlaceOf(im, i)]]
    <2>1. CASE i = n
      <3>1. b.image[n] = [e EXCEPT !.claim = c]
        <4> DEFINE d == [e EXCEPT !.claim = c]
        <4>1. d \in IdEdges
          BY <1>1, <1>2, Zenon DEF IdEdges
        <4> HIDE DEF d
        <4>2. b.image = Append(acc.image, d)
          BY <1>3 DEF d
        <4>3. b.image[k + 1] = d
          BY <4>1, <4>2, <1>4
        <4> QED
          BY <4>3, <1>2 DEF d
      <3>2. r \in 1 .. Len(b.given[t]) /\ b.given[t][r] = c
        BY <1>2, <1>7, <1>9
      <3> QED
        BY <2>1, <3>1, <3>2, <1>21
    <2>2. CASE i # n
      <3> DEFINE u == im[i].tuple
                 p == PlaceOf(im, i)
      <3>1. i \in 1 .. k /\ i \in 1 .. Len(im)
        BY <2>2, <1>2
      <3>2. u \in Tuples
        <4>1. im[i] \in IdEdges
          BY <3>1
        <4> QED
          BY <4>1 DEF IdEdges
      <3>3. p \in 1 .. Len(acc.given[u]) /\ acc.image[i] = [im[i] EXCEPT !.claim = acc.given[u][p]]
        BY <3>1, Zenon DEF NamedUpTo, k
      <3>4. b.image[i] = acc.image[i]
        <4> DEFINE d == [e EXCEPT !.claim = c]
        <4>1. d \in IdEdges
          BY <1>1, <1>2, Zenon DEF IdEdges
        <4> HIDE DEF d
        <4>2. b.image = Append(acc.image, d)
          BY <1>3 DEF d
        <4> QED
          BY <4>1, <4>2, <3>1, <1>4
      <3> HIDE DEF u, p
      <3>5. p \in 1 .. Len(b.given[u]) /\ b.given[u][p] = acc.given[u][p]
        BY <3>2, <3>3, <1>23, Zenon
      <3> QED
        BY <3>3, <3>4, <3>5 DEF u, p
    <2> QED
      BY <2>1, <2>2
  <1>16. NamedUpTo(im, reuse, b, n)
    BY <1>10, <1>11, <1>12, <1>13, <1>14, <1>15, Zenon DEF NamedUpTo
  <1> QED
    BY <1>1, <1>16, <1>21

\* An image without ids: every edge gets the map's at its place, or a fresh one.
LEMMA BareNamed ==
    ASSUME NEW im \in Seq(IdEdges), NEW reuse \in IdMaps, MapOK(reuse, mints), mints \in Nat,
           NEW minting \in BOOLEAN, \A i \in 1 .. Len(im) : im[i].claim = Identity!NoClaim,
           minting \/ \A i \in 1 .. Len(im) : PlaceOf(im, i) <= Len(reuse[im[i].tuple])
    PROVE  LET a == Identity!AllNamed(im, reuse, minting)
           IN  a \in IdAccs /\ NamedUpTo(im, reuse, a, Len(im))
  <1>1. PICK f : Naming(f, im, reuse, minting)
    BY NamingSteps
  <1>2. /\ f \in [0 .. Len(im) -> IdAccs] /\ f[0] = Identity!Started(im)
        /\ \A i \in 1 .. Len(im) : f[i] = Identity!Named(f[i - 1], im[i], reuse, minting)
        /\ Identity!AllNamed(im, reuse, minting) = f[Len(im)]
    BY <1>1 DEF Naming
  <1> DEFINE G == {i \in 0 .. Len(im) : NamedUpTo(im, reuse, f[i], i)}
             n == Len(im)
  <1>3. n \in Nat
    OBVIOUS
  <1>4. 0 \in G
    <2> DEFINE a == f[0]
    <2>1. /\ a \in IdAccs /\ a.image = <<>> /\ a.used = Identity!Claims(im)
          /\ a.seen = [t \in Tuples |-> 0] /\ a.mints = mints
          /\ a.given = [t \in Tuples |-> <<>>]
      BY <1>2, StartedIs
    <2>2. a.used = {}
      BY <2>1 DEF Identity!Claims
    <2>3. \A t \in Tuples : a.seen[t] = 0 /\ a.given[t] = <<>> /\ Len(a.given[t]) = 0
      BY <2>1
    <2>4. \A t : Upto(At(im, t), 0) = 0
      <3>1. 0 \in Nat
        OBVIOUS
      <3> QED
        BY <3>1, UptoSteps
    <2>5. Len(a.image) = 0 /\ (\A i \in 1 .. 0 : FALSE) /\ a.mints >= mints
      BY <2>1
    <2> HIDE DEF a
    <2>6. NamedUpTo(im, reuse, a, 0)
      BY <2>2, <2>3, <2>4, <2>5 DEF NamedUpTo
    <2> QED
      BY <2>6, <1>3 DEF a
  <1>5. ASSUME NEW i \in 1 .. n, i - 1 \in G PROVE i \in G
    <2>1. f[i - 1] \in IdAccs /\ NamedUpTo(im, reuse, f[i - 1], i - 1) /\ i \in 0 .. Len(im)
      BY <1>2, <1>3, <1>5
    <2>2. minting \/ PlaceOf(im, i) <= Len(reuse[im[i].tuple])
      OBVIOUS
    <2>3. NamedUpTo(im, reuse, Identity!Named(f[i - 1], im[i], reuse, minting), i)
      BY <2>1, <2>2, PlacedNext
    <2> QED
      BY <2>1, <2>3, <1>2
  <1>6. n \in G
    <2>1. n \in 0 .. n
      BY <1>3
    <2> HIDE DEF G, n
    <2> QED
      BY <2>1, <1>3, <1>4, <1>5, CountingUp, Zenon
  <1> QED
    BY <1>2, <1>3, <1>6

\* An image with ids stays as it is, and none is minted.
LEMMA IdentifiedNamed ==
    ASSUME NEW im \in Seq(IdEdges), NEW reuse \in IdMaps, mints \in Nat, NEW minting \in BOOLEAN,
           \A i \in 1 .. Len(im) : im[i].claim # Identity!NoClaim
    PROVE  LET a == Identity!AllNamed(im, reuse, minting)
           IN  a \in IdAccs /\ a.image = im /\ a.mints = mints
               /\ a.given = [t \in Tuples |-> <<>>]
  <1>1. PICK f : Naming(f, im, reuse, minting)
    BY NamingSteps
  <1>2. /\ f \in [0 .. Len(im) -> IdAccs] /\ f[0] = Identity!Started(im)
        /\ \A i \in 1 .. Len(im) : f[i] = Identity!Named(f[i - 1], im[i], reuse, minting)
        /\ Identity!AllNamed(im, reuse, minting) = f[Len(im)]
    BY <1>1 DEF Naming
  <1> DEFINE none == [t \in Tuples |-> <<>>]
             Same(a, i) == /\ Len(a.image) = i /\ (\A k \in 1 .. i : a.image[k] = im[k])
                           /\ a.mints = mints /\ a.given = none
             G == {i \in 0 .. Len(im) : Same(f[i], i)}
             n == Len(im)
  <1>3. n \in Nat
    OBVIOUS
  <1>4. 0 \in G
    <2>1. f[0].image = <<>> /\ f[0].mints = mints /\ f[0].given = none
      BY <1>2, StartedIs
    <2>2. Len(f[0].image) = 0 /\ \A i \in 1 .. 0 : FALSE
      BY <2>1
    <2> QED
      BY <2>1, <2>2, <1>3
  <1>5. ASSUME NEW i \in 1 .. n, i - 1 \in G PROVE i \in G
    <2> DEFINE a == f[i - 1]
               b == f[i]
               ai == Append(a.image, im[i])
    <2>1. a \in IdAccs /\ Same(a, i - 1) /\ i \in 0 .. Len(im) /\ im[i] \in IdEdges
      BY <1>2, <1>3, <1>5
    <2>2. b = Identity!Kept(a, im[i])
      BY <1>2, Zenon DEF Identity!Named
    <2>3. b = [a EXCEPT !.image = ai]
      BY <2>2 DEF Identity!Kept
    <2>4. a.image \in Seq(IdEdges)
      BY <2>1 DEF IdAccs
    <2> HIDE DEF a, b
    <2>5. Len(ai) = i /\ ai[i] = im[i] /\ \A k \in 1 .. i - 1 : ai[k] = im[k]
      <3>1. Len(a.image) = i - 1 /\ \A k \in 1 .. i - 1 : a.image[k] = im[k]
        BY <2>1
      <3>2. Len(ai) = (i - 1) + 1 /\ ai[(i - 1) + 1] = im[i] /\ \A k \in 1 .. i - 1 : ai[k] = a.image[k]
        BY <2>1, <2>4, <3>1
      <3> QED
        BY <3>1, <3>2
    <2> HIDE DEF ai
    <2>6. b.image = ai /\ b.mints = a.mints /\ b.given = a.given
      BY <2>1, <2>3 DEF IdAccs
    <2>7. \A k \in 1 .. i : k = i \/ k \in 1 .. i - 1
      OBVIOUS
    <2>8. Same(b, i)
      BY <2>1, <2>5, <2>6, <2>7
    <2> QED
      BY <2>1, <2>8 DEF b
  <1>6. n \in G
    <2>1. n \in 0 .. n
      BY <1>3
    <2> HIDE DEF G, n
    <2> QED
      BY <2>1, <1>3, <1>4, <1>5, CountingUp, Zenon
  <1> DEFINE a == f[n]
  <1>7. a \in IdAccs /\ Same(a, n)
    BY <1>2, <1>3, <1>6
  <1> HIDE DEF a
  <1>8. a.image = im
    <2>1. a.image \in Seq(IdEdges)
      BY <1>7 DEF IdAccs
    <2> QED
      BY <2>1, <1>7
  <1> QED
    BY <1>2, <1>7, <1>8 DEF a

-----------------------------------------------------------------------------
(* Claim identity: the inductive invariant. *)

IdImages == Seq([tuple : Tuples, thing : IdThings])
IdRows == [tuple : Tuples, thing : IdThings, claim : IdClaims, receipt : {"none", "ours"}]

IdentityTypes ==
    /\ release.image \in IdImages /\ release.identified \in BOOLEAN
    /\ followed.image \in IdImages /\ followed.identified \in BOOLEAN
    /\ things \in Nat /\ mints \in Nat
    /\ history \in [Tuples -> Seq(IdThings)]
    /\ era \in {"none", "old", "new"}
    /\ claims \in Seq(IdRows)
    /\ identities \in IdMaps
    /\ stamps \subseteq [thing : IdThings, claim : IdClaims]

\* An edge that was published, or came with an old database, is of one tuple.
Listed(of, t, x) ==
    x \in IdThings /\ x[1] # "own" /\ of[x] = t /\ (x[1] = "pub" => x[2] <= things)

Distinct(c) == \A p, q \in 1 .. Len(c) : c[p] = c[q] => p = q

ImageListed(of) ==
    \A i \in 1 .. Len(release.image) :
        release.image[i].thing[1] = "pub" /\ Listed(of, release.image[i].tuple, release.image[i].thing)
HistoryListed(of) ==
    \A t \in Tuples : \A p \in 1 .. Len(history[t]) : Listed(of, t, history[t][p])
RowsListed(of) ==
    \A i \in 1 .. Len(claims) :
        claims[i].thing[1] # "own" => Listed(of, claims[i].tuple, claims[i].thing)

\* The edges of a tuple that has not shifted are where they always were.
InPlace ==
    \A t \in Tuples \ shifted :
        IsPre(Identity!ThingsOf(release.image, t), history[t]) /\ Distinct(history[t])

\* An id names an edge: it is the id the edge was made with, or the map has it
\* at the place of the edge.
Unmapped(c) == \A t \in Tuples : \A p \in 1 .. Len(identities[t]) : identities[t][p] # c
MadeWith(x, c) ==
    x = c /\ c[1] \in {"pub", "own"} /\ Unmapped(c) /\ (c[1] = "own" => c[2] <= mints)
MappedTo(of, t, x, c) ==
    \E p \in 1 .. Len(identities[t]) :
        /\ c = identities[t][p] /\ Listed(of, t, x)
        /\ t \notin shifted => p \in 1 .. Len(history[t]) /\ x = history[t][p]
Names(of, t, x, c) == MadeWith(x, c) \/ MappedTo(of, t, x, c)

RowsNamed(of) ==
    era = "new" => \A i \in 1 .. Len(claims) : Names(of, claims[i].tuple, claims[i].thing, claims[i].claim)
StampsNamed(of) ==
    /\ era # "new" => stamps = {}
    /\ \A s \in stamps : \E t \in Tuples : Names(of, t, s.thing, s.claim)

\* Ids of the publisher appear once it assigns them, replace the minted ones
\* of a whole tuple, and are not replaced in turn.
PubTogether ==
    \A i, j \in 1 .. Len(claims) :
        claims[i].tuple = claims[j].tuple /\ claims[i].claim[1] = "pub" => claims[j].claim[1] = "pub"
PubKnown ==
    /\ \A i \in 1 .. Len(claims) : claims[i].claim[1] = "pub" => release.identified
    /\ \A s \in stamps : s.claim[1] = "pub" => release.identified
PubStays ==
    \A s \in stamps : \A i \in 1 .. Len(claims) :
        s.claim[1] = "pub" /\ claims[i].thing = s.thing => claims[i].claim[1] = "pub"

\* The map has the id of every edge of the tracked release at its place.
ExplainedAt(i) ==
    LET e == followed.image[i]
        r == PlaceOf(followed.image, i)
    IN  /\ r \in 1 .. Len(identities[e.tuple])
        /\ \E j \in 1 .. Len(claims) :
               claims[j].thing = e.thing /\ claims[j].claim = identities[e.tuple][r]
Explained ==
    era = "new" /\ ~followed.identified => \A i \in 1 .. Len(followed.image) : ExplainedAt(i)

\* A database without ids starts with the edges of the release it was made of.
OldRows ==
    era = "old" =>
        /\ ~followed.identified /\ Len(followed.image) <= Len(claims)
        /\ \A t \in Tuples \ shifted : IsPre(Identity!ThingsOf(claims, t), history[t])
        /\ \A i \in 1 .. Len(followed.image) :
               claims[i].thing = followed.image[i].thing /\ claims[i].tuple = followed.image[i].tuple
        /\ \A i \in 1 .. Len(claims) : claims[i].thing[1] # "own"

Saved == era = "new" => Identity!Saves(claims)

Lined(of) ==
    ImageListed(of) /\ HistoryListed(of) /\ RowsListed(of) /\ RowsNamed(of) /\ StampsNamed(of)

Owners == [IdThings -> Tuples]

IdentityInv ==
    /\ IdentityTypes /\ InPlace /\ MapOK(identities, mints)
    /\ PubTogether /\ PubKnown /\ PubStays /\ Explained /\ OldRows /\ Saved
    /\ \E of \in Owners : Lined(of)

\* Rows are edges.
LEMMA RowsAreEdges == IdRows \subseteq IdEdges
  BY DEF IdRows, IdEdges

\* Rows are identified.
LEMMA RowsIdentifiedHolds == IdentityInv => Identity!RowsIdentified
  <1> SUFFICES ASSUME IdentityInv, era = "new" PROVE Identity!Saves(claims) /\ \A i \in DOMAIN claims : claims[i].receipt # "theirs"
    BY DEF Identity!RowsIdentified
  <1>1. Identity!Saves(claims) /\ claims \in Seq(IdRows)
    BY DEF IdentityInv, Saved, IdentityTypes
  <1>2. \A i \in DOMAIN claims : claims[i] \in IdRows
    BY <1>1
  <1>3. \A r \in IdRows : r.receipt # "theirs"
    BY DEF IdRows
  <1> QED
    BY <1>1, <1>2, <1>3

\* What a release shows.
BundleOf(r, im, receipt_) ==
    /\ im \in Seq(IdEdges) /\ Len(im) = Len(r.image)
    /\ \A i \in 1 .. Len(im) :
           /\ im[i].tuple = r.image[i].tuple /\ im[i].thing = r.image[i].thing
           /\ im[i].receipt = receipt_
           /\ im[i].claim = IF r.identified THEN <<"pub", r.image[i].thing[2]>> ELSE Identity!NoClaim

\* The bundle of a release, as it is and as an overlay takes it.
LEMMA BundleIs ==
    ASSUME NEW r, r.image \in IdImages, r.identified \in BOOLEAN
    PROVE  /\ BundleOf(r, Identity!Bundle(r), "theirs")
           /\ BundleOf(r, Identity!RelabelCloneReceipts(Identity!Bundle(r)), "none")
  <1> DEFINE n == Len(r.image)
             C(i) == IF r.identified THEN <<"pub", r.image[i].thing[2]>> ELSE Identity!NoClaim
             E(i, k) == [tuple |-> r.image[i].tuple, thing |-> r.image[i].thing, claim |-> C(i), receipt |-> k]
             a == [i \in 1 .. n |-> E(i, "theirs")]
             b == [i \in 1 .. n |-> E(i, "none")]
  <1>1. n \in Nat /\ DOMAIN r.image = 1 .. n
    BY DEF IdImages
  <1>2. \A i \in 1 .. n : r.image[i].tuple \in Tuples /\ r.image[i].thing \in IdThings
    <2> DEFINE X == [tuple : Tuples, thing : IdThings]
    <2>1. r.image \in Seq(X)
      BY DEF IdImages
    <2> HIDE DEF X
    <2>2. \A i \in 1 .. n : r.image[i] \in X
      BY <2>1
    <2>3. \A x \in X : x.tuple \in Tuples /\ x.thing \in IdThings
      BY DEF X
    <2> QED
      BY <2>2, <2>3
  <1>3. \A i \in 1 .. n : C(i) \in IdClaims
    <2>1. \A i \in 1 .. n : r.image[i].thing[2] \in Nat
      BY <1>2 DEF IdThings
    <2> QED
      BY <2>1 DEF IdClaims, Identity!NoClaim
  <1>4. \A i \in 1 .. n : E(i, "theirs") \in IdEdges /\ E(i, "none") \in IdEdges
    <2> HIDE DEF C
    <2> QED
      BY <1>2, <1>3 DEF IdEdges
  <1>5. Identity!Bundle(r) = a
    BY <1>1 DEF Identity!Bundle, Identity!Edge
  <1>6. Identity!RelabelCloneReceipts(a) = b
    <2>1. \A i \in 1 .. n : [E(i, "theirs") EXCEPT !.receipt = "none"] = E(i, "none")
      <3> HIDE DEF C
      <3> QED
        OBVIOUS
    <2> HIDE DEF E
    <2> QED
      BY <2>1 DEF Identity!RelabelCloneReceipts
  <1>7. a \in [1 .. n -> IdEdges] /\ b \in [1 .. n -> IdEdges]
    <2> HIDE DEF E
    <2> QED
      BY <1>4
  <1>8. a \in Seq(IdEdges) /\ Len(a) = n /\ b \in Seq(IdEdges) /\ Len(b) = n
    <2> HIDE DEF a, b, n
    <2> QED
      BY <1>1, <1>7
  <1>9. ASSUME NEW i \in 1 .. n
        PROVE  /\ a[i].tuple = r.image[i].tuple /\ a[i].thing = r.image[i].thing
               /\ a[i].receipt = "theirs" /\ a[i].claim = C(i)
               /\ b[i].tuple = r.image[i].tuple /\ b[i].thing = r.image[i].thing
               /\ b[i].receipt = "none" /\ b[i].claim = C(i)
    <2> HIDE DEF C
    <2> QED
      OBVIOUS
  <1> HIDE DEF a, b
  <1>10. BundleOf(r, a, "theirs") /\ BundleOf(r, b, "none")
    BY <1>8, <1>9 DEF BundleOf
  <1> QED
    BY <1>5, <1>6, <1>10

\* Places are the same in an image and in its bundle.
LEMMA BundlePlaces ==
    ASSUME NEW r, r.image \in IdImages, NEW im, NEW k, BundleOf(r, im, k)
    PROVE  /\ \A i \in 1 .. Len(im) : PlaceOf(im, i) = PlaceOf(r.image, i)
           /\ \A t : Identity!ThingsOf(im, t) = Identity!ThingsOf(r.image, t)
  <1> DEFINE a == r.image
  <1>1. /\ im \in Seq(IdEdges) /\ Len(im) = Len(a) /\ a \in Seq([tuple : Tuples, thing : IdThings])
        /\ \A i \in 1 .. Len(im) : im[i].tuple = a[i].tuple /\ im[i].thing = a[i].thing
    BY Zenon DEF BundleOf, IdImages
  <1> HIDE DEF a
  <1>2. Len(im) <= Len(a) /\ Len(a) <= Len(im)
    BY <1>1
  <1>3. \A t : /\ IsPre(Identity!ThingsOf(im, t), Identity!ThingsOf(a, t))
               /\ IsPre(Identity!ThingsOf(a, t), Identity!ThingsOf(im, t))
               /\ \A i \in 1 .. Len(im) : Upto(At(im, t), i) = Upto(At(a, t), i)
    <2>1. ASSUME NEW t
          PROVE  /\ IsPre(Identity!ThingsOf(im, t), Identity!ThingsOf(a, t))
                 /\ IsPre(Identity!ThingsOf(a, t), Identity!ThingsOf(im, t))
                 /\ \A i \in 1 .. Len(im) : Upto(At(im, t), i) = Upto(At(a, t), i)
      <3>1. \A i \in 1 .. Len(a) : a[i].tuple = im[i].tuple /\ a[i].thing = im[i].thing
        BY <1>1
      <3>2. IsPre(Identity!ThingsOf(a, t), Identity!ThingsOf(im, t))
        BY <1>1, <1>2, <3>1, PrefixLines
      <3>3. /\ IsPre(Identity!ThingsOf(im, t), Identity!ThingsOf(a, t))
            /\ \A i \in 1 .. Len(im) : Upto(At(im, t), i) = Upto(At(a, t), i)
        BY <1>1, <1>2, PrefixLines
      <3> QED
        BY <3>2, <3>3
    <2> QED
      BY <2>1
  <1>4. ASSUME NEW t PROVE Identity!ThingsOf(im, t) = Identity!ThingsOf(a, t)
    <2> DEFINE c == Identity!ThingsOf(im, t)
               d == Identity!ThingsOf(a, t)
    <2>1. IsList(c) /\ IsList(d)
      <3>1. Lines(im, t, c) /\ Lines(a, t, d)
        BY <1>1, ThingsLines
      <3> QED
        BY <3>1 DEF Lines
    <2>2. IsPre(c, d) /\ IsPre(d, c)
      BY <1>3
    <2> HIDE DEF c, d
    <2>3. Len(c) \in Nat /\ Len(d) \in Nat /\ Len(c) <= Len(d) /\ Len(d) <= Len(c)
      BY <2>1, <2>2 DEF IsPre, IsList
    <2>4. Len(c) = Len(d) /\ \A p \in 1 .. Len(c) : c[p] = d[p]
      BY <2>2, <2>3 DEF IsPre
    <2>5. c = [p \in 1 .. Len(c) |-> c[p]] /\ d = [p \in 1 .. Len(d) |-> d[p]]
      BY <2>1 DEF IsList
    <2>6. c = d
      BY <2>4, <2>5
    <2> QED
      BY <2>6 DEF c, d
  <1>5. \A i \in 1 .. Len(im) : PlaceOf(im, i) = PlaceOf(a, i)
    BY <1>1, <1>3 DEF PlaceOf
  <1> QED
    BY <1>4, <1>5 DEF a

\* The map explains the tracked release.
LEMMA MapExplainsHolds == IdentityInv => Identity!MapExplains
  <1> SUFFICES ASSUME IdentityInv, era = "new", ~followed.identified
               PROVE  \A i \in DOMAIN Identity!Annotate(Identity!Bundle(followed), identities) :
                        \E j \in DOMAIN claims :
                          /\ claims[j].thing = Identity!Annotate(Identity!Bundle(followed), identities)[i].thing
                          /\ claims[j].claim = Identity!Annotate(Identity!Bundle(followed), identities)[i].claim
    BY DEF Identity!MapExplains
  <1> DEFINE im == Identity!Bundle(followed)
             a == Identity!AllNamed(im, identities, FALSE)
             n == Len(im)
  <1>1. /\ followed.image \in IdImages /\ followed.identified \in BOOLEAN /\ mints \in Nat
        /\ identities \in IdMaps /\ MapOK(identities, mints) /\ claims \in Seq(IdRows)
        /\ \A i \in 1 .. Len(followed.image) : ExplainedAt(i)
    BY DEF IdentityInv, IdentityTypes, Explained
  <1>2. BundleOf(followed, im, "theirs")
    BY <1>1, BundleIs
  <1> HIDE DEF im
  <1>3. /\ im \in Seq(IdEdges) /\ Len(im) = Len(followed.image)
        /\ \A i \in 1 .. Len(im) :
              /\ im[i].tuple = followed.image[i].tuple /\ im[i].thing = followed.image[i].thing
              /\ im[i].claim = Identity!NoClaim
    BY <1>2 DEF BundleOf
  <1>4. \A i \in 1 .. Len(im) : PlaceOf(im, i) = PlaceOf(followed.image, i)
    BY <1>1, <1>2, BundlePlaces
  <1>5. \A i \in 1 .. Len(im) : PlaceOf(im, i) \in 1 .. Len(identities[im[i].tuple])
    BY <1>1, <1>3, <1>4, Zenon DEF ExplainedAt
  <1>6. \A i \in 1 .. Len(im) : im[i].tuple \in Tuples
    <2>1. \A i \in 1 .. Len(im) : im[i] \in IdEdges
      BY <1>3
    <2>2. \A e \in IdEdges : e.tuple \in Tuples
      BY DEF IdEdges
    <2> QED
      BY <2>1, <2>2
  <1>7. \A i \in 1 .. Len(im) : PlaceOf(im, i) <= Len(identities[im[i].tuple])
    <2>1. \A t \in Tuples : Len(identities[t]) \in Nat
      BY <1>1 DEF IdMaps
    <2> QED
      BY <2>1, <1>5, <1>6
  <1>8. a \in IdAccs /\ NamedUpTo(im, identities, a, n)
    <2>1. FALSE \in BOOLEAN
      OBVIOUS
    <2> QED
      BY <2>1, <1>1, <1>3, <1>7, BareNamed, Zenon
  <1> HIDE DEF a
  <1>9. a.image \in Seq(IdEdges) /\ Len(a.image) = n
    BY <1>8 DEF IdAccs, NamedUpTo
  <1>10. ASSUME NEW i \in 1 .. n
         PROVE  \E j \in DOMAIN claims :
                    claims[j].thing = a.image[i].thing /\ claims[j].claim = a.image[i].claim
    <2> DEFINE t == im[i].tuple
               p == PlaceOf(im, i)
    <2>1. t \in Tuples /\ p \in 1 .. Len(identities[t]) /\ p <= Len(identities[t])
      BY <1>5, <1>6, <1>7
    <2>2. p \in 1 .. Len(a.given[t]) /\ a.image[i] = [im[i] EXCEPT !.claim = a.given[t][p]]
      BY <1>8 DEF NamedUpTo
    <2>3. a.given[t][p] = identities[t][p]
      <3> HIDE DEF t, p
      <3> QED
        BY <2>1, <2>2, <1>8, Zenon DEF NamedUpTo
    <2>4. im[i] \in IdEdges
      BY <1>3
    <2>5. a.image[i].thing = im[i].thing /\ a.image[i].claim = identities[t][p]
      BY <2>2, <2>3, <2>4 DEF IdEdges
    <2>6. ExplainedAt(i)
      BY <1>1, <1>3
    <2>7. \E j \in 1 .. Len(claims) : claims[j].thing = im[i].thing /\ claims[j].claim = identities[t][p]
      BY <2>6, <1>3, <1>4, Zenon DEF ExplainedAt
    <2> QED
      BY <2>5, <2>7, <1>1
  <1>11. Identity!Annotate(Identity!Bundle(followed), identities) = a.image
    BY DEF Identity!Annotate, im, a
  <1> QED
    BY <1>9, <1>10, <1>11

\* An id that is recorded names what it named.
LEMMA StampsHoldHolds == IdentityInv => Identity!StampsHold
  <1> SUFFICES ASSUME IdentityInv, NEW s \in stamps, NEW i \in DOMAIN claims, claims[i].tuple \notin shifted
               PROVE  /\ claims[i].claim = s.claim => claims[i].thing = s.thing
                      /\ claims[i].thing = s.thing =>
                            \/ claims[i].claim = s.claim
                            \/ s.claim[1] = "own" /\ claims[i].claim[1] = "pub"
    BY DEF Identity!StampsHold
  <1>1. PICK of \in Owners : Lined(of)
    BY DEF IdentityInv
  <1> DEFINE t == claims[i].tuple
             x == claims[i].thing
             c == claims[i].claim
  <1>2. i \in 1 .. Len(claims) /\ claims[i] \in IdRows
    BY DEF IdentityInv, IdentityTypes
  <1>3. t \in Tuples
    BY <1>2 DEF IdRows
  <1>4. era = "new" /\ Names(of, t, x, c)
    BY <1>1, <1>2 DEF Lined, StampsNamed, RowsNamed
  <1>5. PICK u \in Tuples : Names(of, u, s.thing, s.claim)
    BY <1>1 DEF Lined, StampsNamed
  <1>6. MapOK(identities, mints) /\ Distinct(history[t])
    BY <1>3 DEF IdentityInv, InPlace
  <1>7. s.claim[1] = "pub" /\ x = s.thing => c[1] = "pub"
    BY <1>2 DEF IdentityInv, PubStays
  <1> HIDE DEF t, x, c
  <1>8. \A w \in Tuples : \A y, d : MappedTo(of, w, y, d) => d[1] = "own" /\ y[1] # "own" /\ of[y] = w
    BY <1>6 DEF MappedTo, MapOK, Listed
  <1>9. CASE MadeWith(x, c) /\ MadeWith(s.thing, s.claim)
    BY <1>9 DEF MadeWith, x, c
  <1>10. CASE MadeWith(x, c) /\ MappedTo(of, u, s.thing, s.claim)
    <2>1. c # s.claim
      BY <1>10, <1>5 DEF MadeWith, MappedTo, Unmapped
    <2>2. x = s.thing => c[1] = "pub"
      BY <1>10, <1>8, <1>5 DEF MadeWith
    <2>3. s.claim[1] = "own"
      BY <1>10, <1>8, <1>5
    <2> QED
      BY <2>1, <2>2, <2>3 DEF x, c
  <1>11. CASE MappedTo(of, t, x, c) /\ MadeWith(s.thing, s.claim)
    <2>1. c # s.claim
      BY <1>11, <1>3 DEF MadeWith, MappedTo, Unmapped
    <2>2. c[1] = "own" /\ x[1] # "own"
      BY <1>11, <1>8, <1>3 DEF t
    <2>3. x = s.thing => s.claim[1] = "pub"
      BY <1>11, <2>2 DEF MadeWith
    <2> QED
      BY <2>1, <2>2, <2>3, <1>7 DEF x, c
  <1>12. CASE MappedTo(of, t, x, c) /\ MappedTo(of, u, s.thing, s.claim)
    <2>1. PICK p \in 1 .. Len(identities[t]) :
             c = identities[t][p] /\ (t \notin shifted => p \in 1 .. Len(history[t]) /\ x = history[t][p])
      BY <1>12 DEF MappedTo
    <2>2. PICK q \in 1 .. Len(identities[u]) :
             s.claim = identities[u][q]
             /\ (u \notin shifted => q \in 1 .. Len(history[u]) /\ s.thing = history[u][q])
      BY <1>12 DEF MappedTo
    <2>3. t \notin shifted /\ t \in Tuples
      BY <1>3 DEF t
    <2>4. c = s.claim => x = s.thing
      <3> SUFFICES ASSUME c = s.claim PROVE x = s.thing
        OBVIOUS
      <3>1. identities[t][p] = identities[u][q]
        BY <2>1, <2>2, Zenon
      <3>2. t = u /\ p = q
        BY <3>1, <2>3, <1>6 DEF MapOK
      <3> QED
        BY <3>2, <2>1, <2>2, <2>3
    <2>5. x = s.thing => c = s.claim
      <3> SUFFICES ASSUME x = s.thing PROVE c = s.claim
        OBVIOUS
      <3>1. u = t
        BY <1>12, <1>8, <2>3
      <3>2. p = q
        BY <3>1, <2>1, <2>2, <2>3, <1>6 DEF Distinct
      <3> QED
        BY <3>1, <3>2, <2>1, <2>2
    <2> QED
      BY <2>4, <2>5 DEF x, c
  <1> QED
    BY <1>4, <1>5, <1>9, <1>10, <1>11, <1>12 DEF Names

\* The invariant is strong enough.
LEMMA IdentityInvHolds == IdentityInv => IdentityHolds
  BY RowsIdentifiedHolds, MapExplainsHolds, StampsHoldHolds DEF IdentityHolds, Identity!IdentityHolds

\* The things of a tuple are things, and different if all of the image are.
LEMMA LinesOfThings ==
    ASSUME NEW X, NEW s \in Seq(X), \A e \in X : e.thing \in IdThings, NEW t
    PROVE  /\ Identity!ThingsOf(s, t) \in Seq(IdThings) /\ Len(Identity!ThingsOf(s, t)) \in Nat
           /\ \A p \in 1 .. Len(Identity!ThingsOf(s, t)) :
                 \E i \in 1 .. Len(s) : s[i].tuple = t /\ Identity!ThingsOf(s, t)[p] = s[i].thing
           /\ (\A i, j \in 1 .. Len(s) : s[i].tuple = t /\ s[i].thing = s[j].thing => i = j)
                 => Distinct(Identity!ThingsOf(s, t))
  <1> DEFINE c == Identity!ThingsOf(s, t)
  <1>1. Lines(s, t, c)
    BY ThingsLines
  <1> HIDE DEF c
  <1>2. \A i \in At(s, t) : i \in 1 .. Len(s) /\ s[i].tuple = t
    BY DEF At
  <1>3. \A p \in 1 .. Len(c) : \E i \in 1 .. Len(s) :
           s[i].tuple = t /\ c[p] = s[i].thing /\ Upto(At(s, t), i) = p
    BY <1>1, <1>2 DEF Lines
  <1>4. \A i \in 1 .. Len(s) : s[i].thing \in IdThings
    <2>1. \A i \in 1 .. Len(s) : s[i] \in X
      OBVIOUS
    <2> QED
      BY <2>1
  <1>5. \A p \in 1 .. Len(c) : c[p] \in IdThings
    BY <1>3, <1>4
  <1>6. c \in Seq(IdThings) /\ Len(c) \in Nat
    <2>1. IsList(c)
      BY <1>1 DEF Lines
    <2> QED
      BY <2>1, <1>5, ListIsSeq DEF IsList
  <1>7. (\A i, j \in 1 .. Len(s) : s[i].tuple = t /\ s[i].thing = s[j].thing => i = j) => Distinct(c)
    BY <1>3 DEF Distinct
  <1> QED
    BY <1>3, <1>6, <1>7 DEF c

\* Every thing of a line is one of the edges.
ComesFrom(s, t, c) ==
    \A p \in 1 .. Len(c) : \E i \in 1 .. Len(s) : s[i].tuple = t /\ c[p] = s[i].thing

\* The line of a tuple, taken from an image, comes from it.
LEMMA LinesComeFrom ==
    ASSUME NEW X, NEW s \in Seq(X), \A e \in X : e.thing \in IdThings, NEW t
    PROVE  ComesFrom(s, t, Identity!ThingsOf(s, t))
  BY LinesOfThings DEF ComesFrom

\* The rows that come with an old database: those of the release, then local ones.
StartRows(first, local, r) ==
    /\ r \in Seq(IdRows) /\ Len(r) = Len(first) + Len(local)
    /\ \A i \in 1 .. Len(r) :
           /\ r[i].claim = Identity!NoClaim
           /\ r[i].tuple = IF i <= Len(first) THEN first[i] ELSE local[i - Len(first)]
           /\ r[i].thing = IF i <= Len(first) THEN <<"pub", i>> ELSE <<"old", i - Len(first)>>

StartedWith(first, local) ==
    /\ release.image \in IdImages /\ Len(release.image) = Len(first)
    /\ \A i \in 1 .. Len(first) :
           release.image[i].tuple = first[i] /\ release.image[i].thing = <<"pub", i>>
    /\ release.identified = FALSE /\ followed = release /\ things = Len(first)
    /\ mints = 0 /\ stamps = {} /\ shifted = {} /\ identities = Identity!NoMap
    /\ \/ /\ era = "none" /\ claims = <<>>
          /\ history = [t \in Tuples |-> Identity!ThingsOf(release.image, t)]
       \/ /\ era = "old" /\ StartRows(first, local, claims)
          /\ history = [t \in Tuples |-> Identity!ThingsOf(claims, t)]

\* How it starts.
LEMMA IdentityStart ==
    ASSUME Identity!Init
    PROVE  \E first, local \in Seq(Tuples) : StartedWith(first, local)
  <1>1. PICK first \in Firsts :
           /\ release = [image |-> Identity!Numbered(first), identified |-> FALSE,
                         owned |-> Identity!Owned(first)]
           /\ things = Len(first)
           /\ \/ era = "none" /\ claims = <<>>
              \/ /\ era = "old"
                 /\ \E local \in {<<>>} \cup {<<t>> : t \in {x \in Tuples : TypeOf[x] \notin Identity!Owned(first)}} :
                       claims = Identity!RelabelCloneReceipts(Identity!Bundle(release))
                                \o [i \in DOMAIN local |-> Identity!Edge(local[i], <<"old", i>>, Identity!NoClaim, "ours")]
    BY Zenon DEF Identity!Init
  <1>2. /\ history = [t \in Tuples |-> IF era = "old" THEN Identity!ThingsOf(claims, t)
                                         ELSE Identity!ThingsOf(release.image, t)]
        /\ shifted = {} /\ identities = Identity!NoMap /\ mints = 0 /\ stamps = {} /\ followed = release
    BY DEF Identity!Init
  <1>3. first \in Seq(Tuples)
    BY <1>1, TuplesAssumption
  <1> DEFINE n == Len(first)
             im == [i \in 1 .. n |-> [tuple |-> first[i], thing |-> <<"pub", i>>]]
             X == [tuple : Tuples, thing : IdThings]
  <1>4. n \in Nat /\ DOMAIN first = 1 .. n /\ \A i \in 1 .. n : first[i] \in Tuples
    BY <1>3
  <1>5. release.image = im /\ release.identified = FALSE
    <2>1. Identity!Numbered(first) = im
      BY <1>4 DEF Identity!Numbered, Identity!Published
    <2> QED
      BY <1>1, <2>1
  <1>6. im \in Seq(X) /\ Len(im) = n
    <2>1. \A i \in 1 .. n : [tuple |-> first[i], thing |-> <<"pub", i>>] \in X
      <3>1. \A i \in 1 .. n : <<"pub", i>> \in IdThings
        BY DEF IdThings
      <3> QED
        BY <3>1, <1>4, Zenon
    <2>2. im \in [1 .. n -> X]
      <3> HIDE DEF X
      <3> QED
        BY <2>1
    <2> HIDE DEF im, n, X
    <2> QED
      BY <2>2, <1>4
  <1>7. \A i \in 1 .. n : im[i].tuple = first[i] /\ im[i].thing = <<"pub", i>>
    OBVIOUS
  <1> HIDE DEF im, n
  <1>8. /\ release.image \in IdImages /\ Len(release.image) = Len(first) /\ things = Len(first)
        /\ \A i \in 1 .. Len(first) :
               release.image[i].tuple = first[i] /\ release.image[i].thing = <<"pub", i>>
    BY <1>1, <1>5, <1>6, <1>7 DEF n, IdImages
  <1>9. CASE era = "none" /\ claims = <<>>
    <2>1. history = [t \in Tuples |-> Identity!ThingsOf(release.image, t)]
      BY <1>2, <1>9
    <2>2. StartedWith(first, first)
      BY <1>2, <1>5, <1>8, <1>9, <2>1 DEF StartedWith
    <2> QED
      BY <2>2, <1>3
  <1>10. CASE era = "old"
    <2>1. PICK local \in {<<>>} \cup {<<t>> : t \in {x \in Tuples : TypeOf[x] \notin Identity!Owned(first)}} :
             claims = Identity!RelabelCloneReceipts(Identity!Bundle(release))
                      \o [i \in DOMAIN local |-> Identity!Edge(local[i], <<"old", i>>, Identity!NoClaim, "ours")]
      BY <1>1, <1>10, Zenon
    <2>2. local \in Seq(Tuples)
      <3>1. CASE local = <<>>
        BY <3>1
      <3>2. CASE local # <<>>
        <4>1. PICK t \in Tuples : local = <<t>>
          BY <3>2
        <4> QED
          BY <4>1
      <3> QED
        BY <3>1, <3>2
    <2> DEFINE m == Len(local)
               a == Identity!RelabelCloneReceipts(Identity!Bundle(release))
               E(i) == [tuple |-> local[i], thing |-> <<"old", i>>, claim |-> Identity!NoClaim, receipt |-> "ours"]
               b == [i \in 1 .. m |-> E(i)]
    <2>3. m \in Nat /\ DOMAIN local = 1 .. m /\ \A i \in 1 .. m : local[i] \in Tuples
      BY <2>2
    <2>4. claims = a \o b
      BY <2>1, <2>3 DEF Identity!Edge
    <2>5. BundleOf(release, a, "none")
      <3>1. release.identified \in BOOLEAN
        BY <1>5, Zenon
      <3> QED
        BY <1>8, <3>1, BundleIs
    <2>6. Identity!NoClaim \in IdClaims
      BY DEF Identity!NoClaim, IdClaims
    <2>7. \A i \in 1 .. m : E(i) \in IdRows
      <3>1. \A i \in 1 .. m : <<"old", i>> \in IdThings
        BY DEF IdThings
      <3> QED
        BY <3>1, <2>3, <2>6, Zenon DEF IdRows
    <2>8. b \in [1 .. m -> IdRows]
      <3> HIDE DEF E
      <3> QED
        BY <2>7
    <2>9. \A i \in 1 .. m : b[i].tuple = local[i] /\ b[i].thing = <<"old", i>> /\ b[i].claim = Identity!NoClaim
      OBVIOUS
    <2> HIDE DEF a, b, m
    <2>10. b \in Seq(IdRows) /\ Len(b) = m
      BY <2>3, <2>8
    <2>11. a \in Seq(IdEdges) /\ Len(a) = n
      BY <2>5, <1>8 DEF BundleOf, n
    <2>12. \A i \in 1 .. n : a[i].tuple = first[i] /\ a[i].thing = <<"pub", i>>
                             /\ a[i].claim = Identity!NoClaim /\ a[i].receipt = "none"
      BY <2>5, <2>11, <1>5, <1>8, Zenon DEF BundleOf, n
    <2>13. a \in Seq(IdRows)
      <3>1. \A i \in 1 .. n : a[i] \in IdEdges
        BY <2>11
      <3>2. \A e \in IdEdges : e.receipt = "none" => e \in IdRows
        BY DEF IdEdges, IdRows
      <3>3. \A i \in 1 .. n : a[i] \in IdRows
        BY <3>1, <3>2, <2>12
      <3>4. IsList(a)
        BY <2>11, <1>4 DEF IsList
      <3> QED
        BY <3>3, <3>4, <2>11, ListIsSeq
    <2>14. claims \in Seq(IdRows) /\ Len(claims) = n + m
      <3> HIDE DEF E, X
      <3>1. a \o b \in Seq(IdRows) /\ Len(a \o b) = Len(a) + Len(b)
        BY <2>10, <2>13
      <3> QED
        BY <3>1, <2>4, <2>10, <2>11
    <2>15. ASSUME NEW i \in 1 .. n + m
           PROVE  /\ claims[i].claim = Identity!NoClaim
                  /\ claims[i].tuple = IF i <= n THEN first[i] ELSE local[i - n]
                  /\ claims[i].thing = IF i <= n THEN <<"pub", i>> ELSE <<"old", i - n>>
      <3>1. CASE i <= n
        <4>1. i \in 1 .. n /\ claims[i] = a[i]
          BY <3>1, <1>4, <2>3, <2>4, <2>10, <2>11, <2>13
        <4> QED
          BY <4>1, <3>1, <2>12
      <3>2. CASE ~(i <= n)
        <4>1. i - n \in 1 .. m /\ claims[i] = b[i - n]
          BY <3>2, <1>4, <2>3, <2>4, <2>10, <2>11, <2>13
        <4> QED
          BY <4>1, <3>2, <2>9
      <3> QED
        BY <3>1, <3>2
    <2>16. StartRows(first, local, claims)
      BY <2>14, <2>15 DEF StartRows, n, m
    <2>17. history = [t \in Tuples |-> Identity!ThingsOf(claims, t)]
      BY <1>2, <1>10
    <2>18. StartedWith(first, local)
      BY <1>2, <1>5, <1>8, <1>10, <2>16, <2>17 DEF StartedWith
    <2> QED
      BY <2>18, <2>2, <1>3
  <1> QED
    BY <1>1, <1>9, <1>10

\* Every list starts with itself.
LEMMA PreSelf == \A c : Len(c) \in Nat => IsPre(c, c)
  BY DEF IsPre

\* An image and a set of rows are of edges.
LEMMA ThingsTyped ==
    /\ \A e \in [tuple : Tuples, thing : IdThings] : e.thing \in IdThings /\ e.tuple \in Tuples
    /\ \A e \in IdRows : e.thing \in IdThings /\ e.tuple \in Tuples /\ e.claim \in IdClaims
                         /\ e \in IdEdges
  BY DEF IdRows, IdEdges

\* It holds at the start.
LEMMA IdentityInit == Identity!Init => IdentityInv
  <1> SUFFICES ASSUME Identity!Init PROVE IdentityInv
    OBVIOUS
  <1>1. PICK first \in Seq(Tuples), local \in Seq(Tuples) : StartedWith(first, local)
    BY IdentityStart
  <1> DEFINE n == Len(first)
             m == Len(local)
             X == [tuple : Tuples, thing : IdThings]
             of == [x \in IdThings |->
                       IF x[1] = "pub" /\ x[2] \in 1 .. n THEN first[x[2]]
                       ELSE IF x[1] = "old" /\ x[2] \in 1 .. m THEN local[x[2]] ELSE CHOOSE t \in Tuples : TRUE]
  <1>2. /\ n \in Nat /\ m \in Nat /\ (\A i \in 1 .. n : first[i] \in Tuples)
        /\ (\A i \in 1 .. m : local[i] \in Tuples)
    OBVIOUS
  <1>3. of \in Owners
    <2>1. (CHOOSE t \in Tuples : TRUE) \in Tuples
      BY TuplesAssumption
    <2> QED
      BY <2>1, <1>2 DEF Owners
  <1>4. /\ \A i \in 1 .. n : <<"pub", i>> \in IdThings /\ of[<<"pub", i>>] = first[i]
        /\ \A i \in 1 .. m : <<"old", i>> \in IdThings /\ of[<<"old", i>>] = local[i]
    <2>1. \A i \in 1 .. n : <<"pub", i>> \in IdThings
      BY DEF IdThings
    <2>2. \A i \in 1 .. m : <<"old", i>> \in IdThings
      BY DEF IdThings
    <2> HIDE DEF IdThings
    <2> QED
      BY <2>1, <2>2
  <1>5. /\ release.image \in Seq(X) /\ Len(release.image) = n /\ followed = release
        /\ release.identified = FALSE /\ things = n
        /\ \A i \in 1 .. n : release.image[i].tuple = first[i] /\ release.image[i].thing = <<"pub", i>>
        /\ mints = 0 /\ stamps = {} /\ shifted = {}
        /\ \/ era = "none" /\ claims = <<>>
           \/ era = "old" /\ StartRows(first, local, claims)
    BY <1>1 DEF StartedWith, IdImages
  <1> DEFINE H(t) == IF era = "old" THEN Identity!ThingsOf(claims, t) ELSE Identity!ThingsOf(release.image, t)
  <1>6. history = [t \in Tuples |-> H(t)]
    BY <1>1 DEF StartedWith
  <1>7. \A t \in Tuples : identities[t] = <<>> /\ Len(identities[t]) = 0
    BY <1>1 DEF StartedWith, Identity!NoMap
  <1> HIDE DEF n, m, of, X
  <1>8. \A i \in 1 .. n : Listed(of, first[i], <<"pub", i>>)
    <2>1. \A i \in 1 .. n : <<"pub", i>>[1] # "own" /\ <<"pub", i>>[2] = i /\ i <= things
      BY <1>2, <1>5
    <2> QED
      BY <2>1, <1>4, Zenon DEF Listed
  <1>9. \A i \in 1 .. m : Listed(of, local[i], <<"old", i>>)
    <2>1. \A i \in 1 .. m : <<"old", i>>[1] # "own" /\ <<"old", i>>[1] # "pub"
      OBVIOUS
    <2> QED
      BY <2>1, <1>4, Zenon DEF Listed
  <1>10. claims \in Seq(IdRows)
    <2>1. <<>> \in Seq(IdRows)
      OBVIOUS
    <2>2. StartRows(first, local, claims) => claims \in Seq(IdRows)
      BY DEF StartRows
    <2> QED
      BY <2>1, <2>2, <1>5, Zenon
  <1>11. \A i \in 1 .. Len(claims) :
            /\ claims[i].claim = Identity!NoClaim /\ Listed(of, claims[i].tuple, claims[i].thing)
            /\ claims[i].thing[1] # "own"
            /\ era = "old" /\ i \in 1 .. n => claims[i].tuple = first[i] /\ claims[i].thing = <<"pub", i>>
    <2>1. CASE era = "none" /\ claims = <<>>
      BY <2>1
    <2>2. CASE era = "old" /\ StartRows(first, local, claims)
      <3>1. /\ Len(claims) = n + m
            /\ \A i \in 1 .. Len(claims) :
                  /\ claims[i].claim = Identity!NoClaim
                  /\ claims[i].tuple = IF i <= n THEN first[i] ELSE local[i - n]
                  /\ claims[i].thing = IF i <= n THEN <<"pub", i>> ELSE <<"old", i - n>>
        BY <2>2 DEF StartRows, n, m
      <3>3. /\ \A i \in 1 .. n + m : claims[i].claim = Identity!NoClaim
            /\ \A i \in 1 .. n + m : i <= n => claims[i].tuple = first[i] /\ claims[i].thing = <<"pub", i>>
            /\ \A i \in 1 .. n + m : ~(i <= n) => claims[i].tuple = local[i - n] /\ claims[i].thing = <<"old", i - n>>
        BY <3>1, Zenon
      <3>4. \A i \in 1 .. n : <<"pub", i>>[1] # "own"
        OBVIOUS
      <3>5. \A i \in 1 .. m : <<"old", i>>[1] # "own"
        OBVIOUS
      <3>2. ASSUME NEW i \in 1 .. n + m
            PROVE  /\ claims[i].claim = Identity!NoClaim /\ Listed(of, claims[i].tuple, claims[i].thing)
                   /\ claims[i].thing[1] # "own"
                   /\ i \in 1 .. n => claims[i].tuple = first[i] /\ claims[i].thing = <<"pub", i>>
        <4>1. CASE i <= n
          <5>1. i \in 1 .. n
            BY <4>1, <1>2
          <5>2. claims[i].tuple = first[i] /\ claims[i].thing = <<"pub", i>>
            BY <4>1, <3>3
          <5> QED
            BY <5>1, <5>2, <3>3, <3>4, <1>8
        <4>2. CASE ~(i <= n)
          <5>1. i - n \in 1 .. m /\ i \notin 1 .. n
            BY <4>2, <1>2
          <5>2. claims[i].tuple = local[i - n] /\ claims[i].thing = <<"old", i - n>>
            BY <4>2, <3>3
          <5> QED
            BY <5>1, <5>2, <3>3, <3>5, <1>9
        <4> QED
          BY <4>1, <4>2
      <3> QED
        BY <3>1, <3>2
    <2> QED
      BY <2>1, <2>2, <1>5
  <1>12. \A i, j \in 1 .. Len(claims) : claims[i].thing = claims[j].thing => i = j
    <2>1. CASE era = "none" /\ claims = <<>>
      BY <2>1
    <2>2. CASE era = "old" /\ StartRows(first, local, claims)
      <3>1. /\ Len(claims) = n + m
            /\ \A i \in 1 .. Len(claims) :
                  claims[i].thing = IF i <= n THEN <<"pub", i>> ELSE <<"old", i - n>>
        BY <2>2 DEF StartRows, n, m
      <3>2. ASSUME NEW i \in 1 .. n + m, NEW j \in 1 .. n + m, claims[i].thing = claims[j].thing
            PROVE  i = j
        <4>1. \A k \in 1 .. n + m : k <= n => claims[k].thing = <<"pub", k>>
          BY <3>1, Zenon
        <4>2. \A k \in 1 .. n + m : ~(k <= n) => claims[k].thing = <<"old", k - n>>
          BY <3>1, Zenon
        <4>3. \A k \in 1 .. n + m : k <= n => claims[k].thing[1] = "pub" /\ claims[k].thing[2] = k
          BY <4>1
        <4>4. \A k \in 1 .. n + m : ~(k <= n) => claims[k].thing[1] = "old" /\ claims[k].thing[2] = k - n
          BY <4>2
        <4> QED
          BY <4>3, <4>4, <3>2, <1>2
      <3> QED
        BY <3>1, <3>2
    <2> QED
      BY <2>1, <2>2, <1>5
  <1>13. \A i, j \in 1 .. Len(release.image) : release.image[i].thing = release.image[j].thing => i = j
    <2>1. \A i \in 1 .. n : release.image[i].thing[2] = i
      BY <1>5
    <2> QED
      BY <2>1, <1>5
  <1>14. \A i \in 1 .. n : release.image[i].thing[1] = "pub"
                           /\ Listed(of, release.image[i].tuple, release.image[i].thing)
    <2>1. \A i \in 1 .. n : release.image[i].thing = <<"pub", i>> /\ release.image[i].tuple = first[i]
      BY <1>5
    <2>2. \A i \in 1 .. n : <<"pub", i>>[1] = "pub"
      OBVIOUS
    <2> QED
      BY <2>1, <2>2, <1>8, Zenon
  <1>15. \A e \in X : e.thing \in IdThings
    BY DEF X
  <1>16. ASSUME NEW t \in Tuples
         PROVE  /\ H(t) \in Seq(IdThings) /\ Len(H(t)) \in Nat /\ Distinct(H(t))
                /\ \A p \in 1 .. Len(H(t)) : Listed(of, t, H(t)[p])
                /\ IsPre(Identity!ThingsOf(release.image, t), H(t))
    <2>1. CASE era = "old"
      <3> DEFINE c == Identity!ThingsOf(claims, t)
      <3>1. /\ c \in Seq(IdThings) /\ Len(c) \in Nat /\ Distinct(c)
            /\ \A p \in 1 .. Len(c) : \E i \in 1 .. Len(claims) : claims[i].tuple = t /\ c[p] = claims[i].thing
        BY <1>10, <1>12, ThingsTyped, LinesOfThings
      <3>2. IsPre(Identity!ThingsOf(release.image, t), c)
        <4>1. Len(release.image) <= Len(claims)
          BY <1>2, <1>5, <2>1 DEF StartRows, n, m
        <4>2. \A i \in 1 .. Len(release.image) :
                 release.image[i].tuple = claims[i].tuple /\ release.image[i].thing = claims[i].thing
          <5>1. ASSUME NEW i \in 1 .. n
                PROVE  claims[i].tuple = first[i] /\ claims[i].thing = <<"pub", i>>
            <6>1. i \in 1 .. Len(claims)
              BY <4>1, <1>5, <1>10, <1>2
            <6> QED
              BY <6>1, <1>11, <2>1
          <5> QED
            BY <5>1, <1>5, Zenon
        <4> QED
          BY <4>1, <4>2, <1>5, <1>10, PrefixLines
      <3> HIDE DEF c
      <3>3. \A p \in 1 .. Len(c) : Listed(of, t, c[p])
        BY <3>1, <1>11
      <3>4. H(t) = c
        BY <2>1 DEF c
      <3> HIDE DEF H
      <3> QED
        BY <3>1, <3>2, <3>3, <3>4
    <2>2. CASE era # "old"
      <3> DEFINE c == Identity!ThingsOf(release.image, t)
      <3>1. /\ c \in Seq(IdThings) /\ Len(c) \in Nat /\ Distinct(c)
            /\ \A p \in 1 .. Len(c) :
                  \E i \in 1 .. Len(release.image) : release.image[i].tuple = t /\ c[p] = release.image[i].thing
        <4>1. \A i, j \in 1 .. Len(release.image) :
                 release.image[i].tuple = t /\ release.image[i].thing = release.image[j].thing => i = j
          BY <1>13
        <4>2. release.image \in Seq(X)
          BY <1>5
        <4>3. Distinct(c)
          BY <4>1, <4>2, <1>15, LinesOfThings
        <4>4. c \in Seq(IdThings) /\ Len(c) \in Nat
          BY <4>2, <1>15, LinesOfThings
        <4>5. ComesFrom(release.image, t, c)
          BY <4>2, <1>15, LinesComeFrom
        <4> QED
          BY <4>3, <4>4, <4>5 DEF ComesFrom
      <3> HIDE DEF c
      <3>2. \A p \in 1 .. Len(c) : Listed(of, t, c[p])
        BY <3>1, <1>5, <1>14, Zenon
      <3>3. H(t) = c
        BY <2>2 DEF c
      <3>4. IsPre(c, c)
        BY <3>1, PreSelf
      <3> HIDE DEF H
      <3> QED
        BY <3>1, <3>2, <3>3, <3>4 DEF c
    <2> QED
      BY <2>1, <2>2
  <1> HIDE DEF H
  <1>17. IdentityTypes
    <2>1. history \in [Tuples -> Seq(IdThings)]
      BY <1>6, <1>16
    <2>2. identities \in IdMaps
      <3>1. <<>> \in Seq(IdClaims)
        OBVIOUS
      <3> QED
        BY <3>1, <1>1 DEF StartedWith, Identity!NoMap, IdMaps
    <2>3. era \in {"none", "old", "new"} /\ things \in Nat /\ mints \in Nat
          /\ release.identified \in BOOLEAN
      BY <1>2, <1>5, Zenon
    <2>4. stamps \subseteq [thing : IdThings, claim : IdClaims]
      BY <1>5
    <2> QED
      BY <2>1, <2>2, <2>3, <2>4, <1>5, <1>10 DEF IdentityTypes, IdImages, X
  <1>18. InPlace
    BY <1>6, <1>16 DEF InPlace
  <1>19. MapOK(identities, mints)
    BY <1>7 DEF MapOK
  <1>20. Identity!NoClaim[1] # "pub"
    BY DEF Identity!NoClaim
  <1>21. PubTogether /\ PubKnown /\ PubStays
    BY <1>5, <1>11, <1>20 DEF PubTogether, PubKnown, PubStays
  <1>22. era # "new"
    BY <1>5
  <1>23. Explained /\ Saved
    BY <1>22 DEF Explained, Saved
  <1>24. OldRows
    <2> SUFFICES ASSUME era = "old" PROVE OldRows
      BY DEF OldRows
    <2>1. Len(claims) = n + m
      BY <1>5 DEF StartRows, n, m
    <2>2. \A i \in 1 .. Len(followed.image) :
             claims[i].thing = followed.image[i].thing /\ claims[i].tuple = followed.image[i].tuple
      <3>1. ASSUME NEW i \in 1 .. n
            PROVE  claims[i].tuple = first[i] /\ claims[i].thing = <<"pub", i>>
        <4>1. i \in 1 .. Len(claims)
          BY <2>1, <1>2
        <4> QED
          BY <4>1, <1>11
      <3> QED
        BY <3>1, <1>5, Zenon
    <2>3. \A t \in Tuples : IsPre(Identity!ThingsOf(claims, t), history[t])
      BY <1>6, <1>16, PreSelf DEF H
    <2> QED
      BY <2>1, <2>2, <2>3, <1>2, <1>5, <1>11 DEF OldRows
  <1>25. Lined(of)
    <2>1. ImageListed(of)
      BY <1>5, <1>14 DEF ImageListed
    <2>2. HistoryListed(of)
      BY <1>6, <1>16 DEF HistoryListed
    <2>3. RowsListed(of)
      BY <1>11 DEF RowsListed
    <2>4. RowsNamed(of) /\ StampsNamed(of)
      BY <1>5, <1>22 DEF RowsNamed, StampsNamed
    <2> QED
      BY <2>1, <2>2, <2>3, <2>4 DEF Lined
  <1> QED
    BY <1>3, <1>17, <1>18, <1>19, <1>21, <1>23, <1>24, <1>25 DEF IdentityInv

\* A release that is published, whose edges are known or new.
Publishes(of, of2, image_, identified_, h) ==
    /\ image_ \in IdImages /\ identified_ \in BOOLEAN
    /\ things' \in Nat /\ things' >= things
    /\ \A t \in Tuples, x \in IdThings : Listed(of, t, x) => of2[x] = t
    /\ \A i \in 1 .. Len(image_) :
           /\ image_[i].thing[1] = "pub" /\ of2[image_[i].thing] = image_[i].tuple
           /\ image_[i].thing[2] <= things'
    /\ release.identified => identified_
    /\ \A t \in Tuples \ shifted :
           Len(Identity!ThingsOf(image_, t)) > Len(h[t]) /\ IsPre(h[t], Identity!ThingsOf(image_, t))
               => Distinct(Identity!ThingsOf(image_, t))

\* What it leaves.
PublishLeaves(image_, identified_) ==
    /\ release'.image = image_ /\ release'.identified = identified_ /\ shifted \subseteq shifted'
    /\ UNCHANGED <<era, claims, identities, mints, followed, stamps>>
    /\ history' \in [Tuples -> Seq(IdThings)]
    /\ \A t \in Tuples :
          LET h == history[t]
              d == Identity!ThingsOf(image_, t)
          IN  /\ history'[t] = IF Len(d) > Len(h) THEN d ELSE h
              /\ d \in Seq(IdThings) /\ Len(d) \in Nat
              /\ t \notin shifted' =>
                    \/ Len(d) > Len(h) /\ IsPre(h, d)
                    \/ Len(d) <= Len(h) /\ IsPre(d, h)

\* The edges of a tuple line up with the past, or the tuple has shifted.
LEMMA PublishSteps ==
    ASSUME IdentityTypes, NEW image_ \in IdImages, NEW identified_, NEW owned_,
           Identity!Publish(image_, identified_, owned_)
    PROVE  PublishLeaves(image_, identified_)
  <1> DEFINE D(t) == Identity!ThingsOf(image_, t)
             X == [tuple : Tuples, thing : IdThings]
  <1>1. /\ release' = [image |-> image_, identified |-> identified_, owned |-> owned_]
        /\ shifted' = shifted \cup {t \in Tuples : ~\A k \in DOMAIN history[t] \cap DOMAIN D(t) : history[t][k] = D(t)[k]}
        /\ history' = [t \in Tuples |-> IF Len(D(t)) > Len(history[t]) THEN D(t) ELSE history[t]]
        /\ UNCHANGED <<era, claims, identities, mints, followed, stamps>>
    BY DEF Identity!Publish
  <1>2. \A t \in Tuples : D(t) \in Seq(IdThings) /\ Len(D(t)) \in Nat /\ DOMAIN D(t) = 1 .. Len(D(t))
    <2>1. ASSUME NEW t \in Tuples PROVE D(t) \in Seq(IdThings) /\ Len(D(t)) \in Nat
      <3>1. \A e \in X : e.thing \in IdThings
        OBVIOUS
      <3>2. image_ \in Seq(X)
        BY DEF IdImages
      <3> HIDE DEF X
      <3> QED
        BY <3>1, <3>2, LinesOfThings
    <2> HIDE DEF D
    <2> QED
      BY <2>1
  <1>3. \A t \in Tuples : history[t] \in Seq(IdThings) /\ Len(history[t]) \in Nat /\ DOMAIN history[t] = 1 .. Len(history[t])
    BY DEF IdentityTypes
  <1> HIDE DEF D
  <1>4. release'.image = image_ /\ release'.identified = identified_ /\ shifted \subseteq shifted'
    BY <1>1
  <1>5. history' \in [Tuples -> Seq(IdThings)]
    BY <1>1, <1>2, <1>3
  <1>6. ASSUME NEW t \in Tuples
        PROVE  /\ history'[t] = IF Len(D(t)) > Len(history[t]) THEN D(t) ELSE history[t]
               /\ t \notin shifted' =>
                    \/ Len(D(t)) > Len(history[t]) /\ IsPre(history[t], D(t))
                    \/ Len(D(t)) <= Len(history[t]) /\ IsPre(D(t), history[t])
    <2>1. history'[t] = IF Len(D(t)) > Len(history[t]) THEN D(t) ELSE history[t]
      BY <1>1
    <2>2. ASSUME t \notin shifted'
          PROVE  \A k \in 1 .. Len(history[t]) : k \in 1 .. Len(D(t)) => history[t][k] = D(t)[k]
      <3>1. \A k \in DOMAIN history[t] \cap DOMAIN D(t) : history[t][k] = D(t)[k]
        BY <1>1, <2>2
      <3> QED
        BY <3>1, <1>2, <1>3
    <2>3. Len(D(t)) \in Nat /\ Len(history[t]) \in Nat
      BY <1>2, <1>3
    <2>4. CASE Len(D(t)) > Len(history[t])
      <3>1. t \notin shifted' => \A k \in 1 .. Len(history[t]) : history[t][k] = D(t)[k]
        <4>1. \A k \in 1 .. Len(history[t]) : k \in 1 .. Len(D(t))
          BY <2>3, <2>4
        <4> QED
          BY <4>1, <2>2
      <3> QED
        BY <2>1, <2>3, <2>4, <3>1 DEF IsPre
    <2>5. CASE ~(Len(D(t)) > Len(history[t]))
      <3>1. t \notin shifted' => \A k \in 1 .. Len(D(t)) : D(t)[k] = history[t][k]
        <4>1. \A k \in 1 .. Len(D(t)) : k \in 1 .. Len(history[t])
          BY <2>3, <2>5
        <4> QED
          BY <4>1, <2>2
      <3> QED
        BY <2>1, <2>3, <2>5, <3>1 DEF IsPre
    <2> QED
      BY <2>4, <2>5
  <1> QED
    BY <1>1, <1>2, <1>4, <1>5, <1>6 DEF PublishLeaves, D

\* Publishing keeps the invariant.
LEMMA PublishKeeps ==
    ASSUME IdentityInv, NEW image_ \in IdImages, NEW identified_, NEW owned_,
           Identity!Publish(image_, identified_, owned_),
           NEW of \in Owners, Lined(of), NEW of2 \in Owners,
           Publishes(of, of2, image_, identified_, history)
    PROVE  IdentityInv'
  <1> DEFINE D(t) == Identity!ThingsOf(image_, t)
             X == [tuple : Tuples, thing : IdThings]
  <1>1. IdentityTypes
    BY DEF IdentityInv
  <1>2. PublishLeaves(image_, identified_)
    BY <1>1, PublishSteps
  <1>3. /\ release'.image = image_ /\ release'.identified = identified_ /\ shifted \subseteq shifted'
        /\ era' = era /\ claims' = claims /\ identities' = identities /\ mints' = mints
        /\ followed' = followed /\ stamps' = stamps /\ history' \in [Tuples -> Seq(IdThings)]
    BY <1>2 DEF PublishLeaves
  <1>4. \A t \in Tuples :
          /\ history'[t] = IF Len(D(t)) > Len(history[t]) THEN D(t) ELSE history[t]
          /\ D(t) \in Seq(IdThings) /\ Len(D(t)) \in Nat
          /\ Len(history[t]) \in Nat
          /\ t \notin shifted' =>
                    \/ Len(D(t)) > Len(history[t]) /\ IsPre(history[t], D(t))
                    \/ Len(D(t)) <= Len(history[t]) /\ IsPre(D(t), history[t])
    BY <1>1, <1>2 DEF PublishLeaves, IdentityTypes
  <1>5. /\ identified_ \in BOOLEAN /\ things' \in Nat /\ things' >= things
        /\ \A t \in Tuples, x \in IdThings : Listed(of, t, x) => of2[x] = t
        /\ \A i \in 1 .. Len(image_) :
               /\ image_[i].thing[1] = "pub" /\ of2[image_[i].thing] = image_[i].tuple
               /\ image_[i].thing[2] <= things'
        /\ release.identified => identified_
        /\ \A t \in Tuples \ shifted :
               Len(D(t)) > Len(history[t]) /\ IsPre(history[t], D(t)) => Distinct(D(t))
    BY DEF Publishes
  <1>6. image_ \in Seq(X) /\ (\A e \in X : e.thing \in IdThings) /\ \A i \in 1 .. Len(image_) : image_[i] \in X
    <2>1. image_ \in Seq(X)
      BY DEF IdImages
    <2>2. \A e \in X : e.thing \in IdThings
      OBVIOUS
    <2> HIDE DEF X
    <2> QED
      BY <2>1, <2>2
  <1> HIDE DEF X
  <1>7. \A t \in Tuples : \A p \in 1 .. Len(D(t)) :
           \E i \in 1 .. Len(image_) : image_[i].tuple = t /\ D(t)[p] = image_[i].thing
    <2>1. \A t \in Tuples : ComesFrom(image_, t, D(t))
      BY <1>6, LinesComeFrom
    <2> QED
      BY <2>1 DEF ComesFrom
  <1>8. release'.image = image_
    BY <1>3
  <1>9. \A t : Identity!ThingsOf(release.image, t)' = D(t)
    BY <1>8 DEF Identity!ThingsOf, Identity!OfTuple, Identity!EdgesAt
  <1>10. \A t : Identity!ThingsOf(claims, t)' = Identity!ThingsOf(claims, t)
    BY <1>3 DEF Identity!ThingsOf, Identity!OfTuple, Identity!EdgesAt
  <1> HIDE DEF D
  <1>11. \A t \in Tuples : \A x : Listed(of, t, x) => Listed(of2, t, x)'
    <2>1. \A x \in IdThings : x[2] \in Nat
      BY DEF IdThings
    <2>2. things \in Nat
      BY <1>1 DEF IdentityTypes
    <2>3. ASSUME NEW t \in Tuples, NEW x, Listed(of, t, x) PROVE Listed(of2, t, x)'
      <3>1. x \in IdThings /\ x[1] # "own" /\ (x[1] = "pub" => x[2] <= things) /\ of2[x] = t
        BY <2>3, <1>5 DEF Listed
      <3>2. x[1] = "pub" => x[2] <= things'
        BY <3>1, <2>1, <2>2, <1>5
      <3> QED
        BY <3>1, <3>2 DEF Listed
    <2> QED
      BY <2>3
  <1> DEFINE L2(t, x) == x \in IdThings /\ x[1] # "own" /\ of2[x] = t /\ (x[1] = "pub" => x[2] <= things')
  <1>22. \A t \in Tuples : \A x : Listed(of, t, x) => L2(t, x)
    BY <1>11 DEF Listed
  <1>12. \A i \in 1 .. Len(image_) : Listed(of2, image_[i].tuple, image_[i].thing)'
    <2>1. \A i \in 1 .. Len(image_) : image_[i].thing \in IdThings
      BY <1>6
    <2> QED
      BY <2>1, <1>5 DEF Listed
  <1>13. ASSUME NEW t \in Tuples, t \notin shifted'
         PROVE  IsPre(D(t), history'[t]) /\ IsPre(history[t], history'[t]) /\ Distinct(history'[t])
    <2>1. t \notin shifted
      BY <1>3, <1>13
    <2>2. Distinct(history[t])
      BY <2>1 DEF IdentityInv, InPlace
    <2>3. CASE Len(D(t)) > Len(history[t]) /\ IsPre(history[t], D(t))
      <3>1. history'[t] = D(t)
        BY <2>3, <1>4
      <3>2. Distinct(D(t))
        BY <2>1, <2>3, <1>5
      <3>3. IsPre(D(t), D(t))
        BY <1>4, PreSelf
      <3> QED
        BY <3>1, <3>2, <3>3, <2>3
    <2>4. CASE Len(D(t)) <= Len(history[t]) /\ IsPre(D(t), history[t])
      <3>1. history'[t] = history[t]
        BY <2>4, <1>4
      <3>2. IsPre(history[t], history[t])
        BY <1>4, PreSelf
      <3> QED
        BY <3>1, <3>2, <2>2, <2>4
    <2> QED
      BY <2>3, <2>4, <1>4, <1>13
  <1>14. IdentityTypes'
    <2>1. release'.image \in IdImages /\ release'.identified \in BOOLEAN
      BY <1>3, <1>5
    <2> QED
      BY <2>1, <1>1, <1>3, <1>5 DEF IdentityTypes
  <1>15. InPlace'
    BY <1>9, <1>13 DEF InPlace
  <1>16. MapOK(identities, mints)'
    <2>1. MapOK(identities, mints)
      BY DEF IdentityInv
    <2> QED
      BY <2>1, <1>3 DEF MapOK
  <1>17. PubTogether' /\ PubKnown' /\ PubStays'
    <2>1. PubTogether /\ PubKnown /\ PubStays
      BY DEF IdentityInv
    <2>2. PubTogether'
      BY <2>1, <1>3 DEF PubTogether
    <2>3. PubKnown'
      BY <2>1, <1>3, <1>5 DEF PubKnown
    <2>4. PubStays'
      BY <2>1, <1>3 DEF PubStays
    <2> QED
      BY <2>2, <2>3, <2>4
  <1>18. Explained' /\ Saved'
    <2>1. Explained /\ Saved
      BY DEF IdentityInv
    <2>2. Saved'
      BY <2>1, <1>3 DEF Saved, Identity!Saves, Identity!Loads
    <2>3. \A i : PlaceOf(followed.image, i)' = PlaceOf(followed.image, i)
      BY <1>3 DEF PlaceOf, At, Upto
    <2>4. \A i : ExplainedAt(i)' <=> ExplainedAt(i)
      BY <1>3, <2>3 DEF ExplainedAt
    <2>5. Explained'
      BY <2>1, <2>4, <1>3 DEF Explained
    <2> QED
      BY <2>2, <2>5
  <1>19. OldRows'
    <2> SUFFICES ASSUME era = "old" PROVE OldRows'
      BY <1>3 DEF OldRows
    <2>1. OldRows /\ claims \in Seq(IdRows)
      BY <1>1 DEF IdentityInv, IdentityTypes
    <2>2. ASSUME NEW t \in Tuples, t \notin shifted'
          PROVE  IsPre(Identity!ThingsOf(claims, t), history'[t])
      <3>1. IsPre(Identity!ThingsOf(claims, t), history[t]) /\ IsPre(history[t], history'[t])
        BY <2>1, <2>2, <1>3, <1>13 DEF OldRows
      <3>2. Len(Identity!ThingsOf(claims, t)) \in Nat
        BY <2>1, LinesOfThings, ThingsTyped
      <3>3. Len(history[t]) \in Nat /\ Len(history'[t]) \in Nat
        BY <1>4
      <3>4. \A p \in 1 .. Len(Identity!ThingsOf(claims, t)) : p \in 1 .. Len(history[t])
        BY <3>1, <3>2, <3>3 DEF IsPre
      <3> QED
        BY <3>1, <3>2, <3>3, <3>4 DEF IsPre
    <2> QED
      BY <2>1, <2>2, <1>3, <1>10 DEF OldRows
  <1>20. \A t \in Tuples : \A x, c : Names(of, t, x, c) => Names(of2, t, x, c)'
    <2>1. \A x, c : MadeWith(x, c) => MadeWith(x, c)'
      BY <1>3 DEF MadeWith, Unmapped
    <2>2. ASSUME NEW t \in Tuples, NEW x, NEW c, MappedTo(of, t, x, c) PROVE MappedTo(of2, t, x, c)'
      <3>1. PICK p \in 1 .. Len(identities[t]) :
               /\ c = identities[t][p] /\ Listed(of, t, x)
               /\ t \notin shifted => p \in 1 .. Len(history[t]) /\ x = history[t][p]
        BY <2>2 DEF MappedTo
      <3>2. Listed(of2, t, x)'
        BY <3>1, <1>11
      <3>3. t \notin shifted' => p \in 1 .. Len(history'[t]) /\ x = history'[t][p]
        <4> SUFFICES ASSUME t \notin shifted' PROVE p \in 1 .. Len(history'[t]) /\ x = history'[t][p]
          OBVIOUS
        <4>1. p \in 1 .. Len(history[t]) /\ x = history[t][p]
          BY <3>1, <1>3
        <4>2. IsPre(history[t], history'[t])
          BY <1>13
        <4>3. Len(history[t]) \in Nat /\ Len(history'[t]) \in Nat
          BY <1>4
        <4> QED
          BY <4>1, <4>2, <4>3 DEF IsPre
      <3> QED
        BY <3>1, <3>2, <3>3, <1>3 DEF MappedTo
    <2> QED
      BY <2>1, <2>2 DEF Names
  <1>21. Lined(of2)'
    <2>1. ImageListed(of2)'
      BY <1>3, <1>5, <1>12 DEF ImageListed
    <2>2. HistoryListed(of2)'
      <3>1. \A i \in 1 .. Len(image_) : L2(image_[i].tuple, image_[i].thing)
        BY <1>12 DEF Listed
      <3>2. ASSUME NEW t \in Tuples, NEW p \in 1 .. Len(history'[t]) PROVE L2(t, history'[t][p])
        <4> HIDE DEF L2
        <4>1. CASE history'[t] = D(t)
          BY <4>1, <1>7, <3>1, <3>2
        <4>2. CASE history'[t] = history[t]
          <5>1. Listed(of, t, history[t][p])
            BY <4>2, <3>2 DEF Lined, HistoryListed
          <5> QED
            BY <5>1, <4>2, <1>22
        <4> QED
          BY <4>1, <4>2, <1>4
      <3> QED
        BY <3>2 DEF HistoryListed, Listed
    <2>3. \A i \in 1 .. Len(claims) : claims[i].tuple \in Tuples
      BY <1>1, ThingsTyped DEF IdentityTypes
    <2>4. RowsListed(of2)'
      BY <2>3, <1>3, <1>11 DEF Lined, RowsListed
    <2>5. RowsNamed(of2)'
      BY <2>3, <1>3, <1>20 DEF Lined, RowsNamed
    <2>6. StampsNamed(of2)'
      BY <1>3, <1>20 DEF Lined, StampsNamed
    <2> QED
      BY <2>1, <2>2, <2>4, <2>5, <2>6 DEF Lined
  <1> QED
    BY <1>14, <1>15, <1>16, <1>17, <1>18, <1>19, <1>21 DEF IdentityInv

\* The edges of a release are within what its tuples lined up with.
LEMMA ReleaseLines ==
    ASSUME IdentityInv
    PROVE  /\ release.image \in Seq([tuple : Tuples, thing : IdThings])
           /\ \A t \in Tuples : Len(Identity!ThingsOf(release.image, t)) \in Nat /\ Len(history[t]) \in Nat
           /\ \A t \in Tuples \ shifted : Len(Identity!ThingsOf(release.image, t)) <= Len(history[t])
  <1> DEFINE X == [tuple : Tuples, thing : IdThings]
  <1>1. release.image \in Seq(X) /\ history \in [Tuples -> Seq(IdThings)]
    BY DEF IdentityInv, IdentityTypes, IdImages
  <1>2. \A e \in X : e.thing \in IdThings
    OBVIOUS
  <1> HIDE DEF X
  <1>3. \A t \in Tuples : Len(Identity!ThingsOf(release.image, t)) \in Nat
    BY <1>1, <1>2, LinesOfThings
  <1>4. \A t \in Tuples : Len(history[t]) \in Nat
    BY <1>1
  <1>5. \A t \in Tuples \ shifted : Len(Identity!ThingsOf(release.image, t)) <= Len(history[t])
    BY DEF IdentityInv, InPlace, IsPre
  <1> QED
    BY <1>1, <1>3, <1>4, <1>5 DEF X

\* A release with no other edges than the last.
LEMMA PublishesLess ==
    ASSUME IdentityInv, NEW of \in Owners, Lined(of), NEW image_ \in IdImages, NEW identified_ \in BOOLEAN,
           release.identified => identified_, things' = things,
           \A i \in 1 .. Len(image_) : \E j \in 1 .. Len(release.image) : image_[i] = release.image[j],
           \A t \in Tuples :
               Len(Identity!ThingsOf(image_, t)) <= Len(Identity!ThingsOf(release.image, t))
    PROVE  Publishes(of, of, image_, identified_, history)
  <1>1. things \in Nat
    BY DEF IdentityInv, IdentityTypes
  <1>2. \A t \in Tuples, x \in IdThings : Listed(of, t, x) => of[x] = t
    BY DEF Listed
  <1>3. \A j \in 1 .. Len(release.image) :
           /\ release.image[j].thing[1] = "pub" /\ of[release.image[j].thing] = release.image[j].tuple
           /\ release.image[j].thing[2] <= things
    BY DEF Lined, ImageListed, Listed
  <1>4. \A i \in 1 .. Len(image_) :
           /\ image_[i].thing[1] = "pub" /\ of[image_[i].thing] = image_[i].tuple
           /\ image_[i].thing[2] <= things'
    BY <1>3, Zenon
  <1>5. \A t \in Tuples \ shifted : ~(Len(Identity!ThingsOf(image_, t)) > Len(history[t]))
    <2>1. ASSUME NEW t \in Tuples \ shifted PROVE ~(Len(Identity!ThingsOf(image_, t)) > Len(history[t]))
      <3>1. Len(Identity!ThingsOf(image_, t)) \in Nat
        <4> DEFINE X == [tuple : Tuples, thing : IdThings]
        <4>1. image_ \in Seq(X) /\ \A e \in X : e.thing \in IdThings
          BY DEF IdImages
        <4> HIDE DEF X
        <4> QED
          BY <4>1, LinesOfThings
      <3>2. /\ Len(Identity!ThingsOf(release.image, t)) \in Nat /\ Len(history[t]) \in Nat
            /\ Len(Identity!ThingsOf(release.image, t)) <= Len(history[t])
        BY ReleaseLines
      <3>3. Len(Identity!ThingsOf(image_, t)) <= Len(Identity!ThingsOf(release.image, t))
        OBVIOUS
      <3> QED
        BY <3>1, <3>2, <3>3
    <2> QED
      BY <2>1
  <1> QED
    BY <1>1, <1>2, <1>4, <1>5 DEF Publishes

\* A new edge.
LEMMA PublishNewKeeps == IdentityInv /\ Identity!PublishNew => IdentityInv'
  <1> SUFFICES ASSUME IdentityInv, Identity!PublishNew PROVE IdentityInv'
    OBVIOUS
  <1> DEFINE x == <<"pub", things + 1>>
             X == [tuple : Tuples, thing : IdThings]
             E(t) == [tuple |-> t, thing |-> x]
  <1>1. PICK t \in Tuples :
           Identity!Publish(Append(release.image, E(t)), release.identified, release.owned)
    BY DEF Identity!PublishNew, Identity!Published
  <1>2. things' = things + 1 /\ things \in Nat
    BY DEF Identity!PublishNew, IdentityInv, IdentityTypes
  <1>3. PICK of \in Owners : Lined(of)
    BY DEF IdentityInv
  <1> DEFINE of2 == [of EXCEPT ![x] = t]
             im == Append(release.image, E(t))
             n == Len(release.image)
  <1>4. x \in IdThings /\ x[1] = "pub" /\ x[2] = things + 1
    BY <1>2 DEF IdThings
  <1> HIDE DEF x
  <1>5. E(t) \in X /\ E(t).tuple = t /\ E(t).thing = x
    BY <1>4
  <1>6. release.image \in Seq(X) /\ n \in Nat
    BY ReleaseLines
  <1> HIDE DEF X, E
  <1>7. im \in Seq(X) /\ Len(im) = n + 1 /\ im[n + 1] = E(t) /\ \A i \in 1 .. n : im[i] = release.image[i]
    BY <1>5, <1>6
  <1>8. of2 \in Owners /\ of2[x] = t /\ \A y \in IdThings : y # x => of2[y] = of[y]
    BY <1>4 DEF Owners
  <1>9. im \in IdImages
    BY <1>7 DEF IdImages, X
  <1> HIDE DEF im, of2
  <1>10. \A u \in Tuples, y \in IdThings : Listed(of, u, y) => of2[y] = u /\ y # x
    <2>1. \A u \in Tuples, y \in IdThings : Listed(of, u, y) => y # x /\ of[y] = u
      BY <1>2, <1>4 DEF Listed
    <2> QED
      BY <2>1, <1>8
  <1>11. ASSUME NEW i \in 1 .. n + 1
         PROVE  /\ im[i].thing[1] = "pub" /\ of2[im[i].thing] = im[i].tuple
                /\ im[i].thing[2] <= things'
    <2>1. CASE i = n + 1
      BY <2>1, <1>2, <1>4, <1>5, <1>7, <1>8
    <2>2. CASE i # n + 1
      <3>1. i \in 1 .. n /\ im[i] = release.image[i]
        BY <2>2, <1>6, <1>7
      <3>2. im[i].thing[1] = "pub" /\ Listed(of, im[i].tuple, im[i].thing)
        BY <3>1, <1>3 DEF Lined, ImageListed
      <3>3. im[i].tuple \in Tuples /\ im[i].thing \in IdThings
        <4>1. im[i] \in X
          BY <3>1, <1>6
        <4> QED
          BY <4>1 DEF X
      <3>4. im[i].thing[2] <= things /\ im[i].thing[2] \in Nat
        BY <3>2, <3>3 DEF Listed, IdThings
      <3> QED
        BY <3>2, <3>3, <3>4, <1>2, <1>10
    <2> QED
      BY <2>1, <2>2
  <1>12. ASSUME NEW u \in Tuples \ shifted, Len(Identity!ThingsOf(im, u)) > Len(history[u]),
                IsPre(history[u], Identity!ThingsOf(im, u))
         PROVE  Distinct(Identity!ThingsOf(im, u))
    <2> DEFINE c == Identity!ThingsOf(release.image, u)
               d == Identity!ThingsOf(im, u)
               h == history[u]
    <2>1. Len(c) \in Nat /\ Len(h) \in Nat /\ Len(c) <= Len(h) /\ u \in Tuples
      BY ReleaseLines
    <2>2. /\ t = u => Len(d) = Len(c) + 1 /\ d[Len(c) + 1] = x
          /\ t # u => Len(d) = Len(c)
      BY <1>5, <1>6, AppendLines DEF im
    <2> HIDE DEF c, d
    <2>3. Len(d) > Len(h) /\ IsPre(h, d)
      BY <1>12 DEF d
    <2>4. t = u /\ Len(d) = Len(h) + 1 /\ d[Len(h) + 1] = x
      <3>1. t = u
        BY <2>1, <2>2, <2>3
      <3>2. Len(c) = Len(h)
        BY <3>1, <2>1, <2>2, <2>3
      <3> QED
        BY <3>1, <3>2, <2>2
    <2>5. Distinct(h) /\ \A p \in 1 .. Len(h) : h[p] # x
      <3>1. \A p \in 1 .. Len(h) : Listed(of, u, h[p]) /\ h[p] \in IdThings
        BY <1>3, <2>1 DEF Lined, HistoryListed, Listed
      <3>2. Distinct(h)
        BY DEF IdentityInv, InPlace
      <3> QED
        BY <3>1, <3>2, <2>1, <1>10
    <2> HIDE DEF h
    <2>6. \A p \in 1 .. Len(d) : p = Len(h) + 1 \/ (p \in 1 .. Len(h) /\ d[p] = h[p])
      BY <2>1, <2>3, <2>4 DEF IsPre
    <2> QED
      BY <2>4, <2>5, <2>6 DEF Distinct, d
  <1>13. release.identified \in BOOLEAN
    BY DEF IdentityInv, IdentityTypes
  <1>14. Publishes(of, of2, im, release.identified, history)
    <2>1. things' \in Nat /\ things' >= things
      BY <1>2
    <2> QED
      BY <2>1, <1>7, <1>9, <1>10, <1>11, <1>12, <1>13 DEF Publishes
  <1> QED
    BY <1>1, <1>3, <1>8, <1>9, <1>14, PublishKeeps DEF im

\* An edge that was dropped comes back.
LEMMA PublishAgainKeeps == IdentityInv /\ Identity!PublishAgain => IdentityInv'
  <1> SUFFICES ASSUME IdentityInv, Identity!PublishAgain PROVE IdentityInv'
    OBVIOUS
  <1> DEFINE X == [tuple : Tuples, thing : IdThings]
             B(t) == Len(Identity!ThingsOf(release.image, t)) + 1
             E(t) == [tuple |-> t, thing |-> history[t][B(t)]]
  <1>1. PICK t \in Tuples :
           /\ B(t) <= Len(history[t]) /\ history[t][B(t)][1] = "pub"
           /\ Identity!Publish(Append(release.image, E(t)), FALSE, release.owned)
    BY Zenon DEF Identity!PublishAgain, Identity!Published
  <1>2. things' = things /\ things \in Nat /\ ~release.identified
    BY DEF Identity!PublishAgain, IdentityInv, IdentityTypes
  <1>3. PICK of \in Owners : Lined(of)
    BY DEF IdentityInv
  <1> DEFINE x == history[t][B(t)]
             im == Append(release.image, E(t))
             n == Len(release.image)
  <1>4. B(t) \in 1 .. Len(history[t])
    <2>1. Len(Identity!ThingsOf(release.image, t)) \in Nat /\ Len(history[t]) \in Nat
      BY ReleaseLines
    <2> QED
      BY <2>1, <1>1
  <1>5. x \in IdThings /\ x[1] = "pub" /\ of[x] = t /\ x[2] <= things
    BY <1>1, <1>3, <1>4 DEF Lined, HistoryListed, Listed
  <1>6. E(t) \in X /\ E(t).tuple = t /\ E(t).thing = x
    <2>1. E(t) = [tuple |-> t, thing |-> x]
      OBVIOUS
    <2> HIDE DEF x, E
    <2> QED
      BY <2>1, <1>5
  <1>7. release.image \in Seq(X) /\ n \in Nat
    BY ReleaseLines
  <1> HIDE DEF X, E, x, B
  <1>8. im \in Seq(X) /\ Len(im) = n + 1 /\ im[n + 1] = E(t) /\ \A i \in 1 .. n : im[i] = release.image[i]
    BY <1>6, <1>7
  <1>9. im \in IdImages
    BY <1>8 DEF IdImages, X
  <1> HIDE DEF im
  <1>10. \A u \in Tuples, y \in IdThings : Listed(of, u, y) => of[y] = u
    BY DEF Listed
  <1>11. ASSUME NEW i \in 1 .. n + 1
         PROVE  /\ im[i].thing[1] = "pub" /\ of[im[i].thing] = im[i].tuple
                /\ im[i].thing[2] <= things'
    <2>1. CASE i = n + 1
      BY <2>1, <1>2, <1>5, <1>6, <1>8
    <2>2. CASE i # n + 1
      <3>1. i \in 1 .. n /\ im[i] = release.image[i]
        BY <2>2, <1>7, <1>8
      <3>2. im[i].thing[1] = "pub" /\ Listed(of, im[i].tuple, im[i].thing)
        BY <3>1, <1>3 DEF Lined, ImageListed
      <3> QED
        BY <3>2, <1>2 DEF Listed
    <2> QED
      BY <2>1, <2>2
  <1>12. ASSUME NEW u \in Tuples \ shifted, Len(Identity!ThingsOf(im, u)) > Len(history[u])
         PROVE  FALSE
    <2> DEFINE c == Identity!ThingsOf(release.image, u)
               d == Identity!ThingsOf(im, u)
    <2>1. Len(c) \in Nat /\ Len(history[u]) \in Nat /\ Len(c) <= Len(history[u])
      BY ReleaseLines
    <2>2. /\ t = u => Len(d) = Len(c) + 1
          /\ t # u => Len(d) = Len(c)
      BY <1>6, <1>7, AppendLines DEF im
    <2>3. t = u => Len(c) + 1 <= Len(history[u])
      BY <1>1 DEF B
    <2>4. Len(d) > Len(history[u])
      BY <1>12
    <2> HIDE DEF c, d
    <2> QED
      BY <2>1, <2>2, <2>3, <2>4
  <1>13. FALSE \in BOOLEAN
    OBVIOUS
  <1>14. Publishes(of, of, im, FALSE, history)
    <2>1. things' \in Nat /\ things' >= things
      BY <1>2
    <2> QED
      BY <2>1, <1>2, <1>8, <1>9, <1>10, <1>11, <1>12, <1>13 DEF Publishes
  <1> QED
    BY <1>1, <1>3, <1>9, <1>14, PublishKeeps, Zenon DEF im

\* A release within the last one.
LEMMA PublishWithinKeeps ==
    ASSUME IdentityInv, NEW image_, NEW identified_ \in BOOLEAN, NEW owned_, things' = things,
           image_ \in Seq([tuple : Tuples, thing : IdThings]),
           \E e : Within(image_, release.image, e),
           release.identified => identified_, Identity!Publish(image_, identified_, owned_)
    PROVE  IdentityInv'
  <1> DEFINE X == [tuple : Tuples, thing : IdThings]
  <1>1. PICK e : Within(image_, release.image, e)
    OBVIOUS
  <1>2. release.image \in Seq(X) /\ image_ \in Seq(X) /\ image_ \in IdImages
    BY ReleaseLines DEF IdImages
  <1>3. PICK of \in Owners : Lined(of)
    BY DEF IdentityInv
  <1> HIDE DEF X
  <1>4. \A i \in 1 .. Len(image_) : \E j \in 1 .. Len(release.image) : image_[i] = release.image[j]
    BY <1>1 DEF Within
  <1>5. \A t \in Tuples :
           Len(Identity!ThingsOf(image_, t)) <= Len(Identity!ThingsOf(release.image, t))
    BY <1>1, <1>2, FewerLines
  <1>6. Publishes(of, of, image_, identified_, history)
    BY <1>2, <1>3, <1>4, <1>5, PublishesLess
  <1> QED
    BY <1>2, <1>3, <1>6, PublishKeeps

\* An edge is dropped, ids appear, a type changes hands.
LEMMA PublishLessKeeps ==
    IdentityInv /\ (Identity!PublishWithout \/ Identity!PublisherUpgrades \/ Identity!PublishOwnership)
        => IdentityInv'
  <1> SUFFICES ASSUME IdentityInv,
                      Identity!PublishWithout \/ Identity!PublisherUpgrades \/ Identity!PublishOwnership
               PROVE  IdentityInv'
    OBVIOUS
  <1> DEFINE X == [tuple : Tuples, thing : IdThings]
  <1>1. things' = things
    BY Zenon DEF Identity!PublishWithout, Identity!PublisherUpgrades, Identity!PublishOwnership
  <1>2. release.image \in Seq(X) /\ release.identified \in BOOLEAN /\ TRUE \in BOOLEAN
        /\ DOMAIN release.image = 1 .. Len(release.image) /\ Len(release.image) \in Nat
    BY ReleaseLines DEF IdentityInv, IdentityTypes
  <1> HIDE DEF X
  <1>3. CASE Identity!PublishWithout
    <2>1. PICK i \in DOMAIN release.image :
             Identity!Publish(Identity!RemoveAt(release.image, i), release.identified, release.owned)
      BY <1>3 DEF Identity!PublishWithout
    <2> DEFINE im == Identity!RemoveAt(release.image, i)
    <2>2. im \in Seq(X) /\ \E e : Within(im, release.image, e)
      BY <1>2, RemovedWithin
    <2> HIDE DEF im
    <2> QED
      BY <2>1, <2>2, <1>1, <1>2, PublishWithinKeeps, Zenon DEF im, X
  <1>4. CASE Identity!PublisherUpgrades
    <2>1. Identity!Publish(release.image, TRUE, release.owned)
      BY <1>4, Zenon DEF Identity!PublisherUpgrades
    <2> DEFINE e == [k \in 1 .. Len(release.image) |-> k]
    <2>2. Within(release.image, release.image, e)
      BY <1>2 DEF Within
    <2> HIDE DEF e
    <2> QED
      BY <2>1, <2>2, <1>1, <1>2, PublishWithinKeeps, Zenon DEF X
  <1>5. CASE Identity!PublishOwnership
    <2>1. PICK owned_ : Identity!Publish(Identity!LocalOverlay(release.image, Identity!Types \ owned_), release.identified, owned_)
      BY <1>5, Zenon DEF Identity!PublishOwnership
    <2> DEFINE keep == {i \in DOMAIN release.image : TypeOf[release.image[i].tuple] \notin Identity!Types \ owned_}
               im == Identity!EdgesAt(release.image, keep)
    <2>2. Identity!LocalOverlay(release.image, Identity!Types \ owned_) = im
      BY DEF Identity!LocalOverlay
    <2> HIDE DEF keep
    <2>3. im \in Seq(X) /\ \E e : Within(im, release.image, e)
      BY <1>2, KeptWithin
    <2> HIDE DEF im
    <2> QED
      BY <2>1, <2>2, <2>3, <1>1, <1>2, PublishWithinKeeps, Zenon DEF X
  <1> QED
    BY <1>3, <1>4, <1>5

\* A map with ids added: what it had stays, and what is new was minted since.
Extends(m, m2, n, n2) ==
    /\ \A t \in Tuples : \A p \in 1 .. Len(m[t]) : p \in 1 .. Len(m2[t]) /\ m2[t][p] = m[t][p]
    /\ \A t \in Tuples : \A p \in 1 .. Len(m2[t]) :
           \/ p \in 1 .. Len(m[t])
           \/ m2[t][p][1] = "own" /\ m2[t][p][2] \in n + 1 .. n2

\* What an id names after a step.
ListedNow(of, t, x) ==
    x \in IdThings /\ x[1] # "own" /\ of[x] = t /\ (x[1] = "pub" => x[2] <= things')
MadeNow(x, c) ==
    /\ x = c /\ c[1] \in {"pub", "own"} /\ (c[1] = "own" => c[2] <= mints')
    /\ \A t \in Tuples : \A p \in 1 .. Len(identities'[t]) : identities'[t][p] # c
MappedNow(of, t, x, c) ==
    \E p \in 1 .. Len(identities'[t]) :
        /\ c = identities'[t][p] /\ ListedNow(of, t, x)
        /\ t \notin shifted' => p \in 1 .. Len(history'[t]) /\ x = history'[t][p]
NamesNow(of, t, x, c) == MadeNow(x, c) \/ MappedNow(of, t, x, c)

\* Rows and records are lined up when each is.
LEMMA LinedNow ==
    ASSUME NEW of
    PROVE  /\ (\A i \in 1 .. Len(claims') :
                  NamesNow(of, claims'[i].tuple, claims'[i].thing, claims'[i].claim)) => RowsNamed(of)'
           /\ (\A i \in 1 .. Len(claims') : claims'[i].thing[1] # "own" =>
                  ListedNow(of, claims'[i].tuple, claims'[i].thing)) => RowsListed(of)'
           /\ (era' # "new" => stamps' = {})
                  /\ (\A s \in stamps' : \E t \in Tuples : NamesNow(of, t, s.thing, s.claim))
                  => StampsNamed(of)'
  <1>1. ASSUME \A i \in 1 .. Len(claims') : claims'[i].thing[1] # "own" =>
                  ListedNow(of, claims'[i].tuple, claims'[i].thing)
        PROVE  RowsListed(of)'
    BY <1>1 DEF RowsListed, Listed, ListedNow
  <1>2. ASSUME \A i \in 1 .. Len(claims') :
                  NamesNow(of, claims'[i].tuple, claims'[i].thing, claims'[i].claim)
        PROVE  RowsNamed(of)'
    BY <1>2 DEF RowsNamed, Names, MadeWith, MappedTo, Unmapped, Listed,
                NamesNow, MadeNow, MappedNow, ListedNow
  <1>3. ASSUME era' # "new" => stamps' = {},
               \A s \in stamps' : \E t \in Tuples : NamesNow(of, t, s.thing, s.claim)
        PROVE  StampsNamed(of)'
    BY <1>3 DEF StampsNamed, Names, MadeWith, MappedTo, Unmapped, Listed,
                NamesNow, MadeNow, MappedNow, ListedNow
  <1> QED
    BY <1>1, <1>2, <1>3

\* Ids name what they named.
LEMMA NamesStay ==
    ASSUME NEW of, UNCHANGED <<history, shifted, things>>, mints \in Nat, mints' \in Nat, mints' >= mints,
           Extends(identities, identities', mints, mints')
    PROVE  \A t \in Tuples, c \in IdClaims : \A x : Names(of, t, x, c) => NamesNow(of, t, x, c)
  <1>1. ASSUME NEW x, NEW c \in IdClaims, MadeWith(x, c) PROVE MadeNow(x, c)
    <2>1. x = c /\ c[1] \in {"pub", "own"} /\ Unmapped(c) /\ (c[1] = "own" => c[2] <= mints) /\ c[2] \in Nat
      BY <1>1 DEF MadeWith, IdClaims
    <2>2. ASSUME NEW t \in Tuples, NEW p \in 1 .. Len(identities'[t]), identities'[t][p] = c PROVE FALSE
      <3>1. CASE p \in 1 .. Len(identities[t])
        BY <3>1, <2>1, <2>2, Zenon DEF Extends, Unmapped
      <3>2. CASE c[1] = "own" /\ c[2] \in mints + 1 .. mints'
        BY <3>2, <2>1
      <3> QED
        BY <3>1, <3>2, <2>2 DEF Extends
    <2>3. c[1] = "own" => c[2] <= mints'
      BY <2>1
    <2> QED
      BY <2>1, <2>2, <2>3 DEF MadeNow
  <1>2. ASSUME NEW t \in Tuples, NEW x, NEW c, MappedTo(of, t, x, c) PROVE MappedNow(of, t, x, c)
    <2>1. PICK p \in 1 .. Len(identities[t]) :
             /\ c = identities[t][p] /\ Listed(of, t, x)
             /\ t \notin shifted => p \in 1 .. Len(history[t]) /\ x = history[t][p]
      BY <1>2 DEF MappedTo
    <2>2. p \in 1 .. Len(identities'[t]) /\ identities'[t][p] = c
      BY <2>1 DEF Extends
    <2>3. ListedNow(of, t, x)
      BY <2>1 DEF Listed, ListedNow
    <2> QED
      BY <2>1, <2>2, <2>3 DEF MappedNow
  <1> QED
    BY <1>1, <1>2 DEF Names, NamesNow

\* What neither a release nor the publisher changes.
LEMMA OverlayKeeps ==
    ASSUME IdentityInv, UNCHANGED <<release, things, history, shifted>>
    PROVE  /\ InPlace' /\ \A of : ImageListed(of) /\ HistoryListed(of) => ImageListed(of)' /\ HistoryListed(of)'
           /\ \A of, t, x : Listed(of, t, x) => ListedNow(of, t, x)
  <1>1. \A t : Identity!ThingsOf(release.image, t)' = Identity!ThingsOf(release.image, t)
    BY DEF Identity!ThingsOf, Identity!OfTuple, Identity!EdgesAt
  <1>2. InPlace
    BY DEF IdentityInv
  <1>3. InPlace'
    BY <1>1, <1>2 DEF InPlace
  <1>4. \A of, t, x : Listed(of, t, x) => ListedNow(of, t, x)
    BY DEF Listed, ListedNow
  <1>5. ASSUME NEW of, ImageListed(of), HistoryListed(of) PROVE ImageListed(of)' /\ HistoryListed(of)'
    BY <1>5 DEF ImageListed, HistoryListed, Listed
  <1> QED
    BY <1>3, <1>4, <1>5

\* A row's fields.
LEMMA RowFields ==
    ASSUME IdentityInv
    PROVE  /\ claims \in Seq(IdRows) /\ Len(claims) \in Nat
           /\ \A i \in 1 .. Len(claims) :
                 /\ claims[i] \in IdRows /\ claims[i].tuple \in Tuples
                 /\ claims[i].thing \in IdThings /\ claims[i].claim \in IdClaims
                 /\ claims[i].claim[2] \in Nat
  <1>1. claims \in Seq(IdRows) /\ Len(claims) \in Nat
    BY DEF IdentityInv, IdentityTypes
  <1>2. \A i \in 1 .. Len(claims) : claims[i] \in IdRows
    BY <1>1
  <1>3. \A c \in IdClaims : c[2] \in Nat
    BY DEF IdClaims
  <1> QED
    BY <1>1, <1>2, <1>3, ThingsTyped

\* The ids of rows were minted or published.
LEMMA RowClaims ==
    ASSUME IdentityInv, era = "new", NEW i \in 1 .. Len(claims)
    PROVE  claims[i].claim[1] = "own" => claims[i].claim[2] <= mints
  <1>1. PICK of \in Owners : Lined(of)
    BY DEF IdentityInv
  <1>2. Names(of, claims[i].tuple, claims[i].thing, claims[i].claim)
    BY <1>1 DEF Lined, RowsNamed
  <1>3. MapOK(identities, mints) /\ claims[i].tuple \in Tuples /\ mints \in Nat
    BY RowFields DEF IdentityInv, IdentityTypes
  <1> DEFINE t == claims[i].tuple
             c == claims[i].claim
  <1>4. CASE MadeWith(claims[i].thing, c)
    BY <1>4 DEF MadeWith
  <1>5. CASE MappedTo(of, t, claims[i].thing, c)
    <2>1. PICK p \in 1 .. Len(identities[t]) : c = identities[t][p]
      BY <1>5 DEF MappedTo
    <2>2. c[2] \in 1 .. mints
      BY <2>1, <1>3 DEF MapOK
    <2> QED
      BY <2>2, <1>3
  <1> QED
    BY <1>2, <1>4, <1>5 DEF Names

\* A local edge is created.
LEMMA AddLocalKeeps == IdentityInv /\ Identity!AddLocal => IdentityInv'
  <1> SUFFICES ASSUME IdentityInv, Identity!AddLocal PROVE IdentityInv'
    OBVIOUS
  <1> DEFINE c == <<"own", mints + 1>>
             E(t) == [tuple |-> t, thing |-> c, claim |-> c, receipt |-> "ours"]
             n == Len(claims)
  <1>1. PICK t \in Tuples : Identity!OfTuple(claims, t) = <<>> /\ claims' = Append(claims, E(t))
    BY Zenon DEF Identity!AddLocal, Identity!Edge
  <1>2. /\ era = "new" /\ mints' = mints + 1
        /\ UNCHANGED <<release, things, history, shifted, era, identities, followed, stamps>>
    BY DEF Identity!AddLocal
  <1>3. IdentityTypes /\ mints \in Nat /\ n \in Nat /\ claims \in Seq(IdRows)
    BY RowFields DEF IdentityInv, IdentityTypes
  <1>4. c \in IdClaims /\ c \in IdThings /\ c[1] = "own" /\ c[2] = mints + 1 /\ c # Identity!NoClaim
    BY <1>3 DEF IdClaims, IdThings, Identity!NoClaim
  <1> HIDE DEF c
  <1>5. E(t) \in IdRows /\ E(t).tuple = t /\ E(t).thing = c /\ E(t).claim = c
    BY <1>4 DEF IdRows
  <1> HIDE DEF E
  <1>6. /\ claims' \in Seq(IdRows) /\ Len(claims') = n + 1 /\ claims'[n + 1] = E(t)
        /\ \A i \in 1 .. n : claims'[i] = claims[i]
    BY <1>1, <1>3, <1>5
  <1> DEFINE New(i) == i = n + 1 /\ claims'[i].tuple = t /\ claims'[i].thing = c /\ claims'[i].claim = c
             Old(i) == i \in 1 .. n /\ claims'[i] = claims[i]
  <1>7. \A i \in 1 .. Len(claims') : New(i) \/ Old(i)
    BY <1>3, <1>5, <1>6
  <1>8. \A i \in 1 .. n : i \in 1 .. Len(claims')
    BY <1>3, <1>6
  <1>9. \A i \in 1 .. n : claims[i].tuple # t
    <2>1. ASSUME NEW i \in 1 .. n, claims[i].tuple = t PROVE FALSE
      <3>1. i \in At(claims, t)
        BY <2>1, <1>3 DEF At
      <3>2. Lines(claims, t, Identity!ThingsOf(claims, t))
            /\ Len(Identity!OfTuple(claims, t)) = Upto(At(claims, t), Len(claims))
        BY <1>3, ThingsLines
      <3>3. Len(Identity!ThingsOf(claims, t)) = 0
        BY <3>2, <1>1 DEF Lines
      <3>4. Upto(At(claims, t), i) \in 1 .. Len(Identity!ThingsOf(claims, t))
        BY <3>1, <3>2 DEF Lines
      <3> QED
        BY <3>3, <3>4
    <2> QED
      BY <2>1
  <1>10. PICK of \in Owners : Lined(of)
    BY DEF IdentityInv
  <1>11. Extends(identities, identities', mints, mints')
    BY <1>2 DEF Extends
  <1>12. \A u \in Tuples, d \in IdClaims : \A x : Names(of, u, x, d) => NamesNow(of, u, x, d)
    BY <1>2, <1>3, <1>11, NamesStay
  <1>13. \A i \in 1 .. n : claims[i].claim # c
    <2>1. \A i \in 1 .. n : claims[i].claim[1] = "own" => claims[i].claim[2] <= mints
      BY <1>2, RowClaims
    <2> QED
      BY <2>1, <1>3, <1>4
  <1>14. IdentityTypes'
    <2>1. mints' \in Nat
      BY <1>2, <1>3
    <2> QED
      BY <2>1, <1>2, <1>3, <1>6 DEF IdentityTypes
  <1>15. InPlace' /\ ImageListed(of)' /\ HistoryListed(of)'
    BY <1>2, <1>10, OverlayKeeps DEF Lined
  <1>16. MapOK(identities, mints)'
    <2>1. MapOK(identities, mints)
      BY DEF IdentityInv
    <2>2. \A k \in 1 .. mints : k \in 1 .. mints'
      BY <1>2, <1>3
    <2> QED
      BY <2>1, <2>2, <1>2 DEF MapOK
  <1>17. PubTogether'
    <2>1. PubTogether
      BY DEF IdentityInv
    <2>2. ASSUME NEW i \in 1 .. Len(claims'), NEW j \in 1 .. Len(claims'),
                 claims'[i].tuple = claims'[j].tuple, claims'[i].claim[1] = "pub"
          PROVE  claims'[j].claim[1] = "pub"
      <3>1. Old(i)
        BY <2>2, <1>4, <1>7
      <3>2. Old(j)
        BY <2>2, <3>1, <1>7, <1>9
      <3> QED
        BY <2>1, <2>2, <3>1, <3>2 DEF PubTogether
    <2> QED
      BY <2>2 DEF PubTogether
  <1>18. PubKnown'
    <2>1. PubKnown
      BY DEF IdentityInv
    <2>2. \A i \in 1 .. Len(claims') : claims'[i].claim[1] = "pub" => Old(i)
      BY <1>4, <1>7
    <2> QED
      BY <2>1, <2>2, <1>2 DEF PubKnown
  <1>19. PubStays'
    <2>1. PubStays /\ MapOK(identities, mints)
      BY DEF IdentityInv
    <2>2. ASSUME NEW s \in stamps, s.claim[1] = "pub" PROVE s.thing # c
      <3>1. PICK u \in Tuples : Names(of, u, s.thing, s.claim)
        BY <1>10 DEF Lined, StampsNamed
      <3>2. CASE MadeWith(s.thing, s.claim)
        BY <3>2, <2>2, <1>4 DEF MadeWith
      <3>3. CASE MappedTo(of, u, s.thing, s.claim)
        BY <3>3, <2>1, <2>2 DEF MappedTo, MapOK
      <3> QED
        BY <3>1, <3>2, <3>3 DEF Names
    <2>3. ASSUME NEW s \in stamps, NEW i \in 1 .. Len(claims'), s.claim[1] = "pub", claims'[i].thing = s.thing
          PROVE  claims'[i].claim[1] = "pub"
      <3>1. Old(i)
        BY <2>2, <2>3, <1>7
      <3> QED
        BY <3>1, <2>1, <2>3 DEF PubStays
    <2> QED
      BY <2>3, <1>2 DEF PubStays
  <1>20. Explained'
    <2> SUFFICES ASSUME ~followed.identified, NEW i \in 1 .. Len(followed.image) PROVE ExplainedAt(i)'
      BY <1>2 DEF Explained
    <2>1. ExplainedAt(i)
      BY <1>2 DEF IdentityInv, Explained
    <2>2. PlaceOf(followed.image, i)' = PlaceOf(followed.image, i)
      BY <1>2 DEF PlaceOf, At, Upto
    <2> DEFINE e == followed.image[i]
               r == PlaceOf(followed.image, i)
    <2>3. r \in 1 .. Len(identities[e.tuple])
      BY <2>1 DEF ExplainedAt
    <2>4. PICK j \in 1 .. Len(claims) : claims[j].thing = e.thing /\ claims[j].claim = identities[e.tuple][r]
      BY <2>1 DEF ExplainedAt
    <2>5. j \in 1 .. Len(claims') /\ claims'[j].thing = e.thing /\ claims'[j].claim = identities[e.tuple][r]
      BY <2>4, <1>6, <1>8
    <2> QED
      BY <2>2, <2>3, <2>5, <1>2 DEF ExplainedAt
  <1>21. OldRows'
    BY <1>2 DEF OldRows
  <1>22. Saved'
    <2>1. Identity!Saves(claims)
      BY <1>2 DEF IdentityInv, Saved
    <2>2. DOMAIN claims' = 1 .. Len(claims') /\ DOMAIN claims = 1 .. n
      BY <1>3, <1>6
    <2>3. ASSUME NEW i \in 1 .. Len(claims'), NEW j \in 1 .. Len(claims'), claims'[i].claim = claims'[j].claim
          PROVE  i = j
      <3>1. CASE New(i) /\ New(j)
        BY <3>1
      <3>2. CASE New(i) /\ Old(j)
        BY <3>2, <2>3, <1>13
      <3>3. CASE Old(i) /\ New(j)
        BY <3>3, <2>3, <1>13
      <3>4. CASE Old(i) /\ Old(j)
        BY <3>4, <2>1, <2>2, <2>3 DEF Identity!Saves, Identity!Loads
      <3> QED
        BY <3>1, <3>2, <3>3, <3>4, <1>7
    <2>4. \A i \in 1 .. Len(claims') : claims'[i].claim # Identity!NoClaim
      BY <2>1, <2>2, <1>4, <1>7 DEF Identity!Saves
    <2>5. Identity!Saves(claims)'
      BY <2>2, <2>3, <2>4 DEF Identity!Saves, Identity!Loads, Identity!NoClaim
    <2> QED
      BY <2>5 DEF Saved
  <1>23. RowsListed(of)'
    <2>1. ASSUME NEW i \in 1 .. Len(claims'), claims'[i].thing[1] # "own"
          PROVE  ListedNow(of, claims'[i].tuple, claims'[i].thing)
      <3>1. Old(i)
        BY <2>1, <1>4, <1>7
      <3>2. Listed(of, claims[i].tuple, claims[i].thing)
        BY <3>1, <2>1, <1>10 DEF Lined, RowsListed
      <3> QED
        BY <3>1, <3>2, <1>2, OverlayKeeps
    <2> QED
      BY <2>1, LinedNow
  <1>24. RowsNamed(of)'
    <2>1. \A i \in 1 .. n : Names(of, claims[i].tuple, claims[i].thing, claims[i].claim)
                            /\ claims[i].tuple \in Tuples /\ claims[i].claim \in IdClaims
      BY <1>2, <1>10, RowFields DEF Lined, RowsNamed
    <2>2. MadeNow(c, c)
      <3>1. ASSUME NEW u \in Tuples, NEW p \in 1 .. Len(identities[u]), identities[u][p] = c PROVE FALSE
        <4>1. c[2] \in 1 .. mints
          BY <3>1 DEF IdentityInv, MapOK
        <4> QED
          BY <4>1, <1>3, <1>4
      <3>2. c[2] <= mints'
        BY <1>2, <1>3, <1>4
      <3> QED
        BY <3>1, <3>2, <1>2, <1>4 DEF MadeNow
    <2>3. \A i \in 1 .. n : NamesNow(of, claims[i].tuple, claims[i].thing, claims[i].claim)
      BY <2>1, <1>12
    <2>4. NamesNow(of, t, c, c)
      BY <2>2 DEF NamesNow
    <2>5. \A i \in 1 .. Len(claims') : NamesNow(of, claims'[i].tuple, claims'[i].thing, claims'[i].claim)
      BY <2>3, <2>4, <1>7
    <2> QED
      BY <2>5, LinedNow
  <1>25. StampsNamed(of)'
    <2>1. \A s \in stamps : s.claim \in IdClaims
      BY <1>3 DEF IdentityTypes
    <2>2. \A s \in stamps : \E u \in Tuples : NamesNow(of, u, s.thing, s.claim)
      BY <2>1, <1>10, <1>12 DEF Lined, StampsNamed
    <2>3. (era' # "new" => stamps' = {}) /\ \A s \in stamps' : \E u \in Tuples : NamesNow(of, u, s.thing, s.claim)
      BY <2>2, <1>2
    <2> QED
      BY <2>3, LinedNow
  <1>26. Lined(of)'
    BY <1>15, <1>23, <1>24, <1>25 DEF Lined
  <1> QED
    BY <1>14, <1>15, <1>16, <1>17, <1>18, <1>19, <1>20, <1>21, <1>22, <1>26 DEF IdentityInv

\* A record is made about a claim.
LEMMA StampKeeps == IdentityInv /\ Identity!Stamp => IdentityInv'
  <1> SUFFICES ASSUME IdentityInv, Identity!Stamp PROVE IdentityInv'
    OBVIOUS
  <1>1. PICK i \in DOMAIN claims : stamps' = stamps \cup {[thing |-> claims[i].thing, claim |-> claims[i].claim]}
    BY DEF Identity!Stamp
  <1>2. era = "new" /\ UNCHANGED <<release, things, history, shifted, era, claims, identities, mints, followed>>
    BY DEF Identity!Stamp
  <1> DEFINE z == [thing |-> claims[i].thing, claim |-> claims[i].claim]
  <1>3. /\ i \in 1 .. Len(claims) /\ claims[i].tuple \in Tuples
        /\ claims[i].thing \in IdThings /\ claims[i].claim \in IdClaims
    BY RowFields
  <1>4. z \in [thing : IdThings, claim : IdClaims] /\ z.thing = claims[i].thing /\ z.claim = claims[i].claim
    BY <1>3
  <1>5. stamps' = stamps \cup {z}
    BY <1>1
  <1> HIDE DEF z
  <1>6. PICK of \in Owners : Lined(of)
    BY DEF IdentityInv
  <1>7. IdentityTypes /\ mints \in Nat /\ MapOK(identities, mints)
    BY DEF IdentityInv, IdentityTypes
  <1>8. Extends(identities, identities', mints, mints')
    BY <1>2 DEF Extends
  <1>9. \A u \in Tuples, d \in IdClaims : \A x : Names(of, u, x, d) => NamesNow(of, u, x, d)
    <2>1. mints' \in Nat /\ mints' >= mints
      BY <1>2, <1>7
    <2> QED
      BY <2>1, <1>2, <1>7, <1>8, NamesStay
  <1>10. IdentityTypes'
    <2>1. stamps' \subseteq [thing : IdThings, claim : IdClaims]
      BY <1>4, <1>5, <1>7 DEF IdentityTypes
    <2> QED
      BY <2>1, <1>2, <1>7 DEF IdentityTypes
  <1>11. InPlace' /\ ImageListed(of)' /\ HistoryListed(of)'
    BY <1>2, <1>6, OverlayKeeps DEF Lined
  <1>12. MapOK(identities, mints)'
    BY <1>2, <1>7 DEF MapOK
  <1>13. PubTogether'
    BY <1>2 DEF IdentityInv, PubTogether
  <1>14. PubKnown'
    BY <1>2, <1>3, <1>4, <1>5 DEF IdentityInv, PubKnown
  <1>15. Names(of, claims[i].tuple, claims[i].thing, claims[i].claim)
    BY <1>2, <1>3, <1>6 DEF Lined, RowsNamed
  <1>16. PubStays'
    <2>1. PubStays /\ PubTogether
      BY DEF IdentityInv
    <2>2. ASSUME NEW j \in 1 .. Len(claims), claims[i].claim[1] = "pub", claims[j].thing = claims[i].thing
          PROVE  claims[j].claim[1] = "pub"
      <3>1. ~MappedTo(of, claims[i].tuple, claims[i].thing, claims[i].claim)
        BY <2>2, <1>3, <1>7, Zenon DEF MappedTo, MapOK
      <3>2. claims[i].thing[1] = "pub"
        BY <3>1, <2>2, <1>15 DEF Names, MadeWith
      <3>3. of[claims[i].thing] = claims[i].tuple /\ of[claims[j].thing] = claims[j].tuple
        BY <3>2, <2>2, <1>3, <1>6 DEF Lined, RowsListed, Listed
      <3>4. claims[i].tuple = claims[j].tuple
        BY <3>3, <2>2
      <3> QED
        BY <3>4, <2>1, <2>2, <1>3 DEF PubTogether
    <2>3. \A s \in stamps' : \A j \in 1 .. Len(claims) :
             s.claim[1] = "pub" /\ claims[j].thing = s.thing => claims[j].claim[1] = "pub"
      BY <2>1, <2>2, <1>4, <1>5 DEF PubStays
    <2> QED
      BY <2>3, <1>2 DEF PubStays
  <1>17. Explained'
    <2>1. \A k : PlaceOf(followed.image, k)' = PlaceOf(followed.image, k)
      BY <1>2 DEF PlaceOf, At, Upto
    <2>2. \A k : ExplainedAt(k)' <=> ExplainedAt(k)
      BY <1>2, <2>1 DEF ExplainedAt
    <2> QED
      BY <2>2, <1>2 DEF IdentityInv, Explained
  <1>18. OldRows'
    BY <1>2 DEF OldRows
  <1>19. Saved'
    BY <1>2 DEF IdentityInv, Saved, Identity!Saves, Identity!Loads
  <1>20. RowsListed(of)'
    <2>1. \A j \in 1 .. Len(claims') : claims'[j].thing[1] # "own" =>
             ListedNow(of, claims'[j].tuple, claims'[j].thing)
      <3>1. \A j \in 1 .. Len(claims) : claims[j].thing[1] # "own" =>
               ListedNow(of, claims[j].tuple, claims[j].thing)
        BY <1>2, <1>6, OverlayKeeps DEF Lined, RowsListed
      <3> QED
        BY <3>1, <1>2
    <2> QED
      BY <2>1, LinedNow
  <1>21. RowsNamed(of)'
    <2>1. \A j \in 1 .. Len(claims) : NamesNow(of, claims[j].tuple, claims[j].thing, claims[j].claim)
      BY <1>2, <1>6, <1>9, RowFields DEF Lined, RowsNamed
    <2>2. \A j \in 1 .. Len(claims') : NamesNow(of, claims'[j].tuple, claims'[j].thing, claims'[j].claim)
      BY <2>1, <1>2
    <2> QED
      BY <2>2, LinedNow
  <1>22. StampsNamed(of)'
    <2>1. \A s \in stamps : s.claim \in IdClaims
      BY <1>7 DEF IdentityTypes
    <2>2. \A s \in stamps : \E u \in Tuples : NamesNow(of, u, s.thing, s.claim)
      BY <2>1, <1>6, <1>9 DEF Lined, StampsNamed
    <2>3. NamesNow(of, claims[i].tuple, z.thing, z.claim)
      BY <1>3, <1>4, <1>9, <1>15
    <2>4. (era' # "new" => stamps' = {}) /\ \A s \in stamps' : \E u \in Tuples : NamesNow(of, u, s.thing, s.claim)
      BY <2>2, <2>3, <1>2, <1>3, <1>5
    <2> QED
      BY <2>4, LinedNow
  <1>23. Lined(of)'
    BY <1>11, <1>20, <1>21, <1>22 DEF Lined
  <1> QED
    BY <1>10, <1>11, <1>12, <1>13, <1>14, <1>16, <1>17, <1>18, <1>19, <1>23 DEF IdentityInv

\* The map that a migration records has the id of every row at its place.
MapsRows(r, m) ==
    /\ m \in IdMaps
    /\ \A i \in 1 .. Len(r) : /\ PlaceOf(r, i) \in 1 .. Len(m[r[i].tuple])
                              /\ m[r[i].tuple][PlaceOf(r, i)] = r[i].claim
    /\ \A t \in Tuples : \A p \in 1 .. Len(m[t]) :
           \E i \in 1 .. Len(r) : r[i].tuple = t /\ PlaceOf(r, i) = p /\ m[t][p] = r[i].claim

\* Going through the rows in their order gives this map.
LEMMA MapOfRows ==
    ASSUME NEW r \in Seq(IdRows)
    PROVE  MapsRows(r, [t \in Tuples |-> [i \in DOMAIN Identity!OfTuple(r, t) |-> Identity!OfTuple(r, t)[i].claim]])
  <1> DEFINE O(t) == Identity!OfTuple(r, t)
             C(t) == [i \in DOMAIN O(t) |-> O(t)[i].claim]
             m == [t \in Tuples |-> C(t)]
  <1>1. ASSUME NEW t \in Tuples
        PROVE  /\ O(t) \in Seq(IdRows) /\ DOMAIN O(t) = 1 .. Len(O(t)) /\ Len(O(t)) \in Nat
               /\ Placement(r, At(r, t), O(t), Len(r))
    <2>1. O(t) \in Seq(IdRows) /\ Placement(r, At(r, t), O(t), Len(r))
      BY ThingsLines
    <2> HIDE DEF O
    <2> QED
      BY <2>1
  <1>2. \A i \in 1 .. Len(r) : r[i] \in IdRows
    OBVIOUS
  <1> HIDE DEF O
  <1>3. ASSUME NEW t \in Tuples
        PROVE  C(t) \in Seq(IdClaims) /\ Len(C(t)) = Len(O(t)) /\ \A p \in 1 .. Len(O(t)) : C(t)[p] = O(t)[p].claim
    <2>1. \A p \in 1 .. Len(O(t)) : O(t)[p] \in IdRows
      BY <1>1
    <2>2. \A p \in 1 .. Len(O(t)) : O(t)[p].claim \in IdClaims
      BY <2>1, ThingsTyped
    <2>3. C(t) \in [1 .. Len(O(t)) -> IdClaims] /\ \A p \in 1 .. Len(O(t)) : C(t)[p] = O(t)[p].claim
      BY <1>1, <2>2
    <2> HIDE DEF C
    <2>4. C(t) \in Seq(IdClaims) /\ Len(C(t)) = Len(O(t))
      BY <2>3, <1>1
    <2> QED
      BY <2>3, <2>4
  <1> HIDE DEF C
  <1>4. m \in IdMaps /\ \A t \in Tuples : m[t] = C(t)
    BY <1>3 DEF IdMaps
  <1> HIDE DEF m
  <1>5. ASSUME NEW i \in 1 .. Len(r)
        PROVE  /\ PlaceOf(r, i) \in 1 .. Len(m[r[i].tuple])
               /\ m[r[i].tuple][PlaceOf(r, i)] = r[i].claim
    <2> DEFINE t == r[i].tuple
    <2>1. t \in Tuples /\ i \in At(r, t)
      BY <1>2, ThingsTyped DEF At
    <2>2. PlaceOf(r, i) = Upto(At(r, t), i)
      BY DEF PlaceOf
    <2> HIDE DEF t
    <2>3. PlaceOf(r, i) \in 1 .. Len(O(t)) /\ O(t)[PlaceOf(r, i)] = r[i]
      BY <2>1, <2>2, <1>1 DEF Placement
    <2> QED
      BY <2>1, <2>3, <1>3, <1>4 DEF t
  <1>6. ASSUME NEW t \in Tuples, NEW p \in 1 .. Len(m[t])
        PROVE  \E i \in 1 .. Len(r) : r[i].tuple = t /\ PlaceOf(r, i) = p /\ m[t][p] = r[i].claim
    <2>1. p \in 1 .. Len(O(t)) /\ m[t][p] = O(t)[p].claim
      BY <1>3, <1>4
    <2>2. PICK i \in 1 .. Len(r) : i \in At(r, t) /\ Upto(At(r, t), i) = p /\ O(t)[p] = r[i]
      BY <2>1, <1>1 DEF Placement
    <2>3. r[i].tuple = t
      BY <2>2 DEF At
    <2>4. PlaceOf(r, i) = p
      BY <2>2, <2>3 DEF PlaceOf
    <2> QED
      BY <2>1, <2>2, <2>3, <2>4
  <1> QED
    BY <1>4, <1>5, <1>6, Zenon DEF MapsRows, m, C, O

\* A database is migrated.
LEMMA MigrateKeeps == IdentityInv /\ Identity!Migrate => IdentityInv'
  <1> SUFFICES ASSUME IdentityInv, Identity!Migrate PROVE IdentityInv'
    OBVIOUS
  <1> DEFINE n == Len(claims)
             C(i) == <<"own", mints + i>>
             E(i) == [claims[i] EXCEPT !.claim = C(i)]
             r == [i \in 1 .. n |-> E(i)]
  <1>1. /\ era = "old" /\ era' = "new" /\ claims' = [i \in DOMAIN claims |-> E(i)]
        /\ mints' = mints + n
        /\ identities' = [t \in Tuples |-> [i \in DOMAIN Identity!OfTuple(claims', t) |-> Identity!OfTuple(claims', t)[i].claim]]
        /\ UNCHANGED <<release, things, history, shifted, followed, stamps>>
    BY DEF Identity!Migrate
  <1>2. /\ IdentityTypes /\ mints \in Nat /\ claims \in Seq(IdRows) /\ n \in Nat /\ DOMAIN claims = 1 .. n
        /\ \A i \in 1 .. n : claims[i] \in IdRows
    BY RowFields DEF IdentityInv, IdentityTypes
  <1>3. \A i \in 1 .. n : C(i) \in IdClaims /\ C(i)[1] = "own" /\ C(i)[2] = mints + i
    BY <1>2 DEF IdClaims
  <1> HIDE DEF C
  <1>4. \A i \in 1 .. n : /\ E(i) \in IdRows /\ E(i).tuple = claims[i].tuple
                          /\ E(i).thing = claims[i].thing /\ E(i).claim = C(i)
    <2>1. \A e \in IdRows, c \in IdClaims :
             LET d == [e EXCEPT !.claim = c]
             IN  d \in IdRows /\ d.tuple = e.tuple /\ d.thing = e.thing /\ d.claim = c
      BY DEF IdRows
    <2> QED
      BY <2>1, <1>2, <1>3
  <1> HIDE DEF E
  <1>5. claims' = r /\ r \in [1 .. n -> IdRows] /\ \A i \in 1 .. n : r[i] = E(i)
    BY <1>1, <1>2, <1>4
  <1> HIDE DEF r
  <1>6. r \in Seq(IdRows) /\ Len(r) = n /\ Len(claims') = n /\ DOMAIN claims' = 1 .. n
    BY <1>2, <1>5
  <1>7. \A i \in 1 .. n : /\ claims'[i].tuple = claims[i].tuple /\ claims'[i].thing = claims[i].thing
                          /\ claims'[i].claim = C(i) /\ claims[i].tuple \in Tuples
    BY <1>2, <1>4, <1>5, ThingsTyped
  <1>8. MapsRows(claims', identities')
    <2>1. claims' \in Seq(IdRows)
      BY <1>5, <1>6
    <2> QED
      BY <2>1, <1>1, MapOfRows, Zenon
  <1>9. /\ identities' \in IdMaps
        /\ \A i \in 1 .. n : /\ PlaceOf(claims', i) \in 1 .. Len(identities'[claims[i].tuple])
                             /\ identities'[claims[i].tuple][PlaceOf(claims', i)] = C(i)
        /\ \A t \in Tuples : \A p \in 1 .. Len(identities'[t]) :
               \E i \in 1 .. n : claims[i].tuple = t /\ PlaceOf(claims', i) = p /\ identities'[t][p] = C(i)
    <2>1. /\ identities' \in IdMaps
          /\ \A i \in 1 .. Len(claims') : /\ PlaceOf(claims', i) \in 1 .. Len(identities'[claims'[i].tuple])
                                          /\ identities'[claims'[i].tuple][PlaceOf(claims', i)] = claims'[i].claim
          /\ \A t \in Tuples : \A p \in 1 .. Len(identities'[t]) :
                \E i \in 1 .. Len(claims') :
                    claims'[i].tuple = t /\ PlaceOf(claims', i) = p /\ identities'[t][p] = claims'[i].claim
      BY <1>8, Zenon DEF MapsRows
    <2>2. ASSUME NEW i \in 1 .. n
          PROVE  /\ PlaceOf(claims', i) \in 1 .. Len(identities'[claims[i].tuple])
                 /\ identities'[claims[i].tuple][PlaceOf(claims', i)] = C(i)
      <3>1. claims'[i].tuple = claims[i].tuple /\ claims'[i].claim = C(i) /\ i \in 1 .. Len(claims')
        BY <1>6, <1>7
      <3> QED
        BY <2>1, <3>1
    <2>3. ASSUME NEW t \in Tuples, NEW p \in 1 .. Len(identities'[t])
          PROVE  \E i \in 1 .. n : claims[i].tuple = t /\ PlaceOf(claims', i) = p /\ identities'[t][p] = C(i)
      <3>1. PICK i \in 1 .. Len(claims') :
               claims'[i].tuple = t /\ PlaceOf(claims', i) = p /\ identities'[t][p] = claims'[i].claim
        BY <2>1
      <3>2. i \in 1 .. n /\ claims'[i].tuple = claims[i].tuple /\ claims'[i].claim = C(i)
        BY <1>6, <1>7
      <3> QED
        BY <3>1, <3>2
    <2> QED
      BY <2>1, <2>2, <2>3
  <1>10. \A t : \A i \in 1 .. n : Upto(At(claims', t), i) = Upto(At(claims, t), i)
    <2>1. claims' \in Seq(IdRows) /\ Len(claims') <= Len(claims)
      BY <1>2, <1>5, <1>6
    <2>2. \A i \in 1 .. Len(claims') : claims'[i].tuple = claims[i].tuple /\ claims'[i].thing = claims[i].thing
      BY <1>6, <1>7
    <2>3. \A t : \A i \in 1 .. Len(claims') : Upto(At(claims', t), i) = Upto(At(claims, t), i)
      BY <2>1, <2>2, <1>2, PrefixLines
    <2> QED
      BY <2>3, <1>6
  <1>11. \A i \in 1 .. n : PlaceOf(claims', i) = Upto(At(claims, claims[i].tuple), i)
    BY <1>7, <1>10 DEF PlaceOf
  <1>12. PICK of \in Owners : Lined(of)
    BY DEF IdentityInv
  <1>13. /\ OldRows /\ ~followed.identified /\ Len(followed.image) <= n
         /\ \A t \in Tuples \ shifted : IsPre(Identity!ThingsOf(claims, t), history[t])
         /\ \A i \in 1 .. Len(followed.image) :
               claims[i].thing = followed.image[i].thing /\ claims[i].tuple = followed.image[i].tuple
         /\ \A i \in 1 .. n : claims[i].thing[1] # "own"
    BY <1>1 DEF IdentityInv, OldRows
  <1>14. stamps = {}
    BY <1>1, <1>12 DEF Lined, StampsNamed
  <1>15. \A i \in 1 .. n : Listed(of, claims[i].tuple, claims[i].thing) /\ ListedNow(of, claims[i].tuple, claims[i].thing)
    BY <1>1, <1>12, <1>13, OverlayKeeps DEF Lined, RowsListed
  <1>16. \A i, j \in 1 .. n : C(i) = C(j) => i = j
    BY <1>2, <1>3
  <1>17. \A i \in 1 .. n : C(i)[2] \in 1 .. mints' /\ C(i) # Identity!NoClaim /\ C(i)[1] # "pub"
    <2>1. \A i \in 1 .. n : C(i)[2] \in 1 .. mints'
      BY <1>1, <1>2, <1>3
    <2> QED
      BY <2>1, <1>3 DEF Identity!NoClaim
  <1>18. IdentityTypes'
    <2>1. mints' \in Nat /\ claims' \in Seq(IdRows) /\ era' \in {"none", "old", "new"}
      BY <1>1, <1>2, <1>5, <1>6
    <2> QED
      BY <2>1, <1>1, <1>2, <1>9 DEF IdentityTypes
  <1>19. InPlace' /\ ImageListed(of)' /\ HistoryListed(of)'
    BY <1>1, <1>12, OverlayKeeps DEF Lined
  <1>20. MapOK(identities, mints)'
    <2>1. ASSUME NEW t \in Tuples, NEW u \in Tuples, NEW p \in 1 .. Len(identities'[t]),
                 NEW q \in 1 .. Len(identities'[u]), identities'[t][p] = identities'[u][q]
          PROVE  t = u /\ p = q
      <3>1. PICK i \in 1 .. n : claims[i].tuple = t /\ PlaceOf(claims', i) = p /\ identities'[t][p] = C(i)
        BY <1>9
      <3>2. PICK j \in 1 .. n : claims[j].tuple = u /\ PlaceOf(claims', j) = q /\ identities'[u][q] = C(j)
        BY <1>9
      <3>3. i = j
        BY <3>1, <3>2, <2>1, <1>16, Zenon
      <3> QED
        BY <3>1, <3>2, <3>3
    <2>2. \A t \in Tuples : \A p \in 1 .. Len(identities'[t]) :
             identities'[t][p][1] = "own" /\ identities'[t][p][2] \in 1 .. mints'
      BY <1>3, <1>9, <1>17
    <2> QED
      BY <2>1, <2>2 DEF MapOK
  <1>21. PubTogether' /\ PubKnown' /\ PubStays'
    <2>1. \A i \in 1 .. Len(claims') : claims'[i].claim[1] # "pub"
      BY <1>6, <1>7, <1>17
    <2>2. stamps' = {}
      BY <1>1, <1>14
    <2> QED
      BY <2>1, <2>2 DEF PubTogether, PubKnown, PubStays
  <1>22. Explained'
    <2> SUFFICES ASSUME NEW i \in 1 .. Len(followed.image) PROVE ExplainedAt(i)'
      BY <1>1 DEF Explained
    <2>1. i \in 1 .. n /\ claims[i].thing = followed.image[i].thing /\ claims[i].tuple = followed.image[i].tuple
      <3>1. followed.image \in IdImages
        BY <1>2 DEF IdentityTypes
      <3>2. Len(followed.image) \in Nat
        BY <3>1 DEF IdImages
      <3> QED
        BY <3>2, <1>2, <1>13
    <2>2. PlaceOf(followed.image, i) = PlaceOf(claims', i)
      <3>1. \A t : Upto(At(followed.image, t), i) = Upto(At(claims, t), i)
        <4>1. followed.image \in Seq([tuple : Tuples, thing : IdThings])
          BY <1>2 DEF IdentityTypes, IdImages
        <4>2. \A k \in 1 .. Len(followed.image) :
                 followed.image[k].tuple = claims[k].tuple /\ followed.image[k].thing = claims[k].thing
          BY <1>13, Zenon
        <4> QED
          BY <4>1, <4>2, <1>2, <1>13, PrefixLines
      <3> QED
        BY <3>1, <2>1, <1>11 DEF PlaceOf
    <2>3. PlaceOf(followed.image, i)' = PlaceOf(followed.image, i)
      BY <1>1 DEF PlaceOf, At, Upto
    <2>4. /\ PlaceOf(claims', i) \in 1 .. Len(identities'[followed.image[i].tuple])
          /\ identities'[followed.image[i].tuple][PlaceOf(claims', i)] = claims'[i].claim
          /\ i \in 1 .. Len(claims') /\ claims'[i].thing = followed.image[i].thing
      BY <2>1, <1>6, <1>7, <1>9
    <2> QED
      BY <2>2, <2>3, <2>4, <1>1, Zenon DEF ExplainedAt
  <1>23. OldRows'
    BY <1>1 DEF OldRows
  <1>24. Saved'
    <2>1. \A i, j \in 1 .. n : claims'[i].claim = claims'[j].claim => i = j
      BY <1>7, <1>16
    <2>2. \A i \in 1 .. n : claims'[i].claim # Identity!NoClaim
      BY <1>7, <1>17
    <2>3. Identity!Saves(claims)'
      BY <2>1, <2>2, <1>6 DEF Identity!Saves, Identity!Loads, Identity!NoClaim
    <2> QED
      BY <2>3 DEF Saved
  <1>25. RowsListed(of)'
    <2>1. \A i \in 1 .. Len(claims') : claims'[i].thing[1] # "own" =>
             ListedNow(of, claims'[i].tuple, claims'[i].thing)
      BY <1>6, <1>7, <1>15
    <2> QED
      BY <2>1, LinedNow
  <1>26. RowsNamed(of)'
    <2>1. ASSUME NEW i \in 1 .. n PROVE MappedNow(of, claims[i].tuple, claims[i].thing, C(i))
      <3> DEFINE t == claims[i].tuple
                 p == PlaceOf(claims', i)
                 c == Identity!ThingsOf(claims, t)
      <3>1. t \in Tuples /\ p \in 1 .. Len(identities'[t]) /\ identities'[t][p] = C(i)
        BY <1>7, <1>9
      <3>2. ASSUME t \notin shifted' PROVE p \in 1 .. Len(history'[t]) /\ claims[i].thing = history'[t][p]
        <4>1. Lines(claims, t, c)
          BY <1>2, ThingsLines
        <4>2. i \in At(claims, t)
          BY <1>2 DEF At
        <4>3. p = Upto(At(claims, t), i)
          BY <1>11
        <4>4. IsPre(c, history[t])
          BY <3>1, <3>2, <1>1, <1>13
        <4> HIDE DEF c, t, p
        <4>5. p \in 1 .. Len(c) /\ c[p] = claims[i].thing /\ Len(c) \in Nat
          BY <4>1, <4>2, <4>3 DEF Lines, IsList
        <4>6. Len(history[t]) \in Nat
          BY <3>1, <1>2 DEF IdentityTypes
        <4> QED
          BY <4>4, <4>5, <4>6, <1>1 DEF IsPre
      <3>3. ListedNow(of, t, claims[i].thing)
        BY <1>15
      <3> HIDE DEF t, p
      <3> QED
        BY <3>1, <3>2, <3>3 DEF MappedNow, t
    <2>2. \A i \in 1 .. Len(claims') : NamesNow(of, claims'[i].tuple, claims'[i].thing, claims'[i].claim)
      BY <2>1, <1>6, <1>7 DEF NamesNow
    <2> QED
      BY <2>2, LinedNow
  <1>27. StampsNamed(of)'
    <2>1. stamps' = {}
      BY <1>1, <1>14
    <2> QED
      BY <2>1, LinedNow
  <1>28. Lined(of)'
    BY <1>19, <1>25, <1>26, <1>27 DEF Lined
  <1> QED
    BY <1>18, <1>19, <1>20, <1>21, <1>22, <1>23, <1>24, <1>28 DEF IdentityInv

\* The map after ids were given.
LEMMA RecordedOver ==
    ASSUME NEW reuse \in IdMaps, NEW given \in IdMaps
    PROVE  LET m == Identity!RecordMinted(reuse, given)
           IN  m \in IdMaps /\ \A t \in Tuples : Over(given[t], reuse[t], m[t])
  <1> DEFINE J(t) == given[t] \o SubSeq(reuse[t], Len(given[t]) + 1, Len(reuse[t]))
             m == [t \in Tuples |-> J(t)]
  <1>1. \A t \in Tuples : J(t) \in Seq(IdClaims) /\ Over(given[t], reuse[t], J(t))
    <2>1. \A t \in Tuples : given[t] \in Seq(IdClaims) /\ reuse[t] \in Seq(IdClaims)
      BY DEF IdMaps
    <2> QED
      BY <2>1, OverStart
  <1>2. Identity!RecordMinted(reuse, given) = m
    BY DEF Identity!RecordMinted
  <1> HIDE DEF J
  <1>3. m \in IdMaps /\ \A t \in Tuples : m[t] = J(t)
    BY <1>1 DEF IdMaps
  <1> HIDE DEF m
  <1> QED
    BY <1>1, <1>2, <1>3

\* An overlay takes a release: its rows, the map and the number of ids after it.
Filled(reuse, im, m, n) ==
    /\ im \in Seq(IdRows) /\ Len(im) = Len(release.image)
    /\ \A i \in 1 .. Len(im) :
           im[i].tuple = release.image[i].tuple /\ im[i].thing = release.image[i].thing
    /\ release.identified =>
           \A i \in 1 .. Len(im) : im[i].claim = <<"pub", release.image[i].thing[2]>>
    /\ ~release.identified =>
           \A i \in 1 .. Len(im) :
               /\ PlaceOf(release.image, i) \in 1 .. Len(m[im[i].tuple])
               /\ im[i].claim = m[im[i].tuple][PlaceOf(release.image, i)]
    /\ m \in IdMaps /\ MapOK(m, n) /\ n \in Nat /\ n >= mints /\ Extends(reuse, m, mints, n)

\* That is what filling in ids gives.
LEMMA FilledIs ==
    ASSUME IdentityTypes, NEW reuse \in IdMaps, MapOK(reuse, mints)
    PROVE  LET f == Identity!Backfill(Identity!RelabelCloneReceipts(Identity!Bundle(release)), reuse)
           IN  Filled(reuse, f.image, Identity!RecordMinted(reuse, f.given), f.mints)
  <1> DEFINE im == Identity!RelabelCloneReceipts(Identity!Bundle(release))
             f == Identity!AllNamed(im, reuse, TRUE)
             m == Identity!RecordMinted(reuse, f.given)
             n == Len(im)
  <1>1. mints \in Nat /\ release.image \in IdImages /\ release.identified \in BOOLEAN
    BY DEF IdentityTypes
  <1>2. BundleOf(release, im, "none")
    BY <1>1, BundleIs
  <1> HIDE DEF im
  <1>3. /\ im \in Seq(IdEdges) /\ Len(im) = Len(release.image)
        /\ \A i \in 1 .. Len(im) :
              /\ im[i].tuple = release.image[i].tuple /\ im[i].thing = release.image[i].thing
              /\ im[i].receipt = "none"
              /\ im[i].claim = IF release.identified THEN <<"pub", release.image[i].thing[2]>> ELSE Identity!NoClaim
    BY <1>2 DEF BundleOf
  <1>4. \A i \in 1 .. Len(im) : PlaceOf(im, i) = PlaceOf(release.image, i)
    BY <1>1, <1>2, BundlePlaces
  <1>5. n \in Nat /\ \A i \in 1 .. n : im[i] \in IdEdges /\ im[i].tuple \in Tuples
    <2>1. n \in Nat /\ \A i \in 1 .. n : im[i] \in IdEdges
      BY <1>3
    <2>2. \A e \in IdEdges : e.tuple \in Tuples
      BY DEF IdEdges
    <2> QED
      BY <2>1, <2>2
  <1>6. TRUE \in BOOLEAN
    OBVIOUS
  <1>7. CASE release.identified
    <2>1. \A i \in 1 .. Len(im) : im[i].claim # Identity!NoClaim /\ im[i].claim = <<"pub", release.image[i].thing[2]>>
      BY <1>3, <1>7 DEF Identity!NoClaim
    <2>2. f \in IdAccs /\ f.image = im /\ f.mints = mints /\ f.given = [t \in Tuples |-> <<>>]
      BY <2>1, <1>1, <1>3, <1>6, IdentifiedNamed, Zenon
    <2> HIDE DEF f
    <2>3. f.given \in IdMaps /\ \A t \in Tuples : Len(f.given[t]) = 0
      BY <2>2 DEF IdAccs
    <2>4. m \in IdMaps /\ \A t \in Tuples : Over(f.given[t], reuse[t], m[t])
      BY <2>3, RecordedOver
    <2> HIDE DEF m
    <2>5. \A t \in Tuples : /\ \A p \in 1 .. Len(reuse[t]) : p \in 1 .. Len(m[t]) /\ m[t][p] = reuse[t][p]
                            /\ \A p \in 1 .. Len(m[t]) : p \in 1 .. Len(reuse[t])
      <3>1. ASSUME NEW t \in Tuples
            PROVE /\ \A p \in 1 .. Len(reuse[t]) : p \in 1 .. Len(m[t]) /\ m[t][p] = reuse[t][p]
                  /\ \A p \in 1 .. Len(m[t]) : p \in 1 .. Len(reuse[t])
        <4>1. Over(f.given[t], reuse[t], m[t]) /\ Len(f.given[t]) = 0
          BY <2>3, <2>4
        <4>2. Len(reuse[t]) \in Nat
          BY DEF IdMaps
        <4> QED
          BY <4>1, <4>2 DEF Over
      <3> QED
        BY <3>1
    <2>6. Extends(reuse, m, mints, f.mints)
      BY <2>5 DEF Extends
    <2>7. MapOK(m, f.mints)
      <3>1. ASSUME NEW t \in Tuples, NEW u \in Tuples, NEW p \in 1 .. Len(m[t]), NEW q \in 1 .. Len(m[u]),
                   m[t][p] = m[u][q]
            PROVE  t = u /\ p = q
        <4>1. p \in 1 .. Len(reuse[t]) /\ q \in 1 .. Len(reuse[u]) /\ reuse[t][p] = reuse[u][q]
          BY <2>5, <3>1, Zenon
        <4> QED
          BY <4>1 DEF MapOK
      <3>2. ASSUME NEW t \in Tuples, NEW p \in 1 .. Len(m[t])
            PROVE  m[t][p][1] = "own" /\ m[t][p][2] \in 1 .. mints
        <4>1. p \in 1 .. Len(reuse[t]) /\ m[t][p] = reuse[t][p]
          BY <2>5
        <4> QED
          BY <4>1 DEF MapOK
      <3> QED
        BY <3>1, <3>2, <2>2 DEF MapOK
    <2>8. im \in Seq(IdRows)
      <3>1. \A e \in IdEdges : e.receipt = "none" => e \in IdRows
        BY DEF IdEdges, IdRows
      <3>2. \A i \in 1 .. Len(im) : im[i] \in IdRows
        BY <3>1, <1>3, <1>5, Zenon
      <3>3. IsList(im)
        BY <1>3 DEF IsList
      <3> QED
        BY <3>2, <3>3, ListIsSeq
    <2>9. Filled(reuse, im, m, f.mints)
      <3>1. f.mints \in Nat /\ f.mints >= mints
        BY <2>2, <1>1
      <3> QED
        BY <3>1, <2>1, <2>4, <2>6, <2>7, <2>8, <1>3, <1>7 DEF Filled
    <2>10. Filled(reuse, f.image, m, f.mints)
      BY <2>2, <2>9
    <2> QED
      BY <2>10, Zenon DEF m, f, im, Identity!Backfill
  <1>8. CASE ~release.identified
    <2>1. \A i \in 1 .. Len(im) : im[i].claim = Identity!NoClaim
      BY <1>3, <1>8
    <2>2. f \in IdAccs /\ NamedUpTo(im, reuse, f, n)
      BY <2>1, <1>1, <1>3, <1>6, BareNamed, Zenon
    <2> HIDE DEF f
    <2>3. f.image \in Seq(IdEdges) /\ f.given \in IdMaps /\ f.mints \in Nat
      BY <2>2 DEF IdAccs
    <2>4. /\ Len(f.image) = n /\ f.mints >= mints
          /\ \A t \in Tuples : \A p \in 1 .. Len(f.given[t]) :
                IF p <= Len(reuse[t]) THEN f.given[t][p] = reuse[t][p]
                ELSE f.given[t][p][1] = "own" /\ f.given[t][p][2] \in mints + 1 .. f.mints
          /\ \A t, u \in Tuples : \A p \in 1 .. Len(f.given[t]), q \in 1 .. Len(f.given[u]) :
                f.given[t][p] = f.given[u][q] => t = u /\ p = q
          /\ \A i \in 1 .. n :
                /\ PlaceOf(im, i) \in 1 .. Len(f.given[im[i].tuple])
                /\ f.image[i] = [im[i] EXCEPT !.claim = f.given[im[i].tuple][PlaceOf(im, i)]]
      BY <2>2 DEF NamedUpTo
    <2>5. m \in IdMaps /\ \A t \in Tuples : Over(f.given[t], reuse[t], m[t])
      BY <2>3, RecordedOver
    <2> HIDE DEF m
    <2>6. \A t \in Tuples : Len(f.given[t]) \in Nat /\ Len(reuse[t]) \in Nat /\ Len(m[t]) \in Nat
      BY <2>3, <2>5 DEF IdMaps
    <2> DEFINE Was(t, p) == p \in 1 .. Len(reuse[t]) /\ m[t][p] = reuse[t][p]
               Added(t, p) == /\ p \in 1 .. Len(f.given[t]) /\ m[t][p] = f.given[t][p]
                              /\ m[t][p][1] = "own" /\ m[t][p][2] \in mints + 1 .. f.mints
    <2>7. ASSUME NEW t \in Tuples, NEW p \in 1 .. Len(m[t]) PROVE Was(t, p) \/ Added(t, p)
      <3>1. Over(f.given[t], reuse[t], m[t])
        BY <2>5
      <3>2. CASE p \in 1 .. Len(f.given[t])
        <4>1. m[t][p] = f.given[t][p]
          BY <3>1, <3>2 DEF Over
        <4>2. CASE p <= Len(reuse[t])
          <5>1. p \in 1 .. Len(reuse[t])
            BY <4>2, <3>2, <2>6
          <5>2. f.given[t][p] = reuse[t][p]
            BY <4>2, <3>2, <2>4
          <5> QED
            BY <4>1, <5>1, <5>2
        <4>3. CASE ~(p <= Len(reuse[t]))
          <5>1. f.given[t][p][1] = "own" /\ f.given[t][p][2] \in mints + 1 .. f.mints
            BY <4>3, <3>2, <2>4, Zenon
          <5> QED
            BY <3>2, <4>1, <5>1
        <4> QED
          BY <4>2, <4>3
      <3>3. CASE p \in 1 .. Len(reuse[t]) /\ p > Len(f.given[t])
        <4>1. m[t][p] = reuse[t][p]
          BY <3>1, <3>3 DEF Over
        <4> QED
          BY <4>1, <3>3
      <3> QED
        BY <3>1, <3>2, <3>3 DEF Over
    <2>8. ASSUME NEW t \in Tuples, NEW p \in 1 .. Len(reuse[t])
          PROVE  p \in 1 .. Len(m[t]) /\ m[t][p] = reuse[t][p]
      <3>1. Over(f.given[t], reuse[t], m[t])
        BY <2>5
      <3>2. CASE p <= Len(f.given[t])
        <4>1. p \in 1 .. Len(f.given[t]) /\ p <= Len(reuse[t])
          BY <3>2, <2>6
        <4>2. p \in 1 .. Len(m[t]) /\ m[t][p] = f.given[t][p]
          BY <4>1, <3>1 DEF Over
        <4>3. f.given[t][p] = reuse[t][p]
          BY <4>1, <2>4
        <4> QED
          BY <4>2, <4>3
      <3>3. CASE ~(p <= Len(f.given[t]))
        <4>1. p > Len(f.given[t])
          BY <3>3, <2>6
        <4> QED
          BY <4>1, <3>1 DEF Over
      <3> QED
        BY <3>2, <3>3
    <2>9. Extends(reuse, m, mints, f.mints)
      BY <2>7, <2>8 DEF Extends
    <2>10. MapOK(m, f.mints)
      <3>1. \A t \in Tuples : \A p : Was(t, p) => m[t][p][1] = "own" /\ m[t][p][2] \in 1 .. mints
        BY DEF MapOK
      <3>2. ASSUME NEW t \in Tuples, NEW u \in Tuples, NEW p \in 1 .. Len(m[t]), NEW q \in 1 .. Len(m[u]),
                   m[t][p] = m[u][q]
            PROVE  t = u /\ p = q
        <4>1. CASE Was(t, p) /\ Was(u, q)
          <5>1. p \in 1 .. Len(reuse[t]) /\ q \in 1 .. Len(reuse[u]) /\ reuse[t][p] = reuse[u][q]
            BY <4>1, <3>2
          <5> QED
            BY <5>1 DEF MapOK
        <4>2. CASE Added(t, p) /\ Added(u, q)
          <5>1. p \in 1 .. Len(f.given[t]) /\ q \in 1 .. Len(f.given[u]) /\ f.given[t][p] = f.given[u][q]
            BY <4>2, <3>2
          <5> QED
            BY <5>1, <2>4
        <4>3. CASE Was(t, p) /\ Added(u, q)
          <5>1. m[t][p][2] \in 1 .. mints /\ m[t][p][2] \in mints + 1 .. f.mints
            BY <4>3, <3>1, <3>2, Zenon
          <5> QED
            BY <5>1, <1>1
        <4>4. CASE Added(t, p) /\ Was(u, q)
          <5>1. m[u][q][2] \in 1 .. mints /\ m[u][q][2] \in mints + 1 .. f.mints
            BY <4>4, <3>1, <3>2, Zenon
          <5> QED
            BY <5>1, <1>1
        <4> QED
          BY <4>1, <4>2, <4>3, <4>4, <2>7
      <3>3. ASSUME NEW t \in Tuples, NEW p \in 1 .. Len(m[t])
            PROVE  m[t][p][1] = "own" /\ m[t][p][2] \in 1 .. f.mints
        <4>1. \A k : k \in 1 .. mints \/ k \in mints + 1 .. f.mints => k \in 1 .. f.mints
          BY <1>1, <2>3, <2>4
        <4>2. CASE Was(t, p)
          BY <4>1, <4>2, <3>1
        <4>3. CASE Added(t, p)
          BY <4>1, <4>3
        <4> QED
          BY <4>2, <4>3, <2>7
      <3> QED
        BY <3>2, <3>3 DEF MapOK
    <2>11. ASSUME NEW i \in 1 .. n
           PROVE  /\ f.image[i] \in IdRows /\ f.image[i].tuple = im[i].tuple /\ f.image[i].thing = im[i].thing
                  /\ PlaceOf(im, i) \in 1 .. Len(m[im[i].tuple])
                  /\ f.image[i].claim = m[im[i].tuple][PlaceOf(im, i)]
      <3> DEFINE t == im[i].tuple
                 p == PlaceOf(im, i)
                 c == f.given[t][p]
      <3>1. t \in Tuples /\ p \in 1 .. Len(f.given[t]) /\ f.image[i] = [im[i] EXCEPT !.claim = c] /\ im[i] \in IdEdges
        BY <2>4, <1>5
      <3>2. c \in IdClaims
        <4>1. f.given[t] \in Seq(IdClaims)
          BY <3>1, <2>3 DEF IdMaps
        <4> HIDE DEF t, p
        <4> QED
          BY <4>1, <3>1
      <3>3. p \in 1 .. Len(m[t]) /\ m[t][p] = c
        <4>1. Over(f.given[t], reuse[t], m[t])
          BY <3>1, <2>5
        <4> HIDE DEF t, p
        <4> QED
          BY <4>1, <3>1 DEF Over
      <3>4. im[i].receipt = "none"
        BY <1>3, Zenon
      <3>5. \A e \in IdEdges, d \in IdClaims : e.receipt = "none" =>
               LET g == [e EXCEPT !.claim = d]
               IN  g \in IdRows /\ g.tuple = e.tuple /\ g.thing = e.thing /\ g.claim = d
        BY DEF IdEdges, IdRows
      <3> HIDE DEF c, t, p
      <3>6. f.image[i] \in IdRows /\ f.image[i].tuple = im[i].tuple /\ f.image[i].thing = im[i].thing
            /\ f.image[i].claim = c
        BY <3>1, <3>2, <3>4, <3>5
      <3> QED
        BY <3>3, <3>6 DEF t, p
    <2>12. f.image \in Seq(IdRows)
      <3>1. IsList(f.image)
        BY <2>3 DEF IsList
      <3> QED
        BY <3>1, <2>4, <2>11, ListIsSeq
    <2>13. ASSUME NEW i \in 1 .. Len(f.image)
           PROVE  /\ f.image[i].tuple = release.image[i].tuple /\ f.image[i].thing = release.image[i].thing
                  /\ PlaceOf(release.image, i) \in 1 .. Len(m[f.image[i].tuple])
                  /\ f.image[i].claim = m[f.image[i].tuple][PlaceOf(release.image, i)]
      <3>1. i \in 1 .. n
        BY <2>4
      <3> QED
        BY <3>1, <2>11, <1>3, <1>4, Zenon
    <2>14. Filled(reuse, f.image, m, f.mints)
      BY <2>3, <2>4, <2>5, <2>9, <2>10, <2>12, <2>13, <1>3, <1>8 DEF Filled
    <2> QED
      BY <2>14, Zenon DEF m, f, im, Identity!Backfill
  <1> QED
    BY <1>1, <1>7, <1>8

\* A release is taken, and the local rows stay beside it.
Taken(reuse, im, loc) ==
    /\ Filled(reuse, im, identities', mints')
    /\ loc \in Seq(IdRows) /\ claims' = im \o loc
    /\ \A j \in 1 .. Len(loc) : \E k \in 1 .. Len(claims) : loc[j] = claims[k]
    /\ \A i \in 1 .. Len(im), j \in 1 .. Len(loc) : im[i].tuple # loc[j].tuple
    /\ Identity!Saves(claims)' /\ era' = "new" /\ followed' = release
    /\ UNCHANGED <<release, things, history, shifted, stamps>>
    /\ (era = "new" /\ reuse = identities) \/ (era = "none" /\ loc = <<>>)

\* Taking a release keeps the invariant.
LEMMA TakenKeeps ==
    ASSUME IdentityInv, NEW reuse, NEW im, NEW loc, Taken(reuse, im, loc)
    PROVE  IdentityInv'
  <1> DEFINE n == Len(im)
             m == Len(loc)
  <1>1. /\ loc \in Seq(IdRows) /\ claims' = im \o loc
        /\ \A j \in 1 .. Len(loc) : \E k \in 1 .. Len(claims) : loc[j] = claims[k]
        /\ \A i \in 1 .. Len(im), j \in 1 .. Len(loc) : im[i].tuple # loc[j].tuple
        /\ Identity!Saves(claims)' /\ era' = "new" /\ followed' = release
        /\ release' = release /\ things' = things /\ history' = history /\ shifted' = shifted
        /\ stamps' = stamps
        /\ (era = "new" /\ reuse = identities) \/ (era = "none" /\ loc = <<>>)
    BY DEF Taken
  <1>2. /\ im \in Seq(IdRows) /\ Len(im) = Len(release.image)
        /\ \A i \in 1 .. Len(im) :
              im[i].tuple = release.image[i].tuple /\ im[i].thing = release.image[i].thing
        /\ release.identified =>
              \A i \in 1 .. Len(im) : im[i].claim = <<"pub", release.image[i].thing[2]>>
        /\ ~release.identified =>
              \A i \in 1 .. Len(im) :
                  /\ PlaceOf(release.image, i) \in 1 .. Len(identities'[im[i].tuple])
                  /\ im[i].claim = identities'[im[i].tuple][PlaceOf(release.image, i)]
        /\ identities' \in IdMaps /\ MapOK(identities', mints') /\ mints' \in Nat /\ mints' >= mints
        /\ Extends(reuse, identities', mints, mints')
    BY Zenon DEF Taken, Filled
  <1>3. /\ IdentityTypes /\ mints \in Nat /\ release.image \in Seq([tuple : Tuples, thing : IdThings])
        /\ release.identified \in BOOLEAN /\ n \in Nat /\ m \in Nat
    BY <1>1, <1>2, ReleaseLines DEF IdentityInv, IdentityTypes
  <1>4. PICK of \in Owners : Lined(of)
    BY DEF IdentityInv
  <1>5. /\ claims' \in Seq(IdRows) /\ Len(claims') = n + m
        /\ \A i \in 1 .. n : claims'[i] = im[i]
        /\ \A j \in 1 .. m : claims'[n + j] = loc[j]
    <2>1. im \in Seq(IdRows) /\ loc \in Seq(IdRows) /\ claims' = im \o loc
      BY <1>1, <1>2
    <2>2. /\ im \o loc \in Seq(IdRows) /\ Len(im \o loc) = n + m
          /\ \A i \in 1 .. n : (im \o loc)[i] = im[i]
          /\ \A j \in 1 .. m : (im \o loc)[n + j] = loc[j]
      BY <2>1
    <2> QED
      BY <2>1, <2>2
  <1> DEFINE First(i) == i \in 1 .. n /\ claims'[i] = im[i]
             Kept(i, k) == k \in 1 .. Len(claims) /\ claims'[i] = claims[k]
             Later(i) == (\E k : Kept(i, k)) /\ era = "new" /\ reuse = identities
                         /\ \E j \in 1 .. m : claims'[i] = loc[j]
  <1>6. ASSUME NEW i \in 1 .. Len(claims') PROVE First(i) \/ Later(i)
    <2>1. CASE i <= n
      BY <2>1, <1>3, <1>5
    <2>2. CASE ~(i <= n)
      <3>1. i - n \in 1 .. m /\ n + (i - n) = i
        BY <2>2, <1>3, <1>5
      <3>2. claims'[i] = loc[i - n]
        BY <3>1, <1>5
      <3>3. \E k : Kept(i, k)
        BY <3>1, <3>2, <1>1
      <3>4. loc # <<>>
        BY <3>1
      <3> QED
        BY <3>1, <3>2, <3>3, <3>4, <1>1, Zenon
    <2> QED
      BY <2>1, <2>2
  <1>7. \A i \in 1 .. n : /\ im[i].tuple \in Tuples /\ im[i].thing \in IdThings /\ im[i].thing[1] = "pub"
                          /\ Listed(of, im[i].tuple, im[i].thing)
    <2>1. \A i \in 1 .. n : im[i] \in IdRows
      BY <1>2
    <2> QED
      BY <2>1, <1>2, <1>4, ThingsTyped DEF Lined, ImageListed
  <1>8. \A i \in 1 .. n : ListedNow(of, im[i].tuple, im[i].thing)
    BY <1>1, <1>7, OverlayKeeps
  <1>9. ASSUME NEW i \in 1 .. n PROVE NamesNow(of, im[i].tuple, im[i].thing, im[i].claim)
    <2> DEFINE t == im[i].tuple
               x == im[i].thing
               c == im[i].claim
    <2>1. CASE release.identified
      <3>1. c = <<"pub", x[2]>>
        BY <2>1, <1>2
      <3>2. x = <<"pub", x[2]>>
        BY <1>7 DEF IdThings
      <3>3. x = c /\ c[1] = "pub"
        BY <3>1, <3>2
      <3>4. \A u \in Tuples : \A p \in 1 .. Len(identities'[u]) : identities'[u][p] # c
        <4>1. \A u \in Tuples : \A p \in 1 .. Len(identities'[u]) : identities'[u][p][1] = "own"
          BY <1>2 DEF MapOK
        <4> QED
          BY <4>1, <3>3
      <3>5. MadeNow(x, c)
        BY <3>3, <3>4 DEF MadeNow
      <3> QED
        BY <3>5 DEF NamesNow
    <2>2. CASE ~release.identified
      <3> DEFINE p == PlaceOf(release.image, i)
                 d == Identity!ThingsOf(release.image, t)
      <3>1. p \in 1 .. Len(identities'[t]) /\ c = identities'[t][p] /\ t \in Tuples
        BY <2>2, <1>2, <1>7
      <3>2. ListedNow(of, t, x)
        BY <1>8
      <3>3. ASSUME t \notin shifted' PROVE p \in 1 .. Len(history'[t]) /\ x = history'[t][p]
        <4>1. Lines(release.image, t, d)
          BY <1>3, ThingsLines
        <4>2. i \in At(release.image, t) /\ p = Upto(At(release.image, t), i) /\ x = release.image[i].thing
          <5>1. t = release.image[i].tuple /\ x = release.image[i].thing /\ i \in DOMAIN release.image
            <6>1. DOMAIN release.image = 1 .. Len(release.image)
              BY <1>3
            <6> QED
              BY <6>1, <1>2
          <5> QED
            BY <5>1 DEF At, PlaceOf
        <4>3. IsPre(d, history[t])
          BY <3>1, <3>3, <1>1 DEF IdentityInv, InPlace
        <4>4. Len(d) \in Nat /\ Len(history[t]) \in Nat
          BY <3>1, ReleaseLines
        <4> HIDE DEF d, t, p, x
        <4>5. p \in 1 .. Len(d) /\ d[p] = x
          BY <4>1, <4>2 DEF Lines
        <4> QED
          BY <4>3, <4>4, <4>5, <1>1 DEF IsPre
      <3> HIDE DEF t, p, x, c
      <3>4. MappedNow(of, t, x, c)
        BY <3>1, <3>2, <3>3 DEF MappedNow
      <3> QED
        BY <3>4 DEF NamesNow, t, x, c
    <2> QED
      BY <2>1, <2>2
  <1>10. ASSUME reuse = identities
         PROVE  \A u \in Tuples, d \in IdClaims : \A x : Names(of, u, x, d) => NamesNow(of, u, x, d)
    <2>1. Extends(identities, identities', mints, mints')
      BY <1>2, <1>10
    <2> QED
      BY <2>1, <1>1, <1>2, <1>3, NamesStay
  <1>11. IdentityTypes'
    <2>1. era' \in {"none", "old", "new"} /\ followed'.image \in IdImages /\ followed'.identified \in BOOLEAN
      BY <1>1, <1>3 DEF IdImages
    <2> QED
      BY <2>1, <1>1, <1>2, <1>3, <1>5 DEF IdentityTypes
  <1>12. InPlace' /\ ImageListed(of)' /\ HistoryListed(of)'
    BY <1>1, <1>4, OverlayKeeps DEF Lined
  <1>13. MapOK(identities, mints)'
    BY <1>2 DEF MapOK
  <1>14. \A i \in 1 .. n : im[i].claim[1] = "pub" <=> release.identified
    <2>1. CASE release.identified
      BY <2>1, <1>2
    <2>2. CASE ~release.identified
      <3>1. ASSUME NEW i \in 1 .. n PROVE im[i].claim[1] = "own"
        BY <2>2, <1>2, <1>7 DEF MapOK
      <3> QED
        BY <3>1, <2>2
    <2> QED
      BY <2>1, <2>2
  <1>15. PubTogether'
    <2>1. PubTogether
      BY DEF IdentityInv
    <2>2. ASSUME NEW i \in 1 .. Len(claims'), NEW j \in 1 .. Len(claims'),
                 claims'[i].tuple = claims'[j].tuple, claims'[i].claim[1] = "pub"
          PROVE  claims'[j].claim[1] = "pub"
      <3>1. CASE First(i) /\ First(j)
        BY <3>1, <2>2, <1>14
      <3>2. CASE First(i) /\ Later(j)
        BY <3>2, <2>2, <1>1
      <3>3. CASE Later(i) /\ First(j)
        BY <3>3, <2>2, <1>1
      <3>4. CASE Later(i) /\ Later(j)
        <4>1. PICK k : Kept(i, k)
          BY <3>4, Zenon
        <4>2. PICK l : Kept(j, l)
          BY <3>4, Zenon
        <4> QED
          BY <4>1, <4>2, <2>1, <2>2 DEF PubTogether
      <3> QED
        BY <3>1, <3>2, <3>3, <3>4, <1>6, Zenon
    <2> QED
      BY <2>2 DEF PubTogether
  <1>16. PubKnown'
    <2>1. PubKnown
      BY DEF IdentityInv
    <2>2. ASSUME NEW i \in 1 .. Len(claims'), claims'[i].claim[1] = "pub" PROVE release.identified
      <3>1. CASE First(i)
        BY <3>1, <2>2, <1>14
      <3>2. CASE Later(i)
        BY <3>2, <2>1, <2>2, Zenon DEF PubKnown
      <3> QED
        BY <3>1, <3>2, <1>6
    <2> QED
      BY <2>1, <2>2, <1>1 DEF PubKnown
  <1>17. PubStays'
    <2>1. PubStays /\ PubKnown
      BY DEF IdentityInv
    <2>2. ASSUME NEW s \in stamps, NEW i \in 1 .. Len(claims'), s.claim[1] = "pub", claims'[i].thing = s.thing
          PROVE  claims'[i].claim[1] = "pub"
      <3>1. release.identified
        BY <2>1, <2>2 DEF PubKnown
      <3>2. CASE First(i)
        BY <3>1, <3>2, <1>14
      <3>3. CASE Later(i)
        BY <3>3, <2>1, <2>2, Zenon DEF PubStays
      <3> QED
        BY <3>2, <3>3, <1>6
    <2> QED
      BY <2>2, <1>1 DEF PubStays
  <1>18. Explained'
    <2> SUFFICES ASSUME ~release.identified, NEW i \in 1 .. Len(release.image) PROVE ExplainedAt(i)'
      BY <1>1 DEF Explained
    <2>1. PlaceOf(followed.image, i)' = PlaceOf(release.image, i)
      BY <1>1 DEF PlaceOf, At, Upto
    <2>2. i \in 1 .. n
      BY <1>2
    <2>3. /\ PlaceOf(release.image, i) \in 1 .. Len(identities'[release.image[i].tuple])
          /\ im[i].claim = identities'[release.image[i].tuple][PlaceOf(release.image, i)]
          /\ im[i].thing = release.image[i].thing
      BY <2>2, <1>2, Zenon
    <2>4. i \in 1 .. Len(claims') /\ claims'[i] = im[i]
      BY <2>2, <1>3, <1>5
    <2> QED
      BY <2>1, <2>3, <2>4, <1>1, Zenon DEF ExplainedAt
  <1>19. OldRows' /\ Saved'
    BY <1>1 DEF OldRows, Saved
  <1>20. RowsListed(of)'
    <2>1. ASSUME NEW i \in 1 .. Len(claims'), claims'[i].thing[1] # "own"
          PROVE  ListedNow(of, claims'[i].tuple, claims'[i].thing)
      <3>1. CASE First(i)
        BY <3>1, <1>8
      <3>2. CASE Later(i)
        <4>1. PICK k : Kept(i, k)
          BY <3>2, Zenon
        <4>2. Listed(of, claims[k].tuple, claims[k].thing)
          BY <4>1, <2>1, <1>4 DEF Lined, RowsListed
        <4>3. ListedNow(of, claims[k].tuple, claims[k].thing)
          BY <4>2, <1>1, OverlayKeeps
        <4> QED
          BY <4>1, <4>3
      <3> QED
        BY <3>1, <3>2, <1>6, Zenon
    <2> QED
      BY <2>1, LinedNow
  <1>21. RowsNamed(of)'
    <2>1. ASSUME NEW i \in 1 .. Len(claims')
          PROVE  NamesNow(of, claims'[i].tuple, claims'[i].thing, claims'[i].claim)
      <3>1. CASE First(i)
        BY <3>1, <1>9
      <3>2. CASE Later(i)
        <4>1. PICK k : Kept(i, k)
          BY <3>2, Zenon
        <4>2. Names(of, claims[k].tuple, claims[k].thing, claims[k].claim)
          BY <3>2, <4>1, <1>4 DEF Lined, RowsNamed
        <4>3. claims[k].tuple \in Tuples /\ claims[k].claim \in IdClaims
          BY <4>1, RowFields
        <4>4. NamesNow(of, claims[k].tuple, claims[k].thing, claims[k].claim)
          BY <3>2, <4>2, <4>3, <1>10
        <4> QED
          BY <4>1, <4>4
      <3> QED
        BY <3>1, <3>2, <1>6
    <2> QED
      BY <2>1, LinedNow
  <1>22. StampsNamed(of)'
    <2>1. \A s \in stamps : s.claim \in IdClaims
      BY <1>3 DEF IdentityTypes
    <2>2. \A s \in stamps : \E u \in Tuples : NamesNow(of, u, s.thing, s.claim)
      <3>1. CASE era = "new" /\ reuse = identities
        BY <3>1, <2>1, <1>4, <1>10 DEF Lined, StampsNamed
      <3>2. CASE era = "none"
        <4>1. stamps = {}
          BY <3>2, <1>4 DEF Lined, StampsNamed
        <4> QED
          BY <4>1
      <3> QED
        BY <3>1, <3>2, <1>1
    <2>3. (era' # "new" => stamps' = {}) /\ \A s \in stamps' : \E u \in Tuples : NamesNow(of, u, s.thing, s.claim)
      BY <2>2, <1>1
    <2> QED
      BY <2>3, LinedNow
  <1>23. Lined(of)'
    BY <1>12, <1>20, <1>21, <1>22 DEF Lined
  <1> QED
    BY <1>11, <1>12, <1>13, <1>15, <1>16, <1>17, <1>18, <1>19, <1>23 DEF IdentityInv

\* An overlay is created, and later pulls.
LEMMA TakeKeeps == IdentityInv /\ (Identity!CreateOverlay \/ Identity!Pull) => IdentityInv'
  <1> SUFFICES ASSUME IdentityInv, Identity!CreateOverlay \/ Identity!Pull PROVE IdentityInv'
    OBVIOUS
  <1> DEFINE B == Identity!RelabelCloneReceipts(Identity!Bundle(release))
             F(reuse) == Identity!Backfill(B, reuse)
  <1>1. IdentityTypes /\ mints \in Nat /\ MapOK(identities, mints) /\ identities \in IdMaps
        /\ claims \in Seq(IdRows)
    BY DEF IdentityInv, IdentityTypes
  <1>2. CASE Identity!CreateOverlay
    <2> DEFINE reuse == Identity!NoMap
               none == <<>>
    <2>1. /\ era = "none" /\ Identity!Saves(F(reuse).image) /\ claims' = F(reuse).image
          /\ identities' = Identity!RecordMinted(reuse, F(reuse).given) /\ mints' = F(reuse).mints
          /\ era' = "new" /\ followed' = release
          /\ UNCHANGED <<release, things, history, shifted, stamps>>
      BY <1>2 DEF Identity!CreateOverlay
    <2>2. reuse \in IdMaps /\ MapOK(reuse, mints)
      <3>1. <<>> \in Seq(IdClaims) /\ Len(<<>>) = 0
        OBVIOUS
      <3>2. \A t \in Tuples : Len(reuse[t]) = 0
        BY <3>1 DEF Identity!NoMap
      <3>3. reuse \in IdMaps
        BY <3>1 DEF Identity!NoMap, IdMaps
      <3> QED
        BY <3>2, <3>3 DEF MapOK
    <2> HIDE DEF reuse
    <2>3. Filled(reuse, F(reuse).image, Identity!RecordMinted(reuse, F(reuse).given), F(reuse).mints)
      BY <2>2, <1>1, FilledIs
    <2> DEFINE im == F(reuse).image
    <2>4. im \in Seq(IdRows)
      BY <2>3 DEF Filled
    <2>5. Filled(reuse, im, identities', mints')
      BY <2>1, <2>3
    <2>6. claims' = im /\ Identity!Saves(im)
      BY <2>1
    <2> HIDE DEF im, F
    <2>7. im \o <<>> = im
      <3>1. Len(im \o <<>>) = Len(im) /\ im \o <<>> \in Seq(IdRows) /\ \A i \in 1 .. Len(im) : (im \o <<>>)[i] = im[i]
        BY <2>4
      <3> QED
        BY <3>1, <2>4
    <2>8. Identity!Saves(claims)'
      BY <2>6 DEF Identity!Saves, Identity!Loads, Identity!NoClaim
    <2>9. Taken(reuse, im, none)
      BY <2>1, <2>5, <2>6, <2>7, <2>8 DEF Taken
    <2> QED
      BY <2>9, TakenKeeps
  <1>3. CASE Identity!Pull
    <2> DEFINE im == F(identities).image
               loc == Identity!LocalOverlay(claims, release.owned)
    <2>1. /\ era = "new" /\ Identity!Merges(im, loc) /\ Identity!Saves(im \o loc) /\ claims' = im \o loc
          /\ identities' = Identity!RecordMinted(identities, F(identities).given) /\ mints' = F(identities).mints
          /\ era' = "new" /\ followed' = release
          /\ UNCHANGED <<release, things, history, shifted, stamps>>
      BY <1>3 DEF Identity!Pull
    <2>2. Filled(identities, im, Identity!RecordMinted(identities, F(identities).given), F(identities).mints)
      BY <1>1, FilledIs
    <2>3. Filled(identities, im, identities', mints')
      BY <2>1, <2>2
    <2>4. loc \in Seq(IdRows) /\ \A j \in 1 .. Len(loc) : \E k \in 1 .. Len(claims) : loc[j] = claims[k]
      <3> DEFINE keep == {i \in DOMAIN claims : TypeOf[claims[i].tuple] \notin release.owned}
      <3>1. loc = Identity!EdgesAt(claims, keep)
        BY DEF Identity!LocalOverlay
      <3> HIDE DEF loc, keep
      <3> QED
        BY <3>1, <1>1, KeptWithin
    <2>5. im \in Seq(IdRows)
      BY <2>2 DEF Filled
    <2> HIDE DEF im, loc, F
    <2>6. \A i \in 1 .. Len(im), j \in 1 .. Len(loc) : im[i].tuple # loc[j].tuple
      <3>1. DOMAIN im = 1 .. Len(im) /\ DOMAIN loc = 1 .. Len(loc)
        BY <2>4, <2>5
      <3> QED
        BY <3>1, <2>1, Zenon DEF Identity!Merges
    <2>7. Identity!Saves(claims)'
      BY <2>1, Zenon DEF Identity!Saves, Identity!Loads, Identity!NoClaim
    <2>8. Taken(identities, im, loc)
      BY <2>1, <2>3, <2>4, <2>6, <2>7 DEF Taken
    <2> QED
      BY <2>8, TakenKeeps
  <1> QED
    BY <1>2, <1>3

\* No step breaks the invariant.
LEMMA IdentityNext == IdentityInv /\ Identity!Next => IdentityInv'
  BY PublishNewKeeps, PublishAgainKeeps, PublishLessKeeps, TakeKeeps, MigrateKeeps,
     AddLocalKeeps, StampKeeps DEF Identity!Next

\* Nothing of claim identity changes.
LEMMA IdentityStutter == IdentityInv /\ UNCHANGED identityVars => IdentityInv'
  <1> SUFFICES ASSUME IdentityInv, UNCHANGED identityVars PROVE IdentityInv'
    OBVIOUS
  <1>1. UNCHANGED <<release, things, history, shifted, era, claims, identities, mints, followed, stamps>>
    BY DEF identityVars
  <1>2. PICK of \in Owners : Lined(of)
    BY DEF IdentityInv
  <1>3. IdentityTypes' /\ MapOK(identities, mints)'
    BY <1>1 DEF IdentityInv, IdentityTypes, MapOK
  <1>4. PubTogether' /\ PubKnown' /\ PubStays'
    BY <1>1 DEF IdentityInv, PubTogether, PubKnown, PubStays
  <1>5. Explained'
    <2>1. \A k : PlaceOf(followed.image, k)' = PlaceOf(followed.image, k)
      BY <1>1 DEF PlaceOf, At, Upto
    <2>2. \A k : ExplainedAt(k)' <=> ExplainedAt(k)
      BY <1>1, <2>1 DEF ExplainedAt
    <2> QED
      BY <2>2, <1>1 DEF IdentityInv, Explained
  <1>6. OldRows' /\ Saved'
    <2>1. \A t : Identity!ThingsOf(claims, t)' = Identity!ThingsOf(claims, t)
      BY <1>1 DEF Identity!ThingsOf, Identity!OfTuple, Identity!EdgesAt
    <2>2. OldRows'
      BY <2>1, <1>1 DEF IdentityInv, OldRows
    <2>3. Saved'
      BY <1>1 DEF IdentityInv, Saved, Identity!Saves, Identity!Loads
    <2> QED
      BY <2>2, <2>3
  <1>7. InPlace' /\ ImageListed(of)' /\ HistoryListed(of)'
    BY <1>1, <1>2, OverlayKeeps DEF Lined
  <1>8. \A t \in Tuples : \A x, c : Names(of, t, x, c) => NamesNow(of, t, x, c)
    BY <1>1 DEF Names, MadeWith, MappedTo, Unmapped, Listed, NamesNow, MadeNow, MappedNow, ListedNow
  <1>9. RowsListed(of)' /\ RowsNamed(of)' /\ StampsNamed(of)'
    <2>1. RowsListed(of)'
      BY <1>1, <1>2 DEF Lined, RowsListed, Listed
    <2>2. RowsNamed(of)'
      <3>1. era = "new" => \A i \in 1 .. Len(claims) : NamesNow(of, claims[i].tuple, claims[i].thing, claims[i].claim)
        BY <1>2, <1>8, RowFields DEF Lined, RowsNamed
      <3>2. CASE era = "new"
        <4>1. \A i \in 1 .. Len(claims') : NamesNow(of, claims'[i].tuple, claims'[i].thing, claims'[i].claim)
          BY <3>1, <3>2, <1>1
        <4> QED
          BY <4>1, LinedNow
      <3>3. CASE era # "new"
        BY <3>3, <1>1 DEF RowsNamed
      <3> QED
        BY <3>2, <3>3
    <2>3. StampsNamed(of)'
      <3>1. \A s \in stamps : \E t \in Tuples : NamesNow(of, t, s.thing, s.claim)
        BY <1>2, <1>8 DEF Lined, StampsNamed
      <3>2. era # "new" => stamps = {}
        BY <1>2 DEF Lined, StampsNamed
      <3>3. (era' # "new" => stamps' = {}) /\ \A s \in stamps' : \E t \in Tuples : NamesNow(of, t, s.thing, s.claim)
        BY <3>1, <3>2, <1>1
      <3> QED
        BY <3>3, LinedNow
    <2> QED
      BY <2>1, <2>2, <2>3
  <1>10. Lined(of)'
    BY <1>7, <1>9 DEF Lined
  <1> QED
    BY <1>3, <1>4, <1>5, <1>6, <1>7, <1>10 DEF IdentityInv

\* For any number of identity tuples, of edges published, dropped and restored,
\* of releases with and without ids, of types changing hands, of pulls and of
\* records: every row has one id of its own, the map explains every edge of a
\* tracked release that came without one, and an id that was recorded names the
\* edge it was given to (backfill_missing_claim_ids, record_minted_identities,
\* _migrate_claim_identity, service_pull_state_apply).
THEOREM IdentityKept == Spec => []IdentityHolds
<1>1. Init => IdentityInv
  BY IdentityInit DEF Init
<1>2. IdentityInv /\ [Next]_vars => IdentityInv'
  <2> SUFFICES ASSUME IdentityInv, [Next]_vars PROVE IdentityInv'
    OBVIOUS
  <2>1. Identity!Next \/ UNCHANGED identityVars
    BY DEF Next, vars
  <2> QED
    BY <2>1, IdentityNext, IdentityStutter
<1>3. IdentityInv => IdentityHolds
  BY IdentityInvHolds
<1> QED
  BY <1>1, <1>2, <1>3, PTL DEF Spec

=============================================================================
