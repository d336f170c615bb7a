---------------------------- MODULE AuditProofs ----------------------------
(***************************************************************************)
(* Machine-checked proofs about DecisionRecords, SourceArtifacts,          *)
(* WorkingSet and StateDiff, as MCAudit composes them, for every set of    *)
(* processes, records, documents and things, any two finite images and     *)
(* every bound.  Each has an inductive invariant of its own.               *)
(***************************************************************************)
EXTENDS MCAudit, PositionTheorems, FiniteSetTheorems, TLAPS

-----------------------------------------------------------------------------
(* Decision records: the inductive invariant. *)

Statuses == {"open", "finalized", "abandoned"}
Stages == {"work", "log", "appended", "failed"}
LoggedEvents == [command : {"operation", "finalized", "abandoned"}, id : Nat]
Operations == [id : Nat \ {0}, record : Records, stage : Stages]
Answers == [id : Nat \ {0}, record : Records, appended : BOOLEAN]

\* How often a log names an operation: never, or at one place.
Never(log, k) == \A i \in DOMAIN log : log[i].id # k
Once(log, k) == \E i \in DOMAIN log : \A j \in DOMAIN log : log[j].id = k <=> j = i

DecisionTypes ==
    /\ records \in [Records -> Statuses \cup {None}]
    /\ events \in [Records -> Seq(LoggedEvents)]
    /\ operation \in [Processes -> Operations \cup {None}]
    /\ calls \in Nat
    /\ returned \subseteq Answers

\* Operations are named once, in the order they begin.
NamesFresh ==
    /\ \A p \in Processes : operation[p] # None => operation[p].id <= calls
    /\ \A p, q \in Processes :
          operation[p] # None /\ operation[q] # None /\ operation[p].id = operation[q].id => p = q
    /\ \A x \in returned :
          /\ x.id <= calls
          /\ \A p \in Processes : operation[p] # None => operation[p].id # x.id
    /\ \A r \in Records : \A i \in DOMAIN events[r] : events[r][i].id <= calls

\* An operation is in the log of its record once it has appended, and only then.
RunningLogged ==
    \A p \in Processes : operation[p] # None =>
        IF operation[p].stage = "appended" THEN Once(events[operation[p].record], operation[p].id)
        ELSE Never(events[operation[p].record], operation[p].id)
ReturnedLogged ==
    \A x \in returned :
        IF x.appended THEN Once(events[x.record], x.id) ELSE Never(events[x.record], x.id)

\* The closing event is the last one, and only a closed record has one.
Closed(status, log) ==
    /\ \A i \in DOMAIN log :
          log[i].command \in Decisions!Closing <=> status \in Decisions!Closing /\ i = Len(log)
    /\ status \in Decisions!Closing => Len(log) > 0 /\ log[Len(log)].command = status
LogsClosed == \A r \in Records : Closed(records[r], events[r])

DecisionInv == DecisionTypes /\ NamesFresh /\ RunningLogged /\ ReturnedLogged /\ LogsClosed

-----------------------------------------------------------------------------
(* Logs. *)

\* A log with one more event.
LEMMA LogAppended ==
    ASSUME NEW log \in Seq(LoggedEvents), NEW e \in LoggedEvents, NEW new, new = Append(log, e)
    PROVE  /\ new \in Seq(LoggedEvents) /\ Len(new) = Len(log) + 1 /\ Len(log) \in Nat
           /\ DOMAIN new = 1 .. Len(log) + 1 /\ DOMAIN log = 1 .. Len(log)
           /\ new[Len(log) + 1] = e
           /\ \A i \in DOMAIN log : i \in DOMAIN new /\ new[i] = log[i]
           /\ \A i \in DOMAIN new : i \in DOMAIN log \/ i = Len(log) + 1
  <1> HIDE DEF LoggedEvents
  <1> QED
    OBVIOUS

\* It names the operations that it named, and the one of the event.
LEMMA LogNames ==
    ASSUME NEW log \in Seq(LoggedEvents), NEW e \in LoggedEvents
    PROVE  /\ \A k : k # e.id /\ Never(log, k) => Never(Append(log, e), k)
           /\ \A k : k # e.id /\ Once(log, k) => Once(Append(log, e), k)
           /\ Never(log, e.id) => Once(Append(log, e), e.id)
  <1> DEFINE new == Append(log, e)
  <1>1. /\ DOMAIN new = 1 .. Len(log) + 1 /\ DOMAIN log = 1 .. Len(log) /\ Len(log) \in Nat
        /\ new[Len(log) + 1] = e
        /\ \A i \in DOMAIN log : i \in DOMAIN new /\ new[i] = log[i]
        /\ \A i \in DOMAIN new : i \in DOMAIN log \/ i = Len(log) + 1
    BY LogAppended
  <1> HIDE DEF new
  <1>2. ASSUME NEW k, k # e.id, Never(log, k) PROVE Never(new, k)
    BY <1>1, <1>2 DEF Never
  <1>3. ASSUME NEW k, k # e.id, Once(log, k) PROVE Once(new, k)
    BY <1>1, <1>3 DEF Once
  <1>4. ASSUME Never(log, e.id) PROVE Once(new, e.id)
    <2>1. Len(log) + 1 \in DOMAIN new /\ Len(log) + 1 \notin DOMAIN log
      BY <1>1
    <2> QED
      BY <1>1, <1>4, <2>1 DEF Never, Once
  <1> QED
    BY <1>2, <1>3, <1>4 DEF new

\* The events of an operation, counted.
LEMMA LogCount ==
    ASSUME NEW log, NEW k
    PROVE  /\ Never(log, k) => Cardinality({i \in DOMAIN log : log[i].id = k}) = 0
           /\ Once(log, k) => Cardinality({i \in DOMAIN log : log[i].id = k}) = 1
  <1>1. ASSUME Never(log, k) PROVE {i \in DOMAIN log : log[i].id = k} = {}
    BY <1>1 DEF Never
  <1>2. ASSUME Once(log, k) PROVE \E x : {i \in DOMAIN log : log[i].id = k} = {x}
    <2>1. PICK x \in DOMAIN log : \A j \in DOMAIN log : log[j].id = k <=> j = x
      BY <1>2 DEF Once
    <2>2. {i \in DOMAIN log : log[i].id = k} = {x}
      BY <2>1
    <2> QED
      BY <2>2
  <1> QED
    BY <1>1, <1>2, FS_EmptySet, FS_Singleton

-----------------------------------------------------------------------------
(* Every step of the decision records preserves it. *)

\* The events of a record's log.
LEMMA LogElements ==
    ASSUME DecisionTypes, NEW r \in Records
    PROVE  /\ events[r] \in Seq(LoggedEvents)
           /\ \A i \in DOMAIN events[r] : events[r][i].id \in Nat
  <1> DEFINE T == LoggedEvents
  <1>1. events[r] \in Seq(T)
    BY DEF DecisionTypes
  <1> HIDE DEF T
  <1>2. \A i \in DOMAIN events[r] : events[r][i] \in T
    BY <1>1
  <1> QED
    BY <1>1, <1>2 DEF T, LoggedEvents

\* An event of an operation or of a closing is appended to one log.
LEMMA EventAppended ==
    ASSUME DecisionInv, NEW r \in Records, NEW e \in LoggedEvents,
           e.id <= calls, events' = Decisions!Appended(r, e)
    PROVE  /\ events' \in [Records -> Seq(LoggedEvents)]
           /\ events'[r] = Append(events[r], e)
           /\ \A s \in Records : s # r => events'[s] = events[s]
           /\ \A s \in Records : \A i \in DOMAIN events'[s] : events'[s][i].id <= calls
           /\ \A s \in Records : \A k :
                 k # e.id => /\ Never(events[s], k) => Never(events'[s], k)
                             /\ Once(events[s], k) => Once(events'[s], k)
  <1>1. events \in [Records -> Seq(LoggedEvents)] /\ DecisionTypes
    BY DEF DecisionInv, DecisionTypes
  <1>2. events[r] \in Seq(LoggedEvents)
    BY <1>1
  <1>3. events' = [events EXCEPT ![r] = Append(events[r], e)]
    BY DEF Decisions!Appended
  <1>4. Append(events[r], e) \in Seq(LoggedEvents)
    BY <1>2, LogAppended
  <1> HIDE DEF LoggedEvents
  <1>5. /\ events' \in [Records -> Seq(LoggedEvents)]
        /\ events'[r] = Append(events[r], e)
        /\ \A s \in Records : s # r => events'[s] = events[s]
    BY <1>1, <1>3, <1>4
  <1>6. ASSUME NEW s \in Records, NEW i \in DOMAIN events'[s] PROVE events'[s][i].id <= calls
    <2>1. CASE s # r
      BY <1>5, <2>1 DEF DecisionInv, NamesFresh
    <2>2. CASE s = r
      <3>1. (i \in DOMAIN events[r] /\ events'[r][i] = events[r][i]) \/ events'[r][i] = e
        BY <1>2, <1>5, <2>2, LogAppended
      <3> QED
        BY <2>2, <3>1 DEF DecisionInv, NamesFresh
    <2> QED
      BY <2>1, <2>2
  <1>7. ASSUME NEW s \in Records, NEW k, k # e.id
        PROVE  /\ Never(events[s], k) => Never(events'[s], k)
               /\ Once(events[s], k) => Once(events'[s], k)
    <2>1. CASE s # r
      BY <1>5, <2>1
    <2>2. CASE s = r
      BY <1>2, <1>5, <1>7, <2>2, LogNames
    <2> QED
      BY <2>1, <2>2
  <1> QED
    BY <1>5, <1>6, <1>7

\* A log that was not closed stays so with the event of an operation, and is
\* closed by a closing event.
LEMMA LogClosed ==
    ASSUME NEW log \in Seq(LoggedEvents), NEW e \in LoggedEvents, NEW status,
           status \notin Decisions!Closing, Closed(status, log)
    PROVE  /\ e.command \notin Decisions!Closing => Closed(status, Append(log, e))
           /\ e.command \in Decisions!Closing => Closed(e.command, Append(log, e))
  <1> DEFINE new == Append(log, e)
  <1>1. /\ DOMAIN new = 1 .. Len(log) + 1 /\ DOMAIN log = 1 .. Len(log) /\ Len(log) \in Nat
        /\ new[Len(log) + 1] = e /\ Len(new) = Len(log) + 1
        /\ \A i \in DOMAIN log : i \in DOMAIN new /\ new[i] = log[i]
        /\ \A i \in DOMAIN new : i \in DOMAIN log \/ i = Len(log) + 1
    BY LogAppended
  <1> HIDE DEF new
  <1>2. \A i \in DOMAIN log : log[i].command \notin Decisions!Closing /\ i # Len(log) + 1
    BY <1>1 DEF Closed
  <1>3. ASSUME e.command \notin Decisions!Closing PROVE Closed(status, new)
    BY <1>1, <1>2, <1>3 DEF Closed
  <1>4. ASSUME e.command \in Decisions!Closing PROVE Closed(e.command, new)
    <2>1. Len(new) > 0 /\ new[Len(new)].command = e.command
      BY <1>1
    <2>2. \A i \in DOMAIN new : new[i].command \in Decisions!Closing <=> i = Len(new)
      BY <1>1, <1>2, <1>4
    <2> QED
      BY <1>4, <2>1, <2>2 DEF Closed
  <1> QED
    BY <1>3, <1>4 DEF new

\* A record is created.
LEMMA CreateInv ==
    ASSUME DecisionInv, NEW r \in Records, Decisions!CreateDecisionRecord(r)
    PROVE  DecisionInv'
  <1>1. /\ records[r] = None /\ records' = [records EXCEPT ![r] = "open"]
        /\ events' = events /\ operation' = operation /\ calls' = calls /\ returned' = returned
    BY DEF Decisions!CreateDecisionRecord
  <1>2. DecisionTypes'
    BY <1>1 DEF DecisionInv, DecisionTypes, Statuses
  <1>3. NamesFresh' /\ RunningLogged' /\ ReturnedLogged'
    BY <1>1 DEF DecisionInv, NamesFresh, RunningLogged, ReturnedLogged
  <1>4. \A s \in Records : records'[s] = records[s] \/ (records[s] = None /\ records'[s] = "open")
    BY <1>1 DEF DecisionInv, DecisionTypes
  <1>5. None \notin Decisions!Closing /\ "open" \notin Decisions!Closing
    BY NoneAssumption DEF Decisions!Closing
  <1>6. LogsClosed'
    BY <1>1, <1>4, <1>5 DEF DecisionInv, LogsClosed, Closed
  <1> QED
    BY <1>2, <1>3, <1>6 DEF DecisionInv

\* An operation begins, under a name that no log has.
LEMMA StartInv ==
    ASSUME DecisionInv, NEW p \in Processes, NEW r \in Records, NEW support,
           Decisions!StartOperation(p, r, support)
    PROVE  DecisionInv'
  <1> DEFINE x == [id |-> calls + 1, record |-> r, stage |-> "work"]
  <1>1. /\ operation[p] = None /\ operation' = [operation EXCEPT ![p] = x] /\ calls' = calls + 1
        /\ records' = records /\ events' = events /\ returned' = returned
    BY DEF Decisions!StartOperation
  <1>2. DecisionTypes /\ calls \in Nat /\ returned \subseteq Answers
        /\ operation \in [Processes -> Operations \cup {None}]
    BY DEF DecisionInv, DecisionTypes
  <1>3. x \in Operations /\ x.id = calls + 1 /\ x.record = r /\ x.stage = "work"
    BY <1>2 DEF Operations, Stages
  <1> HIDE DEF x
  <1>4. \A q \in Processes : operation'[q] = IF q = p THEN x ELSE operation[q]
    BY <1>1, <1>2
  <1>5. \A q \in Processes : operation[q] # None => operation[q].id \in Nat
    BY <1>2 DEF Operations
  <1>6. \A y \in returned : y.id \in Nat
    BY <1>2 DEF Answers
  <1>7. DecisionTypes'
    BY <1>1, <1>2, <1>3 DEF DecisionTypes
  <1>8. NamesFresh'
    <2>1. \A q \in Processes : operation[q] # None => operation[q].id <= calls
      BY DEF DecisionInv, NamesFresh
    <2>2. \A q \in Processes : operation'[q] # None => operation'[q].id <= calls'
      BY <1>1, <1>2, <1>3, <1>4, <1>5, <2>1
    <2>3. \A q \in Processes : operation[q] # None => operation[q].id # x.id
      BY <1>2, <1>3, <1>5, <2>1
    <2>4. \A q, u \in Processes :
             operation'[q] # None /\ operation'[u] # None /\ operation'[q].id = operation'[u].id
                => q = u
      BY <1>4, <2>3 DEF DecisionInv, NamesFresh
    <2>5. \A y \in returned : y.id <= calls
      BY DEF DecisionInv, NamesFresh
    <2>6. \A y \in returned : y.id <= calls' /\ y.id # x.id
      BY <1>1, <1>2, <1>3, <1>6, <2>5
    <2>7. \A y \in returned : \A q \in Processes : operation'[q] # None => operation'[q].id # y.id
      BY <1>4, <2>6 DEF DecisionInv, NamesFresh
    <2>8. ASSUME NEW s \in Records, NEW i \in DOMAIN events[s] PROVE events[s][i].id <= calls'
      <3>1. events[s][i].id \in Nat /\ events[s][i].id <= calls
        BY <1>2, LogElements DEF DecisionInv, NamesFresh
      <3> QED
        BY <1>1, <1>2, <3>1
    <2> QED
      BY <1>1, <2>2, <2>4, <2>6, <2>7, <2>8 DEF NamesFresh
  <1>9. RunningLogged'
    <2>1. Never(events[r], calls + 1)
      <3>1. \A i \in DOMAIN events[r] : events[r][i].id \in Nat /\ events[r][i].id <= calls
        BY <1>2, LogElements DEF DecisionInv, NamesFresh
      <3> QED
        BY <1>2, <3>1 DEF Never
    <2> QED
      BY <1>1, <1>3, <1>4, <2>1 DEF DecisionInv, RunningLogged
  <1>10. ReturnedLogged' /\ LogsClosed'
    BY <1>1 DEF DecisionInv, ReturnedLogged, LogsClosed
  <1> QED
    BY <1>7, <1>8, <1>9, <1>10 DEF DecisionInv

\* An operation moves on to another stage.
LEMMA StageMoves ==
    ASSUME DecisionInv, NEW p \in Processes, NEW stage \in Stages, operation[p] # None,
           operation' = [operation EXCEPT ![p].stage = stage]
    PROVE  /\ operation' \in [Processes -> Operations \cup {None}]
           /\ operation[p] \in Operations /\ operation'[p] \in Operations
           /\ operation'[p].id = operation[p].id /\ operation'[p].record = operation[p].record
           /\ operation'[p].stage = stage
           /\ \A q \in Processes : q # p => operation'[q] = operation[q]
  <1> DEFINE x == [operation[p] EXCEPT !.stage = stage]
  <1>1. operation \in [Processes -> Operations \cup {None}]
    BY DEF DecisionInv, DecisionTypes
  <1>2. operation[p] \in Operations
    BY <1>1
  <1>3. operation' = [operation EXCEPT ![p] = x]
    OBVIOUS
  <1>4. /\ x \in Operations /\ x.id = operation[p].id /\ x.record = operation[p].record
        /\ x.stage = stage
    BY <1>2 DEF Operations
  <1> HIDE DEF x
  <1> QED
    BY <1>1, <1>2, <1>3, <1>4

\* Names stay fresh while operations move on, end, or log.
LEMMA NamesKept ==
    ASSUME DecisionInv, calls' = calls,
           \A q \in Processes : operation'[q] # None =>
              operation[q] # None /\ operation'[q].id = operation[q].id,
           \A x \in returned' : x \in returned
              \/ \E p \in Processes : operation[p] # None /\ x.id = operation[p].id
                                      /\ operation'[p] = None,
           \A s \in Records : \A i \in DOMAIN events'[s] : events'[s][i].id <= calls
    PROVE  NamesFresh'
  <1>1. NamesFresh
    BY DEF DecisionInv
  <1>2. \A q, u \in Processes :
           operation'[q] # None /\ operation'[u] # None /\ operation'[q].id = operation'[u].id
              => q = u
    BY <1>1 DEF NamesFresh
  <1>3. \A q \in Processes : operation'[q] # None => operation'[q].id <= calls'
    BY <1>1 DEF NamesFresh
  <1>4. ASSUME NEW x \in returned'
        PROVE  /\ x.id <= calls'
               /\ \A q \in Processes : operation'[q] # None => operation'[q].id # x.id
    BY <1>1 DEF NamesFresh
  <1> QED
    BY <1>2, <1>3, <1>4 DEF NamesFresh

\* The names of the operations that run and of the ones that returned.
LEMMA NamesPositive ==
    ASSUME DecisionInv
    PROVE  /\ \A p \in Processes : operation[p] # None =>
                 operation[p].id \in Nat \ {0} /\ operation[p].record \in Records
           /\ \A x \in returned : x.id \in Nat \ {0} /\ x.record \in Records
           /\ calls \in Nat
  BY DEF DecisionInv, DecisionTypes, Operations, Answers

\* The logs and the answers stay as they are while operations commit, or end
\* without an answer.
LEMMA CommitOrCrashInv ==
    ASSUME DecisionInv, NEW p \in Processes, Decisions!CommitWork(p) \/ Decisions!CrashOperation(p)
    PROVE  DecisionInv'
  <1>1. /\ operation[p] # None
        /\ records' = records /\ events' = events /\ calls' = calls /\ returned' = returned
    BY DEF Decisions!CommitWork, Decisions!CrashOperation
  <1>2. DecisionTypes /\ operation \in [Processes -> Operations \cup {None}]
    BY DEF DecisionInv, DecisionTypes
  <1>3. /\ operation' \in [Processes -> Operations \cup {None}]
        /\ \A q \in Processes : operation'[q] # None =>
              /\ operation[q] # None /\ operation'[q].id = operation[q].id
              /\ operation'[q].record = operation[q].record
              /\ (operation'[q].stage = "appended" <=> operation[q].stage = "appended")
    <2>1. CASE Decisions!CommitWork(p)
      <3>1. operation' = [operation EXCEPT ![p].stage = "log"] /\ operation[p].stage = "work"
        BY <2>1 DEF Decisions!CommitWork
      <3>2. "log" \in Stages
        BY DEF Stages
      <3> QED
        BY <1>1, <3>1, <3>2, StageMoves
    <2>2. CASE Decisions!CrashOperation(p)
      <3>1. operation' = [operation EXCEPT ![p] = None]
        BY <2>2 DEF Decisions!CrashOperation
      <3> QED
        BY <1>2, <3>1
    <2> QED
      BY <2>1, <2>2
  <1>4. DecisionTypes'
    BY <1>1, <1>2, <1>3 DEF DecisionTypes
  <1>5. NamesFresh'
    <2>1. \A s \in Records : \A i \in DOMAIN events'[s] : events'[s][i].id <= calls
      BY <1>1 DEF DecisionInv, NamesFresh
    <2> QED
      BY <1>1, <1>3, <2>1, NamesKept
  <1>6. RunningLogged'
    BY <1>1, <1>3 DEF DecisionInv, RunningLogged
  <1>7. ReturnedLogged' /\ LogsClosed'
    BY <1>1 DEF DecisionInv, ReturnedLogged, LogsClosed
  <1> QED
    BY <1>4, <1>5, <1>6, <1>7 DEF DecisionInv

\* An operation logs, or fails to.
LEMMA RecordEventInv ==
    ASSUME DecisionInv, NEW p \in Processes, Decisions!RecordEvent(p)
    PROVE  DecisionInv'
  <1> DEFINE r == operation[p].record
             k == operation[p].id
             e == [command |-> "operation", id |-> k]
  <1>1. /\ operation[p] # None /\ operation[p].stage = "log"
        /\ records' = records /\ calls' = calls /\ returned' = returned
    BY DEF Decisions!RecordEvent
  <1>2. /\ DecisionTypes /\ k \in Nat \ {0} /\ r \in Records /\ k <= calls
        /\ \A x \in returned : x.record \in Records /\ x.id # k
        /\ \A q \in Processes : q # p /\ operation[q] # None =>
              operation[q].record \in Records /\ operation[q].id # k
    <2>1. /\ \A x \in returned : x.id # k
          /\ \A q \in Processes : q # p /\ operation[q] # None => operation[q].id # k
          /\ k <= calls
      BY <1>1 DEF DecisionInv, NamesFresh
    <2> QED
      BY <1>1, <2>1, NamesPositive DEF DecisionInv
  <1>3. Never(events[r], k)
    BY <1>1 DEF DecisionInv, RunningLogged
  <1>4. CASE /\ Decisions!RequireOpen(r) /\ events' = Decisions!Appended(r, e)
             /\ operation' = [operation EXCEPT ![p].stage = "appended"]
    <2>1. /\ e \in LoggedEvents /\ e.id = k /\ e.command = "operation"
          /\ e.command \notin Decisions!Closing
      BY <1>2 DEF LoggedEvents, Decisions!Closing
    <2> HIDE DEF e
    <2>2. /\ events' \in [Records -> Seq(LoggedEvents)]
          /\ events'[r] = Append(events[r], e)
          /\ \A s \in Records : s # r => events'[s] = events[s]
          /\ \A s \in Records : \A i \in DOMAIN events'[s] : events'[s][i].id <= calls
          /\ \A s \in Records : \A j :
                j # k => /\ Never(events[s], j) => Never(events'[s], j)
                         /\ Once(events[s], j) => Once(events'[s], j)
      BY <1>2, <1>4, <2>1, EventAppended
    <2>3. /\ operation' \in [Processes -> Operations \cup {None}]
          /\ operation'[p].id = k /\ operation'[p].record = r
          /\ operation'[p].stage = "appended"
          /\ \A q \in Processes : q # p => operation'[q] = operation[q]
      <3>1. "appended" \in Stages
        BY DEF Stages
      <3> QED
        BY <1>1, <1>4, <3>1, StageMoves
    <2>4. DecisionTypes'
      BY <1>1, <1>2, <2>2, <2>3 DEF DecisionTypes
    <2>5. NamesFresh'
      BY <1>1, <2>2, <2>3, NamesKept
    <2>6. RunningLogged'
      <3>1. Once(events'[r], k)
        <4>1. events[r] \in Seq(LoggedEvents)
          BY <1>2, LogElements
        <4> QED
          BY <1>3, <2>1, <2>2, <4>1, LogNames
      <3>2. ASSUME NEW q \in Processes, q # p, operation'[q] # None
            PROVE  IF operation'[q].stage = "appended"
                   THEN Once(events'[operation'[q].record], operation'[q].id)
                   ELSE Never(events'[operation'[q].record], operation'[q].id)
        BY <1>2, <2>2, <2>3, <3>2 DEF DecisionInv, RunningLogged
      <3> QED
        BY <2>3, <3>1, <3>2 DEF RunningLogged
    <2>7. ReturnedLogged'
      BY <1>1, <1>2, <2>2 DEF DecisionInv, ReturnedLogged
    <2>8. LogsClosed'
      <3>1. records[r] \notin Decisions!Closing /\ Closed(records[r], events[r])
        BY <1>2, <1>4 DEF Decisions!RequireOpen, Decisions!Closing, DecisionInv, LogsClosed
      <3>2. events[r] \in Seq(LoggedEvents)
        BY <1>2, LogElements
      <3>3. Closed(records[r], Append(events[r], e))
        BY <2>1, <3>1, <3>2, LogClosed
      <3> QED
        BY <1>1, <2>2, <3>3 DEF DecisionInv, LogsClosed
    <2> QED
      BY <2>4, <2>5, <2>6, <2>7, <2>8 DEF DecisionInv
  <1>5. CASE operation' = [operation EXCEPT ![p].stage = "failed"] /\ events' = events
    <2>1. /\ operation' \in [Processes -> Operations \cup {None}]
          /\ operation'[p].id = k /\ operation'[p].record = r
          /\ operation'[p].stage = "failed"
          /\ \A q \in Processes : q # p => operation'[q] = operation[q]
      <3>1. "failed" \in Stages
        BY DEF Stages
      <3> QED
        BY <1>1, <1>5, <3>1, StageMoves
    <2>2. DecisionTypes'
      BY <1>1, <1>2, <1>5, <2>1 DEF DecisionTypes
    <2>3. NamesFresh'
      <3>1. \A s \in Records : \A i \in DOMAIN events'[s] : events'[s][i].id <= calls
        BY <1>5 DEF DecisionInv, NamesFresh
      <3> QED
        BY <1>1, <2>1, <3>1, NamesKept
    <2>4. RunningLogged'
      BY <1>3, <1>5, <2>1 DEF DecisionInv, RunningLogged
    <2>5. ReturnedLogged' /\ LogsClosed'
      BY <1>1, <1>5 DEF DecisionInv, ReturnedLogged, LogsClosed
    <2> QED
      BY <2>2, <2>3, <2>4, <2>5 DEF DecisionInv
  <1> QED
    BY <1>4, <1>5 DEF Decisions!RecordEvent

\* An operation returns, and says whether it is in the log.
LEMMA ReturnInv ==
    ASSUME DecisionInv, NEW p \in Processes, Decisions!ReturnOperation(p)
    PROVE  DecisionInv'
  <1> DEFINE x == [id |-> operation[p].id, record |-> operation[p].record,
                   appended |-> operation[p].stage = "appended"]
  <1>1. /\ operation[p] # None /\ returned' = returned \cup {x}
        /\ operation' = [operation EXCEPT ![p] = None]
        /\ records' = records /\ events' = events /\ calls' = calls
    BY DEF Decisions!ReturnOperation
  <1>2. DecisionTypes /\ operation \in [Processes -> Operations \cup {None}]
    BY DEF DecisionInv, DecisionTypes
  <1>3. /\ x \in Answers /\ x.id = operation[p].id /\ x.record = operation[p].record
        /\ (x.appended <=> operation[p].stage = "appended")
    BY <1>1, NamesPositive DEF Answers
  <1> HIDE DEF x
  <1>4. \A q \in Processes : operation'[q] = IF q = p THEN None ELSE operation[q]
    BY <1>1, <1>2
  <1>5. DecisionTypes'
    BY <1>1, <1>2, <1>3 DEF DecisionTypes
  <1>6. NamesFresh'
    <2>1. \A s \in Records : \A i \in DOMAIN events'[s] : events'[s][i].id <= calls
      BY <1>1 DEF DecisionInv, NamesFresh
    <2> QED
      BY <1>1, <1>3, <1>4, <2>1, NamesKept
  <1>7. RunningLogged' /\ LogsClosed'
    BY <1>1, <1>4 DEF DecisionInv, RunningLogged, LogsClosed
  <1>8. ReturnedLogged'
    BY <1>1, <1>3 DEF DecisionInv, RunningLogged, ReturnedLogged
  <1> QED
    BY <1>5, <1>6, <1>7, <1>8 DEF DecisionInv

\* A record is closed: the closing event names no operation.
LEMMA CloseInv ==
    ASSUME DecisionInv, NEW r \in Records, NEW status \in Decisions!Closing,
           Decisions!CloseRecord(r, status)
    PROVE  DecisionInv'
  <1> DEFINE e == [command |-> status, id |-> 0]
  <1>1. /\ records[r] = "open" /\ records' = [records EXCEPT ![r] = status]
        /\ events' = Decisions!Appended(r, e)
        /\ operation' = operation /\ calls' = calls /\ returned' = returned
    BY DEF Decisions!CloseRecord, Decisions!RequireOpen
  <1>2. /\ e \in LoggedEvents /\ e.id = 0 /\ e.command = status
        /\ status \in Statuses /\ "open" \notin Decisions!Closing
    BY DEF LoggedEvents, Decisions!Closing, Statuses
  <1> HIDE DEF e
  <1>3. DecisionTypes /\ e.id <= calls
    BY <1>2 DEF DecisionInv, DecisionTypes
  <1>4. /\ events' \in [Records -> Seq(LoggedEvents)]
        /\ events'[r] = Append(events[r], e)
        /\ \A s \in Records : s # r => events'[s] = events[s]
        /\ \A s \in Records : \A i \in DOMAIN events'[s] : events'[s][i].id <= calls
        /\ \A s \in Records : \A j :
              j # 0 => /\ Never(events[s], j) => Never(events'[s], j)
                       /\ Once(events[s], j) => Once(events'[s], j)
    BY <1>1, <1>2, <1>3, EventAppended
  <1>5. DecisionTypes'
    BY <1>1, <1>2, <1>3, <1>4 DEF DecisionTypes
  <1>6. NamesFresh'
    BY <1>1, <1>4, NamesKept
  <1>7. RunningLogged' /\ ReturnedLogged'
    BY <1>1, <1>4, NamesPositive DEF DecisionInv, RunningLogged, ReturnedLogged
  <1>8. LogsClosed'
    <2>1. events[r] \in Seq(LoggedEvents) /\ Closed(records[r], events[r])
      BY <1>3, LogElements DEF DecisionInv, LogsClosed
    <2>2. Closed(status, Append(events[r], e))
      BY <1>1, <1>2, <2>1, LogClosed
    <2>3. records'[r] = status /\ \A s \in Records : s # r => records'[s] = records[s]
      BY <1>1, <1>3 DEF DecisionTypes
    <2> QED
      BY <1>4, <2>2, <2>3 DEF DecisionInv, LogsClosed
  <1> QED
    BY <1>5, <1>6, <1>7, <1>8 DEF DecisionInv

\* The invariant holds initially, ...
LEMMA DecisionsBegin == Decisions!Init => DecisionInv
  <1> SUFFICES ASSUME Decisions!Init PROVE DecisionInv
    OBVIOUS
  <1>1. /\ \A r \in Records : records[r] = None /\ events[r] = <<>>
        /\ \A p \in Processes : operation[p] = None
        /\ returned = {} /\ calls = 0
    BY DEF Decisions!Init
  <1>2. DecisionTypes
    BY DEF Decisions!Init, DecisionTypes
  <1>3. NamesFresh /\ RunningLogged /\ ReturnedLogged
    BY <1>1 DEF NamesFresh, RunningLogged, ReturnedLogged
  <1>4. None \notin Decisions!Closing
    BY NoneAssumption DEF Decisions!Closing
  <1>5. LogsClosed
    BY <1>1, <1>4 DEF LogsClosed, Closed
  <1> QED
    BY <1>2, <1>3, <1>5 DEF DecisionInv

\* ... and is preserved by every step.
LEMMA DecisionsStep ==
    ASSUME DecisionInv, Decisions!Next
    PROVE  DecisionInv'
  BY CreateInv, CloseInv, StartInv, CommitOrCrashInv, RecordEventInv, ReturnInv
    DEF Decisions!Next

\* Steps of the others leave the decision records alone.
LEMMA DecisionsStutter ==
    ASSUME DecisionInv, UNCHANGED decisionVars
    PROVE  DecisionInv'
  BY DEF decisionVars, DecisionInv, DecisionTypes, NamesFresh, RunningLogged, ReturnedLogged,
    LogsClosed

\* decision/store.py: whoever closes a record and whatever operations are still
\* running or have died, the log of a closed record ends with the one event that
\* says how it was closed, and an operation that returned is in the log exactly
\* if it said so.
THEOREM LogsAreHonest == Spec => []DecisionLogHonest
  <1>1. Init => DecisionInv
    BY DecisionsBegin DEF Init
  <1>2. DecisionInv /\ [Next]_vars => DecisionInv'
    BY DecisionsStep, DecisionsStutter DEF Next, vars
  <1>3. DecisionInv => DecisionLogHonest
    <2> SUFFICES ASSUME DecisionInv PROVE Decisions!DecisionLogHonest
      BY DEF DecisionLogHonest
    <2>1. ASSUME NEW r \in Records
          PROVE  /\ {i \in DOMAIN events[r] : events[r][i].command \in Decisions!Closing}
                       = IF records[r] \in Decisions!Closing THEN {Len(events[r])} ELSE {}
                 /\ records[r] \in Decisions!Closing =>
                       events[r][Len(events[r])].command = records[r]
      <3>1. Closed(records[r], events[r])
        BY DEF DecisionInv, LogsClosed
      <3>2. events[r] \in Seq(LoggedEvents)
        BY LogElements DEF DecisionInv
      <3> HIDE DEF LoggedEvents
      <3>3. DOMAIN events[r] = 1 .. Len(events[r]) /\ Len(events[r]) \in Nat
        BY <3>2
      <3>4. records[r] \in Decisions!Closing => Len(events[r]) \in DOMAIN events[r]
        BY <3>1, <3>3 DEF Closed
      <3> QED
        BY <3>1, <3>4 DEF Closed
    <2>2. ASSUME NEW x \in returned
          PROVE  Cardinality({i \in DOMAIN events[x.record] : events[x.record][i].id = x.id})
                    = IF x.appended THEN 1 ELSE 0
      BY LogCount DEF DecisionInv, ReturnedLogged
    <2>3. \A S : Decisions!Cardinality(S) = Cardinality(S)
      BY DEF Cardinality, Decisions!Cardinality
    <2> QED
      BY <2>1, <2>2, <2>3 DEF Decisions!DecisionLogHonest
  <1> QED
    BY <1>1, <1>2, <1>3, PTL DEF Spec

-----------------------------------------------------------------------------
(* Source artifacts: the inductive invariant. *)

Revisions ==
    [document : Documents, local : BOOLEAN, archived : BOOLEAN,
     drift : Documents \cup {None}, firstDrift : Documents \cup {None}]

\* A record of drift is on a revision that is served from the file, and is of
\* other bytes.
Stamped(row) ==
    \A seen \in {row.firstDrift, row.drift} \ {None} :
        row.local /\ ~row.archived /\ row.document # seen

\* A pinned answer with a body has the bytes of its revision, and its reader
\* expected no other; one that says the file drifted has seen other bytes, and
\* one that says the chunk drifted was not expecting its revision's.
Faithful(answer, revs) ==
    /\ answer.revision \in DOMAIN revs
    /\ answer.status \in {"available", "cited"} /\ answer.pinned =>
          /\ answer.body = revs[answer.revision].document
          /\ answer.expected \in {None, revs[answer.revision].document}
    /\ answer.status = "drifted" /\ answer.current # None =>
          answer.current # revs[answer.revision].document
    /\ answer.status = "drifted" /\ answer.current = None /\ answer.pinned =>
          answer.expected # revs[answer.revision].document

\* What a process knows of the revisions while others register, stamp and edit.
CallOK(c, revs) ==
    c # None =>
        /\ c.op = "register" =>
              c.document \in Documents /\ c.local \in BOOLEAN /\ c.archived \in BOOLEAN
        /\ c.op = "chunk" => c.revision \in DOMAIN revs
        /\ c.op = "content" =>
              /\ c.revision \in DOMAIN revs
              /\ c.pinned => /\ c.chunk = revs[c.revision].document
                             /\ c.expected \in {None, revs[c.revision].document}
        /\ c.op = "stamp" =>
              /\ Faithful(c.answer, revs) /\ c.observed \in Documents \cup {None}
              /\ revs[c.answer.revision].local /\ ~revs[c.answer.revision].archived
              /\ c.observed # None => c.observed # revs[c.answer.revision].document
              /\ c.answer.status = "drifted" => c.observed # None

OutOK(o, revs) ==
    o # None => /\ Faithful(o, revs)
                /\ o.status = "drifted" /\ o.current # None => revs[o.revision].firstDrift # None

ArtifactInv ==
    /\ file \in Documents \cup {None} /\ revisions \in Seq(Revisions)
    /\ DOMAIN call = Processes /\ DOMAIN out = Processes
    /\ \A k \in 1 .. Len(revisions) - 1 : revisions[k].document # revisions[k + 1].document
    /\ \A k \in 1 .. Len(revisions) : Stamped(revisions[k])
    /\ \A p \in Processes : CallOK(call[p], revisions) /\ OutOK(out[p], revisions)

\* Revisions are only added, and a first drift is never forgotten.
Grows(old, new) ==
    \A k \in DOMAIN old :
        /\ k \in DOMAIN new /\ new[k].document = old[k].document
        /\ new[k].local = old[k].local /\ new[k].archived = old[k].archived
        /\ old[k].firstDrift # None => new[k].firstDrift # None

-----------------------------------------------------------------------------
(* Every step of the artifacts preserves it. *)

\* What was known of the revisions stays true of more of them.
LEMMA KnowledgeKept ==
    ASSUME NEW old, NEW new, Grows(old, new)
    PROVE  /\ \A c : CallOK(c, old) => CallOK(c, new)
           /\ \A o : OutOK(o, old) => OutOK(o, new)
  <1>1. \A x : Faithful(x, old) => Faithful(x, new)
    BY DEF Faithful, Grows
  <1>2. ASSUME NEW c, CallOK(c, old) PROVE CallOK(c, new)
    BY <1>1, <1>2 DEF CallOK, Grows, Faithful
  <1>3. ASSUME NEW o, OutOK(o, old) PROVE OutOK(o, new)
    BY <1>1, <1>3 DEF OutOK, Grows, Faithful
  <1> QED
    BY <1>2, <1>3

\* The table of revisions.
LEMMA RevisionTable ==
    ASSUME ArtifactInv
    PROVE  /\ Len(revisions) \in Nat /\ DOMAIN revisions = 1 .. Len(revisions)
           /\ \A k \in DOMAIN revisions : revisions[k] \in Revisions
  <1> DEFINE T == Revisions
  <1>1. revisions \in Seq(T)
    BY DEF ArtifactInv
  <1> HIDE DEF T
  <1>2. /\ Len(revisions) \in Nat /\ DOMAIN revisions = 1 .. Len(revisions)
        /\ \A k \in DOMAIN revisions : revisions[k] \in T
    BY <1>1
  <1> QED
    BY <1>2 DEF T

\* A process moves on, with the revisions as they are.
LEMMA CallMoves ==
    ASSUME ArtifactInv, file' \in Documents \cup {None}, revisions' = revisions,
           NEW p \in Processes, NEW c, NEW o, CallOK(c, revisions), OutOK(o, revisions),
           call' = call \/ call' = [call EXCEPT ![p] = c],
           out' = out \/ out' = [out EXCEPT ![p] = o]
    PROVE  ArtifactInv'
  <1>1. DOMAIN call = Processes /\ DOMAIN out = Processes
    BY DEF ArtifactInv
  <1>2. /\ DOMAIN call' = Processes /\ DOMAIN out' = Processes
        /\ \A q \in Processes : call'[q] = call[q] \/ call'[q] = c
        /\ \A q \in Processes : out'[q] = out[q] \/ out'[q] = o
    BY <1>1
  <1> HIDE DEF CallOK, OutOK
  <1>3. \A q \in Processes : CallOK(call'[q], revisions) /\ OutOK(out'[q], revisions)
    BY <1>2 DEF ArtifactInv
  <1> QED
    BY <1>2, <1>3 DEF ArtifactInv

\* No call and no answer.
LEMMA NothingOK ==
    ASSUME NEW revs
    PROVE  CallOK(None, revs) /\ OutOK(None, revs)
  BY DEF CallOK, OutOK

\* An artifact is registered: as the head's successor, unless it repeats it.
LEMMA RegisterInv ==
    ASSUME ArtifactInv, NEW p \in Processes, Artifacts!Register(p)
    PROVE  ArtifactInv'
  <1> DEFINE c == call[p]
             row == [document |-> c.document, local |-> c.local, archived |-> c.archived,
                     drift |-> None, firstDrift |-> None]
             n == Len(revisions)
  <1>1. /\ c # None /\ c.op = "register" /\ file' = file /\ out' = out
        /\ call' = [call EXCEPT ![p] = None]
        /\ \/ revisions' = revisions
           \/ /\ n > 0 => revisions[n].document # c.document
              /\ revisions' = Append(revisions, row)
    BY DEF Artifacts!Register, Artifacts!Current, Artifacts!NewRevision
  <1>2. CASE revisions' = revisions
    BY <1>1, <1>2, NothingOK, CallMoves DEF ArtifactInv
  <1>3. CASE revisions' = Append(revisions, row) /\ (n > 0 => revisions[n].document # c.document)
    <2>1. c.document \in Documents /\ c.local \in BOOLEAN /\ c.archived \in BOOLEAN
      BY <1>1 DEF ArtifactInv, CallOK
    <2>2. row \in Revisions /\ row.document = c.document
      BY <2>1 DEF Revisions
    <2>3. /\ n \in Nat /\ DOMAIN revisions = 1 .. n /\ revisions \in Seq(Revisions)
      BY RevisionTable DEF ArtifactInv
    <2> HIDE DEF row, Revisions, n
    <2>4. /\ revisions' \in Seq(Revisions) /\ Len(revisions') = n + 1
          /\ DOMAIN revisions' = 1 .. n + 1 /\ revisions'[n + 1] = row
          /\ \A k \in 1 .. n : revisions'[k] = revisions[k]
      BY <1>3, <2>2, <2>3 DEF n
    <2>5. Grows(revisions, revisions')
      BY <2>3, <2>4 DEF Grows
    <2>6. ASSUME NEW k \in 1 .. Len(revisions') - 1
          PROVE  revisions'[k].document # revisions'[k + 1].document
      <3>1. CASE k = n
        BY <1>3, <2>2, <2>3, <2>4, <3>1
      <3>2. CASE k \in 1 .. n - 1
        <4>1. k \in 1 .. n /\ k + 1 \in 1 .. n
          BY <2>3, <3>2
        <4> QED
          BY <2>4, <3>2, <4>1 DEF ArtifactInv, n
      <3> QED
        BY <2>3, <2>4, <3>1, <3>2
    <2>9. Stamped(row)
      BY DEF Stamped, row
    <2>10. \A k \in 1 .. Len(revisions') : Stamped(revisions'[k])
      BY <2>3, <2>4, <2>9 DEF ArtifactInv, n
    <2>7. \A q \in Processes : CallOK(call'[q], revisions') /\ OutOK(out'[q], revisions')
      <3>1. \A q \in Processes : call'[q] = None \/ call'[q] = call[q]
        BY <1>1 DEF ArtifactInv
      <3> HIDE DEF CallOK, OutOK
      <3> QED
        BY <1>1, <2>5, <3>1, NothingOK, KnowledgeKept DEF ArtifactInv
    <2>8. file' \in Documents \cup {None} /\ DOMAIN call' = Processes /\ DOMAIN out' = Processes
      BY <1>1 DEF ArtifactInv
    <2> HIDE DEF Stamped, CallOK, OutOK
    <2> QED
      BY <2>4, <2>6, <2>7, <2>8, <2>10 DEF ArtifactInv
  <1> QED
    BY <1>1, <1>2, <1>3

\* A finding is stamped on its revision: the first one stays.
LEMMA StampDriftInv ==
    ASSUME ArtifactInv, NEW p \in Processes, Artifacts!StampDrift(p)
    PROVE  ArtifactInv'
  <1> DEFINE c == call[p]
             a == c.answer
             r == a.revision
             row == Artifacts!Observed(revisions[r], c.observed)
  <1>1. /\ c # None /\ c.op = "stamp" /\ file' = file
        /\ revisions' = [revisions EXCEPT ![r] = row]
        /\ call' = [call EXCEPT ![p] = None] /\ out' = [out EXCEPT ![p] = a]
    BY DEF Artifacts!StampDrift, Artifacts!Stamp, Artifacts!Deliver
  <1>2. /\ Faithful(a, revisions) /\ c.observed \in Documents \cup {None}
        /\ revisions[r].local /\ ~revisions[r].archived
        /\ c.observed # None => c.observed # revisions[r].document
        /\ a.status = "drifted" => c.observed # None
    BY <1>1 DEF ArtifactInv, CallOK
  <1>3. r \in DOMAIN revisions
    BY <1>2 DEF Faithful
  <1>4. revisions[r] \in Revisions /\ revisions \in Seq(Revisions)
    BY <1>3, RevisionTable DEF ArtifactInv
  <1>5. /\ row \in Revisions /\ row.document = revisions[r].document
        /\ row.local = revisions[r].local /\ row.archived = revisions[r].archived
        /\ row.drift = c.observed
        /\ row.firstDrift \in {revisions[r].firstDrift, c.observed}
        /\ revisions[r].firstDrift # None => row.firstDrift # None
        /\ c.observed # None => row.firstDrift # None
    BY <1>2, <1>4 DEF Artifacts!Observed, Revisions
  <1> HIDE DEF row
  <1>13. Stamped(revisions[r])
    BY <1>3, RevisionTable DEF ArtifactInv
  <1>14. Stamped(row)
    BY <1>2, <1>5, <1>13 DEF Stamped
  <1> HIDE DEF Revisions, c, a, r
  <1>6. /\ revisions' \in Seq(Revisions) /\ Len(revisions') = Len(revisions)
        /\ DOMAIN revisions' = DOMAIN revisions
        /\ revisions'[r] = row
        /\ \A k \in DOMAIN revisions : k # r => revisions'[k] = revisions[k]
    BY <1>1, <1>3, <1>4, <1>5
  <1>7. Grows(revisions, revisions')
    BY <1>5, <1>6 DEF Grows
  <1>8. OutOK(a, revisions')
    BY <1>2, <1>5, <1>6, <1>7 DEF OutOK, Faithful, Grows, r
  <1>9. \A q \in Processes : CallOK(call'[q], revisions') /\ OutOK(out'[q], revisions')
    <2>1. \A q \in Processes : /\ call'[q] = None \/ call'[q] = call[q]
                               /\ out'[q] = a \/ out'[q] = out[q]
      BY <1>1 DEF ArtifactInv
    <2> HIDE DEF CallOK, OutOK
    <2> QED
      BY <1>7, <1>8, <2>1, NothingOK, KnowledgeKept DEF ArtifactInv
  <1>10. \A k \in DOMAIN revisions : revisions'[k].document = revisions[k].document
    BY <1>7 DEF Grows
  <1>11. ASSUME NEW k \in 1 .. Len(revisions') - 1
         PROVE  revisions'[k].document # revisions'[k + 1].document
    <2>1. k \in DOMAIN revisions /\ k + 1 \in DOMAIN revisions
      BY <1>6, RevisionTable
    <2> QED
      BY <1>6, <1>10, <2>1 DEF ArtifactInv
  <1>12. file' \in Documents \cup {None} /\ DOMAIN call' = Processes /\ DOMAIN out' = Processes
    BY <1>1 DEF ArtifactInv
  <1>15. \A k \in 1 .. Len(revisions') : Stamped(revisions'[k])
    <2> HIDE DEF Stamped
    <2> QED
      BY <1>6, <1>14, RevisionTable DEF ArtifactInv
  <1> HIDE DEF Stamped, CallOK, OutOK
  <1> QED
    BY <1>6, <1>9, <1>11, <1>12, <1>15 DEF ArtifactInv

\* A chunk is resolved, and cited or read on.
LEMMA ReadChunkInv ==
    ASSUME ArtifactInv, NEW p \in Processes, Artifacts!ReadChunk(p)
    PROVE  ArtifactInv'
  <1> DEFINE c == call[p]
             chunk == Artifacts!ResolveChunk(c)
             next == [op |-> "content", pinned |-> c.pinned, revision |-> c.revision,
                      superseded |-> c.superseded, expected |-> c.expected, chunk |-> chunk]
             answer == Artifacts!Answer(c, "cited", chunk, None)
             other == Artifacts!Answer(c, "drifted", None, None)
  <1>1. /\ c # None /\ c.op = "chunk" /\ file' = file /\ revisions' = revisions
        /\ \/ call' = [call EXCEPT ![p] = None] /\ out' = [out EXCEPT ![p] = None]
           \/ /\ c.expected \in {None, chunk}
              /\ call' = [call EXCEPT ![p] = None] /\ out' = [out EXCEPT ![p] = answer]
           \/ /\ c.expected \notin {None, chunk}
              /\ call' = [call EXCEPT ![p] = None] /\ out' = [out EXCEPT ![p] = other]
           \/ /\ c.expected \in {None, chunk}
              /\ call' = [call EXCEPT ![p] = next] /\ out' = out
    BY DEF Artifacts!ReadChunk, Artifacts!Deliver
  <1>2. c.revision \in DOMAIN revisions
    BY <1>1 DEF ArtifactInv, CallOK
  <1>3. c.pinned => chunk = revisions[c.revision].document
    BY DEF Artifacts!ResolveChunk
  <1> HIDE DEF chunk, c
  <1>4. c.expected \in {None, chunk} => OutOK(answer, revisions) /\ CallOK(next, revisions)
    BY <1>2, <1>3 DEF OutOK, CallOK, Faithful, Artifacts!Answer
  <1>5. c.expected \notin {None, chunk} => OutOK(other, revisions)
    BY <1>2, <1>3 DEF OutOK, Faithful, Artifacts!Answer
  <1>6. file' \in Documents \cup {None}
    BY <1>1 DEF ArtifactInv
  <1> HIDE DEF next, answer, other, CallOK, OutOK
  <1> QED
    BY <1>1, <1>4, <1>5, <1>6, NothingOK, CallMoves

\* The content is read, from the archive or from the file.
LEMMA ReadContentInv ==
    ASSUME ArtifactInv, NEW p \in Processes, Artifacts!ReadContent(p)
    PROVE  ArtifactInv'
  <1> DEFINE c == call[p]
             row == revisions[c.revision]
             kept == Artifacts!Answer(c, "available", Artifacts!ChunkBody(row.document, c.chunk),
                                      row.document)
             dropped == Artifacts!Answer(c, "not_retained", None, None)
             away == Artifacts!Answer(c, "unavailable", None, None)
             same == Artifacts!Answer(c, "available", Artifacts!ChunkBody(file, c.chunk), file)
             changed == Artifacts!Answer(c, "drifted", None, file)
             next == [op |-> "stamp", observed |-> None, answer |-> same]
             found == [op |-> "stamp", observed |-> file, answer |-> changed]
  <1>1. /\ c # None /\ c.op = "content" /\ file' = file /\ revisions' = revisions
        /\ \/ \E o \in {kept, dropped, away} :
                 call' = [call EXCEPT ![p] = None] /\ out' = [out EXCEPT ![p] = o]
           \/ /\ file # None /\ out' = out /\ row.local /\ ~row.archived
              /\ \/ file = row.document /\ call' = [call EXCEPT ![p] = next]
                 \/ file # row.document /\ call' = [call EXCEPT ![p] = found]
    BY DEF Artifacts!ReadContent, Artifacts!Deliver
  <1>2. /\ c.revision \in DOMAIN revisions
        /\ c.pinned => c.chunk = row.document /\ c.expected \in {None, row.document}
    BY <1>1 DEF ArtifactInv, CallOK
  <1>3. file \in Documents \cup {None}
    BY DEF ArtifactInv
  <1> HIDE DEF c
  <1>4. \A o \in {kept, dropped, away} : OutOK(o, revisions)
    BY <1>2 DEF OutOK, Faithful, Artifacts!Answer, Artifacts!ChunkBody
  <1>5. ASSUME file = row.document, row.local, ~row.archived PROVE CallOK(next, revisions)
    <2>1. /\ Faithful(same, revisions) /\ same.status = "available"
          /\ same.revision = c.revision
      BY <1>2, <1>5 DEF Faithful, Artifacts!Answer, Artifacts!ChunkBody
    <2> HIDE DEF same
    <2> QED
      BY <1>5, <2>1 DEF CallOK
  <1>6. ASSUME file # None, file # row.document, row.local, ~row.archived
        PROVE  CallOK(found, revisions)
    <2>1. /\ Faithful(changed, revisions) /\ changed.status = "drifted"
          /\ changed.revision = c.revision
      BY <1>2, <1>6 DEF Faithful, Artifacts!Answer, Artifacts!ChunkBody
    <2> HIDE DEF changed
    <2> QED
      BY <1>3, <1>6, <2>1 DEF CallOK
  <1> HIDE DEF next, found, kept, dropped, away, CallOK, OutOK
  <1> QED
    BY <1>1, <1>3, <1>4, <1>5, <1>6, NothingOK, CallMoves

\* The other steps: starts, and calls that end early.
LEMMA OtherArtifactSteps ==
    ASSUME ArtifactInv, NEW p \in Processes,
           \/ \E document \in Documents, local \in BOOLEAN, archived \in BOOLEAN :
                 Artifacts!StartRegister(p, document, local, archived)
           \/ \E pin \in 0 .. Len(revisions), cite \in BOOLEAN, expected \in Documents \cup {None} :
                 Artifacts!StartRead(p, pin, cite, expected)
           \/ Artifacts!AbandonCall(p)
    PROVE  ArtifactInv'
  <1>2. file \in Documents \cup {None} /\ Len(revisions) \in Nat
        /\ DOMAIN revisions = 1 .. Len(revisions)
    BY RevisionTable DEF ArtifactInv
  <1>3. ASSUME NEW document \in Documents, NEW local \in BOOLEAN, NEW archived \in BOOLEAN,
               Artifacts!StartRegister(p, document, local, archived)
        PROVE  ArtifactInv'
    <2> DEFINE c == [op |-> "register", document |-> document, local |-> local,
                     archived |-> archived]
    <2>1. CallOK(c, revisions)
      BY DEF CallOK
    <2>2. /\ call' = [call EXCEPT ![p] = c] /\ out' = [out EXCEPT ![p] = None]
          /\ file' = file /\ revisions' = revisions
      BY <1>3 DEF Artifacts!StartRegister
    <2> HIDE DEF c, CallOK
    <2> QED
      BY <1>2, <2>1, <2>2, NothingOK, CallMoves
  <1>4. ASSUME NEW pin \in 0 .. Len(revisions), NEW cite \in BOOLEAN,
               NEW expected \in Documents \cup {None},
               Artifacts!StartRead(p, pin, cite, expected)
        PROVE  ArtifactInv'
    <2> DEFINE k == IF pin = 0 THEN Len(revisions) ELSE pin
               c == [op |-> "chunk", pinned |-> pin # 0, cite |-> cite, revision |-> k,
                     superseded |-> k < Len(revisions), expected |-> expected]
    <2>1. /\ call' = [call EXCEPT ![p] = c] /\ out' = [out EXCEPT ![p] = None]
          /\ file' = file /\ revisions' = revisions /\ Len(revisions) > 0
      BY <1>4 DEF Artifacts!StartRead, Artifacts!Current
    <2>2. k \in DOMAIN revisions
      BY <1>2, <2>1
    <2> HIDE DEF k
    <2>3. CallOK(c, revisions)
      BY <2>2 DEF CallOK
    <2> HIDE DEF c, CallOK
    <2> QED
      BY <1>2, <2>1, <2>3, NothingOK, CallMoves
  <1>5. CASE Artifacts!AbandonCall(p)
    BY <1>2, <1>5, NothingOK, CallMoves DEF Artifacts!AbandonCall
  <1> QED
    BY <1>3, <1>4, <1>5

\* The invariant holds initially, ...
LEMMA ArtifactsBegin == Artifacts!Init => ArtifactInv
  BY DEF Artifacts!Init, ArtifactInv, CallOK, OutOK

\* ... is preserved by every step, ...
LEMMA ArtifactsStep ==
    ASSUME ArtifactInv, Artifacts!Next
    PROVE  ArtifactInv'
  <1>1. ASSUME NEW document \in Documents \cup {None}, Artifacts!EditFile(document)
        PROVE  ArtifactInv'
    <2>1. /\ file' \in Documents \cup {None} /\ call' = call /\ out' = out
          /\ revisions' = revisions
      BY <1>1 DEF Artifacts!EditFile
    <2> QED
      BY <2>1 DEF ArtifactInv
  <1> QED
    BY <1>1, RegisterInv, StampDriftInv, ReadChunkInv, ReadContentInv, OtherArtifactSteps
      DEF Artifacts!Next, Artifacts!Current

\* ... and by the steps of the others, which leave the artifacts alone.
LEMMA ArtifactsStutter ==
    ASSUME ArtifactInv, UNCHANGED artifactVars
    PROVE  ArtifactInv'
  BY DEF artifactVars, ArtifactInv

\* service/source_artifacts.py: while registrations, edits and reads race, a
\* pinned citation names and yields the bytes of its revision, the ones its
\* reader expected, or says that it cannot; no revision repeats the one before
\* it; a drift of the file that a reader was told of stays on record, a wrong
\* expectation leaves none, and a record is only ever on a revision that is
\* served from the file and whose bytes are not the observed ones.
THEOREM CitationsStand == Spec => []CitationsHold
  <1>1. Init => ArtifactInv
    BY ArtifactsBegin DEF Init
  <1>2. ArtifactInv /\ [Next]_vars => ArtifactInv'
    BY ArtifactsStep, ArtifactsStutter DEF Next, vars
  <1>3. ArtifactInv => CitationsHold
    BY DEF ArtifactInv, OutOK, Faithful, Stamped, CitationsHold, Artifacts!CitationsHold,
      Artifacts!Current
  <1> QED
    BY <1>1, <1>2, <1>3, PTL DEF Spec

-----------------------------------------------------------------------------
(* The working set: lines of the cache and what they may claim. *)

Shows == UNION {[P -> Nat] : P \in SUBSET Props}
Lines == [thing : Things, props : Shows, revision : Nat, digest : Nat, asOf : Nat, sure : BOOLEAN]

\* A line shows what the state holds.
TrueAt(r, vals) == \A p \in DOMAIN r.props : r.props[p] = vals[r.thing]

\* A line that is at the current revision, and sure of it, shows the state.
Truthful(rev, vals) ==
    {r \in Lines : r.revision <= rev /\ (r.sure /\ r.revision = rev => TrueAt(r, vals))}

\* Folding a record into records of a set that merges stay in stays in it.
LEMMA FoldStays ==
    ASSUME NEW T, \A x, y \in T : x.thing = y.thing => Reads!MergeWinningRecord(x, y) \in T,
           NEW recs \in Seq(T), NEW r \in T
    PROVE  Reads!Fold(recs, r) \in Seq(T)
  <1>1. CASE Reads!Places(recs, r.thing) = {}
    BY <1>1 DEF Reads!Fold
  <1>2. CASE Reads!Places(recs, r.thing) # {}
    <2> DEFINE i == CHOOSE i \in Reads!Places(recs, r.thing) : TRUE
    <2>1. i \in 1 .. Len(recs) /\ recs[i].thing = r.thing
      BY <1>2 DEF Reads!Places
    <2> HIDE DEF i
    <2>2. recs[i] \in T
      BY <2>1
    <2>3. Reads!MergeWinningRecord(recs[i], r) \in T
      BY <2>1, <2>2
    <2>4. [recs EXCEPT ![i] = Reads!MergeWinningRecord(recs[i], r)] \in Seq(T)
      BY <2>1, <2>3
    <2>5. Reads!Fold(recs, r) \in {recs, [recs EXCEPT ![i] = Reads!MergeWinningRecord(recs[i], r)]}
      BY <1>2 DEF Reads!Fold, i
    <2> QED
      BY <2>4, <2>5
  <1> QED
    BY <1>1, <1>2

\* So does folding many.
LEMMA MergedStays ==
    ASSUME NEW T, \A x, y \in T : x.thing = y.thing => Reads!MergeWinningRecord(x, y) \in T,
           NEW base \in Seq(T), NEW s \in Seq(T)
    PROVE  Reads!Merged(base, s) \in Seq(T)
  <1> DEFINE n == Len(s)
             A == Seq(T)
             F == [x \in A |-> [y \in T |-> Reads!Fold(x, y)]]
             Body(g) == [i \in 0 .. Len(s) |-> IF i = 0 THEN base ELSE Reads!Fold(g[i - 1], s[i])]
             f == CHOOSE g : g = Body(g)
  <1>1. F \in [A -> [T -> A]]
    BY FoldStays
  <1>2. n \in Nat /\ s \in [1 .. n -> T] /\ base \in A
    OBVIOUS
  <1>3. PICK d : d \in [0 .. n -> A] /\ d[0] = base
                 /\ \A i \in 1 .. n : d[i] = F[d[i - 1]][s[i]]
    <2> HIDE DEF A, F, n
    <2>1. \E d : Along(d, A, F, base, n, s)
      BY <1>1, <1>2, TakenAlong
    <2> QED
      BY <2>1 DEF Along
  <1>4. \A i \in 1 .. n : d[i - 1] \in A /\ s[i] \in T
    <2> HIDE DEF A
    <2> QED
      BY <1>2, <1>3
  <1>5. \A i \in 1 .. n : d[i] = Reads!Fold(d[i - 1], s[i])
    <2> HIDE DEF A, n
    <2>1. \A i \in 1 .. n : F[d[i - 1]][s[i]] = Reads!Fold(d[i - 1], s[i])
      BY <1>4
    <2> HIDE DEF F
    <2> QED
      BY <1>3, <2>1
  <1>6. d = Body(d)
    <2>1. \A i \in 0 .. n : d[i] = Body(d)[i]
      BY <1>3, <1>5
    <2> QED
      BY <2>1, <1>3
  <1>7. f = Body(f)
    BY <1>6
  <1>8. Reads!Merged(base, s) = f[n]
    BY DEF Reads!Merged
  <1> HIDE DEF f
  <1>9. f[0] \in A /\ \A i \in 1 .. n : f[i] = Reads!Fold(f[i - 1], s[i])
    BY <1>7, <1>2
  <1>10. \A i \in 0 .. n : f[i] \in A
    <2> DEFINE S == {i \in 0 .. n : f[i] \in A}
    <2>1. \A x \in A, y \in T : Reads!Fold(x, y) \in A
      BY FoldStays
    <2>2. \A i \in 1 .. n : s[i] \in T
      BY <1>2
    <2> HIDE DEF A
    <2>3. ASSUME NEW i \in 1 .. n, i - 1 \in S PROVE i \in S
      <3>1. f[i - 1] \in A /\ s[i] \in T
        BY <2>2, <2>3
      <3> QED
        BY <1>9, <2>1, <3>1
    <2>4. 0 \in S
      BY <1>2, <1>9
    <2> HIDE DEF S
    <2>5. \A i \in 0 .. n : i \in S
      BY <1>2, <2>3, <2>4, CountingUp
    <2> QED
      BY <2>5 DEF S
  <1> QED
    BY <1>2, <1>8, <1>10

\* Filtering a sequence leaves members of the set only, and all of those.
LEMMA AmongMembers ==
    ASSUME NEW B, NEW s \in Seq(B), NEW S
    PROVE  /\ Reads!Among(s, S) \in Seq(B \cap S)
           /\ \A j \in 1 .. Len(s) : s[j] \in S =>
                 \E k \in 1 .. Len(Reads!Among(s, S)) : Reads!Among(s, S)[k] = s[j]
  <1> DEFINE n == Len(s)
             A == Seq(B \cap S)
             Keep(x, y) == IF y \in S THEN Append(x, y) ELSE x
             F == [x \in A |-> [y \in B |-> Keep(x, y)]]
             Body(g) == [i \in 0 .. Len(s) |-> IF i = 0 THEN <<>> ELSE Keep(g[i - 1], s[i])]
             f == CHOOSE g : g = Body(g)
  <1>0. \A x \in A, y \in B : Keep(x, y) \in A
    OBVIOUS
  <1>1. F \in [A -> [B -> A]]
    <2> HIDE DEF A, Keep
    <2> QED
      BY <1>0
  <1>2. n \in Nat /\ s \in [1 .. n -> B] /\ <<>> \in A
    OBVIOUS
  <1>3. PICK d : d \in [0 .. n -> A] /\ d[0] = <<>>
                 /\ \A i \in 1 .. n : d[i] = F[d[i - 1]][s[i]]
    <2> HIDE DEF A, F, n
    <2>1. \E d : Along(d, A, F, <<>>, n, s)
      BY <1>1, <1>2, TakenAlong
    <2> QED
      BY <2>1 DEF Along
  <1>4. \A i \in 1 .. n : d[i] = Keep(d[i - 1], s[i])
    <2> HIDE DEF A, n, Keep
    <2>1. \A i \in 1 .. n : d[i - 1] \in A /\ s[i] \in B
      BY <1>2, <1>3
    <2>2. \A i \in 1 .. n : F[d[i - 1]][s[i]] = Keep(d[i - 1], s[i])
      BY <2>1
    <2> HIDE DEF F
    <2> QED
      BY <1>3, <2>2
  <1>5. d = Body(d)
    <2>1. \A i \in 0 .. n : d[i] = Body(d)[i]
      <3> HIDE DEF Keep
      <3> QED
        BY <1>3, <1>4
    <2> HIDE DEF Keep
    <2> QED
      BY <2>1, <1>3
  <1>6. f = Body(f)
    <2> HIDE DEF Keep
    <2> QED
      BY <1>5
  <1>7. Reads!Among(s, S) = f[n]
    BY DEF Reads!Among
  <1> HIDE DEF f
  <1>8. f[0] = <<>> /\ \A i \in 1 .. n : f[i] = Keep(f[i - 1], s[i])
    <2> HIDE DEF Keep
    <2> QED
      BY <1>2, <1>6
  <1> DEFINE Holds(i) == \A j \in 1 .. i : s[j] \in S =>
                            \E k \in 1 .. Len(f[i]) : f[i][k] = s[j]
             G == {i \in 0 .. n : f[i] \in A /\ Holds(i)}
  <1>9. ASSUME NEW i \in 1 .. n, i - 1 \in G PROVE i \in G
    <2>1. f[i - 1] \in A /\ s[i] \in B /\ Holds(i - 1)
      BY <1>2, <1>9
    <2>2. f[i] \in A
      <3> HIDE DEF A, Keep
      <3> QED
        BY <1>0, <1>8, <2>1
    <2>3. CASE s[i] \notin S
      <3>1. f[i] = f[i - 1]
        BY <1>8, <2>3
      <3> QED
        BY <2>1, <2>2, <2>3, <3>1
    <2>4. CASE s[i] \in S
      <3>1. f[i] = Append(f[i - 1], s[i])
        BY <1>8, <2>4
      <3>2. Len(f[i]) = Len(f[i - 1]) + 1 /\ f[i][Len(f[i])] = s[i] /\ Len(f[i]) \in Nat
            /\ \A k \in 1 .. Len(f[i - 1]) : f[i][k] = f[i - 1][k]
        BY <2>1, <3>1
      <3>3. ASSUME NEW j \in 1 .. i, s[j] \in S PROVE \E k \in 1 .. Len(f[i]) : f[i][k] = s[j]
        <4>1. CASE j = i
          BY <3>2, <4>1, <2>1
        <4>2. CASE j # i
          <5>1. j \in 1 .. i - 1
            BY <4>2
          <5>2. PICK k \in 1 .. Len(f[i - 1]) : f[i - 1][k] = s[j]
            BY <2>1, <3>3, <5>1
          <5>3. k \in 1 .. Len(f[i]) /\ f[i][k] = s[j]
            BY <2>1, <3>2, <5>2
          <5> QED
            BY <5>3
        <4> QED
          BY <4>1, <4>2
      <3>4. Holds(i)
        BY <3>3
      <3> HIDE DEF A
      <3> QED
        BY <2>2, <3>4
    <2> QED
      BY <2>3, <2>4
  <1>10. 0 \in G
    <2>1. f[0] \in A /\ 0 \in 0 .. n
      BY <1>2, <1>8
    <2>2. Holds(0)
      OBVIOUS
    <2> HIDE DEF A, Holds, n
    <2> QED
      BY <2>1, <2>2
  <1>11. n \in G
    <2>1. n \in 0 .. n
      BY <1>2
    <2> HIDE DEF G, n
    <2> QED
      BY <1>2, <1>9, <1>10, <2>1, CountingUp
  <1> QED
    BY <1>7, <1>11

\* What is sieved out of a list has every element of the list that is wanted.
Sieved(s, S, c) == \A j \in 1 .. Len(s) : s[j] \in S => \E i \in 1 .. Len(c) : c[i] = s[j]

\* So it is with what the model takes.
LEMMA AmongSieved ==
    ASSUME NEW B, NEW s \in Seq(B), NEW S
    PROVE  Reads!Among(s, S) \in Seq(B \cap S) /\ Sieved(s, S, Reads!Among(s, S))
  BY AmongMembers DEF Sieved

\* What two lines show together, and what one shows of a thing.
LEMMA ShowsClosed ==
    /\ \A x, y \in Shows : Reads!Overlay(x, y) \in Shows
    /\ \A P \in SUBSET Props, v \in Nat : [p \in P |-> v] \in Shows
  <1>1. ASSUME NEW x \in Shows, NEW y \in Shows PROVE Reads!Overlay(x, y) \in Shows
    <2>1. PICK P \in SUBSET Props : x \in [P -> Nat]
      BY DEF Shows
    <2>2. PICK Q \in SUBSET Props : y \in [Q -> Nat]
      BY DEF Shows
    <2>3. Reads!Overlay(x, y) \in [P \cup Q -> Nat]
      BY <2>1, <2>2 DEF Reads!Overlay
    <2>4. P \cup Q \in SUBSET Props
      OBVIOUS
    <2> QED
      BY <2>3, <2>4 DEF Shows
  <1>2. ASSUME NEW P \in SUBSET Props, NEW v \in Nat PROVE [p \in P |-> v] \in Shows
    <2>1. [p \in P |-> v] \in [P -> Nat]
      OBVIOUS
    <2> QED
      BY <2>1 DEF Shows
  <1> QED
    BY <1>1, <1>2

\* A merge of truthful lines is truthful: they show the same state.
LEMMA MergeTruthful ==
    ASSUME NEW rev \in Nat, NEW vals, NEW x \in Truthful(rev, vals), NEW y \in Truthful(rev, vals),
           x.thing = y.thing
    PROVE  Reads!MergeWinningRecord(x, y) \in Truthful(rev, vals)
  <1>1. x \in Lines /\ y \in Lines
    BY DEF Truthful
  <1> DEFINE both == Reads!Overlay(x.props, y.props)
             z == [y EXCEPT !.props = both, !.sure = y.sure /\ x.sure]
  <1>2. both \in Shows /\ x.props \in Shows /\ y.props \in Shows
    <2>1. x.props \in Shows /\ y.props \in Shows
      BY <1>1 DEF Lines
    <2> QED
      BY <2>1, ShowsClosed
  <1>3. CASE x.revision = y.revision
    <2> HIDE DEF both
    <2>1. z \in Lines
      BY <1>1, <1>2 DEF Lines
    <2>2. /\ z.thing = y.thing /\ z.props = both /\ z.revision = y.revision
          /\ z.sure => x.sure /\ y.sure
      BY <1>1 DEF Lines
    <2>3. ASSUME z.sure, z.revision = rev PROVE TrueAt(z, vals)
      <3>1. TrueAt(x, vals) /\ TrueAt(y, vals)
        BY <1>3, <2>2, <2>3 DEF Truthful
      <3>2. ASSUME NEW p \in DOMAIN both PROVE both[p] = vals[y.thing]
        BY <3>1, <3>2 DEF both, Reads!Overlay, TrueAt
      <3> QED
        BY <2>2, <3>2 DEF TrueAt
    <2>4. z \in Truthful(rev, vals)
      <3> HIDE DEF z
      <3>1. z.revision <= rev
        BY <2>2 DEF Truthful
      <3> QED
        BY <2>1, <2>3, <3>1 DEF Truthful
    <2>5. Reads!MergeWinningRecord(x, y) \in {z, y}
      BY DEF Reads!MergeWinningRecord, both
    <2> QED
      BY <2>4, <2>5
  <1>4. CASE x.revision # y.revision
    BY <1>4 DEF Reads!MergeWinningRecord
  <1> QED
    BY <1>3, <1>4

\* So the cache that captures fold into stays truthful.
LEMMA MergedTruthful ==
    ASSUME NEW rev \in Nat, NEW vals, NEW base \in Seq(Truthful(rev, vals)),
           NEW s \in Seq(Truthful(rev, vals))
    PROVE  Reads!Merged(base, s) \in Seq(Truthful(rev, vals))
  BY MergeTruthful, MergedStays

-----------------------------------------------------------------------------
(* The working set: the inductive invariant. *)

\* Stamped with the revision and the config of now.
FreshAt(r, rev, dig) == r.revision = rev /\ r.digest = dig

Fetching(T) ==
    [at : {"fetch", "fetched"}, alone : BOOLEAN, digest : Nat, records : Seq(T), asOf : Nat,
     sure : BOOLEAN, todo : Seq(T), found : Seq(T)]

\* What a client holds is truthful too; what it has read and not stamped shows
\* the state as long as the call says that it is sure.
CallTruthful(k, rev, vals) ==
    LET T == Truthful(rev, vals)
    IN  \/ k = Reads!Idle
        \/ /\ k \in [at : {"revision"}, sure : BOOLEAN, read : Seq(Lines)]
           /\ k.sure => \A i \in DOMAIN k.read : TrueAt(k.read[i], vals)
        \/ k \in [at : {"digest"}, sure : BOOLEAN, read : Seq(T)]
        \/ k \in [at : {"load"}, read : Seq(T)]
        \/ k \in [at : {"rewrite"}, records : Seq(T)]
        \/ k \in [at : {"append"}, replaced : BOOLEAN, records : Seq(T)]
        \/ k \in [at : {"refresh"}, alone : BOOLEAN, digest : Nat]
        \/ k \in [at : {"classify"}, alone : BOOLEAN, digest : Nat, records : Seq(T)]
        \/ /\ k \in Fetching(T)
           /\ k.at = "fetched" =>
                 k.found # <<>> /\ (k.sure => TrueAt(k.found[Len(k.found)], vals))

\* A line of the refresh is fresh, or to be fetched, or fetched.
Covered(k, r, rev, dig) ==
    \/ FreshAt(r, rev, dig)
    \/ \E j \in DOMAIN k.todo : k.todo[j].thing = r.thing
    \/ \E j \in DOMAIN k.found : k.found[j].thing = r.thing

\* What was fetched is gone or fresh, but for a line that waits for its stamp.
Settled(k, j, rev, dig) ==
    \/ k.at = "fetched" /\ j = Len(k.found)
    \/ DOMAIN k.found[j].props = {}
    \/ FreshAt(k.found[j], rev, dig)

\* A refresh that nothing has disturbed.
RefreshOK(k, rev, dig) ==
    k.at \in {"refresh", "classify", "fetch", "fetched"} /\ k.alone =>
        /\ k.digest = dig
        /\ k.at \in {"fetch", "fetched"} =>
              /\ \A i \in DOMAIN k.records : Covered(k, k.records[i], rev, dig)
              /\ \A j \in DOMAIN k.found : Settled(k, j, rev, dig)

CacheInv ==
    /\ revision \in Nat \ {0} /\ values \in [Things -> Nat] /\ digest \in {1, 2} /\ time \in Nat
    /\ cache \in Seq(Truthful(revision, values))
    /\ capture = [c \in Processes |-> capture[c]]
    /\ \A c \in Processes :
          CallTruthful(capture[c], revision, values) /\ RefreshOK(capture[c], revision, digest)

\* A client that takes a step leaves what the others hold alone.
LEMMA ClientMoves ==
    ASSUME CacheInv, NEW c \in Processes, NEW k,
           CallTruthful(k, revision, values), RefreshOK(k, revision, digest),
           Reads!Goto(c, k), UNCHANGED <<revision, values, digest, reloads>>, time' \in Nat,
           cache' \in Seq(Truthful(revision, values))
    PROVE  CacheInv'
  <1>1. capture' = [capture EXCEPT ![c] = k] /\ revision' = revision /\ values' = values
        /\ digest' = digest
    BY DEF Reads!Goto
  <1>2. capture' = [d \in Processes |-> IF d = c THEN k ELSE capture[d]]
    BY <1>1 DEF CacheInv
  <1>3. \A d \in Processes :
           CallTruthful(capture'[d], revision, values) /\ RefreshOK(capture'[d], revision, digest)
    BY <1>2 DEF CacheInv
  <1>4. capture' = [d \in Processes |-> capture'[d]]
    BY <1>2
  <1> QED
    BY <1>1, <1>3, <1>4 DEF CacheInv

\* A client about to append holds the same lines when its file is replaced.
LEMMA DisplacedOK ==
    ASSUME NEW rev, NEW vals, NEW dig, NEW k, CallTruthful(k, rev, vals), RefreshOK(k, rev, dig)
    PROVE  CallTruthful(Reads!Displace(k), rev, vals) /\ RefreshOK(Reads!Displace(k), rev, dig)
  <1> DEFINE T == Truthful(rev, vals)
  <1>1. CASE k.at = "append"
    <2>1. k \in [at : {"append"}, replaced : BOOLEAN, records : Seq(T)]
      BY <1>1 DEF CallTruthful, Reads!Idle, Fetching
    <2>2. Reads!Displace(k) = [k EXCEPT !.replaced = TRUE]
      BY <1>1 DEF Reads!Displace
    <2> HIDE DEF T
    <2>3. [k EXCEPT !.replaced = TRUE] \in [at : {"append"}, replaced : BOOLEAN, records : Seq(T)]
      BY <2>1
    <2>4. [k EXCEPT !.replaced = TRUE].at = "append"
      BY <2>1
    <2> QED
      BY <2>2, <2>3, <2>4 DEF CallTruthful, RefreshOK, T
  <1>2. CASE k.at # "append"
    BY <1>2 DEF Reads!Displace
  <1> QED
    BY <1>1, <1>2

\* A file that takes the place of the cache.
LEMMA ReplacedInv ==
    ASSUME CacheInv, NEW C,
           capture' = [d \in Processes |-> IF d \in C THEN Reads!Idle ELSE Reads!Displace(capture[d])],
           UNCHANGED <<revision, values, digest, reloads, time>>,
           cache' \in Seq(Truthful(revision, values))
    PROVE  CacheInv'
  <1>1. CallTruthful(Reads!Idle, revision, values) /\ RefreshOK(Reads!Idle, revision, digest)
    BY DEF CallTruthful, RefreshOK, Reads!Idle
  <1>2. \A d \in Processes :
           CallTruthful(capture'[d], revision, values) /\ RefreshOK(capture'[d], revision, digest)
    BY <1>1, DisplacedOK DEF CacheInv
  <1>3. capture' = [d \in Processes |-> capture'[d]]
    OBVIOUS
  <1> QED
    BY <1>2, <1>3 DEF CacheInv

\* A write leaves no line at the current revision, and disturbs every refresh.
LEMMA WriteKeepsTruth ==
    ASSUME NEW rev \in Nat, NEW vals, NEW other
    PROVE  Seq(Truthful(rev, vals)) \subseteq Seq(Truthful(rev + 1, other))
  <1>1. ASSUME NEW r \in Truthful(rev, vals) PROVE r \in Truthful(rev + 1, other)
    <2>1. r \in Lines /\ r.revision <= rev /\ r.revision \in Nat
      BY DEF Truthful, Lines
    <2> QED
      BY <2>1 DEF Truthful
  <1> DEFINE S == Truthful(rev, vals)
             T == Truthful(rev + 1, other)
  <1>2. S \subseteq T
    BY <1>1
  <1> HIDE DEF S, T
  <1>3. Seq(S) \subseteq Seq(T)
    BY <1>2
  <1> QED
    BY <1>3 DEF S, T

\* ... so a call that was in progress is not sure of what it read, nor alone.
LEMMA WriteCall ==
    ASSUME NEW rev \in Nat, NEW vals, NEW dig, NEW other, NEW k,
           CallTruthful(k, rev, vals), RefreshOK(k, rev, dig)
    PROVE  /\ CallTruthful(Reads!AfterWrite(k), rev + 1, other)
           /\ RefreshOK(Reads!AfterWrite(k), rev + 1, dig)
  <1> DEFINE S == Seq(Truthful(rev, vals))
             T == Seq(Truthful(rev + 1, other))
             m == Reads!AfterWrite(k)
             Old == Fetching(Truthful(rev, vals))
             New == Fetching(Truthful(rev + 1, other))
  <1>1. S \subseteq T
    BY WriteKeepsTruth
  <1>2. CASE k = Reads!Idle
    <2>1. m = Reads!Idle
      BY <1>2 DEF Reads!AfterWrite, Reads!AfterReload, Reads!Refreshing, Reads!Idle
    <2> QED
      BY <2>1 DEF CallTruthful, RefreshOK, Reads!Idle
  <1>3. CASE k \in [at : {"revision"}, sure : BOOLEAN, read : Seq(Lines)]
    <2>1. m = [k EXCEPT !.sure = FALSE]
      BY <1>3 DEF Reads!AfterWrite, Reads!AfterReload, Reads!Refreshing
    <2>2. m \in [at : {"revision"}, sure : BOOLEAN, read : Seq(Lines)] /\ m.sure = FALSE
          /\ m.at = "revision"
      BY <1>3, <2>1
    <2> QED
      BY <2>2 DEF CallTruthful, RefreshOK
  <1>4. CASE \/ k \in [at : {"digest"}, sure : BOOLEAN, read : S]
             \/ k \in [at : {"load"}, read : S]
             \/ k \in [at : {"rewrite"}, records : S]
             \/ k \in [at : {"append"}, replaced : BOOLEAN, records : S]
    <2> HIDE DEF S, T
    <2>1. k.at \in {"digest", "load", "rewrite", "append"}
      BY <1>4
    <2>2. m = k
      BY <2>1 DEF Reads!AfterWrite, Reads!AfterReload, Reads!Refreshing
    <2>3. \/ k \in [at : {"digest"}, sure : BOOLEAN, read : T]
          \/ k \in [at : {"load"}, read : T]
          \/ k \in [at : {"rewrite"}, records : T]
          \/ k \in [at : {"append"}, replaced : BOOLEAN, records : T]
      BY <1>1, <1>4
    <2> QED
      BY <2>1, <2>2, <2>3 DEF CallTruthful, RefreshOK, T
  <1>5. CASE \/ k \in [at : {"refresh"}, alone : BOOLEAN, digest : Nat]
             \/ k \in [at : {"classify"}, alone : BOOLEAN, digest : Nat, records : S]
    <2> HIDE DEF S, T
    <2>1. k.at \in {"refresh", "classify"}
      BY <1>5
    <2>2. m = [k EXCEPT !.alone = FALSE]
      BY <2>1 DEF Reads!AfterWrite, Reads!AfterReload, Reads!Refreshing
    <2>3. \/ m \in [at : {"refresh"}, alone : BOOLEAN, digest : Nat]
          \/ m \in [at : {"classify"}, alone : BOOLEAN, digest : Nat, records : T]
      BY <1>1, <1>5, <2>2
    <2>4. m.alone = FALSE
      BY <1>5, <2>2
    <2> QED
      BY <2>3, <2>4 DEF CallTruthful, RefreshOK, T
  <1>6. CASE k \in Old /\ (k.at = "fetched" => k.found # <<>>)
    <2>1. Old = [at : {"fetch", "fetched"}, alone : BOOLEAN, digest : Nat, records : S, asOf : Nat,
                 sure : BOOLEAN, todo : S, found : S]
      BY DEF Fetching
    <2>2. New = [at : {"fetch", "fetched"}, alone : BOOLEAN, digest : Nat, records : T, asOf : Nat,
                 sure : BOOLEAN, todo : T, found : T]
      BY DEF Fetching
    <2> HIDE DEF S, T
    <2>3. k.at \in {"fetch", "fetched"}
      BY <1>6, <2>1
    <2>4. CASE k.at = "fetch"
      <3>1. m = [k EXCEPT !.alone = FALSE]
        BY <2>4 DEF Reads!AfterWrite, Reads!AfterReload, Reads!Refreshing
      <3> HIDE DEF Old, New
      <3>2. m \in New /\ m.alone = FALSE /\ m.at = "fetch"
        BY <1>1, <1>6, <2>1, <2>2, <2>4, <3>1
      <3> QED
        BY <3>2 DEF CallTruthful, RefreshOK, New
    <2>5. CASE k.at = "fetched"
      <3>1. m = [[k EXCEPT !.alone = FALSE] EXCEPT !.sure = FALSE]
        BY <2>5 DEF Reads!AfterWrite, Reads!AfterReload, Reads!Refreshing
      <3> HIDE DEF Old, New
      <3>2. m \in New /\ m.alone = FALSE /\ m.sure = FALSE /\ m.found = k.found
        BY <1>1, <1>6, <2>1, <2>2, <2>5, <3>1
      <3> QED
        BY <1>6, <2>5, <3>2 DEF CallTruthful, RefreshOK, New
    <2> QED
      BY <2>3, <2>4, <2>5
  <1>7. \/ k = Reads!Idle
        \/ k \in [at : {"revision"}, sure : BOOLEAN, read : Seq(Lines)]
        \/ k \in [at : {"digest"}, sure : BOOLEAN, read : S]
        \/ k \in [at : {"load"}, read : S]
        \/ k \in [at : {"rewrite"}, records : S]
        \/ k \in [at : {"append"}, replaced : BOOLEAN, records : S]
        \/ k \in [at : {"refresh"}, alone : BOOLEAN, digest : Nat]
        \/ k \in [at : {"classify"}, alone : BOOLEAN, digest : Nat, records : S]
        \/ k \in Old /\ (k.at = "fetched" => k.found # <<>>)
    BY DEF CallTruthful
  <1> HIDE DEF S, T, m, Old, New
  <1> QED
    BY <1>2, <1>3, <1>4, <1>5, <1>6, <1>7 DEF m

\* Writes of the state keep the invariant.
LEMMA WriteStateInv ==
    ASSUME CacheInv, NEW t \in Things, NEW gone \in BOOLEAN, Reads!WriteState(t, gone)
    PROVE  CacheInv'
  <1>1. /\ revision' = revision + 1 /\ digest' = digest /\ cache' = cache /\ time' = time
        /\ values' = [values EXCEPT ![t] = IF gone THEN 0 ELSE revision + 1]
        /\ capture' = [c \in Processes |-> Reads!AfterWrite(capture[c])]
    BY DEF Reads!WriteState, Reads!Gone
  <1>2. revision \in Nat \ {0} /\ values \in [Things -> Nat] /\ digest \in {1, 2} /\ time \in Nat
    BY DEF CacheInv
  <1>3. values' \in [Things -> Nat] /\ revision' \in Nat \ {0}
    BY <1>1, <1>2
  <1>4. cache' \in Seq(Truthful(revision', values'))
    <2>1. cache \in Seq(Truthful(revision, values))
      BY DEF CacheInv
    <2> QED
      BY <1>1, <1>2, <2>1, WriteKeepsTruth
  <1>5. ASSUME NEW c \in Processes
        PROVE  CallTruthful(capture'[c], revision', values') /\ RefreshOK(capture'[c], revision', digest')
    <2>1. CallTruthful(capture[c], revision, values) /\ RefreshOK(capture[c], revision, digest)
      BY DEF CacheInv
    <2>2. capture'[c] = Reads!AfterWrite(capture[c])
      BY <1>1
    <2> QED
      BY <1>1, <1>2, <2>1, <2>2, WriteCall
  <1>6. capture' = [c \in Processes |-> capture'[c]]
    BY <1>1
  <1> QED
    BY <1>1, <1>2, <1>3, <1>4, <1>5, <1>6 DEF CacheInv

\* A reload disturbs a refresh, and nothing else that a client holds.
LEMMA ReloadCall ==
    ASSUME NEW rev, NEW vals, NEW other, NEW k, CallTruthful(k, rev, vals)
    PROVE  /\ CallTruthful(Reads!AfterReload(k), rev, vals)
           /\ RefreshOK(Reads!AfterReload(k), rev, other)
  <1> DEFINE S == Seq(Truthful(rev, vals))
             m == Reads!AfterReload(k)
  <1>1. CASE k.at \notin {"refresh", "classify", "fetch", "fetched"}
    BY <1>1 DEF Reads!AfterReload, Reads!Refreshing, RefreshOK
  <1>2. CASE k.at \in {"refresh", "classify", "fetch", "fetched"}
    <2>1. \/ k \in [at : {"refresh"}, alone : BOOLEAN, digest : Nat]
          \/ k \in [at : {"classify"}, alone : BOOLEAN, digest : Nat, records : S]
          \/ /\ k \in [at : {"fetch", "fetched"}, alone : BOOLEAN, digest : Nat, records : S,
                       asOf : Nat, sure : BOOLEAN, todo : S, found : S]
             /\ k.at = "fetched" =>
                   k.found # <<>> /\ (k.sure => TrueAt(k.found[Len(k.found)], vals))
      BY <1>2 DEF CallTruthful, Fetching, Reads!Idle
    <2> HIDE DEF S
    <2>2. m = [k EXCEPT !.alone = FALSE]
      BY <1>2 DEF Reads!AfterReload, Reads!Refreshing
    <2>3. m.alone = FALSE
      BY <2>1, <2>2
    <2>4. \/ m \in [at : {"refresh"}, alone : BOOLEAN, digest : Nat]
          \/ m \in [at : {"classify"}, alone : BOOLEAN, digest : Nat, records : S]
          \/ /\ m \in [at : {"fetch", "fetched"}, alone : BOOLEAN, digest : Nat, records : S,
                       asOf : Nat, sure : BOOLEAN, todo : S, found : S]
             /\ m.at = k.at /\ m.found = k.found /\ m.sure = k.sure
             /\ k.at = "fetched" =>
                   k.found # <<>> /\ (k.sure => TrueAt(k.found[Len(k.found)], vals))
      BY <2>1, <2>2
    <2> HIDE DEF m
    <2>5. CallTruthful(m, rev, vals)
      BY <2>4 DEF CallTruthful, Fetching, S
    <2> QED
      BY <2>3, <2>5 DEF RefreshOK, m
  <1> QED
    BY <1>1, <1>2

\* Reloads keep the invariant.
LEMMA ReloadConfigInv ==
    ASSUME CacheInv, Reads!ReloadConfig
    PROVE  CacheInv'
  <1>1. /\ revision' = revision /\ digest' = 3 - digest /\ cache' = cache /\ time' = time
        /\ values' = values /\ capture' = [c \in Processes |-> Reads!AfterReload(capture[c])]
    BY DEF Reads!ReloadConfig
  <1>2. digest' \in {1, 2}
    BY <1>1 DEF CacheInv
  <1>3. ASSUME NEW c \in Processes
        PROVE  CallTruthful(capture'[c], revision', values') /\ RefreshOK(capture'[c], revision', digest')
    <2>1. CallTruthful(capture[c], revision, values)
      BY DEF CacheInv
    <2>2. capture'[c] = Reads!AfterReload(capture[c])
      BY <1>1
    <2> QED
      BY <1>1, <2>1, <2>2, ReloadCall
  <1>4. capture' = [c \in Processes |-> capture'[c]]
    BY <1>1
  <1> QED
    BY <1>1, <1>2, <1>3, <1>4 DEF CacheInv

\* What a read shows of a thing, whatever it is stamped with.
LEMMA ShownTrue ==
    ASSUME CacheInv, NEW t \in Things, NEW P \in SUBSET Props
    PROVE  LET r == Reads!Shown(t, P)
           IN  /\ r \in Lines /\ r.thing = t /\ r.props = [p \in P |-> values[t]] /\ r.revision = 0
               /\ TrueAt(r, values) /\ DOMAIN r.props = P
  <1>1. values[t] \in Nat
    BY DEF CacheInv
  <1>2. [p \in P |-> values[t]] \in Shows
    BY <1>1, ShowsClosed
  <1> DEFINE r == Reads!Shown(t, P)
  <1>3. r = [thing |-> t, props |-> [p \in P |-> values[t]], revision |-> 0, digest |-> 0,
             asOf |-> 0, sure |-> TRUE]
    BY DEF Reads!Shown, Reads!Unresolved
  <1>4. r \in Lines
    BY <1>2, <1>3 DEF Lines
  <1>5. r.thing = t /\ r.props = [p \in P |-> values[t]] /\ r.revision = 0
    BY <1>3
  <1> HIDE DEF r
  <1> QED
    BY <1>4, <1>5 DEF TrueAt, r

\* Payloads name things and properties that exist.
LEMMA PayloadsNamed ==
    ASSUME NEW payload \in Payloads \cup Earlier
    PROVE  /\ DOMAIN payload = 1 .. Len(payload) /\ Len(payload) \in Nat
           /\ \A i \in DOMAIN payload :
                 payload[i][1] \in Things /\ payload[i][2] \in SUBSET Props
  BY PayloadsAssumption

\* A line that a refresh stamps again.
LEMMA StampedLine ==
    ASSUME NEW c, capture[c].digest \in Nat, capture[c].asOf \in Nat,
           NEW r \in Lines, NEW rev \in Nat, NEW sure \in BOOLEAN
    PROVE  LET s == Reads!Stamped(c, r, rev, sure)
           IN  /\ s \in Lines /\ s.thing = r.thing /\ s.props = r.props /\ s.revision = rev
               /\ s.digest = capture[c].digest /\ s.sure = sure
  BY DEF Lines, Reads!Stamped

\* The stage of a call tells its shape.
LEMMA CallShapes ==
    ASSUME CacheInv, NEW c \in Processes
    PROVE  LET k == capture[c]
               T == Truthful(revision, values)
           IN  /\ k.at = "idle" => k = Reads!Idle
               /\ k.at = "revision" =>
                     /\ k \in [at : {"revision"}, sure : BOOLEAN, read : Seq(Lines)]
                     /\ k.sure => \A i \in DOMAIN k.read : TrueAt(k.read[i], values)
               /\ k.at = "digest" => k \in [at : {"digest"}, sure : BOOLEAN, read : Seq(T)]
               /\ k.at = "load" => k \in [at : {"load"}, read : Seq(T)]
               /\ k.at = "rewrite" => k \in [at : {"rewrite"}, records : Seq(T)]
               /\ k.at = "append" =>
                     k \in [at : {"append"}, replaced : BOOLEAN, records : Seq(T)]
               /\ k.at = "refresh" => k \in [at : {"refresh"}, alone : BOOLEAN, digest : Nat]
               /\ k.at = "classify" =>
                     k \in [at : {"classify"}, alone : BOOLEAN, digest : Nat, records : Seq(T)]
               /\ k.at \in {"fetch", "fetched"} =>
                     /\ k \in Fetching(T)
                     /\ k.at = "fetched" =>
                          k.found # <<>> /\ (k.sure => TrueAt(k.found[Len(k.found)], values))
  <1>1. CallTruthful(capture[c], revision, values)
    BY DEF CacheInv
  <1> DEFINE k == capture[c]
             T == Truthful(revision, values)
             F == Fetching(T)
  <1>2. k \in F => k.at \in {"fetch", "fetched"}
    BY DEF Fetching
  <1>3. k = Reads!Idle => k.at = "idle"
    BY DEF Reads!Idle
  <1> HIDE DEF k, T, F
  <1>4. \/ k = Reads!Idle
        \/ /\ k \in [at : {"revision"}, sure : BOOLEAN, read : Seq(Lines)]
           /\ k.sure => \A i \in DOMAIN k.read : TrueAt(k.read[i], values)
        \/ k \in [at : {"digest"}, sure : BOOLEAN, read : Seq(T)]
        \/ k \in [at : {"load"}, read : Seq(T)]
        \/ k \in [at : {"rewrite"}, records : Seq(T)]
        \/ k \in [at : {"append"}, replaced : BOOLEAN, records : Seq(T)]
        \/ k \in [at : {"refresh"}, alone : BOOLEAN, digest : Nat]
        \/ k \in [at : {"classify"}, alone : BOOLEAN, digest : Nat, records : Seq(T)]
        \/ /\ k \in F
           /\ k.at = "fetched" =>
                 k.found # <<>> /\ (k.sure => TrueAt(k.found[Len(k.found)], values))
    BY <1>1 DEF CallTruthful, k, T, F
  <1>5. /\ k.at = "idle" => k = Reads!Idle
        /\ k.at = "revision" =>
              /\ k \in [at : {"revision"}, sure : BOOLEAN, read : Seq(Lines)]
              /\ k.sure => \A i \in DOMAIN k.read : TrueAt(k.read[i], values)
        /\ k.at = "digest" => k \in [at : {"digest"}, sure : BOOLEAN, read : Seq(T)]
        /\ k.at = "load" => k \in [at : {"load"}, read : Seq(T)]
        /\ k.at = "rewrite" => k \in [at : {"rewrite"}, records : Seq(T)]
        /\ k.at = "append" => k \in [at : {"append"}, replaced : BOOLEAN, records : Seq(T)]
    BY <1>2, <1>3, <1>4
  <1>6. /\ k.at = "refresh" => k \in [at : {"refresh"}, alone : BOOLEAN, digest : Nat]
        /\ k.at = "classify" =>
              k \in [at : {"classify"}, alone : BOOLEAN, digest : Nat, records : Seq(T)]
        /\ k.at \in {"fetch", "fetched"} =>
              /\ k \in F
              /\ k.at = "fetched" =>
                    k.found # <<>> /\ (k.sure => TrueAt(k.found[Len(k.found)], values))
    BY <1>2, <1>3, <1>4
  <1> QED
    BY <1>5, <1>6 DEF k, T, F

\* A sequence of truthful lines, line by line.
LEMMA LineByLine ==
    ASSUME NEW T, NEW n \in Nat, NEW s, s = [i \in 1 .. n |-> s[i]], \A i \in 1 .. n : s[i] \in T
    PROVE  s \in Seq(T)
  OBVIOUS

\* A read before its revision is known shows the state; one whose revision came
\* first shows the state if that revision is still the current one.
LEMMA ReadInv ==
    ASSUME CacheInv, NEW c \in Processes, NEW payload \in Payloads,
           NEW before \in {0} \cup 1 .. revision, Reads!Read(c, payload, before)
    PROVE  CacheInv'
  <1> DEFINE Line(i) == [Reads!Shown(payload[i][1], payload[i][2]) EXCEPT !.revision = before]
             read == [i \in DOMAIN payload |-> Line(i)]
             k == [at |-> IF before = 0 THEN "revision" ELSE "digest", sure |-> TRUE, read |-> read]
             T == Truthful(revision, values)
  <1>1. Reads!Goto(c, k) /\ UNCHANGED <<revision, values, digest, reloads, cache, time>>
    BY DEF Reads!Read, Reads!state, Reads!Unresolved
  <1>2. revision \in Nat \ {0} /\ before \in Nat /\ before <= revision
    BY DEF CacheInv
  <1>3. DOMAIN payload = 1 .. Len(payload) /\ Len(payload) \in Nat
    BY PayloadsNamed
  <1>4. ASSUME NEW i \in DOMAIN payload
        PROVE  Line(i) \in Lines /\ TrueAt(Line(i), values) /\ Line(i).revision = before
    <2>1. payload[i][1] \in Things /\ payload[i][2] \in SUBSET Props
      BY PayloadsNamed
    <2> DEFINE r == Reads!Shown(payload[i][1], payload[i][2])
    <2>2. r \in Lines /\ TrueAt(r, values)
      BY <2>1, ShownTrue
    <2> HIDE DEF r
    <2>3. /\ [r EXCEPT !.revision = before] \in Lines
          /\ [r EXCEPT !.revision = before].revision = before
          /\ [r EXCEPT !.revision = before].props = r.props
          /\ [r EXCEPT !.revision = before].thing = r.thing
      BY <1>2, <2>2 DEF Lines
    <2>4. TrueAt([r EXCEPT !.revision = before], values)
      BY <2>2, <2>3 DEF TrueAt
    <2> QED
      BY <2>3, <2>4 DEF r
  <1>5. read = [i \in 1 .. Len(payload) |-> Line(i)] /\ \A i \in 1 .. Len(payload) : read[i] = Line(i)
    BY <1>3
  <1> HIDE DEF Line
  <1>6. read \in Seq(Lines) /\ \A i \in DOMAIN read : TrueAt(read[i], values)
    <2> HIDE DEF T
    <2> QED
      BY <1>3, <1>4, <1>5, LineByLine
  <1>7. read \in Seq(T)
    <2>1. \A i \in 1 .. Len(payload) : read[i] \in T
      BY <1>2, <1>3, <1>4, <1>5 DEF Truthful
    <2> HIDE DEF T
    <2> QED
      BY <1>3, <1>5, <2>1, LineByLine
  <1> HIDE DEF read, T
  <1>8. CallTruthful(k, revision, values)
    <2>1. CASE before = 0
      <3>1. k \in [at : {"revision"}, sure : BOOLEAN, read : Seq(Lines)] /\ k.read = read
        BY <1>6, <2>1
      <3> QED
        BY <1>6, <3>1 DEF CallTruthful
    <2>2. CASE before # 0
      <3>1. k \in [at : {"digest"}, sure : BOOLEAN, read : Seq(T)]
        BY <1>7, <2>2
      <3> QED
        BY <3>1 DEF CallTruthful, T
    <2> QED
      BY <2>1, <2>2
  <1>9. RefreshOK(k, revision, digest)
    BY DEF RefreshOK
  <1> HIDE DEF k
  <1> QED
    BY <1>1, <1>8, <1>9, ClientMoves DEF CacheInv

\* A revision that is read after the values makes a line of that revision, sure
\* of it if no write came in between.
LEMMA ResolveRevisionInv ==
    ASSUME CacheInv, NEW c \in Processes, NEW known \in BOOLEAN, Reads!ResolveRevision(c, known)
    PROVE  CacheInv'
  <1> DEFINE old == capture[c]
             rev == IF known THEN revision ELSE 0
             Line(i) == [old.read[i] EXCEPT !.revision = rev, !.sure = old.sure]
             read == [i \in DOMAIN old.read |-> Line(i)]
             k == [old EXCEPT !.at = "digest", !.sure = TRUE, !.read = read]
             T == Truthful(revision, values)
  <1>1. old.at = "revision"
    BY DEF Reads!ResolveRevision, Reads!At
  <1>2. /\ old \in [at : {"revision"}, sure : BOOLEAN, read : Seq(Lines)]
        /\ old.sure => \A i \in DOMAIN old.read : TrueAt(old.read[i], values)
    BY <1>1, CallShapes
  <1>3. Reads!Goto(c, k) /\ UNCHANGED <<revision, values, digest, reloads, cache, time>>
    BY <1>2 DEF Reads!ResolveRevision, Reads!state, Reads!Unresolved
  <1>4. revision \in Nat \ {0} /\ rev \in Nat /\ rev <= revision
    BY DEF CacheInv
  <1> HIDE DEF old
  <1>5. old.read \in Seq(Lines) /\ old.sure \in BOOLEAN
    BY <1>2
  <1>6. ASSUME NEW i \in DOMAIN old.read PROVE Line(i) \in T
    <2> DEFINE r == old.read[i]
    <2>1. r \in Lines
      BY <1>5
    <2> HIDE DEF r
    <2>2. /\ [r EXCEPT !.revision = rev, !.sure = old.sure] \in Lines
          /\ [r EXCEPT !.revision = rev, !.sure = old.sure].revision = rev
          /\ [r EXCEPT !.revision = rev, !.sure = old.sure].sure = old.sure
          /\ [r EXCEPT !.revision = rev, !.sure = old.sure].props = r.props
          /\ [r EXCEPT !.revision = rev, !.sure = old.sure].thing = r.thing
      BY <1>4, <1>5, <2>1 DEF Lines
    <2>3. old.sure => TrueAt([r EXCEPT !.revision = rev, !.sure = old.sure], values)
      BY <1>2, <2>2 DEF TrueAt, r
    <2>4. [r EXCEPT !.revision = rev, !.sure = old.sure] \in T
      BY <1>4, <2>2, <2>3 DEF Truthful
    <2> QED
      BY <2>4 DEF r
  <1> HIDE DEF Line, T
  <1>7. read \in Seq(T)
    <2>1. DOMAIN old.read = 1 .. Len(old.read) /\ Len(old.read) \in Nat
      BY <1>5
    <2> QED
      BY <1>6, <2>1, LineByLine
  <1> HIDE DEF read
  <1>8. k \in [at : {"digest"}, sure : BOOLEAN, read : Seq(T)] /\ k.at = "digest"
    BY <1>2, <1>7
  <1> HIDE DEF k
  <1>9. CallTruthful(k, revision, values) /\ RefreshOK(k, revision, digest)
    BY <1>8 DEF CallTruthful, RefreshOK, T
  <1> QED
    BY <1>3, <1>9, ClientMoves DEF CacheInv

\* The config's digest and the time say nothing about the values.
LEMMA StampCaptureInv ==
    ASSUME CacheInv, NEW c \in Processes, NEW resolved \in BOOLEAN, Reads!StampCapture(c, resolved)
    PROVE  CacheInv'
  <1> DEFINE old == capture[c]
             dig == IF resolved THEN digest ELSE 0
             Line(i) == [old.read[i] EXCEPT !.digest = dig, !.asOf = time + 1]
             read == [i \in DOMAIN old.read |-> Line(i)]
             k == [at |-> "load", read |-> read]
             T == Truthful(revision, values)
  <1>1. old.at = "digest"
    BY DEF Reads!StampCapture, Reads!At
  <1>2. old \in [at : {"digest"}, sure : BOOLEAN, read : Seq(T)]
    BY <1>1, CallShapes
  <1>3. /\ Reads!Goto(c, k) /\ UNCHANGED <<revision, values, digest, reloads, cache>>
        /\ time' = time + 1
    BY DEF Reads!StampCapture, Reads!state, Reads!Unresolved
  <1>4. dig \in Nat /\ time + 1 \in Nat
    BY DEF CacheInv
  <1> HIDE DEF old
  <1>5. old.read \in Seq(T)
    BY <1>2
  <1>6. ASSUME NEW i \in DOMAIN old.read PROVE Line(i) \in T
    <2> DEFINE r == old.read[i]
               s == [r EXCEPT !.digest = dig, !.asOf = time + 1]
    <2>1. r \in T
      <3> HIDE DEF T
      <3> QED
        BY <1>5
    <2> HIDE DEF r
    <2>2. r \in Lines
      BY <2>1 DEF Truthful
    <2>3. /\ s \in Lines /\ s.revision = r.revision /\ s.sure = r.sure /\ s.props = r.props
          /\ s.thing = r.thing
      BY <1>4, <2>2 DEF Lines
    <2> HIDE DEF s
    <2>4. s \in T
      BY <2>1, <2>3 DEF Truthful, TrueAt
    <2> QED
      BY <2>4 DEF r, s
  <1> HIDE DEF Line, T
  <1>7. read \in Seq(T)
    <2>1. DOMAIN old.read = 1 .. Len(old.read) /\ Len(old.read) \in Nat
      BY <1>5
    <2> QED
      BY <1>6, <2>1, LineByLine
  <1> HIDE DEF read
  <1>8. k \in [at : {"load"}, read : Seq(T)] /\ k.at = "load"
    BY <1>7
  <1> HIDE DEF k
  <1>9. CallTruthful(k, revision, values) /\ RefreshOK(k, revision, digest)
    BY <1>8 DEF CallTruthful, RefreshOK, T
  <1> QED
    BY <1>3, <1>4, <1>9, ClientMoves DEF CacheInv

\* What is to be rewritten or appended was folded from truthful lines.
LEMMA LoadForAppendInv ==
    ASSUME CacheInv, NEW c \in Processes, Reads!LoadForAppend(c)
    PROVE  CacheInv'
  <1> DEFINE T == Truthful(revision, values)
             existing == Reads!Dedupe(cache)
             fresh == Reads!Dedupe(capture[c].read)
             merged == Reads!Merged(existing, fresh)
             appended == SubSeq(merged, Len(existing) + 1, Len(merged))
             k1 == [at |-> "rewrite", records |-> merged]
             k2 == [at |-> "append", replaced |-> FALSE, records |-> appended]
  <1>1. capture[c].at = "load"
    BY DEF Reads!LoadForAppend, Reads!At
  <1>2. capture[c].read \in Seq(T) /\ cache \in Seq(T) /\ <<>> \in Seq(T) /\ revision \in Nat
    BY <1>1, CallShapes DEF CacheInv
  <1>3. existing \in Seq(T) /\ fresh \in Seq(T)
    BY <1>2, MergedTruthful DEF Reads!Dedupe
  <1>4. merged \in Seq(T)
    <2> HIDE DEF existing, fresh
    <2> QED
      BY <1>2, <1>3, MergedTruthful
  <1>5. /\ Reads!Goto(c, k1) \/ Reads!Goto(c, k2) \/ Reads!Goto(c, Reads!Idle)
        /\ UNCHANGED <<revision, values, digest, reloads, cache, time>>
    BY DEF Reads!LoadForAppend, Reads!state
  <1> HIDE DEF existing, fresh, merged, T
  <1>6. appended \in Seq(T)
    <2>1. Len(existing) \in Nat /\ Len(merged) \in Nat
      BY <1>3, <1>4
    <2> QED
      BY <1>4, <2>1
  <1> HIDE DEF appended
  <1>7. k1 \in [at : {"rewrite"}, records : Seq(T)] /\ k1.at = "rewrite"
    BY <1>4
  <1>8. k2 \in [at : {"append"}, replaced : BOOLEAN, records : Seq(T)] /\ k2.at = "append"
    BY <1>6
  <1> HIDE DEF k1, k2
  <1>9. CallTruthful(k1, revision, values) /\ RefreshOK(k1, revision, digest)
    BY <1>7 DEF CallTruthful, RefreshOK, T
  <1>10. CallTruthful(k2, revision, values) /\ RefreshOK(k2, revision, digest)
    BY <1>8 DEF CallTruthful, RefreshOK, T
  <1>11. CallTruthful(Reads!Idle, revision, values) /\ RefreshOK(Reads!Idle, revision, digest)
    BY DEF CallTruthful, RefreshOK, Reads!Idle
  <1> QED
    BY <1>5, <1>9, <1>10, <1>11, ClientMoves DEF CacheInv

\* A compaction writes the lines it holds.
LEMMA RewriteInv ==
    ASSUME CacheInv, NEW c \in Processes, Reads!Rewrite(c)
    PROVE  CacheInv'
  <1>1. capture[c].at = "rewrite" /\ cache' = capture[c].records
    BY DEF Reads!Rewrite, Reads!At
  <1>2. capture[c] \in [at : {"rewrite"}, records : Seq(Truthful(revision, values))]
    BY <1>1, CallShapes
  <1>3. cache' \in Seq(Truthful(revision, values))
    BY <1>1, <1>2
  <1>4. capture' = [d \in Processes |-> IF d \in {c} THEN Reads!Idle ELSE Reads!Displace(capture[d])]
    BY DEF Reads!Rewrite, Reads!Replaced
  <1>5. UNCHANGED <<revision, values, digest, reloads, time>>
    BY DEF Reads!Rewrite, Reads!state
  <1> QED
    BY <1>3, <1>4, <1>5, ReplacedInv

\* A clear leaves no line.
LEMMA ClearInv ==
    ASSUME CacheInv, Reads!Clear
    PROVE  CacheInv'
  <1>1. cache' = <<>> /\ UNCHANGED <<revision, values, digest, reloads, time>>
    BY DEF Reads!Clear, Reads!state
  <1>2. capture' = [d \in Processes |-> IF d \in {} THEN Reads!Idle ELSE Reads!Displace(capture[d])]
    BY DEF Reads!Clear
  <1>3. cache' \in Seq(Truthful(revision, values))
    BY <1>1
  <1> QED
    BY <1>1, <1>2, <1>3, ReplacedInv

\* Lines are appended, or lost with the file they were appended to.
LEMMA AppendLinesInv ==
    ASSUME CacheInv, NEW c \in Processes, Reads!AppendLines(c)
    PROVE  CacheInv'
  <1> DEFINE T == Truthful(revision, values)
  <1>1. /\ capture[c].at = "append" /\ Reads!Goto(c, Reads!Idle)
        /\ cache' \in {cache, cache \o capture[c].records}
        /\ UNCHANGED <<revision, values, digest, reloads, time>>
    BY DEF Reads!AppendLines, Reads!At, Reads!state
  <1>2. capture[c] \in [at : {"append"}, replaced : BOOLEAN, records : Seq(T)]
    BY <1>1, CallShapes
  <1>3. cache \in Seq(T)
    BY DEF CacheInv
  <1>4. CallTruthful(Reads!Idle, revision, values) /\ RefreshOK(Reads!Idle, revision, digest)
    BY DEF CallTruthful, RefreshOK, Reads!Idle
  <1>5. cache' \in Seq(T)
    <2> HIDE DEF T
    <2>1. capture[c].records \in Seq(T)
      BY <1>2
    <2>2. cache \o capture[c].records \in Seq(T)
      BY <1>3, <2>1
    <2> QED
      BY <1>1, <1>3, <2>2
  <1>6. time' \in Nat
    BY <1>1 DEF CacheInv
  <1> QED
    BY <1>1, <1>4, <1>5, <1>6, ClientMoves

\* A refresh begins with a digest that is the config's if nothing disturbs it.
LEMMA StartRefreshInv ==
    ASSUME CacheInv, NEW c \in Processes, NEW resolved \in BOOLEAN, Reads!StartRefresh(c, resolved)
    PROVE  CacheInv'
  <1> DEFINE k == [at |-> "refresh", alone |-> resolved, digest |-> IF resolved THEN digest ELSE 0]
  <1>1. Reads!Goto(c, k) /\ UNCHANGED <<revision, values, digest, reloads, cache, time>>
    BY DEF Reads!StartRefresh, Reads!state, Reads!Unresolved
  <1>2. k \in [at : {"refresh"}, alone : BOOLEAN, digest : Nat]
    BY DEF CacheInv
  <1>3. CallTruthful(k, revision, values)
    <2> HIDE DEF k
    <2> QED
      BY <1>2 DEF CallTruthful
  <1>4. RefreshOK(k, revision, digest)
    BY DEF RefreshOK
  <1> HIDE DEF k
  <1> QED
    BY <1>1, <1>3, <1>4, ClientMoves DEF CacheInv

\* ... and takes the lines of the file.
LEMMA LoadForRefreshInv ==
    ASSUME CacheInv, NEW c \in Processes, Reads!LoadForRefresh(c)
    PROVE  CacheInv'
  <1> DEFINE old == capture[c]
             k == [at |-> "classify", alone |-> old.alone, digest |-> old.digest, records |-> cache]
             T == Truthful(revision, values)
  <1>1. /\ old.at = "refresh" /\ (Reads!Goto(c, k) \/ Reads!Goto(c, Reads!Idle))
        /\ UNCHANGED <<revision, values, digest, reloads, cache, time>>
    BY DEF Reads!LoadForRefresh, Reads!At, Reads!state
  <1>2. old \in [at : {"refresh"}, alone : BOOLEAN, digest : Nat]
    BY <1>1, CallShapes
  <1>3. cache \in Seq(T) /\ RefreshOK(old, revision, digest)
    BY DEF CacheInv
  <1>4. k \in [at : {"classify"}, alone : BOOLEAN, digest : Nat, records : Seq(T)]
    <2> HIDE DEF T
    <2> QED
      BY <1>2, <1>3
  <1>5. RefreshOK(k, revision, digest)
    BY <1>1, <1>3 DEF RefreshOK
  <1> HIDE DEF k, T
  <1>6. CallTruthful(k, revision, values)
    BY <1>4 DEF CallTruthful, T
  <1>7. CallTruthful(Reads!Idle, revision, values) /\ RefreshOK(Reads!Idle, revision, digest)
    BY DEF CallTruthful, RefreshOK, Reads!Idle
  <1> QED
    BY <1>1, <1>5, <1>6, <1>7, ClientMoves DEF CacheInv

\* The classes of a line, for a current revision and a config that is known.
LEMMA Classes ==
    ASSUME NEW r \in Lines, NEW rev \in Nat \ {0}, NEW dig \in Nat
    PROVE  /\ Reads!Classify(r, rev, dig) \in {"fresh", "stale", "unknown"}
           /\ dig # 0 => (Reads!Classify(r, rev, dig) = "fresh" <=> FreshAt(r, rev, dig))
           /\ Reads!Classify(r, rev, dig) = "fresh" => FreshAt(r, rev, dig)
  BY DEF Reads!Classify, Reads!Unresolved, FreshAt, Lines

\* Every line that is not fresh is to be fetched.
LEMMA ClassifyRecordsInv ==
    ASSUME CacheInv, NEW c \in Processes, Reads!ClassifyRecords(c)
    PROVE  CacheInv'
  <1> DEFINE old == capture[c]
             T == Truthful(revision, values)
             recs == old.records
             Class(x) == {r \in Reads!Range(recs) :
                            Reads!Classify(r, revision, old.digest) = x}
             stale == Reads!Among(recs, Class("stale"))
             unknown == Reads!Among(recs, Class("unknown"))
             k == [at |-> "fetch", alone |-> old.alone, digest |-> old.digest,
                   records |-> old.records, asOf |-> time + 1, sure |-> TRUE,
                   todo |-> stale \o unknown, found |-> <<>>]
  <1>1. /\ old.at = "classify" /\ Reads!Goto(c, k) /\ time' = time + 1
        /\ UNCHANGED <<revision, values, digest, reloads, cache>>
    BY DEF Reads!ClassifyRecords, Reads!At, Reads!state
  <1>2. old \in [at : {"classify"}, alone : BOOLEAN, digest : Nat, records : Seq(T)]
    BY <1>1, CallShapes
  <1>3. revision \in Nat \ {0} /\ digest \in {1, 2} /\ time \in Nat /\ RefreshOK(old, revision, digest)
    BY DEF CacheInv
  <1>4. recs \in Seq(T) /\ old.alone \in BOOLEAN /\ old.digest \in Nat
    <2> HIDE DEF T
    <2> QED
      BY <1>2
  <1> HIDE DEF recs
  <1>5. /\ stale \in Seq(T \cap Class("stale")) /\ unknown \in Seq(T \cap Class("unknown"))
        /\ \A j \in 1 .. Len(recs) : recs[j] \in Class("stale") =>
              \E i \in 1 .. Len(stale) : stale[i] = recs[j]
        /\ \A j \in 1 .. Len(recs) : recs[j] \in Class("unknown") =>
              \E i \in 1 .. Len(unknown) : unknown[i] = recs[j]
    <2> HIDE DEF T, Class
    <2>1. \A S : Reads!Among(recs, S) \in Seq(T \cap S) /\ Sieved(recs, S, Reads!Among(recs, S))
      BY <1>4, AmongSieved
    <2>2. /\ stale \in Seq(T \cap Class("stale")) /\ Sieved(recs, Class("stale"), stale)
          /\ unknown \in Seq(T \cap Class("unknown")) /\ Sieved(recs, Class("unknown"), unknown)
      BY <2>1
    <2> HIDE DEF stale, unknown
    <2> QED
      BY <2>2 DEF Sieved
  <1>6. stale \in Seq(T) /\ unknown \in Seq(T) /\ stale \o unknown \in Seq(T) /\ <<>> \in Seq(T)
    <2> HIDE DEF T, Class, stale, unknown
    <2>1. stale \in Seq(T) /\ unknown \in Seq(T)
      BY <1>5
    <2> QED
      BY <2>1
  <1>7. k \in Fetching(T)
    <2> HIDE DEF T, stale, unknown
    <2> QED
      BY <1>3, <1>4, <1>6 DEF Fetching, recs
  <1>8. CallTruthful(k, revision, values)
    <2>1. k.at = "fetch"
      OBVIOUS
    <2> HIDE DEF k
    <2> QED
      BY <1>7, <2>1 DEF CallTruthful
  <1>9. ASSUME old.alone, NEW i \in 1 .. Len(recs) PROVE Covered(k, recs[i], revision, digest)
    <2>1. old.digest = digest
      BY <1>1, <1>3, <1>9 DEF RefreshOK
    <2>2. recs[i] \in Lines /\ recs[i] \in Reads!Range(recs)
      BY <1>4 DEF Truthful, Reads!Range
    <2>3. FreshAt(recs[i], revision, digest) \/ recs[i] \in Class("stale") \/ recs[i] \in Class("unknown")
      BY <1>3, <2>1, <2>2, Classes
    <2> DEFINE todo == stale \o unknown
    <2>4. ASSUME recs[i] \in Class("stale") \/ recs[i] \in Class("unknown")
          PROVE  \E j \in DOMAIN todo : todo[j].thing = recs[i].thing
      <3> HIDE DEF T, Class, stale, unknown
      <3>1. CASE recs[i] \in Class("stale")
        <4>1. PICK j \in 1 .. Len(stale) : stale[j] = recs[i]
          BY <1>5, <3>1
        <4>2. j \in DOMAIN todo /\ todo[j] = recs[i]
          BY <1>6, <4>1
        <4> QED
          BY <4>2
      <3>2. CASE recs[i] \in Class("unknown")
        <4>1. PICK j \in 1 .. Len(unknown) : unknown[j] = recs[i]
          BY <1>5, <3>2
        <4>2. Len(stale) + j \in DOMAIN todo /\ todo[Len(stale) + j] = recs[i]
          BY <1>6, <4>1
        <4> QED
          BY <4>2
      <3> QED
        BY <2>4, <3>1, <3>2
    <2>5. k.todo = todo
      OBVIOUS
    <2> HIDE DEF k, todo, Class
    <2> QED
      BY <2>3, <2>4, <2>5 DEF Covered
  <1>10. RefreshOK(k, revision, digest)
    <2>1. /\ k.at = "fetch" /\ k.alone = old.alone /\ k.digest = old.digest /\ k.records = recs
          /\ k.found = <<>>
      BY DEF recs
    <2>2. old.alone => old.digest = digest
      BY <1>1, <1>3 DEF RefreshOK
    <2>3. DOMAIN recs = 1 .. Len(recs) /\ DOMAIN k.found = {}
      BY <1>4, <2>1
    <2> HIDE DEF k
    <2> QED
      BY <1>9, <2>1, <2>2, <2>3 DEF RefreshOK
  <1> HIDE DEF k
  <1> QED
    BY <1>1, <1>3, <1>8, <1>10, ClientMoves DEF CacheInv

\* A line that was fetched moves from what is to do to what was found.
LEMMA FoundFacts ==
    ASSUME CacheInv, NEW c \in Processes, capture[c].at = "fetch", capture[c].todo # <<>>,
           NEW r \in Truthful(revision, values), r.thing = Head(capture[c].todo).thing
    PROVE  LET old == capture[c]
               k == Reads!Found(c, r)
               n == Len(old.found)
           IN  /\ k \in Fetching(Truthful(revision, values))
               /\ k.at = "fetch" /\ k.alone = old.alone /\ k.digest = old.digest
               /\ k.records = old.records /\ k.found = Append(old.found, r)
               /\ n \in Nat /\ Len(k.found) = n + 1 /\ DOMAIN k.found = 1 .. n + 1
               /\ k.found[n + 1] = r /\ \A j \in 1 .. n : k.found[j] = old.found[j]
               /\ old.alone => /\ old.digest = digest
                               /\ \A i \in DOMAIN k.records :
                                     Covered(k, k.records[i], revision, digest)
                               /\ \A j \in 1 .. n : Settled(k, j, revision, digest)
  <1> DEFINE old == capture[c]
             T == Truthful(revision, values)
             k == Reads!Found(c, r)
             n == Len(old.found)
  <1>1. old \in [at : {"fetch", "fetched"}, alone : BOOLEAN, digest : Nat, records : Seq(T),
                 asOf : Nat, sure : BOOLEAN, todo : Seq(T), found : Seq(T)]
    BY CallShapes DEF Fetching
  <1>2. RefreshOK(old, revision, digest)
    BY DEF CacheInv
  <1>3. k = [old EXCEPT !.todo = Tail(old.todo), !.found = Append(old.found, r)]
    <2> HIDE DEF T
    <2> QED
      BY <1>1 DEF Reads!Found
  <1>4. old.todo \in Seq(T) /\ old.found \in Seq(T) /\ old.todo # <<>> /\ r \in T /\ old.at = "fetch"
    <2>1. old.todo # <<>> /\ r \in T /\ old.at = "fetch"
      OBVIOUS
    <2> HIDE DEF T, old
    <2> QED
      BY <1>1, <2>1
  <1> HIDE DEF T, old, k
  <1>5. Tail(old.todo) \in Seq(T) /\ Append(old.found, r) \in Seq(T)
    BY <1>4
  <1>6. /\ k \in Fetching(T) /\ k.at = "fetch" /\ k.alone = old.alone /\ k.digest = old.digest
        /\ k.records = old.records /\ k.found = Append(old.found, r) /\ k.todo = Tail(old.todo)
    BY <1>1, <1>3, <1>4, <1>5 DEF Fetching
  <1>7. /\ n \in Nat /\ Len(k.found) = n + 1 /\ DOMAIN k.found = 1 .. n + 1
        /\ k.found[n + 1] = r /\ \A j \in 1 .. n : k.found[j] = old.found[j]
        /\ DOMAIN old.found = 1 .. n
    BY <1>4, <1>6
  <1>8. ASSUME old.alone PROVE old.digest = digest
    BY <1>2, <1>4, <1>8 DEF RefreshOK
  <1>9. ASSUME old.alone, NEW i \in DOMAIN k.records PROVE Covered(k, k.records[i], revision, digest)
    <2>1. Covered(old, k.records[i], revision, digest)
      BY <1>2, <1>4, <1>6, <1>9 DEF RefreshOK
    <2>2. CASE \E j \in DOMAIN old.todo : old.todo[j].thing = k.records[i].thing
      <3>1. PICK j \in 1 .. Len(old.todo) : old.todo[j].thing = k.records[i].thing
        BY <1>4, <2>2
      <3>2. CASE j = 1
        <4>1. old.todo[1] = Head(old.todo)
          BY <1>4
        <4>2. k.found[n + 1].thing = k.records[i].thing /\ n + 1 \in DOMAIN k.found
          BY <1>7, <3>1, <3>2, <4>1 DEF old
        <4> QED
          BY <4>2 DEF Covered
      <3>3. CASE j # 1
        <4>1. j - 1 \in DOMAIN Tail(old.todo) /\ Tail(old.todo)[j - 1] = old.todo[j]
          BY <1>4, <3>1, <3>3
        <4> QED
          BY <1>6, <3>1, <4>1 DEF Covered
      <3> QED
        BY <3>2, <3>3
    <2>3. CASE \E j \in DOMAIN old.found : old.found[j].thing = k.records[i].thing
      <3>1. PICK j \in 1 .. n : old.found[j].thing = k.records[i].thing
        BY <1>7, <2>3
      <3>2. j \in DOMAIN k.found /\ k.found[j].thing = k.records[i].thing
        BY <1>7, <3>1
      <3> QED
        BY <3>2 DEF Covered
    <2>4. CASE FreshAt(k.records[i], revision, digest)
      BY <2>4 DEF Covered
    <2> QED
      BY <2>1, <2>2, <2>3, <2>4 DEF Covered
  <1>10. ASSUME old.alone, NEW j \in 1 .. n PROVE Settled(k, j, revision, digest)
    <2>1. Settled(old, j, revision, digest)
      BY <1>2, <1>4, <1>7, <1>10 DEF RefreshOK
    <2>2. k.found[j] = old.found[j]
      BY <1>7
    <2> QED
      BY <1>4, <2>1, <2>2 DEF Settled
  <1> HIDE DEF n
  <1> QED
    BY <1>6, <1>7, <1>8, <1>9, <1>10 DEF old, k, T, n

\* A line is read again, and found, gone or left as it was.
LEMMA FetchInv ==
    ASSUME CacheInv, NEW c \in Processes, Reads!Fetch(c)
    PROVE  CacheInv'
  <1> DEFINE old == capture[c]
             T == Truthful(revision, values)
             line == Head(old.todo)
             new == Reads!Shown(line.thing, Props)
             n == Len(old.found)
  <1>1. /\ old.at = "fetch" /\ old.todo # <<>>
        /\ UNCHANGED <<revision, values, digest, reloads, cache, time>>
    BY DEF Reads!Fetch, Reads!At, Reads!state
  <1>2. \/ Reads!Goto(c, [Reads!Found(c, line) EXCEPT !.alone = FALSE])
        \/ Reads!Goto(c, Reads!Found(c, Reads!Shown(line.thing, {})))
        \/ Reads!Goto(c, [Reads!Found(c, new) EXCEPT !.at = "fetched", !.sure = TRUE])
        \/ \E before \in IF old.alone THEN {revision} ELSE 1 .. revision :
              Reads!Goto(c, Reads!Found(c, Reads!Stamped(c, new, before, TRUE)))
    BY DEF Reads!Fetch
  <1>3. /\ old \in Fetching(T) /\ old.todo \in Seq(T) /\ old.digest \in Nat /\ old.asOf \in Nat
        /\ old.alone \in BOOLEAN
    <2>1. old \in Fetching(T)
      BY <1>1, CallShapes
    <2> HIDE DEF T, old
    <2> QED
      BY <2>1 DEF Fetching
  <1>4. revision \in Nat \ {0} /\ digest \in {1, 2} /\ time' \in Nat
        /\ cache' \in Seq(T)
    BY <1>1 DEF CacheInv
  <1>5. line \in T /\ line \in Lines /\ line.thing \in Things
    <2>1. line \in T
      <3>1. old.todo \in Seq(T) /\ old.todo # <<>>
        BY <1>1, <1>3
      <3> HIDE DEF T, old
      <3> QED
        BY <3>1
    <2> HIDE DEF line
    <2> QED
      BY <2>1 DEF Truthful, Lines
  <1>6. CASE Reads!Goto(c, [Reads!Found(c, line) EXCEPT !.alone = FALSE])
    <2> DEFINE f == Reads!Found(c, line)
               k == [f EXCEPT !.alone = FALSE]
    <2>1. f \in Fetching(T) /\ f.at = "fetch"
      BY <1>1, <1>5, FoundFacts
    <2> HIDE DEF f, T
    <2>2. k \in Fetching(T) /\ k.at = "fetch" /\ k.alone = FALSE
      BY <2>1 DEF Fetching
    <2>3. Reads!Goto(c, k)
      BY <1>6 DEF f
    <2> HIDE DEF k
    <2>4. CallTruthful(k, revision, values) /\ RefreshOK(k, revision, digest)
      BY <2>2 DEF CallTruthful, RefreshOK, T
    <2> QED
      BY <1>1, <1>4, <2>3, <2>4, ClientMoves DEF T
  <1>7. CASE Reads!Goto(c, Reads!Found(c, Reads!Shown(line.thing, {})))
    <2> DEFINE r == Reads!Shown(line.thing, {})
               k == Reads!Found(c, r)
    <2>1. r \in Lines /\ r.thing = line.thing /\ r.revision = 0 /\ DOMAIN r.props = {}
      BY <1>5, ShownTrue
    <2>2. r \in T
      <3> HIDE DEF r
      <3> QED
        BY <1>4, <2>1 DEF Truthful
    <2> HIDE DEF r
    <2>3. /\ k \in Fetching(T) /\ k.at = "fetch" /\ k.alone = old.alone /\ k.digest = old.digest
          /\ n \in Nat /\ DOMAIN k.found = 1 .. n + 1 /\ k.found[n + 1] = r
          /\ old.alone => /\ old.digest = digest
                          /\ \A i \in DOMAIN k.records : Covered(k, k.records[i], revision, digest)
                          /\ \A j \in 1 .. n : Settled(k, j, revision, digest)
      BY <1>1, <2>1, <2>2, FoundFacts
    <2>4. Reads!Goto(c, k)
      BY <1>7 DEF r
    <2> HIDE DEF k, T, old, n
    <2>5. Settled(k, n + 1, revision, digest)
      BY <2>1, <2>3 DEF Settled
    <2>6. old.alone => \A j \in DOMAIN k.found : Settled(k, j, revision, digest)
      BY <2>3, <2>5
    <2>7. CallTruthful(k, revision, values) /\ RefreshOK(k, revision, digest)
      BY <2>3, <2>6 DEF CallTruthful, RefreshOK, T
    <2> QED
      BY <1>1, <1>4, <2>4, <2>7, ClientMoves DEF T
  <1>8. CASE Reads!Goto(c, [Reads!Found(c, new) EXCEPT !.at = "fetched", !.sure = TRUE])
    <2> DEFINE f == Reads!Found(c, new)
               k == [f EXCEPT !.at = "fetched", !.sure = TRUE]
    <2>1. new \in Lines /\ new.thing = line.thing /\ new.revision = 0 /\ TrueAt(new, values)
      BY <1>5, ShownTrue
    <2>2. new \in T
      <3> HIDE DEF new
      <3> QED
        BY <1>4, <2>1 DEF Truthful
    <2> HIDE DEF new
    <2>3. /\ f \in Fetching(T) /\ f.at = "fetch" /\ f.alone = old.alone /\ f.digest = old.digest
          /\ n \in Nat /\ Len(f.found) = n + 1 /\ DOMAIN f.found = 1 .. n + 1 /\ f.found[n + 1] = new
          /\ old.alone => /\ old.digest = digest
                          /\ \A i \in DOMAIN f.records : Covered(f, f.records[i], revision, digest)
                          /\ \A j \in 1 .. n : Settled(f, j, revision, digest)
      BY <1>1, <2>1, <2>2, FoundFacts
    <2>4. Reads!Goto(c, k)
      BY <1>8 DEF f
    <2> HIDE DEF f, T, old, n
    <2>5. /\ k \in Fetching(T) /\ k.at = "fetched" /\ k.alone = f.alone /\ k.digest = f.digest
          /\ k.records = f.records /\ k.todo = f.todo /\ k.found = f.found
      BY <2>3 DEF Fetching
    <2> HIDE DEF k
    <2>6. k.found # <<>> /\ TrueAt(k.found[Len(k.found)], values)
      BY <2>1, <2>3, <2>5
    <2>7. CallTruthful(k, revision, values)
      BY <2>5, <2>6 DEF CallTruthful, T
    <2>8. old.alone => \A i \in DOMAIN k.records : Covered(k, k.records[i], revision, digest)
      BY <2>3, <2>5 DEF Covered
    <2>9. old.alone => \A j \in DOMAIN k.found : Settled(k, j, revision, digest)
      BY <2>3, <2>5 DEF Settled
    <2>10. RefreshOK(k, revision, digest)
      BY <2>3, <2>5, <2>8, <2>9 DEF RefreshOK
    <2> QED
      BY <1>1, <1>4, <2>4, <2>7, <2>10, ClientMoves DEF T
  <1>9. ASSUME NEW before \in IF old.alone THEN {revision} ELSE 1 .. revision,
               Reads!Goto(c, Reads!Found(c, Reads!Stamped(c, new, before, TRUE)))
        PROVE  CacheInv'
    <2> DEFINE r == Reads!Stamped(c, new, before, TRUE)
               k == Reads!Found(c, r)
    <2>1. new \in Lines /\ new.thing = line.thing /\ TrueAt(new, values)
      BY <1>5, ShownTrue
    <2>2. before \in Nat /\ before <= revision /\ (old.alone => before = revision)
      BY <1>3, <1>4
    <2> HIDE DEF new
    <2>3. /\ r \in Lines /\ r.thing = new.thing /\ r.props = new.props /\ r.revision = before
          /\ r.digest = old.digest
      <3>1. capture[c].digest \in Nat /\ capture[c].asOf \in Nat
        BY <1>3
      <3> HIDE DEF old
      <3> QED
        BY <2>1, <2>2, <3>1 DEF Lines, Reads!Stamped, old
    <2> HIDE DEF r
    <2>4. r \in T
      BY <2>1, <2>2, <2>3 DEF Truthful, TrueAt
    <2>5. /\ k \in Fetching(T) /\ k.at = "fetch" /\ k.alone = old.alone /\ k.digest = old.digest
          /\ n \in Nat /\ DOMAIN k.found = 1 .. n + 1 /\ k.found[n + 1] = r
          /\ old.alone => /\ old.digest = digest
                          /\ \A i \in DOMAIN k.records : Covered(k, k.records[i], revision, digest)
                          /\ \A j \in 1 .. n : Settled(k, j, revision, digest)
      BY <1>1, <2>1, <2>3, <2>4, FoundFacts
    <2>6. Reads!Goto(c, k)
      BY <1>9 DEF r
    <2> HIDE DEF k, T, old, n
    <2>7. old.alone => Settled(k, n + 1, revision, digest)
      BY <2>2, <2>3, <2>5 DEF Settled, FreshAt
    <2>8. old.alone => \A j \in DOMAIN k.found : Settled(k, j, revision, digest)
      BY <2>5, <2>7
    <2>9. CallTruthful(k, revision, values) /\ RefreshOK(k, revision, digest)
      BY <2>5, <2>8 DEF CallTruthful, RefreshOK, T
    <2> QED
      BY <1>1, <1>4, <2>6, <2>9, ClientMoves DEF T
  <1> QED
    BY <1>2, <1>6, <1>7, <1>8, <1>9

\* The line fetched last gets the revision of now, and is sure of it if no write
\* came in between.
LEMMA StampFetchedInv ==
    ASSUME CacheInv, NEW c \in Processes, Reads!StampFetched(c)
    PROVE  CacheInv'
  <1> DEFINE old == capture[c]
             T == Truthful(revision, values)
             n == Len(old.found)
             r == Reads!Stamped(c, old.found[n], revision, old.sure)
             k == [old EXCEPT !.at = "fetch", !.sure = TRUE, !.found = [old.found EXCEPT ![n] = r]]
  <1>1. old.at = "fetched" /\ UNCHANGED <<revision, values, digest, reloads, cache, time>>
    BY DEF Reads!StampFetched, Reads!At, Reads!state
  <1>2. old \in Fetching(T) /\ old.found # <<>> /\ (old.sure => TrueAt(old.found[n], values))
    BY <1>1, CallShapes
  <1>3. old \in [at : {"fetch", "fetched"}, alone : BOOLEAN, digest : Nat, records : Seq(T),
                 asOf : Nat, sure : BOOLEAN, todo : Seq(T), found : Seq(T)]
    BY <1>2 DEF Fetching
  <1>4. RefreshOK(old, revision, digest) /\ revision \in Nat \ {0}
    BY DEF CacheInv
  <1>5. Reads!Goto(c, k)
    <2> HIDE DEF T
    <2> QED
      BY <1>3 DEF Reads!StampFetched
  <1>6. /\ old.found \in Seq(T) /\ old.digest \in Nat /\ old.asOf \in Nat /\ old.sure \in BOOLEAN
        /\ n \in 1 .. n /\ n \in Nat /\ DOMAIN old.found = 1 .. n
    <2> HIDE DEF T, old
    <2> QED
      BY <1>2, <1>3
  <1>7. old.found[n] \in Lines
    <2>1. old.found[n] \in T
      <3> HIDE DEF T, old
      <3> QED
        BY <1>6
    <2> QED
      BY <2>1 DEF Truthful
  <1>8. /\ r \in Lines /\ r.thing = old.found[n].thing /\ r.props = old.found[n].props
        /\ r.revision = revision /\ r.digest = old.digest /\ r.sure = old.sure
    BY <1>4, <1>6, <1>7, StampedLine
  <1> HIDE DEF r
  <1>9. r \in T
    BY <1>2, <1>4, <1>8 DEF Truthful, TrueAt
  <1> DEFINE found == [old.found EXCEPT ![n] = r]
  <1> HIDE DEF T, old
  <1>10. /\ found \in Seq(T) /\ DOMAIN found = 1 .. n /\ found[n] = r
         /\ \A j \in 1 .. n : j # n => found[j] = old.found[j]
    BY <1>6, <1>9
  <1> HIDE DEF n
  <1>11. /\ k \in Fetching(T) /\ k.at = "fetch" /\ k.alone = old.alone /\ k.digest = old.digest
         /\ k.records = old.records /\ k.todo = old.todo /\ k.found = found
    BY <1>3, <1>10 DEF Fetching
  <1> HIDE DEF k, found
  <1>12. CallTruthful(k, revision, values)
    BY <1>11 DEF CallTruthful, T
  <1>13. ASSUME old.alone PROVE old.digest = digest
    BY <1>1, <1>4, <1>13 DEF RefreshOK, old
  <1>14. ASSUME old.alone, NEW i \in DOMAIN k.records PROVE Covered(k, k.records[i], revision, digest)
    <2>1. Covered(old, k.records[i], revision, digest)
      BY <1>1, <1>4, <1>11, <1>14 DEF RefreshOK, old
    <2>2. \A j \in 1 .. n : k.found[j].thing = old.found[j].thing
      BY <1>8, <1>10, <1>11
    <2> QED
      BY <1>6, <1>10, <1>11, <2>1, <2>2 DEF Covered
  <1>15. ASSUME old.alone, NEW j \in 1 .. n PROVE Settled(k, j, revision, digest)
    <2>1. CASE j = n
      BY <1>8, <1>10, <1>11, <1>13, <1>15, <2>1 DEF Settled, FreshAt
    <2>2. CASE j # n
      <3>1. Settled(old, j, revision, digest)
        BY <1>1, <1>4, <1>6, <1>15 DEF RefreshOK, old
      <3>2. k.found[j] = old.found[j]
        BY <1>10, <1>11, <2>2
      <3> QED
        BY <2>2, <3>1, <3>2 DEF Settled, n
    <2> QED
      BY <2>1, <2>2
  <1>16. RefreshOK(k, revision, digest)
    BY <1>10, <1>11, <1>13, <1>14, <1>15 DEF RefreshOK
  <1> QED
    BY <1>1, <1>5, <1>12, <1>16, ClientMoves DEF CacheInv

\* The lines that a refresh writes are lines that it took or found; if nothing
\* disturbed it, they are fresh.
LEMMA RefreshedLines ==
    ASSUME CacheInv, NEW c \in Processes, capture[c].at = "fetch", capture[c].todo = <<>>
    PROVE  LET new == Reads!Refreshed(capture[c].records, capture[c].found)
           IN  /\ new \in Seq(Truthful(revision, values))
               /\ capture[c].alone => \A i \in DOMAIN new : FreshAt(new[i], revision, digest)
  <1> DEFINE old == capture[c]
             T == Truthful(revision, values)
             Fresh == {r \in T : old.alone => FreshAt(r, revision, digest) \/ DOMAIN r.props = {}}
             recs == old.records
             found == old.found
             At(i) == Reads!Places(found, recs[i].thing)
             last(i) == CHOOSE k \in At(i) : \A j \in At(i) : j <= k
             new == [i \in DOMAIN recs |-> IF At(i) = {} THEN recs[i] ELSE found[last(i)]]
             Kept == {r \in Reads!Range(new) : DOMAIN r.props # {}}
  <1>1. old \in Fetching(T) /\ old.at = "fetch" /\ old.todo = <<>> /\ RefreshOK(old, revision, digest)
    BY CallShapes DEF CacheInv
  <1>2. recs \in Seq(T) /\ found \in Seq(T)
    <2> HIDE DEF T, old
    <2> QED
      BY <1>1 DEF Fetching
  <1>3. Reads!Refreshed(recs, found) = Reads!Among(new, Kept)
    BY DEF Reads!Refreshed
  <1>4. ASSUME NEW i \in DOMAIN recs PROVE new[i] \in Fresh
    <2>1. recs[i] \in T /\ DOMAIN found = 1 .. Len(found) /\ Len(found) \in Nat
      <3> HIDE DEF T, recs, found
      <3> QED
        BY <1>2
    <2>2. CASE At(i) = {}
      <3>1. ASSUME old.alone PROVE FreshAt(recs[i], revision, digest)
        <4>1. Covered(old, recs[i], revision, digest)
          BY <1>1, <3>1 DEF RefreshOK
        <4>2. \A j \in DOMAIN old.found : old.found[j].thing # recs[i].thing
          BY <2>2 DEF Reads!Places
        <4>3. DOMAIN old.todo = {}
          BY <1>1
        <4> HIDE DEF old, recs
        <4> QED
          BY <4>1, <4>2, <4>3 DEF Covered
      <3>2. new[i] = recs[i]
        BY <2>2
      <3> HIDE DEF new, recs, T
      <3> QED
        BY <2>1, <3>1, <3>2
    <2>3. CASE At(i) # {}
      <3>1. At(i) \in SUBSET (1 .. Len(found))
        BY <2>1 DEF Reads!Places
      <3>2. last(i) \in At(i)
        <4> HIDE DEF At, found
        <4> QED
          BY <2>1, <2>3, <3>1, LatestChosen
      <3>3. last(i) \in 1 .. Len(found) /\ new[i] = found[last(i)]
        BY <2>3, <3>1, <3>2
      <3> HIDE DEF last, new
      <3>4. found[last(i)] \in T
        <4> HIDE DEF T, found
        <4> QED
          BY <1>2, <3>3
      <3>5. ASSUME old.alone PROVE Settled(old, last(i), revision, digest)
        BY <1>1, <2>1, <3>3, <3>5 DEF RefreshOK
      <3>6. old.alone => FreshAt(found[last(i)], revision, digest) \/ DOMAIN found[last(i)].props = {}
        BY <1>1, <3>5 DEF Settled
      <3> HIDE DEF T, found, old
      <3> QED
        BY <3>3, <3>4, <3>6
    <2> QED
      BY <2>2, <2>3
  <1>5. DOMAIN recs = 1 .. Len(recs) /\ Len(recs) \in Nat
    <2> HIDE DEF T, recs
    <2> QED
      BY <1>2
  <1>6. new = [i \in 1 .. Len(recs) |-> new[i]]
    <2> DEFINE E(i) == IF At(i) = {} THEN recs[i] ELSE found[last(i)]
    <2>1. new = [i \in DOMAIN recs |-> E(i)]
      OBVIOUS
    <2> HIDE DEF E, new
    <2> QED
      BY <1>5, <2>1
  <1> HIDE DEF new, Fresh
  <1>7. new \in Seq(Fresh)
    <2> HIDE DEF recs
    <2> QED
      BY <1>4, <1>5, <1>6, LineByLine
  <1> DEFINE res == Reads!Among(new, Kept)
  <1>8. res \in Seq(Fresh \cap Kept)
    <2> HIDE DEF Kept
    <2> QED
      BY <1>7, AmongMembers
  <1> HIDE DEF res
  <1>9. \A i \in DOMAIN res : res[i] \in Fresh /\ res[i] \in Kept
    <2> HIDE DEF Kept
    <2> QED
      BY <1>8
  <1>10. res \in Seq(T)
    <2>1. Fresh \cap Kept \subseteq T
      BY DEF Fresh
    <2> HIDE DEF T, Kept
    <2> QED
      BY <1>8, <2>1
  <1>11. old.alone => \A i \in DOMAIN res : FreshAt(res[i], revision, digest)
    BY <1>9 DEF Fresh
  <1> QED
    BY <1>3, <1>10, <1>11 DEF res

\* A refresh replaces the file.
LEMMA FinishRefreshInv ==
    ASSUME CacheInv, NEW c \in Processes, Reads!FinishRefresh(c)
    PROVE  CacheInv'
  <1>1. /\ capture[c].at = "fetch" /\ capture[c].todo = <<>>
        /\ cache' = Reads!Refreshed(capture[c].records, capture[c].found)
        /\ UNCHANGED <<revision, values, digest, reloads, time>>
    BY DEF Reads!FinishRefresh, Reads!At, Reads!state
  <1>2. cache' \in Seq(Truthful(revision, values))
    BY <1>1, RefreshedLines
  <1>3. capture' = [d \in Processes |-> IF d \in {c} THEN Reads!Idle ELSE Reads!Displace(capture[d])]
    BY DEF Reads!FinishRefresh, Reads!Replaced
  <1> QED
    BY <1>1, <1>2, <1>3, ReplacedInv

\* The invariant holds at the start, ...
LEMMA CacheBegins == Reads!Init => CacheInv
  <1> SUFFICES ASSUME Reads!Init PROVE CacheInv
    OBVIOUS
  <1>1. /\ revision = 1 /\ values = [t \in Things |-> 1] /\ digest = 1 /\ time = 0
        /\ capture = [c \in Processes |-> Reads!Idle]
    BY DEF Reads!Init
  <1>2. PICK payload \in Earlier :
           cache = [i \in DOMAIN payload |->
                      [Reads!Shown(payload[i][1], payload[i][2]) EXCEPT !.revision = 1, !.digest = 1]]
    BY DEF Reads!Init
  <1> DEFINE T == Truthful(revision, values)
             Line(i) == [Reads!Shown(payload[i][1], payload[i][2]) EXCEPT !.revision = 1, !.digest = 1]
  <1>3. ASSUME NEW i \in DOMAIN payload PROVE Line(i) \in T
    <2> DEFINE t == payload[i][1]
               P == payload[i][2]
    <2>1. t \in Things /\ P \in SUBSET Props
      BY PayloadsNamed
    <2> HIDE DEF t, P
    <2>2. values[t] = 1 /\ [p \in P |-> values[t]] \in Shows
      BY <1>1, <2>1, ShowsClosed
    <2> DEFINE show == [p \in P |-> values[t]]
               bare == [thing |-> t, props |-> show, revision |-> 0, digest |-> 0,
                        asOf |-> 0, sure |-> TRUE]
               r == [bare EXCEPT !.revision = 1, !.digest = 1]
    <2>3. Line(i) = r
      <3>1. Reads!Shown(payload[i][1], payload[i][2]) = bare
        BY DEF Reads!Shown, Reads!Unresolved, t, P
      <3> HIDE DEF bare
      <3> QED
        BY <3>1
    <2>4. r \in Lines /\ r.revision = 1 /\ r.props = show /\ r.thing = t
      <3> HIDE DEF show
      <3>1. bare \in Lines
        BY <2>1, <2>2 DEF Lines, show
      <3> QED
        BY <3>1 DEF Lines
    <2> HIDE DEF r
    <2>5. r \in T
      <3>1. DOMAIN show = P /\ \A p \in P : show[p] = values[t]
        OBVIOUS
      <3> HIDE DEF show
      <3>2. TrueAt(r, values)
        BY <2>4, <3>1 DEF TrueAt
      <3>3. r.revision <= revision
        BY <1>1, <2>4
      <3> QED
        BY <2>4, <3>2, <3>3 DEF Truthful
    <2> QED
      BY <2>3, <2>5
  <1>4. cache \in Seq(T)
    <2>1. DOMAIN payload = 1 .. Len(payload) /\ Len(payload) \in Nat
      BY PayloadsNamed
    <2> HIDE DEF Line, T
    <2>2. cache = [i \in 1 .. Len(payload) |-> Line(i)]
      BY <1>2, <2>1 DEF Line
    <2> QED
      BY <1>3, <2>1, <2>2, LineByLine
  <1>5. \A c \in Processes :
           CallTruthful(capture[c], revision, values) /\ RefreshOK(capture[c], revision, digest)
    BY <1>1 DEF CallTruthful, RefreshOK, Reads!Idle
  <1>6. capture = [c \in Processes |-> capture[c]]
    BY <1>1
  <1> QED
    BY <1>1, <1>4, <1>5, <1>6 DEF CacheInv

\* ... is preserved by every step, ...
LEMMA CacheStep ==
    ASSUME CacheInv, Reads!Next
    PROVE  CacheInv'
  <1>1. CASE \E t \in Things, gone \in BOOLEAN : Reads!WriteState(t, gone)
    BY <1>1, WriteStateInv
  <1>2. CASE Reads!ReloadConfig \/ Reads!Clear
    BY <1>2, ReloadConfigInv, ClearInv
  <1>3. ASSUME NEW c \in Processes,
               \/ \E payload \in Payloads, before \in {0} \cup 1 .. revision :
                     Reads!Read(c, payload, before)
               \/ \E known \in BOOLEAN : Reads!ResolveRevision(c, known)
               \/ \E resolved \in BOOLEAN :
                     Reads!StampCapture(c, resolved) \/ Reads!StartRefresh(c, resolved)
        PROVE  CacheInv'
    BY <1>3, ReadInv, ResolveRevisionInv, StampCaptureInv, StartRefreshInv
  <1>4. ASSUME NEW c \in Processes,
               \/ Reads!LoadForAppend(c) \/ Reads!Rewrite(c) \/ Reads!AppendLines(c)
               \/ Reads!LoadForRefresh(c) \/ Reads!ClassifyRecords(c) \/ Reads!Fetch(c)
               \/ Reads!StampFetched(c) \/ Reads!FinishRefresh(c)
        PROVE  CacheInv'
    BY <1>4, LoadForAppendInv, RewriteInv, AppendLinesInv, LoadForRefreshInv,
       ClassifyRecordsInv, FetchInv, StampFetchedInv, FinishRefreshInv
  <1> QED
    BY <1>1, <1>2, <1>3, <1>4 DEF Reads!Next, Reads!Unresolved

\* ... and by the steps of the others, which leave the cache alone.
LEMMA CacheStutter ==
    ASSUME CacheInv, UNCHANGED cacheVars
    PROVE  CacheInv'
  BY DEF cacheVars, CacheInv

\* working_set.py and `cruxible ws`: whatever clients append, merge, rewrite and
\* lose without a lock while state and config move on, a line that verifies as
\* fresh shows what the state holds, unless a commit split its own read, and a
\* refresh that nothing disturbs writes fresh lines only.
THEOREM CacheStaysHonest == Spec => []CacheHonest
  <1>1. Init => CacheInv
    BY CacheBegins DEF Init
  <1>2. CacheInv /\ [Next]_vars => CacheInv'
    BY CacheStep, CacheStutter DEF Next, vars
  <1>3. ASSUME CacheInv PROVE Reads!FreshIsTrue
    <2> SUFFICES ASSUME NEW r \in Reads!Range(cache), r.sure,
                        Reads!Classify(r, revision, digest) = "fresh"
                 PROVE  TrueAt(r, values)
      BY DEF Reads!FreshIsTrue, TrueAt
    <2>1. cache \in Seq(Truthful(revision, values)) /\ revision \in Nat \ {0} /\ digest \in Nat
      BY <1>3 DEF CacheInv
    <2>2. r \in Truthful(revision, values)
      BY <2>1 DEF Reads!Range
    <2>3. r \in Lines
      BY <2>2 DEF Truthful
    <2>4. r.revision = revision
      BY <2>1, <2>3, Classes DEF FreshAt
    <2> QED
      BY <2>2, <2>4 DEF Truthful
  <1>4. ASSUME CacheInv PROVE Reads!RefreshFreshens
    <2> SUFFICES ASSUME NEW c \in Processes, capture[c].at = "fetch", capture[c].todo = <<>>,
                        capture[c].alone,
                        NEW r \in Reads!Range(Reads!Refreshed(capture[c].records, capture[c].found))
                 PROVE  Reads!Classify(r, revision, digest) = "fresh"
      BY DEF Reads!RefreshFreshens, Reads!At
    <2> DEFINE new == Reads!Refreshed(capture[c].records, capture[c].found)
    <2>1. /\ new \in Seq(Truthful(revision, values))
          /\ \A i \in DOMAIN new : FreshAt(new[i], revision, digest)
      BY <1>4, RefreshedLines
    <2>2. PICK i \in DOMAIN new : r = new[i]
      BY DEF Reads!Range
    <2> HIDE DEF new
    <2>3. r \in Lines /\ FreshAt(r, revision, digest)
      BY <2>1, <2>2 DEF Truthful
    <2>4. revision \in Nat \ {0} /\ digest \in Nat /\ digest # 0
      BY <1>4 DEF CacheInv
    <2> QED
      BY <2>3, <2>4, Classes
  <1>5. CacheInv => CacheHonest
    BY <1>3, <1>4 DEF CacheHonest, Reads!CacheHonest
  <1> QED
    BY <1>1, <1>2, <1>5, PTL DEF Spec

-----------------------------------------------------------------------------
(* Counting finite sets. *)

\* A one-to-one correspondence keeps the size.
LEMMA OneToOne ==
    ASSUME NEW S, IsFiniteSet(S), NEW T, NEW f \in [S -> T],
           \A x, y \in S : f[x] = f[y] => x = y, \A t \in T : \E x \in S : f[x] = t
    PROVE  IsFiniteSet(T) /\ Cardinality(T) = Cardinality(S)
  <1>1. f \in Bijection(S, T)
    BY DEF Bijection, Injection, Surjection, IsInjective
  <1>2. ExistsBijection(S, T)
    BY <1>1 DEF ExistsBijection
  <1> QED
    BY <1>2, FS_Bijection

\* A one-to-one correspondence.
Pairs(f, S, T) ==
    /\ f \in [S -> T] /\ \A x, y \in S : f[x] = f[y] => x = y
    /\ \A t \in T : \E x \in S : f[x] = t

\* Sets of one size correspond.
LEMMA Correspond ==
    ASSUME NEW S, IsFiniteSet(S), NEW T, IsFiniteSet(T), Cardinality(S) = Cardinality(T)
    PROVE  \E f : Pairs(f, S, T)
  <1>1. ExistsBijection(S, T)
    BY FS_SameCardinalityBij
  <1>2. PICK f : f \in Bijection(S, T)
    BY <1>1 DEF ExistsBijection
  <1> QED
    BY <1>2 DEF Pairs, Bijection, Injection, Surjection, IsInjective

\* The size of a set that is in two parts.
LEMMA TwoParts ==
    ASSUME NEW A, NEW B, IsFiniteSet(A), IsFiniteSet(B), A \cap B = {}
    PROVE  /\ IsFiniteSet(A \cup B) /\ Cardinality(A) \in Nat /\ Cardinality(B) \in Nat
           /\ Cardinality(A \cup B) = Cardinality(A) + Cardinality(B)
  <1>1. Cardinality(A) \in Nat /\ Cardinality(B) \in Nat
    BY FS_CardinalityType
  <1>2. Cardinality(A \cap B) = 0
    BY FS_EmptySet
  <1>3. IsFiniteSet(A \cup B) /\ Cardinality(A \cup B) = Cardinality(A) + Cardinality(B) - Cardinality(A \cap B)
    BY FS_Union
  <1> QED
    BY <1>1, <1>2, <1>3

\* How many are at or before x.
RankBy(X, at, x) == Cardinality({y \in X : at[y] <= at[x]})

\* Each has a place of its own among the first n.
LEMMA Ranks ==
    ASSUME NEW X, IsFiniteSet(X), NEW at \in [X -> Int], \A x, y \in X : at[x] = at[y] => x = y
    PROVE  /\ \A x \in X : RankBy(X, at, x) \in 1 .. Cardinality(X)
           /\ \A x, y \in X : RankBy(X, at, x) = RankBy(X, at, y) => x = y
           /\ \A i \in 1 .. Cardinality(X) : \E x \in X : RankBy(X, at, x) = i
  <1> DEFINE n == Cardinality(X)
             Before(x) == {y \in X : at[y] <= at[x]}
  <1>1. n \in Nat
    BY FS_CardinalityType
  <1>2. ASSUME NEW x \in X
        PROVE  IsFiniteSet(Before(x)) /\ RankBy(X, at, x) \in 1 .. n
    <2>1. x \in Before(x) /\ Before(x) \in SUBSET X
      OBVIOUS
    <2>2. IsFiniteSet(Before(x)) /\ Cardinality(Before(x)) <= n
      BY <2>1, FS_Subset
    <2>3. Cardinality(Before(x)) \in Nat /\ Cardinality(Before(x)) # 0
      BY <2>1, <2>2, FS_CardinalityType, FS_EmptySet
    <2>4. RankBy(X, at, x) = Cardinality(Before(x))
      BY DEF RankBy
    <2> QED
      BY <1>1, <2>2, <2>3, <2>4
  <1>3. ASSUME NEW x \in X, NEW y \in X, at[x] < at[y] PROVE RankBy(X, at, x) < RankBy(X, at, y)
    <2>1. Before(x) \in SUBSET Before(y) /\ y \in Before(y) /\ y \notin Before(x)
      BY <1>3
    <2>2. Cardinality(Before(x)) <= Cardinality(Before(y)) /\ Cardinality(Before(x)) # Cardinality(Before(y))
      BY <1>2, <2>1, FS_Subset
    <2>3. RankBy(X, at, x) = Cardinality(Before(x)) /\ RankBy(X, at, y) = Cardinality(Before(y))
      BY DEF RankBy
    <2>4. RankBy(X, at, x) \in 1 .. n /\ RankBy(X, at, y) \in 1 .. n
      BY <1>2
    <2> QED
      BY <1>1, <2>2, <2>3, <2>4
  <1>4. ASSUME NEW x \in X, NEW y \in X, RankBy(X, at, x) = RankBy(X, at, y) PROVE x = y
    <2>1. RankBy(X, at, x) \in Int /\ RankBy(X, at, y) \in Int
      <3>1. RankBy(X, at, x) \in 1 .. n /\ RankBy(X, at, y) \in 1 .. n
        BY <1>2
      <3> HIDE DEF n
      <3> QED
        BY <1>1, <3>1
    <2>2. ~(at[x] < at[y]) /\ ~(at[y] < at[x])
      BY <1>3, <1>4, <2>1
    <2>3. at[x] = at[y]
      BY <2>2
    <2> QED
      BY <2>3
  <1> DEFINE f == [x \in X |-> RankBy(X, at, x)]
  <1>5. f \in Injection(X, 1 .. n)
    <2>1. f \in [X -> 1 .. n]
      BY <1>2
    <2>2. \A x, y \in X : f[x] = f[y] => x = y
      BY <1>4
    <2> QED
      BY <2>1, <2>2 DEF Injection, IsInjective
  <1>6. IsFiniteSet(1 .. n) /\ Cardinality(1 .. n) = n
    <2>1. IsFiniteSet(1 .. n) /\ Cardinality(1 .. n) = IF 1 > n THEN 0 ELSE n - 1 + 1
      BY <1>1, FS_Interval
    <2> QED
      BY <1>1, <2>1
  <1>7. f \in Surjection(X, 1 .. n)
    <2> HIDE DEF f
    <2> QED
      BY <1>5, <1>6, FS_Injection
  <1>8. \A i \in 1 .. n : \E x \in X : f[x] = i
    BY <1>7 DEF Surjection
  <1> QED
    BY <1>2, <1>4, <1>8

\* The first m, and what is left after the first m.
LEMMA FirstOnes ==
    ASSUME NEW X, IsFiniteSet(X), NEW at \in [X -> Int], \A x, y \in X : at[x] = at[y] => x = y,
           NEW m \in Nat, m <= Cardinality(X)
    PROVE  /\ Cardinality({x \in X : RankBy(X, at, x) <= m}) = m
           /\ Cardinality({x \in X : RankBy(X, at, x) > m}) = Cardinality(X) - m
  <1> DEFINE n == Cardinality(X)
             A == {x \in X : RankBy(X, at, x) <= m}
             B == {x \in X : RankBy(X, at, x) > m}
             f == [x \in A |-> RankBy(X, at, x)]
  <1>1. n \in Nat
    BY FS_CardinalityType
  <1>2. /\ \A x \in X : RankBy(X, at, x) \in 1 .. n
        /\ \A x, y \in X : RankBy(X, at, x) = RankBy(X, at, y) => x = y
        /\ \A i \in 1 .. n : \E x \in X : RankBy(X, at, x) = i
    BY Ranks
  <1>3. A \in SUBSET X /\ B \in SUBSET X /\ A \cup B = X /\ A \cap B = {}
    BY <1>1, <1>2
  <1>4. IsFiniteSet(A) /\ IsFiniteSet(B)
    BY <1>3, FS_Subset
  <1>5. f \in [A -> 1 .. m] /\ \A x, y \in A : f[x] = f[y] => x = y
    BY <1>1, <1>2
  <1>6. \A i \in 1 .. m : \E x \in A : f[x] = i
    <2> SUFFICES ASSUME NEW i \in 1 .. m PROVE \E x \in A : f[x] = i
      OBVIOUS
    <2>1. PICK x \in X : RankBy(X, at, x) = i
      BY <1>1, <1>2
    <2>2. x \in A
      BY <2>1
    <2> QED
      BY <2>1, <2>2
  <1>7. Cardinality(1 .. m) = Cardinality(A)
    <2> HIDE DEF f, A
    <2> QED
      BY <1>4, <1>5, <1>6, OneToOne
  <1>8. Cardinality(1 .. m) = m
    <2>1. Cardinality(1 .. m) = IF 1 > m THEN 0 ELSE m - 1 + 1
      BY FS_Interval
    <2> QED
      BY <2>1
  <1>9. Cardinality(X) = Cardinality(A) + Cardinality(B) /\ Cardinality(B) \in Nat
    <2> HIDE DEF A, B
    <2> QED
      BY <1>3, <1>4, TwoParts
  <1> QED
    BY <1>1, <1>7, <1>8, <1>9


\* The elements of a class.
WithKey(A, key, k) == {x \in A : key[x] = k}

\* Sets whose classes are of one size are.
LEMMA ClassByClass ==
    ASSUME NEW A, IsFiniteSet(A), NEW B, IsFiniteSet(B), NEW K, NEW key \in [A \cup B -> K],
           \A k \in K : Cardinality(WithKey(A, key, k)) = Cardinality(WithKey(B, key, k))
    PROVE  Cardinality(A) = Cardinality(B)
  <1> DEFINE P(k) == {x \in A : key[x] = k}
             Q(k) == {x \in B : key[x] = k}
             m == [k \in K |-> CHOOSE f : Pairs(f, P(k), Q(k))]
             g == [x \in A |-> m[key[x]][x]]
  <1>1. ASSUME NEW k \in K PROVE \E f : Pairs(f, P(k), Q(k))
    <2>1. P(k) \in SUBSET A /\ Q(k) \in SUBSET B
      OBVIOUS
    <2>2. IsFiniteSet(P(k)) /\ IsFiniteSet(Q(k)) /\ Cardinality(P(k)) = Cardinality(Q(k))
      BY <2>1, FS_Subset DEF WithKey
    <2> HIDE DEF P, Q
    <2> QED
      BY <2>2, Correspond
  <1>2. \A k \in K : Pairs(m[k], P(k), Q(k))
    BY <1>1
  <1>3. ASSUME NEW x \in A PROVE key[x] \in K /\ x \in P(key[x]) /\ g[x] = m[key[x]][x] /\ g[x] \in Q(key[x])
    <2>1. key[x] \in K /\ x \in P(key[x])
      OBVIOUS
    <2>2. Pairs(m[key[x]], P(key[x]), Q(key[x]))
      BY <1>2, <2>1
    <2> HIDE DEF P, Q, m
    <2> QED
      BY <2>1, <2>2 DEF Pairs
  <1> HIDE DEF m
  <1>4. g \in [A -> B] /\ \A x \in A : key[g[x]] = key[x]
    BY <1>3
  <1>5. ASSUME NEW x \in A, NEW y \in A, g[x] = g[y] PROVE x = y
    <2>1. key[x] = key[y]
      BY <1>4, <1>5
    <2>2. Pairs(m[key[x]], P(key[x]), Q(key[x])) /\ y \in P(key[x]) /\ x \in P(key[x]) /\ m[key[x]][x] = m[key[x]][y]
      BY <1>2, <1>3, <1>5, <2>1
    <2> HIDE DEF P, Q
    <2> QED
      BY <2>2 DEF Pairs
  <1>6. ASSUME NEW t \in B PROVE \E x \in A : g[x] = t
    <2>1. key[t] \in K /\ t \in Q(key[t])
      OBVIOUS
    <2>2. Pairs(m[key[t]], P(key[t]), Q(key[t]))
      BY <1>2, <2>1
    <2>3. PICK x \in P(key[t]) : m[key[t]][x] = t
      BY <2>1, <2>2 DEF Pairs
    <2>4. x \in A /\ key[x] = key[t]
      OBVIOUS
    <2> QED
      BY <2>3, <2>4
  <1> HIDE DEF g
  <1> QED
    BY <1>4, <1>5, <1>6, OneToOne

\* All the parts.
AllParts(part, S) == UNION {part[x] : x \in S}

\* The sizes of sets that have nothing in common add up to the size of all.
LEMMA DisjointSizes ==
    ASSUME NEW S, IsFiniteSet(S), NEW part, \A x \in S : IsFiniteSet(part[x]),
           \A x, y \in S : x # y => part[x] \cap part[y] = {},
           NEW f \in [S -> Int], \A x \in S : f[x] = Cardinality(part[x])
    PROVE  IsFiniteSet(AllParts(part, S)) /\ Total(f, S) = Cardinality(AllParts(part, S))
  <1> DEFINE All(s) == AllParts(part, s)
  <1>1. PICK g : Sums(g, f, S)
    BY TotalAdds
  <1> DEFINE Q == {s \in SUBSET S : IsFiniteSet(All(s)) /\ g[s] = Cardinality(All(s))}
  <1>2. {} \in Q
    <2>1. All({}) = {} /\ g[{}] = 0
      BY <1>1 DEF Sums, AllParts
    <2> QED
      BY <2>1, FS_EmptySet
  <1>3. ASSUME NEW s \in SUBSET S, s # {}, s \ {Pick(s)} \in Q PROVE s \in Q
    <2> DEFINE x == Pick(s)
               r == s \ {x}
    <2>1. x \in s /\ x \in S
      BY <1>3, Picked
    <2>2. All(s) = part[x] \cup All(r)
      BY <2>1 DEF AllParts
    <2>3. part[x] \cap All(r) = {}
      BY <2>1 DEF AllParts
    <2>4. IsFiniteSet(All(r)) /\ g[r] = Cardinality(All(r)) /\ IsFiniteSet(part[x])
      BY <1>3, <2>1
    <2>5. IsFiniteSet(All(s)) /\ Cardinality(All(s)) = Cardinality(part[x]) + Cardinality(All(r))
      <3> DEFINE a == part[x]
                 b == All(r)
      <3>1. IsFiniteSet(a) /\ IsFiniteSet(b) /\ a \cap b = {} /\ All(s) = a \cup b
        BY <2>2, <2>3, <2>4
      <3> HIDE DEF a, b
      <3>2. IsFiniteSet(a \cup b) /\ Cardinality(a \cup b) = Cardinality(a) + Cardinality(b)
        BY <3>1, TwoParts
      <3> QED
        BY <3>1, <3>2 DEF a, b
    <2>6. g[s] = f[x] + g[r] /\ f[x] = Cardinality(part[x])
      BY <1>1, <1>3, <2>1 DEF Sums
    <2> HIDE DEF All, x, r
    <2> QED
      BY <2>4, <2>5, <2>6
  <1>4. S \in Q
    <2> HIDE DEF Q
    <2>1. SUBSET S \subseteq Q
      BY <1>2, <1>3, OneByOne
    <2> QED
      BY <2>1
  <1> QED
    BY <1>1, <1>4 DEF Sums

\* What a function makes of a finite set is finite.
LEMMA FiniteImage ==
    ASSUME NEW S, IsFiniteSet(S), NEW f, NEW T, T = {f[x] : x \in S}
    PROVE  IsFiniteSet(T)
  <1> DEFINE g == [x \in S |-> f[x]]
  <1>1. g \in Surjection(S, T)
    BY DEF Surjection
  <1> HIDE DEF g
  <1> QED
    BY <1>1, FS_Surjection

-----------------------------------------------------------------------------
(* State diff: the parts of a comparison, for any two sets of rows. *)

\* Finitely many rows, each at a place of its own.
AreRows(R) ==
    /\ IsFiniteSet(R)
    /\ \A r \in R : /\ r = [tuple |-> r.tuple, claim |-> r.claim, state |-> r.state, pos |-> r.pos]
                    /\ r.pos \in Int
    /\ \A x, y \in R : x.pos = y.pos => x = y

Twice(F, T) == Differ!Duplicated(F, T)
Known(F, T) == Twice(F, T) \cup (Differ!ClaimsOf(F) \cap Differ!ClaimsOf(T))
Met(F, T) == Differ!Matched(F, T, Twice(F, T))
MetClaims(F, T) == {p[1].claim : p \in Met(F, T)}
Differing(F, T) == {p \in Met(F, T) : p[1].state # p[2].state}
Equal(F, T) == {p \in Met(F, T) : p[1].state = p[2].state}
RestOf(R, F, T) == {r \in R : r.claim \notin Known(F, T)}
LeftFrom(F, T) == Differ!ResidualFrom(RestOf(F, F, T), RestOf(T, F, T))
LeftTo(F, T) == Differ!ResidualTo(RestOf(F, F, T), RestOf(T, F, T))
OfTuple(R, t) == {r \in R : r.tuple = t}

Conflict(F, T, x) == Differ!IdentityConflict(F, T, x, Twice(F, T))
ChangeOf(p) == Differ!Item("changed", {p[1]}, {p[2]}, "claim_id", "none")
Conflicts(F, T) == {Conflict(F, T, x) : x \in Known(F, T) \ MetClaims(F, T)}
Changes(F, T) == {ChangeOf(p) : p \in Differing(F, T)}
Resolved(c, bf, bt, F, T, t) ==
    Differ!ResolveResidual(c, bf, bt, OfTuple(LeftFrom(F, T), t), OfTuple(LeftTo(F, T), t))
ItemsOf(c, bf, bt, F, T, W) ==
    Conflicts(F, T) \cup Changes(F, T) \cup UNION {Resolved(c, bf, bt, F, T, t) : t \in W}

BasisOf(c) == Differ!ReconciledBasis(c.from.basis, c.to.basis)
BasisTo(c) == Differ!ReconciledBasis(c.to.basis, c.from.basis)
RowsFrom(c) == Differ!EdgeRows(c.from, c.wanted)
RowsTo(c) == Differ!EdgeRows(c.to, c.wanted)
ItemsFor(c) == ItemsOf(c, BasisOf(c), BasisTo(c), RowsFrom(c), RowsTo(c), c.wanted)
SameFor(c) ==
    Cardinality(Equal(RowsFrom(c), RowsTo(c)))
    + Cardinality(RestOf(RowsFrom(c), RowsFrom(c), RowsTo(c)) \ LeftFrom(RowsFrom(c), RowsTo(c)))
NotesOnly(items) ==
    {i \in items : i.bucket = "changed" /\ \A x \in i.from, y \in i.to : Differ!AnnotationOnly(x, y)}

\* The model counts as the library does.
LEMMA DiffCount == \A S : Differ!Cardinality(S) = Cardinality(S)
  BY DEF Cardinality, Differ!Cardinality

\* The comparison is made of these parts.
LEMMA DiffParts ==
    ASSUME NEW c
    PROVE  /\ Differ!DiffEdges(c).items = ItemsFor(c)
           /\ Differ!DiffEdges(c).unchanged = SameFor(c)
           /\ Differ!DiffEdges(c).annotationOnly = Cardinality(NotesOnly(ItemsFor(c)))
  <1>1. Differ!DiffEdges(c).items = ItemsFor(c)
    BY DEF Differ!DiffEdges, ItemsFor, ItemsOf, Resolved, Changes, Conflicts,
           ChangeOf, Conflict, OfTuple, LeftTo, LeftFrom, RestOf, Differing, MetClaims, Met,
           Known, Twice, BasisOf, BasisTo, RowsFrom, RowsTo
  <1>2. Differ!DiffEdges(c).unchanged = SameFor(c)
    BY DiffCount DEF Differ!DiffEdges, SameFor, LeftFrom, RestOf, Equal, Met,
           Known, Twice, RowsFrom, RowsTo
  <1>3. Differ!DiffEdges(c).annotationOnly = Differ!Cardinality(NotesOnly(ItemsFor(c)))
    BY DEF Differ!DiffEdges, NotesOnly, ItemsFor, ItemsOf, Resolved, Changes, Conflicts,
           ChangeOf, Conflict, OfTuple, LeftTo, LeftFrom, RestOf, Differing, MetClaims, Met,
           Known, Twice, BasisOf, BasisTo, RowsFrom, RowsTo
  <1> QED
    BY <1>1, <1>2, <1>3, DiffCount

\* The fields of an item.
LEMMA ItemFields ==
    ASSUME NEW b, NEW f, NEW t, NEW s, NEW u
    PROVE  LET i == Differ!Item(b, f, t, s, u)
           IN  i.bucket = b /\ i.from = f /\ i.to = t /\ i.basis = s /\ i.subtype = u
  BY DEF Differ!Item

\* Rows with an id that is neither repeated nor unknown are met once.
LEMMA MetOnce ==
    ASSUME NEW F, NEW T, AreRows(F), AreRows(T), NEW p \in Met(F, T)
    PROVE  /\ p = <<p[1], p[2]>> /\ p[1] \in F /\ p[2] \in T
           /\ p[1].claim = p[2].claim /\ p[1].tuple = p[2].tuple
           /\ p[1].claim \in Known(F, T) /\ p[1].claim \in MetClaims(F, T)
           /\ p[1].claim \notin Twice(F, T) /\ p[1].claim # Differ!NoClaim
           /\ \A r \in F : r.claim = p[1].claim => r = p[1]
           /\ \A r \in T : r.claim = p[1].claim => r = p[2]
  <1>1. /\ p \in F \X T /\ p[1].claim = p[2].claim /\ p[1].claim \notin Twice(F, T)
        /\ p[1].claim # Differ!NoClaim /\ p[1].tuple = p[2].tuple
    BY DEF Met, Differ!Matched
  <1>2. p = <<p[1], p[2]>> /\ p[1] \in F /\ p[2] \in T
    BY <1>1
  <1> DEFINE x == p[1].claim
             A == Differ!IndexByClaimId(F, x)
             B == Differ!IndexByClaimId(T, x)
  <1>3. x \in Differ!ClaimsOf(F) /\ x \in Differ!ClaimsOf(T)
    BY <1>1, <1>2 DEF Differ!ClaimsOf
  <1>4. ~(Cardinality(A) > 1) /\ ~(Cardinality(B) > 1)
    BY <1>1, <1>3, DiffCount DEF Twice, Differ!Duplicated
  <1>5. p[1] \in A /\ p[2] \in B /\ A \in SUBSET F /\ B \in SUBSET T
    BY <1>1, <1>2 DEF Differ!IndexByClaimId
  <1>6. ASSUME NEW S, IsFiniteSet(S), ~(Cardinality(S) > 1), NEW y \in S, NEW z \in S PROVE y = z
    <2>1. Cardinality(S) \in Nat /\ Cardinality(S) # 0
      BY <1>6, FS_CardinalityType, FS_EmptySet
    <2>2. Cardinality(S) = 1
      BY <1>6, <2>1
    <2> QED
      BY <1>6, <2>2, FS_Singleton
  <1>7. IsFiniteSet(A) /\ IsFiniteSet(B)
    BY <1>5, FS_Subset DEF AreRows
  <1>8. \A r \in A : r = p[1]
    <2> HIDE DEF A, B, x
    <2> QED
      BY <1>4, <1>5, <1>6, <1>7
  <1>9. \A r \in B : r = p[2]
    <2> HIDE DEF A, B, x
    <2> QED
      BY <1>4, <1>5, <1>6, <1>7
  <1>10. \A r \in F : r.claim = x => r \in A
    BY DEF Differ!IndexByClaimId
  <1>11. \A r \in T : r.claim = x => r \in B
    BY DEF Differ!IndexByClaimId
  <1>12. x \in Known(F, T) /\ x \in MetClaims(F, T)
    BY <1>3 DEF Known, MetClaims
  <1> QED
    BY <1>1, <1>2, <1>8, <1>9, <1>10, <1>11, <1>12

\* What is left over is of the rest.
LEMMA LeftIsRest ==
    ASSUME NEW F, NEW T
    PROVE  /\ LeftFrom(F, T) \subseteq RestOf(F, F, T) /\ RestOf(F, F, T) \subseteq F
           /\ LeftTo(F, T) \subseteq RestOf(T, F, T) /\ RestOf(T, F, T) \subseteq T
           /\ \A r \in RestOf(F, F, T) : r.claim \notin Known(F, T)
           /\ \A r \in RestOf(T, F, T) : r.claim \notin Known(F, T)
  BY DEF LeftFrom, LeftTo, RestOf, Differ!ResidualFrom, Differ!ResidualTo

\* What is left of one tuple: gone, new, or one item for all of it.
Removal(r) == Differ!Item("removed", {r}, {}, "tuple", "none")
Addition(r) == Differ!Item("added", {}, {r}, "tuple", "none")
Unclear(A, B) == Differ!Item("ambiguous", A, B, "tuple", "none")
Named(x, y) == Differ!NoClaim \notin {x.claim, y.claim}
Pairing(x, y) ==
    Differ!Item("changed", {x}, {y}, "tuple", IF Named(x, y) THEN "reidentified" ELSE "none")
May(c, bf, bt, x, y) == Named(x, y) => Differ!ReidentificationPermitted(c, bf, bt, x, y)

ResidualShape(c, bf, bt, A, B, R) ==
    /\ B = {} => R = {Removal(r) : r \in A}
    /\ B # {} /\ A = {} => R = {Addition(r) : r \in B}
    /\ B # {} /\ A # {} =>
          \/ R = {Unclear(A, B)} /\ ~\E x, y : A = {x} /\ B = {y} /\ May(c, bf, bt, x, y)
          \/ \E x, y : A = {x} /\ B = {y} /\ May(c, bf, bt, x, y) /\ R = {Pairing(x, y)}

\* What is left of a tuple is of one of these kinds.
LEMMA ResidualIs ==
    ASSUME NEW c, NEW bf, NEW bt, NEW A, IsFiniteSet(A), NEW B, IsFiniteSet(B), NEW R,
           R = Differ!ResolveResidual(c, bf, bt, A, B)
    PROVE  ResidualShape(c, bf, bt, A, B, R)
  <1>1. CASE B = {}
    BY <1>1 DEF Differ!ResolveResidual, Removal, ResidualShape
  <1>2. CASE B # {} /\ A = {}
    BY <1>2 DEF Differ!ResolveResidual, Addition, ResidualShape
  <1>3. CASE B # {} /\ A # {}
    <2>1. Cardinality(A) \in Nat \ {0} /\ Cardinality(B) \in Nat \ {0}
      BY <1>3, FS_CardinalityType, FS_EmptySet
    <2>2. CASE Cardinality(A) > 1 \/ Cardinality(B) > 1
      <3>1. R = {Unclear(A, B)}
        BY <1>3, <2>2, DiffCount DEF Differ!ResolveResidual, Unclear
      <3>2. ~\E x, y : A = {x} /\ B = {y}
        <4>1. ASSUME NEW x, NEW y, A = {x}, B = {y} PROVE FALSE
          <5>1. Cardinality(A) = 1 /\ Cardinality(B) = 1
            BY <4>1, FS_Singleton
          <5> QED
            BY <2>2, <5>1
        <4> QED
          BY <4>1
      <3> QED
        BY <1>3, <3>1, <3>2 DEF ResidualShape
    <2>3. CASE ~(Cardinality(A) > 1 \/ Cardinality(B) > 1)
      <3>1. Cardinality(A) = 1 /\ Cardinality(B) = 1
        BY <2>1, <2>3
      <3> PICK x : A = {x}
        BY <3>1, FS_Singleton
      <3> PICK y : B = {y}
        BY <3>1, FS_Singleton
      <3>2. A = {x} /\ B = {y}
        OBVIOUS
      <3>3. (CHOOSE r \in A : TRUE) = x /\ (CHOOSE r \in B : TRUE) = y
        BY <3>2
      <3>4. R = IF Named(x, y) /\ ~Differ!ReidentificationPermitted(c, bf, bt, x, y)
                THEN {Unclear(A, B)} ELSE {Pairing(x, y)}
        <4>1. ~(Differ!Cardinality(A) > 1) /\ ~(Differ!Cardinality(B) > 1)
          BY <2>3, DiffCount
        <4>2. R = LET u == CHOOSE r \in A : TRUE
                      v == CHOOSE r \in B : TRUE
                  IN IF Named(u, v) /\ ~Differ!ReidentificationPermitted(c, bf, bt, u, v)
                     THEN {Unclear(A, B)}
                     ELSE {Differ!Item("changed", A, B, "tuple", IF Named(u, v) THEN "reidentified" ELSE "none")}
          BY <1>3, <4>1 DEF Differ!ResolveResidual, Unclear, Named
        <4> QED
          BY <3>2, <3>3, <4>2 DEF Pairing
      <3>5. CASE May(c, bf, bt, x, y)
        <4>1. R = {Pairing(x, y)}
          BY <3>4, <3>5 DEF May
        <4> QED
          BY <1>3, <3>2, <3>5, <4>1 DEF ResidualShape
      <3>6. CASE ~May(c, bf, bt, x, y)
        <4>1. R = {Unclear(A, B)}
          BY <3>4, <3>6 DEF May
        <4>2. ~\E u, v : A = {u} /\ B = {v} /\ May(c, bf, bt, u, v)
          BY <3>2, <3>6
        <4> QED
          BY <1>3, <4>1, <4>2 DEF ResidualShape
      <3> QED
        BY <3>5, <3>6
    <2> QED
      BY <2>2, <2>3
  <1> QED
    BY <1>1, <1>2, <1>3

\* The items R have the rows A and B once.
RowsOnce(R, A, B) ==
    /\ \A i \in R : i.from \in SUBSET A /\ i.to \in SUBSET B /\ i.basis = "tuple"
    /\ \A i, j \in R : i.from \cap j.from # {} => i = j
    /\ \A i, j \in R : i.to \cap j.to # {} => i = j
    /\ \A r \in A : \E i \in R : r \in i.from
    /\ \A r \in B : \E i \in R : r \in i.to
    /\ IsFiniteSet(R)

\* What is left of a tuple is there once.
LEMMA ResidualOnce ==
    ASSUME NEW c, NEW bf, NEW bt, NEW A, IsFiniteSet(A), NEW B, IsFiniteSet(B), NEW R,
           R = Differ!ResolveResidual(c, bf, bt, A, B)
    PROVE  RowsOnce(R, A, B)
  <1>0. ResidualShape(c, bf, bt, A, B, R)
    BY ResidualIs
  <1>1. CASE B = {}
    <2>1. R = {Removal(r) : r \in A}
      BY <1>0, <1>1 DEF ResidualShape
    <2>2. \A r : Removal(r).from = {r} /\ Removal(r).to = {} /\ Removal(r).basis = "tuple"
      BY ItemFields DEF Removal
    <2>3. IsFiniteSet(R)
      <3> DEFINE f == [r \in A |-> Removal(r)]
      <3>1. R = {f[r] : r \in A}
        BY <2>1
      <3> HIDE DEF f
      <3> QED
        BY <3>1, FiniteImage
    <2>4. /\ \A i \in R : i.from \in SUBSET A /\ i.to = {} /\ i.basis = "tuple"
          /\ \A r \in A : Removal(r) \in R /\ r \in Removal(r).from
      BY <2>1, <2>2
    <2>5. ASSUME NEW i \in R, NEW j \in R, i.from \cap j.from # {} PROVE i = j
      <3>1. PICK x \in A : i = Removal(x)
        BY <2>1
      <3>2. PICK y \in A : j = Removal(y)
        BY <2>1
      <3>3. x = y
        BY <2>2, <2>5, <3>1, <3>2
      <3> QED
        BY <3>1, <3>2, <3>3
    <2> QED
      BY <1>1, <2>3, <2>4, <2>5 DEF RowsOnce
  <1>2. CASE B # {} /\ A = {}
    <2>1. R = {Addition(r) : r \in B}
      BY <1>0, <1>2 DEF ResidualShape
    <2>2. \A r : Addition(r).to = {r} /\ Addition(r).from = {} /\ Addition(r).basis = "tuple"
      BY ItemFields DEF Addition
    <2>3. IsFiniteSet(R)
      <3> DEFINE f == [r \in B |-> Addition(r)]
      <3>1. R = {f[r] : r \in B}
        BY <2>1
      <3> HIDE DEF f
      <3> QED
        BY <3>1, FiniteImage
    <2>4. /\ \A i \in R : i.to \in SUBSET B /\ i.from = {} /\ i.basis = "tuple"
          /\ \A r \in B : Addition(r) \in R /\ r \in Addition(r).to
      BY <2>1, <2>2
    <2>5. ASSUME NEW i \in R, NEW j \in R, i.to \cap j.to # {} PROVE i = j
      <3>1. PICK x \in B : i = Addition(x)
        BY <2>1
      <3>2. PICK y \in B : j = Addition(y)
        BY <2>1
      <3>3. x = y
        BY <2>2, <2>5, <3>1, <3>2
      <3> QED
        BY <3>1, <3>2, <3>3
    <2> QED
      BY <1>2, <2>3, <2>4, <2>5 DEF RowsOnce
  <1>3. CASE B # {} /\ A # {}
    <2>1. PICK i : R = {i} /\ i.from = A /\ i.to = B /\ i.basis = "tuple"
      <3>1. CASE R = {Unclear(A, B)}
        BY <3>1, ItemFields DEF Unclear
      <3>2. CASE \E x, y : A = {x} /\ B = {y} /\ May(c, bf, bt, x, y) /\ R = {Pairing(x, y)}
        <4>1. PICK x, y : A = {x} /\ B = {y} /\ R = {Pairing(x, y)}
          BY <3>2
        <4>2. Pairing(x, y).from = A /\ Pairing(x, y).to = B /\ Pairing(x, y).basis = "tuple"
          BY <4>1 DEF Pairing, Differ!Item
        <4> QED
          BY <4>1, <4>2
      <3> QED
        BY <1>0, <1>3, <3>1, <3>2 DEF ResidualShape
    <2>2. IsFiniteSet(R)
      BY <2>1, FS_Singleton
    <2> QED
      BY <2>1, <2>2 DEF RowsOnce
  <1> QED
    BY <1>1, <1>2, <1>3

-----------------------------------------------------------------------------
(* State diff: every row is in one item, or unchanged. *)

\* Where a row of an item comes from.
FromWhere(c, bf, bt, F, T, i, r) ==
    \/ r \in F /\ r.claim \in Known(F, T) \ MetClaims(F, T) /\ i = Conflict(F, T, r.claim)
    \/ \E p \in Differing(F, T) : r = p[1] /\ i = ChangeOf(p)
    \/ r \in LeftFrom(F, T) /\ i \in Resolved(c, bf, bt, F, T, r.tuple)
ToWhere(c, bf, bt, F, T, i, r) ==
    \/ r \in T /\ r.claim \in Known(F, T) \ MetClaims(F, T) /\ i = Conflict(F, T, r.claim)
    \/ \E p \in Differing(F, T) : r = p[2] /\ i = ChangeOf(p)
    \/ r \in LeftTo(F, T) /\ i \in Resolved(c, bf, bt, F, T, r.tuple)

\* Rows of the tuples that are asked for.
Compared(F, T, W) == AreRows(F) /\ AreRows(T) /\ IsFiniteSet(W) /\ \A r \in F \cup T : r.tuple \in W

\* The fields of a conflict and of a change.
LEMMA KindsOfItems ==
    /\ \A F, T, x : /\ Conflict(F, T, x).from = {r \in F : r.claim = x}
                    /\ Conflict(F, T, x).to = {r \in T : r.claim = x}
                    /\ Conflict(F, T, x).bucket = "identity_conflict"
                    /\ Conflict(F, T, x).basis = "claim_id"
    /\ \A p : /\ ChangeOf(p).from = {p[1]} /\ ChangeOf(p).to = {p[2]}
              /\ ChangeOf(p).bucket = "changed" /\ ChangeOf(p).basis = "claim_id"
  BY DEF Conflict, ChangeOf, Differ!IdentityConflict, Differ!IndexByClaimId, Differ!Item

\* The residual of a tuple has its rows once.
LEMMA TupleOnce ==
    ASSUME NEW c, NEW bf, NEW bt, NEW F, NEW T, NEW W, Compared(F, T, W), NEW t
    PROVE  RowsOnce(Resolved(c, bf, bt, F, T, t), OfTuple(LeftFrom(F, T), t), OfTuple(LeftTo(F, T), t))
  <1> DEFINE A == OfTuple(LeftFrom(F, T), t)
             B == OfTuple(LeftTo(F, T), t)
             R == Resolved(c, bf, bt, F, T, t)
  <1>1. A \in SUBSET F /\ B \in SUBSET T
    BY LeftIsRest DEF OfTuple
  <1>2. IsFiniteSet(A) /\ IsFiniteSet(B)
    BY <1>1, FS_Subset DEF Compared, AreRows
  <1>3. R = Differ!ResolveResidual(c, bf, bt, A, B)
    BY DEF Resolved
  <1> HIDE DEF A, B, R
  <1>4. RowsOnce(R, A, B)
    BY <1>2, <1>3, ResidualOnce
  <1> QED
    BY <1>4 DEF A, B, R

\* A row of an item comes from one of three places.
LEMMA RowsOfItems ==
    ASSUME NEW c, NEW bf, NEW bt, NEW F, NEW T, NEW W, Compared(F, T, W),
           NEW i \in ItemsOf(c, bf, bt, F, T, W)
    PROVE  /\ \A r \in i.from : FromWhere(c, bf, bt, F, T, i, r)
           /\ \A r \in i.to : ToWhere(c, bf, bt, F, T, i, r)
  <1>1. CASE i \in Conflicts(F, T)
    <2>1. PICK x \in Known(F, T) \ MetClaims(F, T) : i = Conflict(F, T, x)
      BY <1>1 DEF Conflicts
    <2> QED
      BY <2>1, KindsOfItems DEF FromWhere, ToWhere
  <1>2. CASE i \in Changes(F, T)
    <2>1. PICK p \in Differing(F, T) : i = ChangeOf(p)
      BY <1>2 DEF Changes
    <2> QED
      BY <2>1, KindsOfItems DEF FromWhere, ToWhere
  <1>3. CASE \E t \in W : i \in Resolved(c, bf, bt, F, T, t)
    <2>1. PICK t \in W : i \in Resolved(c, bf, bt, F, T, t)
      BY <1>3
    <2>2. /\ \A r \in i.from : r \in LeftFrom(F, T) /\ r.tuple = t
          /\ \A r \in i.to : r \in LeftTo(F, T) /\ r.tuple = t
      <3>1. RowsOnce(Resolved(c, bf, bt, F, T, t), OfTuple(LeftFrom(F, T), t), OfTuple(LeftTo(F, T), t))
        BY TupleOnce
      <3> QED
        BY <2>1, <3>1 DEF RowsOnce, OfTuple
    <2> QED
      BY <2>1, <2>2 DEF FromWhere, ToWhere
  <1> QED
    BY <1>1, <1>2, <1>3 DEF ItemsOf

\* A row is met by one other.
LEMMA MetIsOne ==
    ASSUME NEW F, NEW T, AreRows(F), AreRows(T), NEW p \in Met(F, T), NEW q \in Met(F, T),
           p[1] = q[1] \/ p[2] = q[2] \/ p[1].claim = q[1].claim
    PROVE  p = q
  <1>1. p = <<p[1], p[2]>> /\ q = <<q[1], q[2]>>
    BY MetOnce
  <1>2. /\ p[1].claim = p[2].claim /\ q[1].claim = q[2].claim
        /\ p[1] \in F /\ q[1] \in F /\ p[2] \in T /\ q[2] \in T
    BY MetOnce
  <1>3. p[1].claim = q[1].claim
    BY <1>2
  <1>4. /\ \A r \in F : r.claim = p[1].claim => r = p[1]
        /\ \A r \in T : r.claim = p[1].claim => r = p[2]
    BY MetOnce
  <1>5. p[1] = q[1] /\ p[2] = q[2]
    BY <1>2, <1>3, <1>4
  <1> QED
    BY <1>1, <1>5

\* No two items share a row.
LEMMA ItemsApart ==
    ASSUME NEW c, NEW bf, NEW bt, NEW F, NEW T, NEW W, Compared(F, T, W),
           NEW i \in ItemsOf(c, bf, bt, F, T, W), NEW j \in ItemsOf(c, bf, bt, F, T, W)
    PROVE  /\ i.from \cap j.from # {} => i = j
           /\ i.to \cap j.to # {} => i = j
  <1>0. AreRows(F) /\ AreRows(T)
    BY DEF Compared
  <1>1. ASSUME NEW r, r \in i.from, r \in j.from PROVE i = j
    <2>1. FromWhere(c, bf, bt, F, T, i, r) /\ FromWhere(c, bf, bt, F, T, j, r)
      BY <1>1, RowsOfItems
    <2>2. CASE r.claim \in Known(F, T) \ MetClaims(F, T)
      <3>1. \A p \in Differing(F, T) : r # p[1]
        BY <1>0, <2>2, MetOnce DEF Differing
      <3>2. r \notin LeftFrom(F, T)
        BY <2>2, LeftIsRest
      <3> QED
        BY <2>1, <3>1, <3>2 DEF FromWhere
    <2>3. CASE r.claim \in MetClaims(F, T) /\ r.claim \in Known(F, T)
      <3>1. r \notin LeftFrom(F, T)
        BY <2>3, LeftIsRest
      <3>2. PICK p \in Differing(F, T) : r = p[1] /\ i = ChangeOf(p)
        BY <2>1, <2>3, <3>1 DEF FromWhere
      <3>3. PICK q \in Differing(F, T) : r = q[1] /\ j = ChangeOf(q)
        BY <2>1, <2>3, <3>1 DEF FromWhere
      <3>4. p \in Met(F, T) /\ q \in Met(F, T)
        BY DEF Differing
      <3>5. p = q
        BY <1>0, <3>2, <3>3, <3>4, MetIsOne
      <3> QED
        BY <3>2, <3>3, <3>5
    <2>4. CASE r.claim \notin Known(F, T)
      <3>1. \A p \in Differing(F, T) : r # p[1]
        BY <1>0, <2>4, MetOnce DEF Differing
      <3>2. i \in Resolved(c, bf, bt, F, T, r.tuple) /\ j \in Resolved(c, bf, bt, F, T, r.tuple)
        BY <2>1, <2>4, <3>1 DEF FromWhere
      <3> QED
        <4>1. RowsOnce(Resolved(c, bf, bt, F, T, r.tuple), OfTuple(LeftFrom(F, T), r.tuple), OfTuple(LeftTo(F, T), r.tuple))
          BY TupleOnce
        <4> QED
          BY <1>1, <3>2, <4>1 DEF RowsOnce
    <2> QED
      BY <2>2, <2>3, <2>4
  <1>2. ASSUME NEW r, r \in i.to, r \in j.to PROVE i = j
    <2>1. ToWhere(c, bf, bt, F, T, i, r) /\ ToWhere(c, bf, bt, F, T, j, r)
      BY <1>2, RowsOfItems
    <2>2. CASE r.claim \in Known(F, T) \ MetClaims(F, T)
      <3>1. \A p \in Differing(F, T) : r # p[2]
        BY <1>0, <2>2, MetOnce DEF Differing
      <3>2. r \notin LeftTo(F, T)
        BY <2>2, LeftIsRest
      <3> QED
        BY <2>1, <3>1, <3>2 DEF ToWhere
    <2>3. CASE r.claim \in MetClaims(F, T) /\ r.claim \in Known(F, T)
      <3>1. r \notin LeftTo(F, T)
        BY <2>3, LeftIsRest
      <3>2. PICK p \in Differing(F, T) : r = p[2] /\ i = ChangeOf(p)
        BY <2>1, <2>3, <3>1 DEF ToWhere
      <3>3. PICK q \in Differing(F, T) : r = q[2] /\ j = ChangeOf(q)
        BY <2>1, <2>3, <3>1 DEF ToWhere
      <3>4. p \in Met(F, T) /\ q \in Met(F, T)
        BY DEF Differing
      <3>5. p = q
        BY <1>0, <3>2, <3>3, <3>4, MetIsOne
      <3> QED
        BY <3>2, <3>3, <3>5
    <2>4. CASE r.claim \notin Known(F, T)
      <3>1. \A p \in Differing(F, T) : r # p[2]
        BY <1>0, <2>4, MetOnce DEF Differing
      <3>2. i \in Resolved(c, bf, bt, F, T, r.tuple) /\ j \in Resolved(c, bf, bt, F, T, r.tuple)
        BY <2>1, <2>4, <3>1 DEF ToWhere
      <3> QED
        <4>1. RowsOnce(Resolved(c, bf, bt, F, T, r.tuple), OfTuple(LeftFrom(F, T), r.tuple), OfTuple(LeftTo(F, T), r.tuple))
          BY TupleOnce
        <4> QED
          BY <1>2, <3>2, <4>1 DEF RowsOnce
    <2> QED
      BY <2>2, <2>3, <2>4
  <1> QED
    BY <1>1, <1>2

-----------------------------------------------------------------------------
(* State diff: equal states cancel one to one. *)

\* The rows of one tuple in one state.
Class(R, t, s) == {x \in R : x.tuple = t /\ x.state = s}

\* Rows without some are rows.
LEMMA FewerRows ==
    ASSUME NEW R, AreRows(R), NEW S \in SUBSET R
    PROVE  AreRows(S)
  <1>1. IsFiniteSet(S)
    BY FS_Subset DEF AreRows
  <1> QED
    BY <1>1 DEF AreRows

\* The place of a row is its rank in its class.
LEMMA PlaceIsRank ==
    ASSUME NEW R, AreRows(R), NEW t, NEW s, NEW at,
           at = [x \in Class(R, t, s) |-> x.pos], NEW r \in Class(R, t, s)
    PROVE  Differ!Place(R, r) = RankBy(Class(R, t, s), at, r)
  <1>1. Differ!Alike(R, r) = Class(R, t, s)
    BY DEF Differ!Alike, Class
  <1>2. {x \in Differ!Alike(R, r) : x.pos <= r.pos} = {x \in Class(R, t, s) : at[x] <= at[r]}
    BY <1>1
  <1> QED
    BY <1>2, DiffCount DEF Differ!Place, RankBy

\* The ranks of a class.
LEMMA ClassRanks ==
    ASSUME NEW R, AreRows(R), NEW t, NEW s
    PROVE  LET X == Class(R, t, s)
               at == [x \in X |-> x.pos]
           IN  /\ IsFiniteSet(X) /\ Cardinality(X) \in Nat /\ at \in [X -> Int]
               /\ \A x, y \in X : at[x] = at[y] => x = y
               /\ \A x \in X : Differ!Place(R, x) = RankBy(X, at, x) /\ RankBy(X, at, x) \in 1 .. Cardinality(X)
  <1> DEFINE X == Class(R, t, s)
             at == [x \in X |-> x.pos]
  <1>1. X \in SUBSET R
    BY DEF Class
  <1>2. IsFiniteSet(X) /\ Cardinality(X) \in Nat
    BY <1>1, FS_Subset, FS_CardinalityType DEF AreRows
  <1>3. at \in [X -> Int] /\ \A x, y \in X : at[x] = at[y] => x = y
    BY <1>1 DEF AreRows
  <1>4. \A x \in X : Differ!Place(R, x) = RankBy(X, at, x)
    BY PlaceIsRank
  <1>5. \A x \in X : RankBy(X, at, x) \in 1 .. Cardinality(X)
    <2> HIDE DEF X, at
    <2> QED
      BY <1>2, <1>3, Ranks
  <1> QED
    BY <1>2, <1>3, <1>4, <1>5

Cancelled(P, Q) == P \ Differ!ResidualFrom(P, Q)
CancelledTo(P, Q) == Q \ Differ!ResidualTo(P, Q)

\* In each class as many rows cancel on one side as on the other.
LEMMA CancelInClass ==
    ASSUME NEW P, AreRows(P), NEW Q, AreRows(Q), NEW t, NEW s
    PROVE  Cardinality(Class(Cancelled(P, Q), t, s)) = Cardinality(Class(CancelledTo(P, Q), t, s))
  <1> DEFINE A == Class(P, t, s)
             B == Class(Q, t, s)
             a == Cardinality(A)
             b == Cardinality(B)
             at == [x \in A |-> x.pos]
             bt == [x \in B |-> x.pos]
  <1>1. /\ IsFiniteSet(A) /\ a \in Nat /\ at \in [A -> Int]
        /\ \A x, y \in A : at[x] = at[y] => x = y
        /\ \A x \in A : Differ!Place(P, x) = RankBy(A, at, x) /\ RankBy(A, at, x) \in 1 .. a
    BY ClassRanks
  <1>2. /\ IsFiniteSet(B) /\ b \in Nat /\ bt \in [B -> Int]
        /\ \A x, y \in B : bt[x] = bt[y] => x = y
        /\ \A x \in B : Differ!Place(Q, x) = RankBy(B, bt, x) /\ RankBy(B, bt, x) \in 1 .. b
    BY ClassRanks
  <1>3. /\ \A x \in A : Differ!Alike(Q, x) = B /\ x \in P
        /\ \A x \in B : Differ!Alike(P, x) = A /\ Differ!Alike(Q, x) = B /\ x \in Q
    BY DEF Differ!Alike, Class
  <1>4. Class(Cancelled(P, Q), t, s) = {x \in A : ~(Differ!Place(P, x) > b)}
    BY <1>3, DiffCount DEF Cancelled, Differ!ResidualFrom, Class
  <1>5. Class(CancelledTo(P, Q), t, s) = {x \in B : ~(Differ!Place(Q, x) + a <= b)}
    BY <1>3, DiffCount DEF CancelledTo, Differ!ResidualTo, Class
  <1> HIDE DEF A, B, a, b, at, bt
  <1>6. CASE b <= a
    <2>1. {x \in A : ~(Differ!Place(P, x) > b)} = {x \in A : RankBy(A, at, x) <= b}
      BY <1>1, <1>2
    <2>2. {x \in B : ~(Differ!Place(Q, x) + a <= b)} = B
      BY <1>1, <1>2, <1>6
    <2>3. Cardinality({x \in A : RankBy(A, at, x) <= b}) = b
      BY <1>1, <1>2, <1>6, FirstOnes DEF a
    <2> QED
      BY <1>4, <1>5, <2>1, <2>2, <2>3 DEF b
  <1>7. CASE a < b
    <2> DEFINE m == b - a
    <2>1. {x \in A : ~(Differ!Place(P, x) > b)} = A
      BY <1>1, <1>2, <1>7
    <2>2. m \in Nat /\ m <= b /\ b - m = a
      BY <1>1, <1>2, <1>7
    <2>3. {x \in B : ~(Differ!Place(Q, x) + a <= b)} = {x \in B : RankBy(B, bt, x) > m}
      BY <1>1, <1>2
    <2>4. Cardinality({x \in B : RankBy(B, bt, x) > m}) = b - m
      <3> HIDE DEF m
      <3> QED
        BY <1>2, <2>2, FirstOnes DEF b
    <2> QED
      BY <1>4, <1>5, <2>1, <2>2, <2>3, <2>4 DEF a
  <1> QED
    BY <1>1, <1>2, <1>6, <1>7

\* So as many cancel in all.
LEMMA CancelInAll ==
    ASSUME NEW P, AreRows(P), NEW Q, AreRows(Q)
    PROVE  Cardinality(Cancelled(P, Q)) = Cardinality(CancelledTo(P, Q))
  <1> DEFINE A == Cancelled(P, Q)
             B == CancelledTo(P, Q)
             kind == [x \in A \cup B |-> <<x.tuple, x.state>>]
             K == {<<x.tuple, x.state>> : x \in A \cup B}
  <1>1. A \in SUBSET P /\ B \in SUBSET Q
    BY DEF Cancelled, CancelledTo
  <1>2. IsFiniteSet(A) /\ IsFiniteSet(B)
    BY <1>1, FS_Subset DEF AreRows
  <1>3. kind \in [A \cup B -> K]
    OBVIOUS
  <1>4. ASSUME NEW k \in K
        PROVE  Cardinality(WithKey(A, kind, k)) = Cardinality(WithKey(B, kind, k))
    <2>1. PICK t, s : k = <<t, s>>
      OBVIOUS
    <2>2. WithKey(A, kind, k) = Class(A, t, s) /\ WithKey(B, kind, k) = Class(B, t, s)
      BY <2>1 DEF Class, WithKey
    <2>3. Cardinality(Class(A, t, s)) = Cardinality(Class(B, t, s))
      BY CancelInClass
    <2> QED
      BY <2>2, <2>3
  <1> HIDE DEF A, B, kind, K
  <1>5. Cardinality(A) = Cardinality(B)
    BY <1>2, <1>3, <1>4, ClassByClass
  <1> QED
    BY <1>5 DEF A, B

-----------------------------------------------------------------------------
(* State diff: every row once, and a plan that can be replayed. *)

KeptFrom(F, T) == {p[1] : p \in Equal(F, T)}
KeptTo(F, T) == {p[2] : p \in Equal(F, T)}

\* A row of the from side is in an item, met and equal, or cancelled.
LEMMA FromSplit ==
    ASSUME NEW c, NEW bf, NEW bt, NEW F, NEW T, NEW W, Compared(F, T, W), NEW I,
           I = ItemsOf(c, bf, bt, F, T, W)
    PROVE  LET A == Differ!AllFrom(I)
               K == KeptFrom(F, T)
               C == RestOf(F, F, T) \ LeftFrom(F, T)
           IN  F = (A \cup K) \cup C /\ A \cap K = {} /\ (A \cup K) \cap C = {}
  <1> DEFINE A == Differ!AllFrom(I)
             K == KeptFrom(F, T)
             C == RestOf(F, F, T) \ LeftFrom(F, T)
  <1>0. AreRows(F) /\ AreRows(T)
    BY DEF Compared
  <1>1. ASSUME NEW r \in A
        PROVE  /\ r \in F /\ r \notin K /\ r \notin C
    <2>1. PICK i \in I : r \in i.from
      BY DEF Differ!AllFrom
    <2>2. FromWhere(c, bf, bt, F, T, i, r)
      BY <2>1, RowsOfItems
    <2>3. CASE r \in F /\ r.claim \in Known(F, T) \ MetClaims(F, T)
      <3>1. r \notin K
        BY <1>0, <2>3, MetOnce DEF KeptFrom, Equal
      <3>2. r \notin C
        BY <2>3, LeftIsRest
      <3> QED
        BY <2>3, <3>1, <3>2
    <2>4. CASE \E p \in Differing(F, T) : r = p[1]
      <3>1. PICK p \in Met(F, T) : r = p[1] /\ p[1].state # p[2].state
        BY <2>4 DEF Differing
      <3>2. r \in F /\ r.claim \in Known(F, T)
        BY <1>0, <3>1, MetOnce
      <3>3. r \notin K
        <4>1. ASSUME NEW q \in Met(F, T), r = q[1], q[1].state = q[2].state PROVE FALSE
          <5>1. p = q
            BY <1>0, <3>1, <4>1, MetIsOne
          <5> QED
            BY <3>1, <4>1, <5>1
        <4> QED
          BY <4>1 DEF KeptFrom, Equal
      <3>4. r \notin C
        BY <3>2, LeftIsRest
      <3> QED
        BY <3>2, <3>3, <3>4
    <2>5. CASE r \in LeftFrom(F, T)
      <3>1. r \in F /\ r.claim \notin Known(F, T)
        BY <2>5, LeftIsRest
      <3>2. r \notin K
        BY <1>0, <3>1, MetOnce DEF KeptFrom, Equal
      <3> QED
        BY <2>5, <3>1, <3>2
    <2> QED
      BY <2>2, <2>3, <2>4, <2>5 DEF FromWhere
  <1>2. ASSUME NEW r \in K PROVE r \in F /\ r \notin C
    <2>1. PICK p \in Met(F, T) : r = p[1]
      BY DEF KeptFrom, Equal
    <2>2. r \in F /\ r.claim \in Known(F, T)
      BY <1>0, <2>1, MetOnce
    <2> QED
      BY <2>2, LeftIsRest
  <1>3. C \subseteq F
    BY LeftIsRest
  <1>4. ASSUME NEW r \in F PROVE r \in A \/ r \in K \/ r \in C
    <2>1. CASE r.claim \in Known(F, T) \ MetClaims(F, T)
      <3>1. Conflict(F, T, r.claim) \in I /\ r \in Conflict(F, T, r.claim).from
        BY <2>1, KindsOfItems DEF ItemsOf, Conflicts
      <3> QED
        BY <3>1 DEF Differ!AllFrom
    <2>2. CASE r.claim \in MetClaims(F, T)
      <3>1. PICK p \in Met(F, T) : r.claim = p[1].claim
        BY <2>2 DEF MetClaims
      <3>2. r = p[1]
        BY <1>0, <3>1, MetOnce
      <3>3. CASE p[1].state = p[2].state
        BY <3>2, <3>3 DEF KeptFrom, Equal
      <3>4. CASE p[1].state # p[2].state
        <4>1. ChangeOf(p) \in I /\ r \in ChangeOf(p).from
          BY <3>2, <3>4, KindsOfItems DEF ItemsOf, Changes, Differing
        <4> QED
          BY <4>1 DEF Differ!AllFrom
      <3> QED
        BY <3>3, <3>4
    <2>3. CASE r.claim \notin Known(F, T)
      <3>1. r \in RestOf(F, F, T)
        BY <2>3 DEF RestOf
      <3>2. CASE r \in LeftFrom(F, T)
        <4>1. RowsOnce(Resolved(c, bf, bt, F, T, r.tuple), OfTuple(LeftFrom(F, T), r.tuple), OfTuple(LeftTo(F, T), r.tuple))
          BY TupleOnce
        <4>2. PICK i \in Resolved(c, bf, bt, F, T, r.tuple) : r \in i.from
          BY <3>2, <4>1 DEF RowsOnce, OfTuple
        <4>3. r.tuple \in W
          BY DEF Compared
        <4>4. i \in I
          BY <4>2, <4>3 DEF ItemsOf
        <4> QED
          BY <4>2, <4>4 DEF Differ!AllFrom
      <3> QED
        BY <3>1, <3>2
    <2> QED
      BY <2>1, <2>2, <2>3
  <1> HIDE DEF A, K, C
  <1>5. F = (A \cup K) \cup C /\ A \cap K = {} /\ (A \cup K) \cap C = {}
    BY <1>1, <1>2, <1>3, <1>4
  <1> QED
    BY <1>5 DEF A, K, C

\* A row of the to side is in an item, met and equal, or cancelled.
LEMMA ToSplit ==
    ASSUME NEW c, NEW bf, NEW bt, NEW F, NEW T, NEW W, Compared(F, T, W), NEW I,
           I = ItemsOf(c, bf, bt, F, T, W)
    PROVE  LET A == Differ!AllTo(I)
               K == KeptTo(F, T)
               C == RestOf(T, F, T) \ LeftTo(F, T)
           IN  T = (A \cup K) \cup C /\ A \cap K = {} /\ (A \cup K) \cap C = {}
  <1> DEFINE A == Differ!AllTo(I)
             K == KeptTo(F, T)
             C == RestOf(T, F, T) \ LeftTo(F, T)
  <1>0. AreRows(F) /\ AreRows(T)
    BY DEF Compared
  <1>1. ASSUME NEW r \in A
        PROVE  /\ r \in T /\ r \notin K /\ r \notin C
    <2>1. PICK i \in I : r \in i.to
      BY DEF Differ!AllTo
    <2>2. ToWhere(c, bf, bt, F, T, i, r)
      BY <2>1, RowsOfItems
    <2>3. CASE r \in T /\ r.claim \in Known(F, T) \ MetClaims(F, T)
      <3>1. r \notin K
        BY <1>0, <2>3, MetOnce DEF KeptTo, Equal
      <3>2. r \notin C
        BY <2>3, LeftIsRest
      <3> QED
        BY <2>3, <3>1, <3>2
    <2>4. CASE \E p \in Differing(F, T) : r = p[2]
      <3>1. PICK p \in Met(F, T) : r = p[2] /\ p[1].state # p[2].state
        BY <2>4 DEF Differing
      <3>2. r \in T /\ r.claim \in Known(F, T)
        BY <1>0, <3>1, MetOnce
      <3>3. r \notin K
        <4>1. ASSUME NEW q \in Met(F, T), r = q[2], q[1].state = q[2].state PROVE FALSE
          <5>1. p = q
            BY <1>0, <3>1, <4>1, MetIsOne
          <5> QED
            BY <3>1, <4>1, <5>1
        <4> QED
          BY <4>1 DEF KeptTo, Equal
      <3>4. r \notin C
        BY <3>2, LeftIsRest
      <3> QED
        BY <3>2, <3>3, <3>4
    <2>5. CASE r \in LeftTo(F, T)
      <3>1. r \in T /\ r.claim \notin Known(F, T)
        BY <2>5, LeftIsRest
      <3>2. r \notin K
        BY <1>0, <3>1, MetOnce DEF KeptTo, Equal
      <3> QED
        BY <2>5, <3>1, <3>2
    <2> QED
      BY <2>2, <2>3, <2>4, <2>5 DEF ToWhere
  <1>2. ASSUME NEW r \in K PROVE r \in T /\ r \notin C
    <2>1. PICK p \in Met(F, T) : r = p[2]
      BY DEF KeptTo, Equal
    <2>2. r \in T /\ r.claim \in Known(F, T)
      BY <1>0, <2>1, MetOnce
    <2> QED
      BY <2>2, LeftIsRest
  <1>3. C \subseteq T
    BY LeftIsRest
  <1>4. ASSUME NEW r \in T PROVE r \in A \/ r \in K \/ r \in C
    <2>1. CASE r.claim \in Known(F, T) \ MetClaims(F, T)
      <3>1. Conflict(F, T, r.claim) \in I /\ r \in Conflict(F, T, r.claim).to
        BY <2>1, KindsOfItems DEF ItemsOf, Conflicts
      <3> QED
        BY <3>1 DEF Differ!AllTo
    <2>2. CASE r.claim \in MetClaims(F, T)
      <3>1. PICK p \in Met(F, T) : r.claim = p[1].claim
        BY <2>2 DEF MetClaims
      <3>2. r = p[2]
        BY <1>0, <3>1, MetOnce
      <3>3. CASE p[1].state = p[2].state
        BY <3>2, <3>3 DEF KeptTo, Equal
      <3>4. CASE p[1].state # p[2].state
        <4>1. ChangeOf(p) \in I /\ r \in ChangeOf(p).to
          BY <3>2, <3>4, KindsOfItems DEF ItemsOf, Changes, Differing
        <4> QED
          BY <4>1 DEF Differ!AllTo
      <3> QED
        BY <3>3, <3>4
    <2>3. CASE r.claim \notin Known(F, T)
      <3>1. r \in RestOf(T, F, T)
        BY <2>3 DEF RestOf
      <3>2. CASE r \in LeftTo(F, T)
        <4>1. RowsOnce(Resolved(c, bf, bt, F, T, r.tuple), OfTuple(LeftFrom(F, T), r.tuple), OfTuple(LeftTo(F, T), r.tuple))
          BY TupleOnce
        <4>2. PICK i \in Resolved(c, bf, bt, F, T, r.tuple) : r \in i.to
          BY <3>2, <4>1 DEF RowsOnce, OfTuple
        <4>3. r.tuple \in W
          BY DEF Compared
        <4>4. i \in I
          BY <4>2, <4>3 DEF ItemsOf
        <4> QED
          BY <4>2, <4>4 DEF Differ!AllTo
      <3> QED
        BY <3>1, <3>2
    <2> QED
      BY <2>1, <2>2, <2>3
  <1> HIDE DEF A, K, C
  <1>5. T = (A \cup K) \cup C /\ A \cap K = {} /\ (A \cup K) \cap C = {}
    BY <1>1, <1>2, <1>3, <1>4
  <1> QED
    BY <1>5 DEF A, K, C

\* A set in three parts.
InParts(F, A, K, C) == F = (A \cup K) \cup C /\ A \cap K = {} /\ (A \cup K) \cap C = {}

\* The size of a set that is in three parts.
LEMMA ThreeParts ==
    ASSUME NEW F, IsFiniteSet(F), NEW A, NEW K, NEW C, InParts(F, A, K, C)
    PROVE  /\ IsFiniteSet(A) /\ IsFiniteSet(K) /\ IsFiniteSet(C)
           /\ Cardinality(A) \in Nat /\ Cardinality(K) \in Nat /\ Cardinality(C) \in Nat
           /\ Cardinality(F) = Cardinality(A) + Cardinality(K) + Cardinality(C)
  <1>1. /\ A \in SUBSET F /\ K \in SUBSET F /\ C \in SUBSET F
        /\ A \cap K = {} /\ (A \cup K) \cap C = {} /\ F = (A \cup K) \cup C
    BY DEF InParts
  <1>2. IsFiniteSet(A) /\ IsFiniteSet(K) /\ IsFiniteSet(C)
    BY <1>1, FS_Subset
  <1>3. /\ IsFiniteSet(A \cup K) /\ Cardinality(A) \in Nat /\ Cardinality(K) \in Nat
        /\ Cardinality(A \cup K) = Cardinality(A) + Cardinality(K)
    BY <1>1, <1>2, TwoParts
  <1>4. Cardinality(C) \in Nat /\ Cardinality((A \cup K) \cup C) = Cardinality(A \cup K) + Cardinality(C)
    BY <1>1, <1>2, <1>3, TwoParts
  <1> QED
    BY <1>1, <1>2, <1>3, <1>4

\* Pairs that met and are equal, in a class or in all, are as many as their rows.
LEMMA KeptCount ==
    ASSUME NEW F, NEW T, AreRows(F), AreRows(T), NEW E \in SUBSET Equal(F, T)
    PROVE  /\ IsFiniteSet(E)
           /\ Cardinality({p[1] : p \in E}) = Cardinality(E)
           /\ Cardinality({p[2] : p \in E}) = Cardinality(E)
  <1>1. E \in SUBSET (F \X T)
    BY DEF Equal, Met, Differ!Matched
  <1>2. IsFiniteSet(E)
    <2>1. IsFiniteSet(F \X T)
      BY FS_Product DEF AreRows
    <2> QED
      BY <1>1, <2>1, FS_Subset
  <1>3. \A p, q \in E : p[1] = q[1] \/ p[2] = q[2] => p = q
    BY MetIsOne DEF Equal
  <1> DEFINE f == [p \in E |-> p[1]]
             g == [p \in E |-> p[2]]
             A == {p[1] : p \in E}
             B == {p[2] : p \in E}
  <1>4. /\ f \in [E -> A] /\ \A p, q \in E : f[p] = f[q] => p = q
        /\ \A x \in A : \E p \in E : f[p] = x
    BY <1>3
  <1>5. /\ g \in [E -> B] /\ \A p, q \in E : g[p] = g[q] => p = q
        /\ \A x \in B : \E p \in E : g[p] = x
    BY <1>3
  <1>6. Cardinality(A) = Cardinality(E)
    <2> HIDE DEF f, A
    <2> QED
      BY <1>2, <1>4, OneToOne
  <1>7. Cardinality(B) = Cardinality(E)
    <2> HIDE DEF g, B
    <2> QED
      BY <1>2, <1>5, OneToOne
  <1> QED
    BY <1>2, <1>6, <1>7

\* What the report calls unchanged.
SameOf(F, T) == Cardinality(Equal(F, T)) + Cardinality(RestOf(F, F, T) \ LeftFrom(F, T))

\* Items and unchanged rows are all the rows of either side.
LEMMA RowsCounted ==
    ASSUME NEW c, NEW bf, NEW bt, NEW F, NEW T, NEW W, Compared(F, T, W), NEW I,
           I = ItemsOf(c, bf, bt, F, T, W)
    PROVE  /\ Cardinality(Differ!AllFrom(I)) + SameOf(F, T) = Cardinality(F)
           /\ Cardinality(Differ!AllTo(I)) + SameOf(F, T) = Cardinality(T)
  <1> DEFINE A == Differ!AllFrom(I)
             B == Differ!AllTo(I)
             C == RestOf(F, F, T) \ LeftFrom(F, T)
             D == RestOf(T, F, T) \ LeftTo(F, T)
  <1>0. AreRows(F) /\ AreRows(T) /\ IsFiniteSet(F) /\ IsFiniteSet(T)
    BY DEF Compared, AreRows
  <1>1. InParts(F, A, KeptFrom(F, T), C)
    BY FromSplit DEF InParts
  <1>2. InParts(T, B, KeptTo(F, T), D)
    BY ToSplit DEF InParts
  <1>3. Cardinality(KeptFrom(F, T)) = Cardinality(Equal(F, T)) /\ Cardinality(KeptTo(F, T)) = Cardinality(Equal(F, T))
    BY <1>0, KeptCount DEF KeptFrom, KeptTo
  <1>4. Cardinality(C) = Cardinality(D)
    <2>1. AreRows(RestOf(F, F, T)) /\ AreRows(RestOf(T, F, T))
      BY <1>0, FewerRows, LeftIsRest
    <2> QED
      BY <2>1, CancelInAll DEF Cancelled, CancelledTo, LeftFrom, LeftTo
  <1>5. SameOf(F, T) = Cardinality(Equal(F, T)) + Cardinality(C)
    BY DEF SameOf
  <1> HIDE DEF A, B, C, D
  <1>6. /\ Cardinality(A) \in Nat /\ Cardinality(KeptFrom(F, T)) \in Nat /\ Cardinality(C) \in Nat
        /\ Cardinality(F) = Cardinality(A) + Cardinality(KeptFrom(F, T)) + Cardinality(C)
    BY <1>0, <1>1, ThreeParts
  <1>7. /\ Cardinality(B) \in Nat /\ Cardinality(KeptTo(F, T)) \in Nat /\ Cardinality(D) \in Nat
        /\ Cardinality(T) = Cardinality(B) + Cardinality(KeptTo(F, T)) + Cardinality(D)
    BY <1>0, <1>2, ThreeParts
  <1>8. Cardinality(A) + SameOf(F, T) = Cardinality(F) /\ Cardinality(B) + SameOf(F, T) = Cardinality(T)
    BY <1>3, <1>4, <1>5, <1>6, <1>7
  <1> QED
    BY <1>8 DEF A, B

\* There are finitely many items.
LEMMA FiniteItems ==
    ASSUME NEW c, NEW bf, NEW bt, NEW F, NEW T, NEW W, Compared(F, T, W)
    PROVE  IsFiniteSet(ItemsOf(c, bf, bt, F, T, W))
  <1>0. AreRows(F) /\ AreRows(T) /\ IsFiniteSet(F) /\ IsFiniteSet(T) /\ IsFiniteSet(W)
    BY DEF Compared, AreRows
  <1>1. IsFiniteSet(Conflicts(F, T))
    <2> DEFINE G == {r.claim : r \in F}
               H == {r.claim : r \in T}
               f == [r \in F |-> r.claim]
               g == [r \in T |-> r.claim]
               h == [x \in Known(F, T) \ MetClaims(F, T) |-> Conflict(F, T, x)]
    <2>1. G = {f[r] : r \in F} /\ H = {g[r] : r \in T}
      OBVIOUS
    <2>2. IsFiniteSet(G) /\ IsFiniteSet(H)
      <3> HIDE DEF f, g, G, H
      <3> QED
        BY <1>0, <2>1, FiniteImage
    <2>3. IsFiniteSet(G \cup H)
      BY <2>2, FS_Union
    <2>4. Known(F, T) \ MetClaims(F, T) \in SUBSET (G \cup H)
      BY DEF Known, Twice, Differ!Duplicated, Differ!ClaimsOf
    <2>5. IsFiniteSet(Known(F, T) \ MetClaims(F, T))
      BY <2>3, <2>4, FS_Subset
    <2>6. Conflicts(F, T) = {h[x] : x \in Known(F, T) \ MetClaims(F, T)}
      BY DEF Conflicts
    <2> HIDE DEF h
    <2> QED
      BY <2>5, <2>6, FiniteImage
  <1>2. IsFiniteSet(Changes(F, T))
    <2> DEFINE h == [p \in Differing(F, T) |-> ChangeOf(p)]
    <2>1. Differing(F, T) \in SUBSET (F \X T)
      BY DEF Differing, Met, Differ!Matched
    <2>2. IsFiniteSet(F \X T)
      BY <1>0, FS_Product
    <2>3. IsFiniteSet(Differing(F, T))
      BY <2>1, <2>2, FS_Subset
    <2>4. Changes(F, T) = {h[p] : p \in Differing(F, T)}
      BY DEF Changes
    <2> HIDE DEF h
    <2> QED
      BY <2>3, <2>4, FiniteImage
  <1>3. IsFiniteSet(UNION {Resolved(c, bf, bt, F, T, t) : t \in W})
    <2> DEFINE h == [t \in W |-> Resolved(c, bf, bt, F, T, t)]
               S == {Resolved(c, bf, bt, F, T, t) : t \in W}
    <2>1. S = {h[t] : t \in W}
      OBVIOUS
    <2>2. IsFiniteSet(S)
      <3> HIDE DEF h, S
      <3> QED
        BY <1>0, <2>1, FiniteImage
    <2>3. \A R \in S : IsFiniteSet(R)
      BY TupleOnce DEF RowsOnce
    <2> HIDE DEF S
    <2>4. IsFiniteSet(UNION S)
      BY <2>2, <2>3, FS_UNION
    <2> QED
      BY <2>4 DEF S
  <1>4. IsFiniteSet(Conflicts(F, T) \cup Changes(F, T))
    BY <1>1, <1>2, FS_Union
  <1>5. IsFiniteSet((Conflicts(F, T) \cup Changes(F, T)) \cup UNION {Resolved(c, bf, bt, F, T, t) : t \in W})
    BY <1>3, <1>4, FS_Union
  <1> QED
    BY <1>5 DEF ItemsOf

\* The sums of the model are totals.
LEMMA DiffSum ==
    ASSUME NEW f
    PROVE  Differ!SumFunction(f) = Total(f, DOMAIN f)
  BY DEF Total, Adds, Pick, Differ!SumFunction, Differ!SumFunctionOnSet,
         Differ!FoldFunctionOnSet, Differ!MapThenFoldSet

\* The items have as many rows as there are rows in items.
LEMMA ItemSums ==
    ASSUME NEW c, NEW bf, NEW bt, NEW F, NEW T, NEW W, Compared(F, T, W), NEW I,
           I = ItemsOf(c, bf, bt, F, T, W)
    PROVE  /\ Differ!SumFunction([i \in I |-> Differ!Cardinality(i.from)]) = Cardinality(Differ!AllFrom(I))
           /\ Differ!SumFunction([i \in I |-> Differ!Cardinality(i.to)]) = Cardinality(Differ!AllTo(I))
  <1>0. IsFiniteSet(I) /\ IsFiniteSet(F) /\ IsFiniteSet(T)
    BY FiniteItems DEF Compared, AreRows
  <1>1. Differ!AllFrom(I) \in SUBSET F /\ Differ!AllTo(I) \in SUBSET T
    <2>1. Differ!AllFrom(I) \in SUBSET F
      BY FromSplit
    <2>2. Differ!AllTo(I) \in SUBSET T
      BY ToSplit
    <2> QED
      BY <2>1, <2>2
  <1>2. \A i \in I : i.from \in SUBSET F /\ i.to \in SUBSET T
    BY <1>1 DEF Differ!AllFrom, Differ!AllTo
  <1>3. \A i \in I : IsFiniteSet(i.from) /\ IsFiniteSet(i.to) /\ Cardinality(i.from) \in Int /\ Cardinality(i.to) \in Int
    BY <1>0, <1>2, FS_Subset, FS_CardinalityType
  <1>4. \A i, j \in I : i # j => i.from \cap j.from = {} /\ i.to \cap j.to = {}
    BY ItemsApart
  <1>5. Differ!SumFunction([i \in I |-> Differ!Cardinality(i.from)]) = Cardinality(Differ!AllFrom(I))
    <2> DEFINE f == [i \in I |-> Differ!Cardinality(i.from)]
               part == [i \in I |-> i.from]
    <2>1. f \in [I -> Int] /\ \A i \in I : f[i] = Cardinality(part[i])
      BY <1>3, DiffCount
    <2>2. \A i \in I : IsFiniteSet(part[i])
      BY <1>3
    <2>3. \A i, j \in I : i # j => part[i] \cap part[j] = {}
      BY <1>4
    <2>4. AllParts(part, I) = Differ!AllFrom(I)
      BY DEF AllParts, Differ!AllFrom
    <2>5. Differ!SumFunction(f) = Total(f, I)
      <3>1. DOMAIN f = I
        OBVIOUS
      <3> HIDE DEF f
      <3> QED
        BY <3>1, DiffSum
    <2> HIDE DEF f, part
    <2>6. Total(f, I) = Cardinality(AllParts(part, I))
      BY <1>0, <2>1, <2>2, <2>3, DisjointSizes
    <2>7. Differ!SumFunction(f) = Cardinality(Differ!AllFrom(I))
      BY <2>4, <2>5, <2>6
    <2> QED
      BY <2>7 DEF f
  <1>6. Differ!SumFunction([i \in I |-> Differ!Cardinality(i.to)]) = Cardinality(Differ!AllTo(I))
    <2> DEFINE f == [i \in I |-> Differ!Cardinality(i.to)]
               part == [i \in I |-> i.to]
    <2>1. f \in [I -> Int] /\ \A i \in I : f[i] = Cardinality(part[i])
      BY <1>3, DiffCount
    <2>2. \A i \in I : IsFiniteSet(part[i])
      BY <1>3
    <2>3. \A i, j \in I : i # j => part[i] \cap part[j] = {}
      BY <1>4
    <2>4. AllParts(part, I) = Differ!AllTo(I)
      BY DEF AllParts, Differ!AllTo
    <2>5. Differ!SumFunction(f) = Total(f, I)
      <3>1. DOMAIN f = I
        OBVIOUS
      <3> HIDE DEF f
      <3> QED
        BY <3>1, DiffSum
    <2> HIDE DEF f, part
    <2>6. Total(f, I) = Cardinality(AllParts(part, I))
      BY <1>0, <2>1, <2>2, <2>3, DisjointSizes
    <2>7. Differ!SumFunction(f) = Cardinality(Differ!AllTo(I))
      BY <2>4, <2>5, <2>6
    <2> QED
      BY <2>7 DEF f
  <1> QED
    BY <1>5, <1>6

\* A class is in the parts of the whole.
LEMMA ClassParts ==
    ASSUME NEW F, IsFiniteSet(F), NEW A, NEW K, NEW C, InParts(F, A, K, C), NEW t, NEW s
    PROVE  /\ Cardinality(Class(A, t, s)) \in Nat /\ Cardinality(Class(K, t, s)) \in Nat
           /\ Cardinality(Class(C, t, s)) \in Nat
           /\ Cardinality(Class(F, t, s)) =
                 Cardinality(Class(A, t, s)) + Cardinality(Class(K, t, s)) + Cardinality(Class(C, t, s))
  <1> DEFINE f == Class(F, t, s)
             a == Class(A, t, s)
             k == Class(K, t, s)
             c == Class(C, t, s)
  <1>1. InParts(f, a, k, c) /\ f \in SUBSET F
    BY DEF Class, InParts
  <1>2. IsFiniteSet(f)
    BY <1>1, FS_Subset
  <1> HIDE DEF f, a, k, c
  <1>3. /\ Cardinality(a) \in Nat /\ Cardinality(k) \in Nat /\ Cardinality(c) \in Nat
        /\ Cardinality(f) = Cardinality(a) + Cardinality(k) + Cardinality(c)
    BY <1>1, <1>2, ThreeParts
  <1> QED
    BY <1>3 DEF f, a, k, c

\* Taking out and putting in the rows of the items turns one image into the other.
LEMMA ItemsReplay ==
    ASSUME NEW c, NEW bf, NEW bt, NEW F, NEW T, NEW W, Compared(F, T, W), NEW I,
           I = ItemsOf(c, bf, bt, F, T, W), NEW t, NEW s
    PROVE  Cardinality(Class(F, t, s)) + Cardinality(Class(Differ!AllTo(I), t, s))
           = Cardinality(Class(T, t, s)) + Cardinality(Class(Differ!AllFrom(I), t, s))
  <1> DEFINE A == Differ!AllFrom(I)
             B == Differ!AllTo(I)
             C == RestOf(F, F, T) \ LeftFrom(F, T)
             D == RestOf(T, F, T) \ LeftTo(F, T)
             E == {p \in Equal(F, T) : p[1].tuple = t /\ p[1].state = s}
             J == KeptFrom(F, T)
             K == KeptTo(F, T)
             In(R) == Class(R, t, s)
  <1>0. AreRows(F) /\ AreRows(T) /\ IsFiniteSet(F) /\ IsFiniteSet(T)
    BY DEF Compared, AreRows
  <1>1. InParts(F, A, J, C)
    BY FromSplit DEF InParts
  <1>2. InParts(T, B, K, D)
    BY ToSplit DEF InParts
  <1>3. Cardinality(In(J)) = Cardinality(In(K))
    <2>1. In(J) = {p[1] : p \in E}
      BY DEF Class, KeptFrom
    <2>2. In(K) = {p[2] : p \in E}
      <3>1. \A p \in Equal(F, T) : p[1].tuple = p[2].tuple /\ p[1].state = p[2].state
        BY <1>0, MetOnce DEF Equal
      <3> QED
        BY <3>1 DEF Class, KeptTo
    <2>3. E \in SUBSET Equal(F, T)
      OBVIOUS
    <2> HIDE DEF E
    <2>4. Cardinality({p[1] : p \in E}) = Cardinality(E) /\ Cardinality({p[2] : p \in E}) = Cardinality(E)
      BY <1>0, <2>3, KeptCount
    <2> QED
      BY <2>1, <2>2, <2>4
  <1>4. Cardinality(In(C)) = Cardinality(In(D))
    <2>1. AreRows(RestOf(F, F, T)) /\ AreRows(RestOf(T, F, T))
      BY <1>0, FewerRows, LeftIsRest
    <2> QED
      BY <2>1, CancelInClass DEF Cancelled, CancelledTo, LeftFrom, LeftTo
  <1> HIDE DEF A, B, C, D, J, K
  <1>6. /\ Cardinality(In(A)) \in Nat /\ Cardinality(In(J)) \in Nat /\ Cardinality(In(C)) \in Nat
        /\ Cardinality(In(F)) = Cardinality(In(A)) + Cardinality(In(J)) + Cardinality(In(C))
    BY <1>0, <1>1, ClassParts
  <1>7. /\ Cardinality(In(B)) \in Nat /\ Cardinality(In(K)) \in Nat /\ Cardinality(In(D)) \in Nat
        /\ Cardinality(In(T)) = Cardinality(In(B)) + Cardinality(In(K)) + Cardinality(In(D))
    BY <1>0, <1>2, ClassParts
  <1> HIDE DEF In
  <1>8. Cardinality(In(F)) + Cardinality(In(B)) = Cardinality(In(T)) + Cardinality(In(A))
    BY <1>3, <1>4, <1>6, <1>7
  <1> QED
    BY <1>8 DEF In, A, B

-----------------------------------------------------------------------------
(* State diff: nothing is paired without evidence. *)

\* The promise of Differ!NothingGuessed, for a comparison c.
Evidence(c, I, i) ==
    \E x \in i.from, y \in i.to :
        /\ i.from = {x} /\ i.to = {y} /\ x.tuple = y.tuple /\ x.state # y.state
        /\ x.claim = y.claim \/ Differ!NoClaim \in {x.claim, y.claim}
               \/ (c.from.map # c.to.map /\ c.from.basis.known /\ c.to.basis.known)
        /\ i.basis = "tuple" => \A j \in I \ {i} :
               j.basis = "tuple" => \A z \in j.from \cup j.to : z.tuple # x.tuple
ClaimsApart(F, T, i) ==
    Differ!ClaimsOf(i.from \cup i.to) \cap Differ!ClaimsOf(F) \cap Differ!ClaimsOf(T) = {}

\* Places are in the class.
LEMMA PlaceRange ==
    ASSUME NEW R, AreRows(R), NEW t, NEW s, NEW r \in Class(R, t, s)
    PROVE  Cardinality(Class(R, t, s)) \in Nat /\ Differ!Place(R, r) \in 1 .. Cardinality(Class(R, t, s))
  <1> DEFINE X == Class(R, t, s)
             at == [x \in X |-> x.pos]
  <1>1. /\ Cardinality(X) \in Nat
        /\ \A x \in X : Differ!Place(R, x) = RankBy(X, at, x) /\ RankBy(X, at, x) \in 1 .. Cardinality(X)
    BY ClassRanks
  <1> HIDE DEF at
  <1> QED
    BY <1>1

\* Rows that are left on both sides are not in one state.
LEMMA LeftDiffer ==
    ASSUME NEW F, NEW T, AreRows(F), AreRows(T), NEW x \in LeftFrom(F, T), NEW y \in LeftTo(F, T),
           x.tuple = y.tuple
    PROVE  x.state # y.state
  <1> SUFFICES ASSUME x.state = y.state PROVE FALSE
    OBVIOUS
  <1> DEFINE P == RestOf(F, F, T)
             Q == RestOf(T, F, T)
             A == Class(P, x.tuple, x.state)
             B == Class(Q, x.tuple, x.state)
  <1>1. AreRows(P) /\ AreRows(Q)
    BY FewerRows, LeftIsRest
  <1>2. /\ Differ!Alike(P, y) = A /\ Differ!Alike(Q, y) = B /\ Differ!Alike(Q, x) = B
        /\ Differ!Alike(P, x) = A
    BY DEF Differ!Alike, Class
  <1>3. x \in P /\ Differ!Place(P, x) > Cardinality(B)
    BY <1>2, DiffCount DEF LeftFrom, Differ!ResidualFrom
  <1>4. y \in Q /\ Differ!Place(Q, y) + Cardinality(A) <= Cardinality(B)
    BY <1>2, DiffCount DEF LeftTo, Differ!ResidualTo
  <1>5. x \in A /\ y \in B
    BY <1>3, <1>4 DEF Class
  <1>6. Cardinality(A) \in Nat /\ Differ!Place(P, x) \in 1 .. Cardinality(A)
    <2> HIDE DEF P, Q
    <2> QED
      BY <1>1, <1>5, PlaceRange
  <1>7. Cardinality(B) \in Nat /\ Differ!Place(Q, y) \in 1 .. Cardinality(B)
    <2> HIDE DEF P, Q
    <2> QED
      BY <1>1, <1>5, PlaceRange
  <1> HIDE DEF A, B, P, Q
  <1> QED
    BY <1>3, <1>4, <1>6, <1>7

\* An item about what is left of a tuple.
LEMMA TupleItems ==
    ASSUME NEW c, NEW F, NEW T, NEW W, Compared(F, T, W), NEW t \in W, NEW I,
           I = ItemsOf(c, BasisOf(c), BasisTo(c), F, T, W),
           NEW i \in Resolved(c, BasisOf(c), BasisTo(c), F, T, t)
    PROVE  /\ i.bucket = "changed" => Evidence(c, I, i)
           /\ ClaimsApart(F, T, i)
  <1> DEFINE bf == BasisOf(c)
             bt == BasisTo(c)
             A == OfTuple(LeftFrom(F, T), t)
             B == OfTuple(LeftTo(F, T), t)
             R == Resolved(c, bf, bt, F, T, t)
  <1>0. AreRows(F) /\ AreRows(T)
    BY DEF Compared
  <1>1. RowsOnce(R, A, B)
    BY TupleOnce
  <1>2. ClaimsApart(F, T, i)
    <2>1. \A r \in i.from \cup i.to : r.claim \notin Known(F, T)
      BY <1>1, LeftIsRest DEF RowsOnce, OfTuple
    <2>2. Differ!ClaimsOf(F) \cap Differ!ClaimsOf(T) \subseteq Known(F, T)
      BY DEF Known
    <2>3. \A x \in Differ!ClaimsOf(i.from \cup i.to) : x \notin Known(F, T)
      BY <2>1 DEF Differ!ClaimsOf
    <2> QED
      BY <2>2, <2>3 DEF ClaimsApart
  <1>3. ASSUME i.bucket = "changed" PROVE Evidence(c, I, i)
    <2>1. ResidualShape(c, bf, bt, A, B, R)
      <3>1. A \in SUBSET F /\ B \in SUBSET T
        BY LeftIsRest DEF OfTuple
      <3>2. IsFiniteSet(A) /\ IsFiniteSet(B)
        BY <3>1, FS_Subset DEF Compared, AreRows
      <3> QED
        BY <3>2, ResidualIs DEF Resolved
    <2>2. /\ \A r : Removal(r).bucket = "removed" /\ Addition(r).bucket = "added"
          /\ Unclear(A, B).bucket = "ambiguous"
      BY DEF Removal, Addition, Unclear, Differ!Item
    <2>3. PICK x, y : A = {x} /\ B = {y} /\ May(c, bf, bt, x, y) /\ R = {Pairing(x, y)}
      BY <1>3, <2>1, <2>2 DEF ResidualShape
    <2>4. i = Pairing(x, y) /\ i.from = {x} /\ i.to = {y} /\ i.basis = "tuple"
      BY <2>3 DEF Pairing, Differ!Item
    <2>5. x \in LeftFrom(F, T) /\ y \in LeftTo(F, T) /\ x.tuple = t /\ y.tuple = t
      BY <2>3 DEF OfTuple
    <2>6. x.state # y.state
      BY <1>0, <2>5, LeftDiffer
    <2>7. Differ!NoClaim \in {x.claim, y.claim} \/ (c.from.map # c.to.map /\ c.from.basis.known /\ c.to.basis.known)
      <3>1. CASE ~Named(x, y)
        BY <3>1 DEF Named
      <3>2. CASE Named(x, y)
        <4>1. Differ!ReidentificationPermitted(c, bf, bt, x, y)
          BY <2>3, <3>2 DEF May
        <4>2. /\ c.from.map # c.to.map /\ Differ!RelationshipOwnership(bf, x.tuple) = "upstream"
          BY <4>1 DEF Differ!ReidentificationPermitted
        <4>3. bf.known
          BY <4>2 DEF Differ!RelationshipOwnership
        <4>4. c.from.basis.known /\ c.to.basis.known
          BY <4>3 DEF BasisOf, Differ!ReconciledBasis, Differ!Unknown
        <4> QED
          BY <4>2, <4>4
      <3> QED
        BY <3>1, <3>2
    <2>8. ASSUME NEW j \in I \ {i}, j.basis = "tuple", NEW z \in j.from \cup j.to PROVE z.tuple # t
      <3>1. j \notin Conflicts(F, T) /\ j \notin Changes(F, T)
        BY <2>8, KindsOfItems DEF Conflicts, Changes
      <3>2. PICK u \in W : j \in Resolved(c, bf, bt, F, T, u)
        BY <3>1 DEF ItemsOf
      <3>3. u # t
        BY <2>3, <2>4, <3>2
      <3>4. RowsOnce(Resolved(c, bf, bt, F, T, u), OfTuple(LeftFrom(F, T), u), OfTuple(LeftTo(F, T), u))
        BY TupleOnce
      <3>5. z.tuple = u
        BY <2>8, <3>2, <3>4 DEF RowsOnce, OfTuple
      <3> QED
        BY <3>3, <3>5
    <2> QED
      BY <2>4, <2>5, <2>6, <2>7, <2>8 DEF Evidence
  <1> QED
    BY <1>2, <1>3

\* Every item is on evidence.
LEMMA OnEvidence ==
    ASSUME NEW c, NEW F, NEW T, NEW W, Compared(F, T, W), NEW I,
           I = ItemsOf(c, BasisOf(c), BasisTo(c), F, T, W), NEW i \in I
    PROVE  /\ i.bucket = "changed" => Evidence(c, I, i)
           /\ i.bucket \in {"added", "removed", "ambiguous"} => ClaimsApart(F, T, i)
  <1>1. CASE i \in Conflicts(F, T)
    BY <1>1, KindsOfItems DEF Conflicts
  <1>2. CASE i \in Changes(F, T)
    <2>1. PICK p \in Differing(F, T) : i = ChangeOf(p)
      BY <1>2 DEF Changes
    <2>2. p[1].claim = p[2].claim /\ p[1].tuple = p[2].tuple /\ p[1].state # p[2].state
      BY MetOnce DEF Differing, Compared
    <2>3. i.from = {p[1]} /\ i.to = {p[2]} /\ i.bucket = "changed" /\ i.basis = "claim_id"
      BY <2>1, KindsOfItems
    <2> QED
      BY <2>2, <2>3 DEF Evidence
  <1>3. CASE \E t \in W : i \in Resolved(c, BasisOf(c), BasisTo(c), F, T, t)
    BY <1>3, TupleItems
  <1> QED
    BY <1>1, <1>2, <1>3 DEF ItemsOf

-----------------------------------------------------------------------------
(* State diff: load order. *)

\* Without rows that are alike, what is left has nothing like it on the other side.
LEMMA NoTiesLeft ==
    ASSUME NEW P, AreRows(P), NEW Q, AreRows(Q), ~Differ!Ties(P), ~Differ!Ties(Q)
    PROVE  /\ Differ!ResidualFrom(P, Q) = {r \in P : Differ!Alike(Q, r) = {}}
           /\ Differ!ResidualTo(P, Q) = {r \in Q : Differ!Alike(P, r) = {}}
  <1>1. ASSUME NEW R, AreRows(R), ~Differ!Ties(R), NEW r \in R
        PROVE  Differ!Place(R, r) = 1 /\ Cardinality(Differ!Alike(R, r)) = 1
    <2>1. Differ!Alike(R, r) = Class(R, r.tuple, r.state) /\ r \in Class(R, r.tuple, r.state)
      BY DEF Differ!Alike, Class
    <2>2. ~(Cardinality(Differ!Alike(R, r)) > 1)
      BY <1>1, DiffCount DEF Differ!Ties
    <2>3. /\ Cardinality(Class(R, r.tuple, r.state)) \in Nat
          /\ Differ!Place(R, r) \in 1 .. Cardinality(Class(R, r.tuple, r.state))
      BY <1>1, <2>1, PlaceRange
    <2> QED
      BY <2>1, <2>2, <2>3
  <1>2. ASSUME NEW R, AreRows(R), NEW r
        PROVE  /\ Cardinality(Differ!Alike(R, r)) \in Nat
               /\ Cardinality(Differ!Alike(R, r)) = 0 <=> Differ!Alike(R, r) = {}
    <2>1. Differ!Alike(R, r) \in SUBSET R
      BY DEF Differ!Alike
    <2>2. IsFiniteSet(Differ!Alike(R, r))
      BY <1>2, <2>1, FS_Subset DEF AreRows
    <2> QED
      BY <2>2, FS_CardinalityType, FS_EmptySet
  <1>3. ASSUME NEW r \in P PROVE Differ!Place(P, r) > Differ!Cardinality(Differ!Alike(Q, r)) <=> Differ!Alike(Q, r) = {}
    <2>1. Differ!Place(P, r) = 1
      BY <1>1
    <2>2. Cardinality(Differ!Alike(Q, r)) \in Nat /\ (Cardinality(Differ!Alike(Q, r)) = 0 <=> Differ!Alike(Q, r) = {})
      BY <1>2
    <2> QED
      BY <2>1, <2>2, DiffCount
  <1>4. ASSUME NEW r \in Q
        PROVE  Differ!Place(Q, r) + Differ!Cardinality(Differ!Alike(P, r)) <= Differ!Cardinality(Differ!Alike(Q, r))
               <=> Differ!Alike(P, r) = {}
    <2>1. Differ!Place(Q, r) = 1 /\ Cardinality(Differ!Alike(Q, r)) = 1
      BY <1>1
    <2>2. Cardinality(Differ!Alike(P, r)) \in Nat /\ (Cardinality(Differ!Alike(P, r)) = 0 <=> Differ!Alike(P, r) = {})
      BY <1>2
    <2> QED
      BY <2>1, <2>2, DiffCount
  <1> QED
    BY <1>3, <1>4 DEF Differ!ResidualFrom, Differ!ResidualTo

\* Some of rows without ties have none.
LEMMA FewerTies ==
    ASSUME NEW R, AreRows(R), ~Differ!Ties(R), NEW S \in SUBSET R
    PROVE  ~Differ!Ties(S)
  <1> SUFFICES ASSUME NEW r \in S, Cardinality(Differ!Alike(S, r)) > 1 PROVE FALSE
    BY DiffCount DEF Differ!Ties
  <1>1. Differ!Alike(S, r) \in SUBSET Differ!Alike(R, r) /\ Differ!Alike(R, r) \in SUBSET R
    BY DEF Differ!Alike
  <1>2. IsFiniteSet(Differ!Alike(R, r))
    BY <1>1, FS_Subset DEF AreRows
  <1>3. Cardinality(Differ!Alike(S, r)) <= Cardinality(Differ!Alike(R, r))
    BY <1>1, <1>2, FS_Subset
  <1>4. Cardinality(Differ!Alike(R, r)) \in Nat /\ Cardinality(Differ!Alike(S, r)) \in Nat
    BY <1>1, <1>2, FS_Subset, FS_CardinalityType
  <1>5. ~(Cardinality(Differ!Alike(R, r)) > 1)
    BY DiffCount DEF Differ!Ties
  <1> QED
    BY <1>3, <1>4, <1>5

\* What is left, without ties.
LEMMA LeftNoTies ==
    ASSUME NEW F, NEW T, AreRows(F), AreRows(T), ~Differ!Ties(F), ~Differ!Ties(T)
    PROVE  LET P == RestOf(F, F, T)
               Q == RestOf(T, F, T)
           IN  /\ LeftFrom(F, T) = {r \in P : Differ!Alike(Q, r) = {}}
               /\ LeftTo(F, T) = {r \in Q : Differ!Alike(P, r) = {}}
  <1> DEFINE P == RestOf(F, F, T)
             Q == RestOf(T, F, T)
  <1>1. P \in SUBSET F /\ Q \in SUBSET T
    BY LeftIsRest
  <1>2. AreRows(P) /\ AreRows(Q) /\ ~Differ!Ties(P) /\ ~Differ!Ties(Q)
    BY <1>1, FewerRows, FewerTies
  <1> HIDE DEF P, Q
  <1>3. /\ Differ!ResidualFrom(P, Q) = {r \in P : Differ!Alike(Q, r) = {}}
        /\ Differ!ResidualTo(P, Q) = {r \in Q : Differ!Alike(P, r) = {}}
    BY <1>2, NoTiesLeft
  <1> QED
    BY <1>3 DEF P, Q, LeftFrom, LeftTo

\* An item turned round.
Turned(b) == IF b = "added" THEN "removed" ELSE IF b = "removed" THEN "added" ELSE b
TurnItem(i) == Differ!Item(Turned(i.bucket), i.to, i.from, i.basis, i.subtype)

\* Both sides know the same ids from either direction.
LEMMA TurnedParts ==
    ASSUME NEW F, NEW T, AreRows(F), AreRows(T)
    PROVE  /\ Twice(T, F) = Twice(F, T) /\ Known(T, F) = Known(F, T)
           /\ Met(T, F) = {<<p[2], p[1]>> : p \in Met(F, T)}
           /\ MetClaims(T, F) = MetClaims(F, T)
           /\ RestOf(T, T, F) = RestOf(T, F, T) /\ RestOf(F, T, F) = RestOf(F, F, T)
  <1>1. Twice(T, F) = Twice(F, T)
    BY DEF Twice, Differ!Duplicated
  <1>2. Known(T, F) = Known(F, T)
    BY <1>1 DEF Known
  <1>3. Met(T, F) = {<<p[2], p[1]>> : p \in Met(F, T)}
    <2>1. ASSUME NEW q \in Met(T, F) PROVE q \in {<<p[2], p[1]>> : p \in Met(F, T)}
      <3> DEFINE p == <<q[2], q[1]>>
      <3>1. /\ q \in T \X F /\ q[1].claim = q[2].claim /\ q[1].claim \notin Twice(F, T) \cup {Differ!NoClaim}
            /\ q[1].tuple = q[2].tuple
        BY <1>1 DEF Met, Differ!Matched
      <3>2. q = <<p[2], p[1]>> /\ p \in F \X T /\ p[1].claim = p[2].claim /\ p[1].tuple = p[2].tuple
            /\ p[1].claim \notin Twice(F, T) \cup {Differ!NoClaim}
        BY <3>1
      <3>3. p \in Met(F, T)
        BY <3>2 DEF Met, Differ!Matched
      <3> QED
        BY <3>2, <3>3
    <2>2. ASSUME NEW p \in Met(F, T) PROVE <<p[2], p[1]>> \in Met(T, F)
      <3>1. /\ p \in F \X T /\ p[1].claim = p[2].claim /\ p[1].claim \notin Twice(F, T) \cup {Differ!NoClaim}
            /\ p[1].tuple = p[2].tuple
        BY DEF Met, Differ!Matched
      <3> QED
        BY <1>1, <3>1 DEF Met, Differ!Matched
    <2> QED
      BY <2>1, <2>2
  <1>4. MetClaims(T, F) = MetClaims(F, T)
    <2>1. ASSUME NEW x \in MetClaims(F, T) PROVE x \in MetClaims(T, F)
      <3>1. PICK p \in Met(F, T) : x = p[1].claim
        BY <2>1 DEF MetClaims
      <3> DEFINE q == <<p[2], p[1]>>
      <3>2. q \in Met(T, F)
        BY <1>3
      <3>3. q[1].claim = x
        BY <3>1, MetOnce
      <3> QED
        BY <3>2, <3>3 DEF MetClaims
    <2>2. ASSUME NEW x \in MetClaims(T, F) PROVE x \in MetClaims(F, T)
      <3>1. PICK q \in Met(T, F) : x = q[1].claim
        BY <2>2 DEF MetClaims
      <3>2. PICK p \in Met(F, T) : q = <<p[2], p[1]>>
        BY <1>3
      <3>3. p[1].claim = x
        BY <3>1, <3>2, MetOnce
      <3> QED
        BY <3>3 DEF MetClaims
    <2> QED
      BY <2>1, <2>2
  <1>5. RestOf(T, T, F) = RestOf(T, F, T) /\ RestOf(F, T, F) = RestOf(F, F, T)
    BY <1>2 DEF RestOf
  <1> QED
    BY <1>1, <1>2, <1>3, <1>4, <1>5

\* Without ties, what is left is the same from either direction.
LEMMA TurnedLeft ==
    ASSUME NEW F, NEW T, AreRows(F), AreRows(T), ~Differ!Ties(F), ~Differ!Ties(T)
    PROVE  LeftFrom(T, F) = LeftTo(F, T) /\ LeftTo(T, F) = LeftFrom(F, T)
  <1>1. RestOf(T, T, F) = RestOf(T, F, T) /\ RestOf(F, T, F) = RestOf(F, F, T)
    BY TurnedParts
  <1>2. /\ LeftFrom(F, T) = {r \in RestOf(F, F, T) : Differ!Alike(RestOf(T, F, T), r) = {}}
        /\ LeftTo(F, T) = {r \in RestOf(T, F, T) : Differ!Alike(RestOf(F, F, T), r) = {}}
    BY LeftNoTies
  <1>3. /\ LeftFrom(T, F) = {r \in RestOf(T, T, F) : Differ!Alike(RestOf(F, T, F), r) = {}}
        /\ LeftTo(T, F) = {r \in RestOf(F, T, F) : Differ!Alike(RestOf(T, T, F), r) = {}}
    BY LeftNoTies
  <1> QED
    BY <1>1, <1>2, <1>3

\* Whether two ids may be one does not depend on the direction.
BothWays(c, bf, bt, d) ==
    \A x, y : May(c, bf, bt, x, y) <=> May(d, bt, bf, y, x)

\* What is left of a tuple, turned round.
LEMMA TurnedResidual ==
    ASSUME NEW c, NEW bf, NEW bt, NEW d, BothWays(c, bf, bt, d), NEW A, NEW B, NEW R, NEW S,
           ResidualShape(c, bf, bt, A, B, R), ResidualShape(d, bt, bf, B, A, S), NEW i \in R
    PROVE  TurnItem(i) \in S
  <1>0. /\ \A r : TurnItem(Removal(r)) = Addition(r) /\ TurnItem(Addition(r)) = Removal(r)
        /\ TurnItem(Unclear(A, B)) = Unclear(B, A)
        /\ \A x, y : TurnItem(Pairing(x, y)) = Pairing(y, x)
    <2>1. \A r : TurnItem(Removal(r)) = Addition(r) /\ TurnItem(Addition(r)) = Removal(r)
      BY ItemFields DEF TurnItem, Turned, Removal, Addition
    <2>2. TurnItem(Unclear(A, B)) = Unclear(B, A)
      BY ItemFields DEF TurnItem, Turned, Unclear
    <2>3. \A x, y : Named(x, y) <=> Named(y, x)
      BY DEF Named
    <2>4. \A x, y : TurnItem(Pairing(x, y)) = Pairing(y, x)
      BY <2>3, ItemFields DEF TurnItem, Turned, Pairing
    <2> QED
      BY <2>1, <2>2, <2>4
  <1>1. CASE B = {}
    <2>1. PICK r \in A : i = Removal(r)
      BY <1>1 DEF ResidualShape
    <2>2. S = {Addition(x) : x \in A}
      BY <1>1, <2>1 DEF ResidualShape
    <2> QED
      BY <1>0, <2>1, <2>2
  <1>2. CASE B # {} /\ A = {}
    <2>1. PICK r \in B : i = Addition(r)
      BY <1>2 DEF ResidualShape
    <2>2. S = {Removal(x) : x \in B}
      BY <1>2 DEF ResidualShape
    <2> QED
      BY <1>0, <2>1, <2>2
  <1>3. CASE B # {} /\ A # {}
    <2>1. CASE \E x, y : A = {x} /\ B = {y} /\ May(c, bf, bt, x, y)
      <3>1. PICK x, y : A = {x} /\ B = {y} /\ May(c, bf, bt, x, y) /\ R = {Pairing(x, y)}
        BY <1>3, <2>1 DEF ResidualShape
      <3>2. May(d, bt, bf, y, x)
        BY <3>1 DEF BothWays
      <3>3. PICK u, v : B = {u} /\ A = {v} /\ S = {Pairing(u, v)}
        BY <1>3, <3>1, <3>2 DEF ResidualShape
      <3>4. u = y /\ v = x
        BY <3>1, <3>3
      <3> QED
        BY <1>0, <3>1, <3>3, <3>4
    <2>2. CASE ~\E x, y : A = {x} /\ B = {y} /\ May(c, bf, bt, x, y)
      <3>1. R = {Unclear(A, B)}
        BY <1>3, <2>2 DEF ResidualShape
      <3>2. ~\E u, v : B = {u} /\ A = {v} /\ May(d, bt, bf, u, v)
        BY <2>2 DEF BothWays
      <3>3. S = {Unclear(B, A)}
        BY <1>3, <3>2 DEF ResidualShape
      <3> QED
        BY <1>0, <3>1, <3>3
    <2> QED
      BY <2>1, <2>2
  <1> QED
    BY <1>1, <1>2, <1>3

\* The shape of what is left of a tuple.
LEMMA TupleShape ==
    ASSUME NEW c, NEW bf, NEW bt, NEW F, NEW T, NEW W, Compared(F, T, W), NEW t
    PROVE  ResidualShape(c, bf, bt, OfTuple(LeftFrom(F, T), t), OfTuple(LeftTo(F, T), t),
                         Resolved(c, bf, bt, F, T, t))
  <1> DEFINE A == OfTuple(LeftFrom(F, T), t)
             B == OfTuple(LeftTo(F, T), t)
             R == Resolved(c, bf, bt, F, T, t)
  <1>1. A \in SUBSET F /\ B \in SUBSET T
    BY LeftIsRest DEF OfTuple
  <1>2. IsFiniteSet(A) /\ IsFiniteSet(B)
    BY <1>1, FS_Subset DEF Compared, AreRows
  <1>3. R = Differ!ResolveResidual(c, bf, bt, A, B)
    BY DEF Resolved
  <1> HIDE DEF A, B, R
  <1>4. ResidualShape(c, bf, bt, A, B, R)
    BY <1>2, <1>3, ResidualIs
  <1> QED
    BY <1>4 DEF A, B, R

\* The items of the other direction are these, turned round.
LEMMA TurnOne ==
    ASSUME NEW c, NEW bf, NEW bt, NEW d, BothWays(c, bf, bt, d), NEW F, NEW T, NEW W,
           Compared(F, T, W), ~Differ!Ties(F), ~Differ!Ties(T),
           NEW i \in ItemsOf(c, bf, bt, F, T, W)
    PROVE  TurnItem(i) \in ItemsOf(d, bt, bf, T, F, W)
  <1>0. AreRows(F) /\ AreRows(T) /\ Compared(T, F, W)
    BY DEF Compared
  <1>1. CASE i \in Conflicts(F, T)
    <2>1. PICK x \in Known(F, T) \ MetClaims(F, T) : i = Conflict(F, T, x)
      BY <1>1 DEF Conflicts
    <2>2. x \in Known(T, F) \ MetClaims(T, F) /\ Twice(T, F) = Twice(F, T)
      BY <1>0, TurnedParts
    <2>3. TurnItem(i) = Conflict(T, F, x)
      BY <2>1, <2>2, ItemFields DEF TurnItem, Turned, Conflict, Differ!IdentityConflict
    <2> QED
      BY <2>2, <2>3 DEF Conflicts, ItemsOf
  <1>2. CASE i \in Changes(F, T)
    <2>1. PICK p \in Differing(F, T) : i = ChangeOf(p)
      BY <1>2 DEF Changes
    <2> DEFINE q == <<p[2], p[1]>>
    <2>2. q \in Met(T, F)
      BY <1>0, TurnedParts DEF Differing
    <2>3. q \in Differing(T, F)
      BY <2>2 DEF Differing
    <2>4. TurnItem(i) = ChangeOf(q)
      BY <2>1, ItemFields DEF TurnItem, Turned, ChangeOf
    <2> QED
      BY <2>3, <2>4 DEF Changes, ItemsOf
  <1>3. CASE \E t \in W : i \in Resolved(c, bf, bt, F, T, t)
    <2>1. PICK t \in W : i \in Resolved(c, bf, bt, F, T, t)
      BY <1>3
    <2> DEFINE A == OfTuple(LeftFrom(F, T), t)
               B == OfTuple(LeftTo(F, T), t)
    <2>2. ResidualShape(c, bf, bt, A, B, Resolved(c, bf, bt, F, T, t))
      BY TupleShape
    <2>3. ResidualShape(d, bt, bf, B, A, Resolved(d, bt, bf, T, F, t))
      <3>1. LeftFrom(T, F) = LeftTo(F, T) /\ LeftTo(T, F) = LeftFrom(F, T)
        BY <1>0, TurnedLeft
      <3>2. ResidualShape(d, bt, bf, OfTuple(LeftFrom(T, F), t), OfTuple(LeftTo(T, F), t),
                          Resolved(d, bt, bf, T, F, t))
        BY <1>0, TupleShape
      <3> QED
        BY <3>1, <3>2
    <2>4. TurnItem(i) \in Resolved(d, bt, bf, T, F, t)
      BY <2>1, <2>2, <2>3, TurnedResidual
    <2> QED
      BY <2>4 DEF ItemsOf
  <1> QED
    BY <1>1, <1>2, <1>3 DEF ItemsOf

\* Items are items, of a known bucket.
LEMMA ItemShape ==
    ASSUME NEW c, NEW bf, NEW bt, NEW F, NEW T, NEW W, Compared(F, T, W),
           NEW i \in ItemsOf(c, bf, bt, F, T, W)
    PROVE  i = Differ!Item(i.bucket, i.from, i.to, i.basis, i.subtype) /\ i.bucket \in Differ!Buckets
  <1>0. ASSUME NEW b \in Differ!Buckets, NEW f, NEW t, NEW s, NEW u, NEW j, j = Differ!Item(b, f, t, s, u)
        PROVE  j = Differ!Item(j.bucket, j.from, j.to, j.basis, j.subtype) /\ j.bucket \in Differ!Buckets
    BY <1>0, ItemFields
  <1>b. \A b \in {"added", "removed", "changed", "ambiguous", "identity_conflict"} : b \in Differ!Buckets
    BY DEF Differ!Buckets
  <1>1. CASE i \in Conflicts(F, T)
    BY <1>0, <1>1, <1>b DEF Conflicts, Conflict, Differ!IdentityConflict
  <1>2. CASE i \in Changes(F, T)
    <2>1. PICK p \in Differing(F, T) : i = ChangeOf(p)
      BY <1>2 DEF Changes
    <2> QED
      BY <1>0, <1>b, <2>1 DEF ChangeOf
  <1>3. CASE \E t \in W : i \in Resolved(c, bf, bt, F, T, t)
    <2>1. PICK t \in W : i \in Resolved(c, bf, bt, F, T, t)
      BY <1>3
    <2> DEFINE A == OfTuple(LeftFrom(F, T), t)
               B == OfTuple(LeftTo(F, T), t)
    <2>2. ResidualShape(c, bf, bt, A, B, Resolved(c, bf, bt, F, T, t))
      BY TupleShape
    <2>3. \/ \E r : i = Removal(r) \/ i = Addition(r)
          \/ i = Unclear(A, B)
          \/ \E x, y : i = Pairing(x, y)
      BY <2>1, <2>2 DEF ResidualShape
    <2>4. CASE \E r : i = Removal(r) \/ i = Addition(r)
      BY <1>0, <1>b, <2>4 DEF Removal, Addition
    <2>5. CASE i = Unclear(A, B)
      BY <1>0, <1>b, <2>5 DEF Unclear
    <2>6. CASE \E x, y : i = Pairing(x, y)
      BY <1>0, <1>b, <2>6 DEF Pairing
    <2> QED
      BY <2>3, <2>4, <2>5, <2>6
  <1> QED
    BY <1>1, <1>2, <1>3 DEF ItemsOf

\* Comparing the other way round reports the reverse.
LEMMA TurnAll ==
    ASSUME NEW c, NEW bf, NEW bt, NEW d, BothWays(c, bf, bt, d), NEW F, NEW T, NEW W,
           Compared(F, T, W), ~Differ!Ties(F), ~Differ!Ties(T), NEW I, NEW J,
           I = ItemsOf(c, bf, bt, F, T, W), J = ItemsOf(d, bt, bf, T, F, W)
    PROVE  J = Differ!Reversed(I) /\ SameOf(T, F) = SameOf(F, T)
  <1>0. Compared(T, F, W) /\ BothWays(d, bt, bf, c)
    BY DEF Compared, BothWays
  <1>1. \A i \in I : TurnItem(i) \in J
    BY TurnOne
  <1>2. \A j \in J : TurnItem(j) \in I
    BY <1>0, TurnOne
  <1>3. /\ \A i \in I : i = Differ!Item(i.bucket, i.from, i.to, i.basis, i.subtype) /\ i.bucket \in Differ!Buckets
        /\ \A j \in J : j = Differ!Item(j.bucket, j.from, j.to, j.basis, j.subtype)
    BY <1>0, ItemShape
  <1>4. \A j \in J : TurnItem(TurnItem(j)) = j
    <2>1. \A b : Turned(Turned(b)) = b
      BY DEF Turned
    <2> QED
      BY <1>3, <2>1, ItemFields DEF TurnItem
  <1>5. J = {TurnItem(i) : i \in I}
    BY <1>1, <1>2, <1>4
  <1>6. Differ!Reversed(I) = {TurnItem(i) : i \in I}
    <2>1. \A i \in I : [b \in Differ!Buckets |-> IF b = "added" THEN "removed"
                                    ELSE IF b = "removed" THEN "added" ELSE b][i.bucket] = Turned(i.bucket)
      BY <1>3 DEF Turned
    <2> QED
      BY <2>1 DEF Differ!Reversed, TurnItem
  <1>7. Differ!AllTo(J) = Differ!AllFrom(I)
    <2>1. \A i : TurnItem(i).to = i.from
      BY ItemFields DEF TurnItem
    <2> QED
      BY <1>5, <2>1 DEF Differ!AllTo, Differ!AllFrom
  <1>8. SameOf(T, F) = SameOf(F, T)
    <2>1. Cardinality(Differ!AllFrom(I)) + SameOf(F, T) = Cardinality(F)
      BY RowsCounted
    <2>2. Cardinality(Differ!AllTo(J)) + SameOf(T, F) = Cardinality(F)
      BY <1>0, RowsCounted
    <2>3. Cardinality(Differ!AllFrom(I)) \in Nat /\ SameOf(F, T) \in Nat /\ SameOf(T, F) \in Nat
      <3>1. AreRows(F) /\ AreRows(T) /\ IsFiniteSet(F) /\ IsFiniteSet(T)
        BY DEF Compared, AreRows
      <3>2. /\ RestOf(F, F, T) \ LeftFrom(F, T) \in SUBSET F
            /\ RestOf(T, T, F) \ LeftFrom(T, F) \in SUBSET T
        BY LeftIsRest
      <3>3. IsFiniteSet(Equal(F, T)) /\ IsFiniteSet(Equal(T, F))
        BY <3>1, KeptCount
      <3>4. Differ!AllFrom(I) \in SUBSET F
        BY FromSplit
      <3> QED
        BY <3>1, <3>2, <3>3, <3>4, FS_Subset, FS_CardinalityType DEF SameOf
    <2> HIDE DEF SameOf
    <2> QED
      BY <1>7, <2>1, <2>2, <2>3
  <1> QED
    BY <1>5, <1>6, <1>8

\* A row loaded in the other order.
Re(r) == [r EXCEPT !.pos = 9 - r.pos]
ReS(R) == {Re(r) : r \in R}
ReItem(i) == Differ!Item(i.bucket, ReS(i.from), ReS(i.to), i.basis, i.subtype)

\* It is the same row but for its place.
LEMMA ReRow ==
    ASSUME NEW R, AreRows(R), NEW r \in R
    PROVE  /\ Re(r).tuple = r.tuple /\ Re(r).claim = r.claim /\ Re(r).state = r.state
           /\ Re(r).pos = 9 - r.pos /\ r.pos \in Int
           /\ Re(r) = [tuple |-> Re(r).tuple, claim |-> Re(r).claim, state |-> Re(r).state, pos |-> Re(r).pos]
           /\ Re(Re(r)) = r
  <1>1. /\ r = [tuple |-> r.tuple, claim |-> r.claim, state |-> r.state, pos |-> r.pos]
        /\ r.pos \in Int
    BY DEF AreRows
  <1>2. Re(r) = [tuple |-> r.tuple, claim |-> r.claim, state |-> r.state, pos |-> 9 - r.pos]
    BY <1>1 DEF Re
  <1>3. 9 - (9 - r.pos) = r.pos
    BY <1>1
  <1>4. Re([tuple |-> r.tuple, claim |-> r.claim, state |-> r.state, pos |-> 9 - r.pos]) = r
    BY <1>1, <1>3 DEF Re
  <1> QED
    BY <1>1, <1>2, <1>4

\* Rows in the other order are rows, as many of them.
LEMMA ReRows ==
    ASSUME NEW R, AreRows(R)
    PROVE  /\ AreRows(ReS(R)) /\ ReS(ReS(R)) = R
           /\ \A S \in SUBSET R : Cardinality(ReS(S)) = Cardinality(S) /\ ReS(ReS(S)) = S
  <1>1. ASSUME NEW S \in SUBSET R
        PROVE  IsFiniteSet(ReS(S)) /\ Cardinality(ReS(S)) = Cardinality(S) /\ ReS(ReS(S)) = S
    <2> DEFINE f == [r \in S |-> Re(r)]
    <2>1. IsFiniteSet(S)
      BY FS_Subset DEF AreRows
    <2>2. f \in [S -> ReS(S)] /\ \A t \in ReS(S) : \E x \in S : f[x] = t
      BY DEF ReS
    <2>3. \A x \in S : Re(Re(x)) = x
      BY ReRow
    <2>4. \A x, y \in S : f[x] = f[y] => x = y
      BY <2>3
    <2>5. ReS(ReS(S)) = S
      BY <2>3 DEF ReS
    <2> HIDE DEF f
    <2> QED
      BY <2>1, <2>2, <2>4, <2>5, OneToOne
  <1>2. AreRows(ReS(R))
    <2>1. IsFiniteSet(ReS(R))
      BY <1>1
    <2>2. \A r \in ReS(R) : /\ r = [tuple |-> r.tuple, claim |-> r.claim, state |-> r.state, pos |-> r.pos]
                            /\ r.pos \in Int
      BY ReRow DEF ReS
    <2>3. ASSUME NEW x \in R, NEW y \in R, Re(x).pos = Re(y).pos PROVE x = y
      <3>1. 9 - x.pos = 9 - y.pos /\ x.pos \in Int /\ y.pos \in Int
        BY <2>3, ReRow
      <3>2. x.pos = y.pos
        BY <3>1
      <3> QED
        BY <3>2 DEF AreRows
    <2>4. \A x, y \in ReS(R) : x.pos = y.pos => x = y
      BY <2>3 DEF ReS
    <2> QED
      BY <2>1, <2>2, <2>4 DEF AreRows
  <1> QED
    BY <1>1, <1>2

Without(R, K) == {r \in R : r.claim \notin K}

\* Choosing rows by anything but their place commutes with the other order.
LEMMA ReChosen ==
    ASSUME NEW R, AreRows(R)
    PROVE  /\ \A x : Differ!IndexByClaimId(ReS(R), x) = ReS(Differ!IndexByClaimId(R, x))
           /\ \A t : OfTuple(ReS(R), t) = ReS(OfTuple(R, t))
           /\ \A K : Without(ReS(R), K) = ReS(Without(R, K))
           /\ Differ!ClaimsOf(ReS(R)) = Differ!ClaimsOf(R)
           /\ Differ!Face(ReS(R)) = Differ!Face(R)
           /\ \A r, s : r.tuple = s.tuple /\ r.state = s.state =>
                 Differ!Alike(ReS(R), r) = ReS(Differ!Alike(R, s))
  <1>1. \A r \in R : Re(r).tuple = r.tuple /\ Re(r).claim = r.claim /\ Re(r).state = r.state
    BY ReRow
  <1>2. \A x : Differ!IndexByClaimId(ReS(R), x) = ReS(Differ!IndexByClaimId(R, x))
    BY <1>1 DEF Differ!IndexByClaimId, ReS
  <1>3. \A t : OfTuple(ReS(R), t) = ReS(OfTuple(R, t))
    BY <1>1 DEF OfTuple, ReS
  <1>4. \A K : Without(ReS(R), K) = ReS(Without(R, K))
    BY <1>1 DEF Without, ReS
  <1>5. Differ!ClaimsOf(ReS(R)) = Differ!ClaimsOf(R)
    BY <1>1 DEF Differ!ClaimsOf, ReS
  <1>6. Differ!Face(ReS(R)) = Differ!Face(R)
    BY <1>1 DEF Differ!Face, ReS
  <1>7. \A r, s : r.tuple = s.tuple /\ r.state = s.state =>
                 Differ!Alike(ReS(R), r) = ReS(Differ!Alike(R, s))
    BY <1>1 DEF Differ!Alike, ReS
  <1> QED
    BY <1>2, <1>3, <1>4, <1>5, <1>6, <1>7

\* The ids known, met and left do not depend on the order.
LEMMA ReParts ==
    ASSUME NEW F, NEW T, AreRows(F), AreRows(T)
    PROVE  /\ Twice(ReS(F), ReS(T)) = Twice(F, T) /\ Known(ReS(F), ReS(T)) = Known(F, T)
           /\ \A p \in Met(F, T) : <<Re(p[1]), Re(p[2])>> \in Met(ReS(F), ReS(T))
           /\ MetClaims(F, T) \subseteq MetClaims(ReS(F), ReS(T))
           /\ RestOf(ReS(F), ReS(F), ReS(T)) = ReS(RestOf(F, F, T))
           /\ RestOf(ReS(T), ReS(F), ReS(T)) = ReS(RestOf(T, F, T))
  <1>1. Differ!ClaimsOf(ReS(F)) = Differ!ClaimsOf(F) /\ Differ!ClaimsOf(ReS(T)) = Differ!ClaimsOf(T)
    BY ReChosen
  <1>2. ASSUME NEW R, AreRows(R), NEW x
        PROVE  Differ!Cardinality(Differ!IndexByClaimId(ReS(R), x)) = Differ!Cardinality(Differ!IndexByClaimId(R, x))
    <2>1. Differ!IndexByClaimId(ReS(R), x) = ReS(Differ!IndexByClaimId(R, x))
      BY <1>2, ReChosen
    <2>2. Differ!IndexByClaimId(R, x) \in SUBSET R
      BY DEF Differ!IndexByClaimId
    <2>3. Cardinality(ReS(Differ!IndexByClaimId(R, x))) = Cardinality(Differ!IndexByClaimId(R, x))
      BY <1>2, <2>2, ReRows
    <2> QED
      BY <2>1, <2>3, DiffCount
  <1>3. Twice(ReS(F), ReS(T)) = Twice(F, T)
    BY <1>1, <1>2 DEF Twice, Differ!Duplicated
  <1>4. Known(ReS(F), ReS(T)) = Known(F, T)
    BY <1>1, <1>3 DEF Known
  <1>5. ASSUME NEW p \in Met(F, T) PROVE <<Re(p[1]), Re(p[2])>> \in Met(ReS(F), ReS(T))
    <2>1. /\ p[1] \in F /\ p[2] \in T /\ p[1].claim = p[2].claim /\ p[1].tuple = p[2].tuple
          /\ p[1].claim \notin Twice(F, T) \cup {Differ!NoClaim}
      BY MetOnce
    <2>2. Re(p[1]) \in ReS(F) /\ Re(p[2]) \in ReS(T)
      BY <2>1 DEF ReS
    <2>3. /\ Re(p[1]).claim = p[1].claim /\ Re(p[2]).claim = p[2].claim
          /\ Re(p[1]).tuple = p[1].tuple /\ Re(p[2]).tuple = p[2].tuple
      BY <2>1, ReRow
    <2> QED
      BY <1>3, <2>1, <2>2, <2>3 DEF Met, Differ!Matched
  <1>6. ASSUME NEW x \in MetClaims(F, T) PROVE x \in MetClaims(ReS(F), ReS(T))
    <2>1. PICK p \in Met(F, T) : x = p[1].claim
      BY <1>6 DEF MetClaims
    <2>2. p[1] \in F
      BY MetOnce
    <2>3. Re(p[1]).claim = x
      BY <2>1, <2>2, ReRow
    <2> DEFINE q == <<Re(p[1]), Re(p[2])>>
    <2>4. q \in Met(ReS(F), ReS(T)) /\ q[1].claim = x
      BY <1>5, <2>3
    <2> HIDE DEF q
    <2> QED
      BY <2>4 DEF MetClaims
  <1>7. /\ RestOf(ReS(F), ReS(F), ReS(T)) = ReS(RestOf(F, F, T))
        /\ RestOf(ReS(T), ReS(F), ReS(T)) = ReS(RestOf(T, F, T))
    <2>1. /\ Without(ReS(F), Known(F, T)) = ReS(Without(F, Known(F, T)))
          /\ Without(ReS(T), Known(F, T)) = ReS(Without(T, Known(F, T)))
      BY ReChosen
    <2> QED
      BY <1>4, <2>1 DEF RestOf, Without
  <1> QED
    BY <1>3, <1>4, <1>5, <1>6, <1>7

\* The ids met are the same ones.
LEMMA ReMetClaims ==
    ASSUME NEW F, NEW T, AreRows(F), AreRows(T)
    PROVE  MetClaims(ReS(F), ReS(T)) = MetClaims(F, T)
  <1>1. AreRows(ReS(F)) /\ AreRows(ReS(T)) /\ ReS(ReS(F)) = F /\ ReS(ReS(T)) = T
    BY ReRows
  <1>2. MetClaims(F, T) \subseteq MetClaims(ReS(F), ReS(T))
    BY ReParts
  <1>3. MetClaims(ReS(F), ReS(T)) \subseteq MetClaims(ReS(ReS(F)), ReS(ReS(T)))
    BY <1>1, ReParts
  <1> QED
    BY <1>1, <1>2, <1>3

\* The other order makes no ties.
LEMMA ReTies ==
    ASSUME NEW R, AreRows(R), ~Differ!Ties(R)
    PROVE  ~Differ!Ties(ReS(R))
  <1> SUFFICES ASSUME NEW r \in R, Cardinality(Differ!Alike(ReS(R), Re(r))) > 1 PROVE FALSE
    BY DiffCount DEF Differ!Ties, ReS
  <1>1. Re(r).tuple = r.tuple /\ Re(r).state = r.state
    BY ReRow
  <1>2. Differ!Alike(ReS(R), Re(r)) = ReS(Differ!Alike(R, r))
    BY <1>1, ReChosen
  <1>3. Differ!Alike(R, r) \in SUBSET R
    BY DEF Differ!Alike
  <1>4. Cardinality(ReS(Differ!Alike(R, r))) = Cardinality(Differ!Alike(R, r))
    BY <1>3, ReRows
  <1> QED
    BY <1>2, <1>4, DiffCount DEF Differ!Ties

\* What is left, in the other order.
LEMMA ReLeft ==
    ASSUME NEW F, NEW T, AreRows(F), AreRows(T), ~Differ!Ties(F), ~Differ!Ties(T)
    PROVE  /\ LeftFrom(ReS(F), ReS(T)) = ReS(LeftFrom(F, T))
           /\ LeftTo(ReS(F), ReS(T)) = ReS(LeftTo(F, T))
  <1> DEFINE P == RestOf(F, F, T)
             Q == RestOf(T, F, T)
             X == RestOf(ReS(F), ReS(F), ReS(T))
             Y == RestOf(ReS(T), ReS(F), ReS(T))
  <1>1. LeftFrom(F, T) = {r \in P : Differ!Alike(Q, r) = {}} /\ LeftTo(F, T) = {r \in Q : Differ!Alike(P, r) = {}}
    BY LeftNoTies
  <1>2. /\ LeftFrom(ReS(F), ReS(T)) = {r \in X : Differ!Alike(Y, r) = {}}
        /\ LeftTo(ReS(F), ReS(T)) = {r \in Y : Differ!Alike(X, r) = {}}
    <2>1. /\ AreRows(ReS(F)) /\ AreRows(ReS(T)) /\ ~Differ!Ties(ReS(F)) /\ ~Differ!Ties(ReS(T))
      BY ReRows, ReTies
    <2> QED
      BY <2>1, LeftNoTies
  <1>3. X = ReS(P) /\ Y = ReS(Q)
    BY ReParts
  <1>4. AreRows(P) /\ AreRows(Q)
    BY FewerRows, LeftIsRest
  <1> HIDE DEF P, Q, X, Y
  <1>5. ASSUME NEW A, NEW B, AreRows(A), AreRows(B)
        PROVE  {r \in ReS(A) : Differ!Alike(ReS(B), r) = {}} = ReS({r \in A : Differ!Alike(B, r) = {}})
    <2>1. ASSUME NEW r \in A PROVE Differ!Alike(ReS(B), Re(r)) = {} <=> Differ!Alike(B, r) = {}
      <3>1. Re(r).tuple = r.tuple /\ Re(r).state = r.state
        BY <1>5, ReRow
      <3>2. Differ!Alike(ReS(B), Re(r)) = ReS(Differ!Alike(B, r))
        BY <1>5, <3>1, ReChosen
      <3> QED
        BY <3>2 DEF ReS
    <2> QED
      BY <2>1 DEF ReS
  <1>6. {r \in ReS(P) : Differ!Alike(ReS(Q), r) = {}} = ReS({r \in P : Differ!Alike(Q, r) = {}})
    BY <1>4, <1>5
  <1>7. {r \in ReS(Q) : Differ!Alike(ReS(P), r) = {}} = ReS({r \in Q : Differ!Alike(P, r) = {}})
    BY <1>4, <1>5
  <1>8. LeftFrom(ReS(F), ReS(T)) = ReS(LeftFrom(F, T))
    <2>1. LeftFrom(ReS(F), ReS(T)) = {r \in ReS(P) : Differ!Alike(ReS(Q), r) = {}}
      BY <1>2, <1>3
    <2>2. ReS(LeftFrom(F, T)) = ReS({r \in P : Differ!Alike(Q, r) = {}})
      BY <1>1
    <2> QED
      BY <1>6, <2>1, <2>2
  <1>9. LeftTo(ReS(F), ReS(T)) = ReS(LeftTo(F, T))
    <2>1. LeftTo(ReS(F), ReS(T)) = {r \in ReS(Q) : Differ!Alike(ReS(P), r) = {}}
      BY <1>2, <1>3
    <2>2. ReS(LeftTo(F, T)) = ReS({r \in Q : Differ!Alike(P, r) = {}})
      BY <1>1
    <2> QED
      BY <1>7, <2>1, <2>2
  <1> QED
    BY <1>8, <1>9

\* Whether two ids may be one does not depend on the order.
AnyOrder(c, bf, bt, d, F, T) ==
    \A x \in F, y \in T : May(c, bf, bt, x, y) <=> May(d, bf, bt, Re(x), Re(y))

\* An item in the other order.
LEMMA ReItemOf ==
    ASSUME NEW b, NEW f, NEW t, NEW s, NEW u
    PROVE  ReItem(Differ!Item(b, f, t, s, u)) = Differ!Item(b, ReS(f), ReS(t), s, u)
  <1> DEFINE i == Differ!Item(b, f, t, s, u)
  <1>1. i.bucket = b /\ i.from = f /\ i.to = t /\ i.basis = s /\ i.subtype = u
    BY ItemFields
  <1> HIDE DEF i
  <1>2. ReItem(i) = Differ!Item(b, ReS(f), ReS(t), s, u)
    BY <1>1 DEF ReItem
  <1> QED
    BY <1>2 DEF i

\* What is left of a tuple, in the other order.
LEMMA ReResidual ==
    ASSUME NEW c, NEW bf, NEW bt, NEW d, NEW A, NEW B, AreRows(A), AreRows(B),
           AnyOrder(c, bf, bt, d, A, B), NEW R, NEW S,
           ResidualShape(c, bf, bt, A, B, R), ResidualShape(d, bf, bt, ReS(A), ReS(B), S), NEW i \in R
    PROVE  ReItem(i) \in S
  <1>0. /\ \A r : ReItem(Removal(r)) = Removal(Re(r)) /\ ReItem(Addition(r)) = Addition(Re(r))
        /\ ReItem(Unclear(A, B)) = Unclear(ReS(A), ReS(B))
        /\ \A x \in A, y \in B : ReItem(Pairing(x, y)) = Pairing(Re(x), Re(y))
    <2>0. (\A r : ReS({r}) = {Re(r)}) /\ ReS({}) = {}
      BY DEF ReS
    <2>1. ASSUME NEW r PROVE ReItem(Removal(r)) = Removal(Re(r)) /\ ReItem(Addition(r)) = Addition(Re(r))
      <3>1. ReItem(Removal(r)) = Differ!Item("removed", ReS({r}), ReS({}), "tuple", "none")
        BY ReItemOf DEF Removal
      <3>2. ReItem(Addition(r)) = Differ!Item("added", ReS({}), ReS({r}), "tuple", "none")
        BY ReItemOf DEF Addition
      <3> QED
        BY <2>0, <3>1, <3>2 DEF Removal, Addition
    <2>2. ReItem(Unclear(A, B)) = Unclear(ReS(A), ReS(B))
      BY ReItemOf DEF Unclear
    <2>3. ASSUME NEW x \in A, NEW y \in B PROVE Named(x, y) <=> Named(Re(x), Re(y))
      <3>1. Re(x).claim = x.claim /\ Re(y).claim = y.claim
        BY ReRow
      <3> QED
        BY <3>1 DEF Named
    <2>4. ASSUME NEW x \in A, NEW y \in B PROVE ReItem(Pairing(x, y)) = Pairing(Re(x), Re(y))
      <3>1. CASE Named(x, y)
        <4>1. Pairing(Re(x), Re(y)) = Differ!Item("changed", {Re(x)}, {Re(y)}, "tuple", "reidentified")
          BY <2>3, <3>1 DEF Pairing
        <4>2. Pairing(x, y) = Differ!Item("changed", {x}, {y}, "tuple", "reidentified")
          BY <3>1 DEF Pairing
        <4>3. ReItem(Pairing(x, y)) = Differ!Item("changed", ReS({x}), ReS({y}), "tuple", "reidentified")
          BY <4>2, ReItemOf
        <4> QED
          BY <2>0, <4>1, <4>3
      <3>2. CASE ~Named(x, y)
        <4>1. Pairing(Re(x), Re(y)) = Differ!Item("changed", {Re(x)}, {Re(y)}, "tuple", "none")
          BY <2>3, <3>2 DEF Pairing
        <4>2. Pairing(x, y) = Differ!Item("changed", {x}, {y}, "tuple", "none")
          BY <3>2 DEF Pairing
        <4>3. ReItem(Pairing(x, y)) = Differ!Item("changed", ReS({x}), ReS({y}), "tuple", "none")
          BY <4>2, ReItemOf
        <4> QED
          BY <2>0, <4>1, <4>3
      <3> QED
        BY <3>1, <3>2
    <2> QED
      BY <2>1, <2>2, <2>4
  <1>1. CASE B = {}
    <2>1. PICK r \in A : i = Removal(r)
      BY <1>1 DEF ResidualShape
    <2>2. S = {Removal(x) : x \in ReS(A)}
      BY <1>1 DEF ResidualShape, ReS
    <2> QED
      BY <1>0, <2>1, <2>2 DEF ReS
  <1>2. CASE B # {} /\ A = {}
    <2>1. PICK r \in B : i = Addition(r)
      BY <1>2 DEF ResidualShape
    <2>2. ReS(B) # {} /\ ReS(A) = {}
      BY <1>2 DEF ReS
    <2>3. S = {Addition(x) : x \in ReS(B)}
      BY <2>2 DEF ResidualShape
    <2> QED
      BY <1>0, <2>1, <2>3 DEF ReS
  <1>3. CASE B # {} /\ A # {}
    <2>0. ReS(B) # {} /\ ReS(A) # {}
      BY <1>3 DEF ReS
    <2>1. CASE \E x, y : A = {x} /\ B = {y} /\ May(c, bf, bt, x, y)
      <3>1. PICK x, y : A = {x} /\ B = {y} /\ May(c, bf, bt, x, y) /\ R = {Pairing(x, y)}
        BY <1>3, <2>1 DEF ResidualShape
      <3>2. May(d, bf, bt, Re(x), Re(y)) /\ ReS(A) = {Re(x)} /\ ReS(B) = {Re(y)}
        BY <3>1 DEF AnyOrder, ReS
      <3>3. PICK u, v : ReS(A) = {u} /\ ReS(B) = {v} /\ S = {Pairing(u, v)}
        BY <2>0, <3>2 DEF ResidualShape
      <3>4. u = Re(x) /\ v = Re(y) /\ x \in A /\ y \in B
        BY <3>1, <3>2, <3>3
      <3> QED
        BY <1>0, <3>1, <3>3, <3>4
    <2>2. CASE ~\E x, y : A = {x} /\ B = {y} /\ May(c, bf, bt, x, y)
      <3>1. R = {Unclear(A, B)}
        BY <1>3, <2>2 DEF ResidualShape
      <3>2. ASSUME NEW u, NEW v, ReS(A) = {u}, ReS(B) = {v}, May(d, bf, bt, u, v) PROVE FALSE
        <4>1. A = ReS({u}) /\ B = ReS({v})
          BY <3>2, ReRows
        <4>2. A = {Re(u)} /\ B = {Re(v)}
          BY <4>1 DEF ReS
        <4>3. Re(Re(u)) = u /\ Re(Re(v)) = v
          <5>1. AreRows(ReS(A)) /\ AreRows(ReS(B))
            BY ReRows
          <5>2. u \in ReS(A) /\ v \in ReS(B)
            BY <3>2
          <5> QED
            BY <5>1, <5>2, ReRow
        <4>4. May(c, bf, bt, Re(u), Re(v))
          BY <3>2, <4>2, <4>3 DEF AnyOrder
        <4> QED
          BY <2>2, <4>2, <4>4
      <3>3. S = {Unclear(ReS(A), ReS(B))}
        BY <2>0, <3>2 DEF ResidualShape
      <3> QED
        BY <1>0, <3>1, <3>3
    <2> QED
      BY <2>1, <2>2
  <1> QED
    BY <1>1, <1>2, <1>3

\* The items in the other order are these.
LEMMA ReOne ==
    ASSUME NEW c, NEW bf, NEW bt, NEW d, NEW F, NEW T, NEW W, AnyOrder(c, bf, bt, d, F, T),
           Compared(F, T, W), Compared(ReS(F), ReS(T), W), ~Differ!Ties(F), ~Differ!Ties(T),
           NEW i \in ItemsOf(c, bf, bt, F, T, W)
    PROVE  ReItem(i) \in ItemsOf(d, bf, bt, ReS(F), ReS(T), W)
  <1>0. AreRows(F) /\ AreRows(T)
    BY DEF Compared
  <1>1. CASE i \in Conflicts(F, T)
    <2>1. PICK x \in Known(F, T) \ MetClaims(F, T) : i = Conflict(F, T, x)
      BY <1>1 DEF Conflicts
    <2>2. /\ x \in Known(ReS(F), ReS(T)) \ MetClaims(ReS(F), ReS(T))
          /\ Twice(ReS(F), ReS(T)) = Twice(F, T)
      BY <1>0, ReParts, ReMetClaims
    <2> DEFINE kind == IF x \in Twice(F, T) THEN "duplicate_within_side" ELSE "cross_bucket"
               A == Differ!IndexByClaimId(F, x)
               B == Differ!IndexByClaimId(T, x)
    <2>3. i = Differ!Item("identity_conflict", A, B, "claim_id", kind)
      BY <2>1 DEF Conflict, Differ!IdentityConflict
    <2>4. ReItem(i) = Differ!Item("identity_conflict", ReS(A), ReS(B), "claim_id", kind)
      <3> HIDE DEF A, B, kind
      <3> QED
        BY <2>3, ReItemOf
    <2>5. Differ!IndexByClaimId(ReS(F), x) = ReS(A) /\ Differ!IndexByClaimId(ReS(T), x) = ReS(B)
      BY <1>0, ReChosen
    <2>6. ReItem(i) = Conflict(ReS(F), ReS(T), x)
      BY <2>2, <2>4, <2>5 DEF Conflict, Differ!IdentityConflict
    <2> QED
      BY <2>2, <2>6 DEF Conflicts, ItemsOf
  <1>2. CASE i \in Changes(F, T)
    <2>1. PICK p \in Differing(F, T) : i = ChangeOf(p)
      BY <1>2 DEF Changes
    <2> DEFINE q == <<Re(p[1]), Re(p[2])>>
    <2>2. p \in Met(F, T) /\ p[1].state # p[2].state
      BY DEF Differing
    <2>3. p[1] \in F /\ p[2] \in T
      BY <1>0, <2>2, MetOnce
    <2>4. q \in Met(ReS(F), ReS(T))
      BY <1>0, <2>2, ReParts
    <2>5. Re(p[1]).state = p[1].state /\ Re(p[2]).state = p[2].state
      BY <1>0, <2>3, ReRow
    <2>6. q \in Differing(ReS(F), ReS(T))
      BY <2>2, <2>4, <2>5 DEF Differing
    <2>7. ReItem(i) = ChangeOf(q)
      <3>1. ReItem(i) = Differ!Item("changed", ReS({p[1]}), ReS({p[2]}), "claim_id", "none")
        BY <2>1, ReItemOf DEF ChangeOf
      <3>2. ReS({p[1]}) = {q[1]} /\ ReS({p[2]}) = {q[2]}
        BY DEF ReS
      <3> QED
        BY <3>1, <3>2 DEF ChangeOf
    <2> HIDE DEF q
    <2> QED
      BY <2>6, <2>7 DEF Changes, ItemsOf
  <1>3. CASE \E t \in W : i \in Resolved(c, bf, bt, F, T, t)
    <2>1. PICK t \in W : i \in Resolved(c, bf, bt, F, T, t)
      BY <1>3
    <2> DEFINE A == OfTuple(LeftFrom(F, T), t)
               B == OfTuple(LeftTo(F, T), t)
    <2>2. ResidualShape(c, bf, bt, A, B, Resolved(c, bf, bt, F, T, t))
      BY TupleShape
    <2>3. AreRows(LeftFrom(F, T)) /\ AreRows(LeftTo(F, T)) /\ A \in SUBSET F /\ B \in SUBSET T
      <3>1. LeftFrom(F, T) \in SUBSET F /\ LeftTo(F, T) \in SUBSET T
        BY LeftIsRest
      <3> QED
        BY <1>0, <3>1, FewerRows DEF OfTuple
    <2>4. AreRows(A) /\ AreRows(B) /\ AnyOrder(c, bf, bt, d, A, B)
      <3>1. AreRows(A) /\ AreRows(B)
        BY <1>0, <2>3, FewerRows
      <3>2. AnyOrder(c, bf, bt, d, A, B)
        <4> HIDE DEF A, B
        <4> QED
          BY <2>3 DEF AnyOrder
      <3> QED
        BY <3>1, <3>2
    <2>5. /\ OfTuple(LeftFrom(ReS(F), ReS(T)), t) = ReS(A)
          /\ OfTuple(LeftTo(ReS(F), ReS(T)), t) = ReS(B)
      <3>1. LeftFrom(ReS(F), ReS(T)) = ReS(LeftFrom(F, T)) /\ LeftTo(ReS(F), ReS(T)) = ReS(LeftTo(F, T))
        BY <1>0, ReLeft
      <3>2. OfTuple(ReS(LeftFrom(F, T)), t) = ReS(A) /\ OfTuple(ReS(LeftTo(F, T)), t) = ReS(B)
        BY <2>3, ReChosen
      <3> QED
        BY <3>1, <3>2
    <2>6. ResidualShape(d, bf, bt, ReS(A), ReS(B), Resolved(d, bf, bt, ReS(F), ReS(T), t))
      <3>1. ResidualShape(d, bf, bt, OfTuple(LeftFrom(ReS(F), ReS(T)), t), OfTuple(LeftTo(ReS(F), ReS(T)), t),
                          Resolved(d, bf, bt, ReS(F), ReS(T), t))
        BY TupleShape
      <3> QED
        BY <2>5, <3>1
    <2> HIDE DEF A, B
    <2>7. ReItem(i) \in Resolved(d, bf, bt, ReS(F), ReS(T), t)
      BY <2>1, <2>2, <2>4, <2>6, ReResidual
    <2> QED
      BY <2>7 DEF ItemsOf
  <1> QED
    BY <1>1, <1>2, <1>3 DEF ItemsOf

\* Without ties the report does not depend on load order.
LEMMA ReAll ==
    ASSUME NEW c, NEW bf, NEW bt, NEW d, NEW F, NEW T, NEW W, AnyOrder(c, bf, bt, d, F, T),
           Compared(F, T, W), ~Differ!Ties(F), ~Differ!Ties(T), NEW I, NEW J,
           I = ItemsOf(c, bf, bt, F, T, W), J = ItemsOf(d, bf, bt, ReS(F), ReS(T), W)
    PROVE  /\ Differ!Faces(J) = Differ!Faces(I)
           /\ Cardinality(NotesOnly(J)) = Cardinality(NotesOnly(I))
  <1>0. AreRows(F) /\ AreRows(T)
    BY DEF Compared
  <1>1. AreRows(ReS(F)) /\ AreRows(ReS(T)) /\ ReS(ReS(F)) = F /\ ReS(ReS(T)) = T
    BY <1>0, ReRows
  <1>2. Compared(ReS(F), ReS(T), W)
    <2>1. \A r \in F \cup T : Re(r).tuple = r.tuple
      BY <1>0, ReRow
    <2> QED
      BY <1>1, <2>1 DEF Compared, ReS
  <1>3. \A i \in I : ReItem(i) \in J
    BY <1>2, ReOne
  <1>4. \A j \in J : ReItem(j) \in I
    <2>1. AnyOrder(d, bf, bt, c, ReS(F), ReS(T))
      <3>1. \A x \in F \cup T : Re(Re(x)) = x
        BY <1>0, ReRow
      <3>2. ASSUME NEW x \in F, NEW y \in T
            PROVE  May(d, bf, bt, Re(x), Re(y)) <=> May(c, bf, bt, Re(Re(x)), Re(Re(y)))
        BY <3>1 DEF AnyOrder
      <3> QED
        BY <3>2 DEF AnyOrder, ReS
    <2>2. ~Differ!Ties(ReS(F)) /\ ~Differ!Ties(ReS(T))
      BY <1>0, ReTies
    <2> QED
      BY <1>1, <1>2, <2>1, <2>2, ReOne
  <1>5. \A i \in I : /\ i = Differ!Item(i.bucket, i.from, i.to, i.basis, i.subtype)
                     /\ i.from \in SUBSET F /\ i.to \in SUBSET T
    <2>1. Differ!AllFrom(I) \in SUBSET F
      BY FromSplit
    <2>2. Differ!AllTo(I) \in SUBSET T
      BY ToSplit
    <2> QED
      BY <2>1, <2>2, ItemShape DEF Differ!AllFrom, Differ!AllTo
  <1>6. \A j \in J : /\ j = Differ!Item(j.bucket, j.from, j.to, j.basis, j.subtype)
                     /\ j.from \in SUBSET ReS(F) /\ j.to \in SUBSET ReS(T)
    <2>1. Differ!AllFrom(J) \in SUBSET ReS(F)
      BY <1>2, FromSplit
    <2>2. Differ!AllTo(J) \in SUBSET ReS(T)
      BY <1>2, ToSplit
    <2> QED
      BY <1>2, <2>1, <2>2, ItemShape DEF Differ!AllFrom, Differ!AllTo
  <1>7. ASSUME NEW A, NEW B, AreRows(A), AreRows(B), NEW i,
               i = Differ!Item(i.bucket, i.from, i.to, i.basis, i.subtype),
               i.from \in SUBSET A, i.to \in SUBSET B
        PROVE  /\ ReItem(ReItem(i)) = i
               /\ ReItem(i).bucket = i.bucket /\ ReItem(i).from = ReS(i.from) /\ ReItem(i).to = ReS(i.to)
               /\ ReItem(i).basis = i.basis /\ ReItem(i).subtype = i.subtype
               /\ Differ!Face(ReS(i.from)) = Differ!Face(i.from) /\ Differ!Face(ReS(i.to)) = Differ!Face(i.to)
               /\ (\A x \in i.from, y \in i.to : Differ!AnnotationOnly(x, y))
                     => (\A x \in ReS(i.from), y \in ReS(i.to) : Differ!AnnotationOnly(x, y))
    <2>1. /\ ReItem(i).bucket = i.bucket /\ ReItem(i).from = ReS(i.from) /\ ReItem(i).to = ReS(i.to)
          /\ ReItem(i).basis = i.basis /\ ReItem(i).subtype = i.subtype
      BY ItemFields DEF ReItem
    <2>2. ReS(ReS(i.from)) = i.from /\ ReS(ReS(i.to)) = i.to
      BY <1>7, ReRows
    <2>3. ReItem(ReItem(i)) = i
      <3>1. ReItem(ReItem(i)) = Differ!Item(i.bucket, ReS(ReS(i.from)), ReS(ReS(i.to)), i.basis, i.subtype)
        BY ReItemOf DEF ReItem
      <3> QED
        BY <1>7, <2>2, <3>1
    <2>4. AreRows(i.from) /\ AreRows(i.to)
      BY <1>7, FewerRows
    <2>5. Differ!Face(ReS(i.from)) = Differ!Face(i.from) /\ Differ!Face(ReS(i.to)) = Differ!Face(i.to)
      BY <2>4, ReChosen
    <2>6. \A x \in i.from \cup i.to : Re(x).state = x.state
      BY <2>4, ReRow
    <2>7. (\A x \in i.from, y \in i.to : Differ!AnnotationOnly(x, y))
             => (\A x \in ReS(i.from), y \in ReS(i.to) : Differ!AnnotationOnly(x, y))
      BY <2>6 DEF Differ!AnnotationOnly, ReS
    <2> QED
      BY <2>1, <2>3, <2>5, <2>7
  <1>8. \A i \in I : /\ ReItem(ReItem(i)) = i
               /\ ReItem(i).bucket = i.bucket /\ ReItem(i).from = ReS(i.from) /\ ReItem(i).to = ReS(i.to)
               /\ ReItem(i).basis = i.basis /\ ReItem(i).subtype = i.subtype
               /\ Differ!Face(ReS(i.from)) = Differ!Face(i.from) /\ Differ!Face(ReS(i.to)) = Differ!Face(i.to)
    BY <1>0, <1>5, <1>7
  <1>9. \A j \in J : ReItem(ReItem(j)) = j
    BY <1>1, <1>6, <1>7
  <1>10. J = {ReItem(i) : i \in I}
    BY <1>3, <1>4, <1>9
  <1>11. Differ!Faces(J) = Differ!Faces(I)
    <2> DEFINE g(i) == Differ!Item(i.bucket, Differ!Face(i.from), Differ!Face(i.to), i.basis, i.subtype)
    <2>1. \A i \in I : g(ReItem(i)) = g(i)
      BY <1>8
    <2>2. Differ!Faces(J) = {g(j) : j \in J} /\ Differ!Faces(I) = {g(i) : i \in I}
      BY DEF Differ!Faces
    <2> HIDE DEF g
    <2> QED
      BY <1>10, <2>1, <2>2
  <1>12. \A i \in NotesOnly(I) : ReItem(i) \in NotesOnly(J)
    BY <1>0, <1>3, <1>5, <1>7 DEF NotesOnly
  <1>13. \A j \in NotesOnly(J) : ReItem(j) \in NotesOnly(I)
    BY <1>1, <1>4, <1>6, <1>7 DEF NotesOnly
  <1>14. Cardinality(NotesOnly(J)) = Cardinality(NotesOnly(I))
    <2> DEFINE N == NotesOnly(I)
               M == NotesOnly(J)
               f == [i \in N |-> ReItem(i)]
    <2>1. N \in SUBSET I /\ M \in SUBSET J
      BY DEF NotesOnly
    <2>2. IsFiniteSet(N)
      BY <2>1, FiniteItems, FS_Subset
    <2>3. f \in [N -> M]
      BY <1>12
    <2>4. \A x, y \in N : f[x] = f[y] => x = y
      <3>1. \A x \in N : ReItem(ReItem(x)) = x
        BY <1>8, <2>1
      <3> QED
        BY <3>1
    <2>5. \A m \in M : \E x \in N : f[x] = m
      BY <1>9, <1>13, <2>1
    <2> HIDE DEF N, M, f
    <2>6. Cardinality(M) = Cardinality(N)
      BY <2>2, <2>3, <2>4, <2>5, OneToOne
    <2> QED
      BY <2>6 DEF M, N
  <1> QED
    BY <1>11, <1>14

\* What a comparison compares.
LEMMA ComparedRows ==
    ASSUME NEW c, Differ!IsComparison(c)
    PROVE  Compared(RowsFrom(c), RowsTo(c), c.wanted) /\ AreRows(c.from.rows) /\ AreRows(c.to.rows)
  <1>0. \A S : Differ!IsFiniteSet(S) <=> IsFiniteSet(S)
    BY DEF IsFiniteSet, Differ!IsFiniteSet
  <1>1. AreRows(c.from.rows) /\ AreRows(c.to.rows) /\ IsFiniteSet(c.wanted)
    BY <1>0 DEF Differ!IsComparison, Differ!IsSide, Differ!IsRow, AreRows
  <1>2. RowsFrom(c) \in SUBSET c.from.rows /\ RowsTo(c) \in SUBSET c.to.rows
    BY DEF RowsFrom, RowsTo, Differ!EdgeRows
  <1>3. \A r \in RowsFrom(c) \cup RowsTo(c) : r.tuple \in c.wanted
    BY DEF RowsFrom, RowsTo, Differ!EdgeRows
  <1> QED
    BY <1>1, <1>2, <1>3, FewerRows DEF Compared

\* A comparison of the reloaded sides.
LEMMA ReloadedParts ==
    ASSUME NEW c, Differ!IsComparison(c), NEW d,
           d = [c EXCEPT !.from = Differ!Reloaded(@), !.to = Differ!Reloaded(@)]
    PROVE  /\ RowsFrom(d) = ReS(RowsFrom(c)) /\ RowsTo(d) = ReS(RowsTo(c)) /\ d.wanted = c.wanted
           /\ BasisOf(d) = BasisOf(c) /\ BasisTo(d) = BasisTo(c)
           /\ AnyOrder(c, BasisOf(c), BasisTo(c), d, RowsFrom(c), RowsTo(c))
  <1>1. /\ c = [from |-> c.from, to |-> c.to, wanted |-> c.wanted, wantedKeys |-> c.wantedKeys]
        /\ c.from = [rows |-> c.from.rows, entities |-> c.from.entities, basis |-> c.from.basis, map |-> c.from.map]
        /\ c.to = [rows |-> c.to.rows, entities |-> c.to.entities, basis |-> c.to.basis, map |-> c.to.map]
    BY DEF Differ!IsComparison, Differ!IsSide
  <1>2. d.from = Differ!Reloaded(c.from) /\ d.to = Differ!Reloaded(c.to) /\ d.wanted = c.wanted
    BY <1>1
  <1>3. ASSUME NEW s, s = [rows |-> s.rows, entities |-> s.entities, basis |-> s.basis, map |-> s.map]
        PROVE  /\ Differ!Reloaded(s).rows = ReS(s.rows) /\ Differ!Reloaded(s).basis = s.basis
               /\ Differ!Reloaded(s).map = s.map
    BY <1>3 DEF Differ!Reloaded, ReS, Re
  <1>4. /\ d.from.rows = ReS(c.from.rows) /\ d.from.basis = c.from.basis /\ d.from.map = c.from.map
        /\ d.to.rows = ReS(c.to.rows) /\ d.to.basis = c.to.basis /\ d.to.map = c.to.map
    BY <1>1, <1>2, <1>3
  <1>5. AreRows(c.from.rows) /\ AreRows(c.to.rows)
    BY ComparedRows
  <1>6. \A r \in c.from.rows \cup c.to.rows : Re(r).tuple = r.tuple /\ Re(r).claim = r.claim
    BY <1>5, ReRow
  <1>7. RowsFrom(d) = ReS(RowsFrom(c)) /\ RowsTo(d) = ReS(RowsTo(c))
    BY <1>2, <1>4, <1>6 DEF RowsFrom, RowsTo, Differ!EdgeRows, ReS
  <1>8. BasisOf(d) = BasisOf(c) /\ BasisTo(d) = BasisTo(c)
    BY <1>4 DEF BasisOf, BasisTo
  <1>9. AnyOrder(c, BasisOf(c), BasisTo(c), d, RowsFrom(c), RowsTo(c))
    <2>1. ASSUME NEW x \in RowsFrom(c), NEW y \in RowsTo(c), NEW bf, NEW bt
          PROVE  May(c, bf, bt, x, y) <=> May(d, bf, bt, Re(x), Re(y))
      <3>1. /\ Re(x).tuple = x.tuple /\ Re(x).claim = x.claim /\ Re(y).tuple = y.tuple /\ Re(y).claim = y.claim
        BY <1>6 DEF RowsFrom, RowsTo, Differ!EdgeRows
      <3> QED
        BY <1>4, <3>1 DEF May, Named, Differ!ReidentificationPermitted
    <2> QED
      BY <2>1 DEF AnyOrder
  <1> QED
    BY <1>2, <1>7, <1>8, <1>9

\* A comparison the other way round.
LEMMA ReversedParts ==
    ASSUME NEW c, Differ!IsComparison(c), NEW d,
           d = [c EXCEPT !.from = c.to, !.to = c.from]
    PROVE  /\ RowsFrom(d) = RowsTo(c) /\ RowsTo(d) = RowsFrom(c) /\ d.wanted = c.wanted
           /\ BasisOf(d) = BasisTo(c) /\ BasisTo(d) = BasisOf(c)
           /\ BothWays(c, BasisOf(c), BasisTo(c), d)
  <1>1. c = [from |-> c.from, to |-> c.to, wanted |-> c.wanted, wantedKeys |-> c.wantedKeys]
    BY DEF Differ!IsComparison
  <1>2. d.from = c.to /\ d.to = c.from /\ d.wanted = c.wanted
    BY <1>1
  <1>3. RowsFrom(d) = RowsTo(c) /\ RowsTo(d) = RowsFrom(c)
    BY <1>2 DEF RowsFrom, RowsTo
  <1>4. BasisOf(d) = BasisTo(c) /\ BasisTo(d) = BasisOf(c)
    BY <1>2 DEF BasisOf, BasisTo
  <1>5. ASSUME NEW x, NEW y, NEW bf, NEW bt
        PROVE  May(c, bf, bt, x, y) <=> May(d, bt, bf, y, x)
    BY <1>2 DEF May, Named, Differ!ReidentificationPermitted
  <1>6. BothWays(c, BasisOf(c), BasisTo(c), d)
    BY <1>5 DEF BothWays
  <1> QED
    BY <1>2, <1>3, <1>4, <1>6

\* The state of the comparison: none yet, or the report of what was compared.
DiffInv ==
    \/ comparison = Differ!Idle
    \/ /\ Differ!IsComparison(comparison)
       /\ edges = Differ!DiffEdges(comparison) /\ entities = Differ!DiffEntities(comparison)

\* Entities leave a comparison only as stubs of a known boundary.
LEMMA StubsOnly ==
    ASSUME NEW c, NEW i \in Differ!DiffEntities(c)
    PROVE  LET StubOn(side) == /\ i.key \in DOMAIN side.entities
                               /\ side.entities[i.key] = Differ!Empty
                               /\ Differ!Incident(side, i.key) # {}
           IN  /\ i.bucket \in {"excluded", "asymmetry"} =>
                      c.from.basis.known /\ c.to.basis.known /\ (StubOn(c.from) \/ StubOn(c.to))
               /\ i.bucket = "unchanged" =>
                      /\ i.key \in DOMAIN c.from.entities \cap DOMAIN c.to.entities
                      /\ c.from.entities[i.key] = c.to.entities[i.key]
  <1> DEFINE A == Differ!BoundaryStubs(c.from, BasisOf(c))
             B == Differ!BoundaryStubs(c.to, BasisTo(c))
  <1>1. PICK k \in DOMAIN c.from.entities \cup DOMAIN c.to.entities : i = Differ!EntityItem(c, k, A, B)
    BY DEF Differ!DiffEntities, BasisOf, BasisTo
  <1>2. BasisOf(c).known \/ BasisTo(c).known => c.from.basis.known /\ c.to.basis.known
    BY DEF BasisOf, BasisTo, Differ!ReconciledBasis, Differ!Unknown
  <1>3. k \in A => /\ BasisOf(c).known /\ k \in DOMAIN c.from.entities /\ c.from.entities[k] = Differ!Empty
                   /\ Differ!Incident(c.from, k) # {}
    BY DEF Differ!BoundaryStubs
  <1>4. k \in B => /\ BasisTo(c).known /\ k \in DOMAIN c.to.entities /\ c.to.entities[k] = Differ!Empty
                   /\ Differ!Incident(c.to, k) # {}
    BY DEF Differ!BoundaryStubs
  <1> HIDE DEF A, B
  <1>5. i.key = k
    BY <1>1 DEF Differ!EntityItem
  <1>6. i.bucket \in {"excluded", "asymmetry"} => k \in A \/ k \in B
    BY <1>1 DEF Differ!EntityItem
  <1>7. i.bucket = "unchanged" =>
           /\ k \in DOMAIN c.from.entities \cap DOMAIN c.to.entities /\ c.from.entities[k] = c.to.entities[k]
    BY <1>1 DEF Differ!EntityItem
  <1> QED
    BY <1>2, <1>3, <1>4, <1>5, <1>6, <1>7

\* Such a report is exact.
LEMMA DiffInvExact == DiffInv => Differ!DiffExact
  <1> SUFFICES ASSUME Differ!IsComparison(comparison), edges = Differ!DiffEdges(comparison),
                      entities = Differ!DiffEntities(comparison)
               PROVE  Differ!EveryRowOnce /\ Differ!Replays /\ Differ!NothingGuessed
                      /\ Differ!ContentDerived /\ Differ!OnlyStubsExcluded
    BY DEF DiffInv, Differ!DiffExact
  <1> DEFINE c == comparison
             F == RowsFrom(c)
             T == RowsTo(c)
             W == c.wanted
             bf == BasisOf(c)
             bt == BasisTo(c)
             I == ItemsOf(c, bf, bt, F, T, W)
  <1>1. Compared(F, T, W) /\ AreRows(F) /\ AreRows(T)
    BY ComparedRows DEF Compared
  <1>2. edges.items = I /\ edges.unchanged = SameOf(F, T) /\ edges.annotationOnly = Cardinality(NotesOnly(I))
    BY DiffParts DEF ItemsFor, SameFor, SameOf
  <1>3. Differ!FromRows = F /\ Differ!ToRows = T /\ Differ!Items = I
    BY <1>2 DEF Differ!FromRows, Differ!ToRows, Differ!Items, RowsFrom, RowsTo
  <1>4. Differ!EveryRowOnce
    <2> HIDE DEF F, T, W, bf, bt, I
    <2>1. /\ Differ!SumFunction([i \in I |-> Differ!Cardinality(i.from)]) = Cardinality(Differ!AllFrom(I))
          /\ Differ!SumFunction([i \in I |-> Differ!Cardinality(i.to)]) = Cardinality(Differ!AllTo(I))
      BY <1>1, ItemSums DEF I
    <2>2. /\ Cardinality(Differ!AllFrom(I)) + SameOf(F, T) = Cardinality(F)
          /\ Cardinality(Differ!AllTo(I)) + SameOf(F, T) = Cardinality(T)
      BY <1>1, RowsCounted DEF I
    <2> QED
      BY <1>2, <1>3, <2>1, <2>2, DiffCount DEF Differ!EveryRowOnce
  <1>5. Differ!Replays
    <2> HIDE DEF F, T, W, bf, bt, I
    <2>1. ASSUME NEW r \in F \cup T
          PROVE  Cardinality(Differ!Alike(F, r)) + Cardinality(Differ!Alike(Differ!AllTo(I), r))
                 = Cardinality(Differ!Alike(T, r)) + Cardinality(Differ!Alike(Differ!AllFrom(I), r))
      <3>1. \A R : Differ!Alike(R, r) = Class(R, r.tuple, r.state)
        BY DEF Differ!Alike, Class
      <3>2. Cardinality(Class(F, r.tuple, r.state)) + Cardinality(Class(Differ!AllTo(I), r.tuple, r.state))
            = Cardinality(Class(T, r.tuple, r.state)) + Cardinality(Class(Differ!AllFrom(I), r.tuple, r.state))
        BY <1>1, ItemsReplay DEF I
      <3> QED
        BY <3>1, <3>2
    <2> QED
      BY <1>3, <2>1, DiffCount DEF Differ!Replays
  <1>6. Differ!NothingGuessed
    <2>1. ASSUME NEW i \in I
          PROVE  /\ i.bucket = "changed" => Evidence(c, I, i)
                 /\ i.bucket \in {"added", "removed", "ambiguous"} => ClaimsApart(F, T, i)
      <3> HIDE DEF F, T, W
      <3> QED
        BY <1>1, OnEvidence
    <2> HIDE DEF F, T, W, bf, bt, I
    <2> QED
      BY <1>3, <2>1 DEF Differ!NothingGuessed, Evidence, ClaimsApart
  <1>7. Differ!ContentDerived
    <2> SUFFICES ASSUME ~Differ!Ties(F), ~Differ!Ties(T)
                 PROVE  LET again == Differ!DiffEdges([comparison EXCEPT !.from = Differ!Reloaded(@), !.to = Differ!Reloaded(@)])
                            back == Differ!DiffEdges([comparison EXCEPT !.from = comparison.to, !.to = comparison.from])
                        IN  /\ Differ!Faces(again.items) = Differ!Faces(I)
                            /\ Differ!Faces(back.items) = Differ!Faces(Differ!Reversed(I))
                            /\ again.annotationOnly = Cardinality(NotesOnly(I))
                            /\ back.unchanged = SameOf(F, T)
      BY <1>2, <1>3 DEF Differ!ContentDerived
    <2> DEFINE d == [comparison EXCEPT !.from = Differ!Reloaded(@), !.to = Differ!Reloaded(@)]
               e == [comparison EXCEPT !.from = comparison.to, !.to = comparison.from]
    <2>1. /\ RowsFrom(d) = ReS(F) /\ RowsTo(d) = ReS(T) /\ d.wanted = W
          /\ BasisOf(d) = bf /\ BasisTo(d) = bt /\ AnyOrder(c, bf, bt, d, F, T)
      BY ReloadedParts
    <2>2. /\ RowsFrom(e) = T /\ RowsTo(e) = F /\ e.wanted = W
          /\ BasisOf(e) = bt /\ BasisTo(e) = bf /\ BothWays(c, bf, bt, e)
      BY ReversedParts
    <2> HIDE DEF F, T, W, bf, bt, d, e, c
    <2>3. /\ Differ!DiffEdges(d).items = ItemsOf(d, bf, bt, ReS(F), ReS(T), W)
          /\ Differ!DiffEdges(d).annotationOnly = Cardinality(NotesOnly(ItemsOf(d, bf, bt, ReS(F), ReS(T), W)))
      BY <2>1, DiffParts DEF ItemsFor
    <2>4. /\ Differ!DiffEdges(e).items = ItemsOf(e, bt, bf, T, F, W)
          /\ Differ!DiffEdges(e).unchanged = SameOf(T, F)
      BY <2>2, DiffParts DEF ItemsFor, SameFor, SameOf
    <2>5. /\ Differ!Faces(ItemsOf(d, bf, bt, ReS(F), ReS(T), W)) = Differ!Faces(I)
          /\ Cardinality(NotesOnly(ItemsOf(d, bf, bt, ReS(F), ReS(T), W))) = Cardinality(NotesOnly(I))
      BY <1>1, <2>1, ReAll
    <2>6. ItemsOf(e, bt, bf, T, F, W) = Differ!Reversed(I) /\ SameOf(T, F) = SameOf(F, T)
      BY <1>1, <2>2, TurnAll
    <2>7. /\ Differ!Faces(Differ!DiffEdges(d).items) = Differ!Faces(I)
          /\ Differ!Faces(Differ!DiffEdges(e).items) = Differ!Faces(Differ!Reversed(I))
          /\ Differ!DiffEdges(d).annotationOnly = Cardinality(NotesOnly(I))
          /\ Differ!DiffEdges(e).unchanged = SameOf(F, T)
      BY <2>3, <2>4, <2>5, <2>6
    <2> QED
      BY <2>7 DEF d, e
  <1>8. Differ!OnlyStubsExcluded
    BY StubsOnly DEF Differ!OnlyStubsExcluded
  <1> QED
    BY <1>4, <1>5, <1>6, <1>7, <1>8

-----------------------------------------------------------------------------
(* The theorem about the state diff. *)

\* A comparison reports what it compared, and nothing changes after it.
LEMMA DiffStep == ASSUME DiffInv, Differ!Next PROVE DiffInv'
  <1>1. PICK c \in Comparisons :
           comparison' = c /\ edges' = Differ!DiffEdges(c) /\ entities' = Differ!DiffEntities(c)
    BY DEF Differ!Next, Differ!Compare
  <1>2. Differ!IsComparison(c)
    BY ComparisonsAssumption
  <1>3. /\ Differ!IsComparison(comparison')
        /\ edges' = Differ!DiffEdges(comparison') /\ entities' = Differ!DiffEntities(comparison')
    BY <1>1, <1>2
  <1> QED
    BY <1>3 DEF DiffInv

\* Steps of the others leave it alone.
LEMMA DiffStutter == ASSUME DiffInv, UNCHANGED diffVars PROVE DiffInv'
  BY DEF DiffInv, diffVars

\* graph/diff.py: for any two finite images, whatever their ids, tuples, states
\* and load order, under any boundary: every row is unchanged or in exactly one
\* item, the items turn the first image into the second, rows are paired on
\* evidence only, and unless a side holds rows that are alike the report is that
\* of the images and its reverse that of the other direction.
THEOREM DiffsExact == Spec => []DiffExact
  <1>1. Init => DiffInv
    BY DEF Init, Differ!Init, DiffInv
  <1>2. DiffInv /\ [Next]_vars => DiffInv'
    BY DiffStep, DiffStutter DEF Next, vars
  <1>3. DiffInv => DiffExact
    BY DiffInvExact DEF DiffExact
  <1> QED
    BY <1>1, <1>2, <1>3, PTL DEF Spec

=============================================================================
