-------------------------- MODULE DecisionRecords --------------------------
(***************************************************************************)
(* Decision records and their event log.  An operation that runs in the    *)
(* context of a record commits its own work first and then appends an      *)
(* event to the record in a transaction of its own, best effort; the       *)
(* record may be closed by somebody else in between.                       *)
(***************************************************************************)
EXTENDS Integers, Sequences, FiniteSets

CONSTANTS
    Processes, Records, None,
    MaxCalls        \* bound: operations that run in the context of a record

VARIABLES
    records,        \* [record -> "open", "finalized", "abandoned", or None]
    events,         \* [record -> its log, in sequence order]
    call,           \* [process -> the operation it runs, or None]
    calls,          \* number of operations begun, which names the next one
    returned        \* history: operations that came back, and what they said of the log

vars == <<records, events, call, calls, returned>>

Closing == {"finalized", "abandoned"}

\* service_create_decision_record; save_record only inserts.
CreateDecisionRecord(r) ==
    /\ records[r] = None
    /\ records' = [records EXCEPT ![r] = "open"]
    /\ UNCHANGED <<events, call, calls, returned>>

\* _enforce_decision_support_context: only decision support asks first; any
\* other operation takes the record id as it comes.
StartOperation(p, r, support) ==
    /\ call[p] = None /\ calls < MaxCalls
    /\ support => records[r] = "open"
    /\ calls' = calls + 1
    /\ call' = [call EXCEPT ![p] = [id |-> calls + 1, record |-> r, stage |-> "work"]]
    /\ UNCHANGED <<records, events, returned>>

\* The operation commits, or fails: either way it logs next.
CommitWork(p) ==
    /\ call[p] # None /\ call[p].stage = "work"
    /\ call' = [call EXCEPT ![p].stage = "log"]
    /\ UNCHANGED <<records, events, calls, returned>>

\* Mutant: the log is open to whoever knows the record.
AnyRecord(r) == records[r] # None

\* _require_open
RequireOpen(r) == records[r] = "open"

\* append_event, at the next sequence number.
Appended(r, event) == [events EXCEPT ![r] = Append(@, event)]

\* record_decision_event_for_context: a refused or failed append does not fail
\* the operation, whose result reports it.
RecordEvent(p) ==
    /\ call[p] # None /\ call[p].stage = "log"
    /\ \/ /\ RequireOpen(call[p].record)
          /\ events' = Appended(call[p].record, [command |-> "operation", id |-> call[p].id])
          /\ call' = [call EXCEPT ![p].stage = "appended"]
       \/ /\ call' = [call EXCEPT ![p].stage = "failed"]
          /\ UNCHANGED events
    /\ UNCHANGED <<records, calls, returned>>

ReturnOperation(p) ==
    /\ call[p] # None /\ call[p].stage \in {"appended", "failed"}
    /\ returned' = returned \cup
          {[id |-> call[p].id, record |-> call[p].record,
            appended |-> call[p].stage = "appended"]}
    /\ call' = [call EXCEPT ![p] = None]
    /\ UNCHANGED <<records, events, calls>>

\* The process dies: what it committed stays, nothing is returned.
CrashOperation(p) ==
    /\ call[p] # None
    /\ call' = [call EXCEPT ![p] = None]
    /\ UNCHANGED <<records, events, calls, returned>>

\* finalize_record and abandon_record: the closing event, then the status.
CloseRecord(r, status) ==
    /\ RequireOpen(r)
    /\ events' = Appended(r, [command |-> status, id |-> 0])
    /\ records' = [records EXCEPT ![r] = status]
    /\ UNCHANGED <<call, calls, returned>>

Init ==
    /\ records = [r \in Records |-> None]
    /\ events = [r \in Records |-> <<>>]
    /\ call = [p \in Processes |-> None]
    /\ calls = 0
    /\ returned = {}

Next ==
    \/ \E r \in Records :
          \/ CreateDecisionRecord(r)
          \/ \E status \in Closing : CloseRecord(r, status)
          \/ \E p \in Processes, support \in BOOLEAN : StartOperation(p, r, support)
    \/ \E p \in Processes :
          CommitWork(p) \/ RecordEvent(p) \/ ReturnOperation(p) \/ CrashOperation(p)

Spec == Init /\ [][Next]_vars

----------------------------------------------------------------------------
\* decision/store.py: whoever closes a record and whatever operations are
\* still running, the log of a closed record ends with the one event that says
\* how it was closed, and an operation that returned is in the log exactly if
\* it said so.
DecisionLogHonest ==
    /\ \A r \in Records :
          LET closings == {i \in DOMAIN events[r] : events[r][i].command \in Closing}
          IN closings = IF records[r] \in Closing THEN {Len(events[r])} ELSE {}
    /\ \A r \in Records : records[r] \in Closing => events[r][Len(events[r])].command = records[r]
    /\ \A x \in returned :
          Cardinality({i \in DOMAIN events[x.record] : events[x.record][i].id = x.id})
              = IF x.appended THEN 1 ELSE 0

=============================================================================
