----------------------------- MODULE Telemetry -----------------------------
(* Boundary telemetry: observations are merged into an in-memory buffer under *)
(* a lock, and a flush drains the buffer under that lock, writes outside it   *)
(* and merges a refused batch back.  Two threads flush: the periodic flusher  *)
(* and a reader that wants its summary current.                               *)
EXTENDS Integers, FiniteSets, FiniteSetsExt, Functions

CONSTANTS
    Surfaces,      \* surface names
    Flushers,      \* threads that call flush
    MaxBuffered,   \* MAX_BUFFERED_SURFACES
    MaxClock,      \* bound: observations made
    MaxEvents      \* bound: events reported as dropped

VARIABLES
    pending,       \* the buffer: an aggregate for each pending surface
    droppedObs,    \* the buffer's undelivered count of dropped observations
    droppedEvents, \* and of dropped events
    flush,         \* per thread: the batch it has drained, and how far it is
    stored,        \* the rows of boundary_telemetry
    storedDrops,   \* the rows of boundary_telemetry_drops
    clock,         \* observations made, which also stamps them
    kept,          \* history: what the observations that add accepted amount to
    refused,       \* history: observations that add turned away
    events,        \* history: dropped events reported
    shed           \* history: surfaces a returning batch could not put back

bufferVars == <<pending, droppedObs, droppedEvents>>
storeVars == <<stored, storedDrops>>
historyVars == <<clock, kept, refused, events, shed>>
vars == <<bufferVars, flush, storeVars, historyVars>>

-----------------------------------------------------------------------------
\* A batch maps surfaces to what their counters amount to and the first stamp.
Empty == [s \in {} |-> 0]

Earlier(a, b) == IF a < b THEN a ELSE b

\* absorb, and the ON CONFLICT clause of _MERGE_STATEMENT.
Absorb(a, b) == [calls |-> a.calls + b.calls, first |-> Earlier(a.first, b.first)]

\* MUTANT of Fold: a surface that is pending again replaces the one that returns.
FoldNewestWins(batch, into) ==
    [s \in DOMAIN into \cup DOMAIN batch |->
        IF s \in DOMAIN into THEN into[s] ELSE batch[s]]

\* One batch folded into another, surface by surface.
Fold(batch, into) ==
    [s \in DOMAIN into \cup DOMAIN batch |->
        CASE s \notin DOMAIN into -> batch[s]
          [] s \notin DOMAIN batch -> into[s]
          [] OTHER -> Absorb(into[s], batch[s])]

CallsOf(batch, s) == IF s \in DOMAIN batch THEN batch[s].calls ELSE 0
Calls(batch) == SumFunction([s \in Surfaces |-> CallsOf(batch, s)])

Idle == [pc |-> "idle", batch |-> Empty, obs |-> 0, evs |-> 0]

-----------------------------------------------------------------------------
Init ==
    /\ pending = Empty /\ droppedObs = 0 /\ droppedEvents = 0
    /\ flush = [t \in Flushers |-> Idle]
    /\ stored = Empty /\ storedDrops = [obs |-> 0, evs |-> 0]
    /\ clock = 0 /\ kept = Empty /\ refused = 0 /\ events = 0 /\ shed = {}

\* add: merge one observation, or count it as dropped once the buffer is full.
Add(s) ==
    /\ clock < MaxClock
    /\ clock' = clock + 1
    /\ LET one == [x \in {s} |-> [calls |-> 1, first |-> clock + 1]] IN
       IF s \notin DOMAIN pending /\ Cardinality(DOMAIN pending) >= MaxBuffered
       THEN /\ droppedObs' = droppedObs + 1
            /\ refused' = refused + 1
            /\ UNCHANGED <<pending, kept>>
       ELSE /\ pending' = Fold(one, pending)
            /\ kept' = Fold(one, kept)
            /\ UNCHANGED <<droppedObs, refused>>
    /\ UNCHANGED <<droppedEvents, flush, storeVars, events, shed>>

\* add_dropped_events: events the CLI collector could not hold.
AddDroppedEvents ==
    /\ events < MaxEvents
    /\ events' = events + 1
    /\ droppedEvents' = droppedEvents + 1
    /\ UNCHANGED <<pending, droppedObs, flush, storeVars, clock, kept, refused, shed>>

\* flush, under the lock: take the batch and the drop counts; nothing to do if
\* there is none of them.
Drain(t) ==
    /\ flush[t].pc = "idle"
    /\ pending # Empty \/ droppedObs > 0 \/ droppedEvents > 0
    /\ flush' = [flush EXCEPT ![t] =
                    [pc |-> "write", batch |-> pending, obs |-> droppedObs, evs |-> droppedEvents]]
    /\ pending' = Empty /\ droppedObs' = 0 /\ droppedEvents' = 0
    /\ UNCHANGED <<storeVars, historyVars>>

\* merge_best_effort succeeds: counters and drop counts land in one commit.
Merge(t) ==
    /\ flush[t].pc = "write"
    /\ stored' = Fold(flush[t].batch, stored)
    /\ storedDrops' = [obs |-> storedDrops.obs + flush[t].obs,
                       evs |-> storedDrops.evs + flush[t].evs]
    /\ flush' = [flush EXCEPT ![t] = Idle]
    /\ UNCHANGED <<bufferVars, historyVars>>

\* merge_best_effort refuses: the file or its schema is missing, or it is busy.
Refuse(t) ==
    /\ flush[t].pc = "write"
    /\ flush' = [flush EXCEPT ![t].pc = "restore"]
    /\ UNCHANGED <<bufferVars, storeVars, historyVars>>

\* _restore, under the lock.  The batch is walked in its own order, so which of
\* its surfaces find room is not determined by the state: those already pending
\* always do, of the others as many as fit.
Restore(t) ==
    /\ flush[t].pc = "restore"
    /\ LET batch == flush[t].batch
           new == DOMAIN batch \ DOMAIN pending
           free == MaxBuffered - Cardinality(DOMAIN pending)
           room == IF free < Cardinality(new) THEN IF free > 0 THEN free ELSE 0
                                              ELSE Cardinality(new)
       IN \E fits \in kSubset(room, new) :
            LET lost == new \ fits IN
            /\ pending' = Fold(Restrict(batch, DOMAIN batch \ lost), pending)
            /\ droppedObs' = droppedObs + flush[t].obs + Calls(Restrict(batch, lost))
            /\ shed' = shed \cup lost
    /\ droppedEvents' = droppedEvents + flush[t].evs
    /\ flush' = [flush EXCEPT ![t] = Idle]
    /\ UNCHANGED <<storeVars, clock, kept, refused, events>>

\* The process is killed: what was not written is gone, and a reader no longer
\* expects it.
Kill ==
    /\ pending' = Empty /\ droppedObs' = 0 /\ droppedEvents' = 0
    /\ flush' = [t \in Flushers |-> Idle]
    /\ kept' = stored /\ refused' = storedDrops.obs /\ events' = storedDrops.evs
    /\ shed' = {}
    /\ UNCHANGED <<storeVars, clock>>

Next ==
    \/ \E s \in Surfaces : Add(s)
    \/ AddDroppedEvents
    \/ \E t \in Flushers : Drain(t) \/ Merge(t) \/ Refuse(t) \/ Restore(t)
    \/ Kill

Spec == Init /\ [][Next]_vars

-----------------------------------------------------------------------------
\* What is known of a surface, wherever it is: its calls and its first stamps.
CallsEverywhere(s) ==
    CallsOf(pending, s) + CallsOf(stored, s)
    + SumFunction([t \in Flushers |-> CallsOf(flush[t].batch, s)])

StampsEverywhere(s) ==
    {b[s].first : b \in {x \in {pending, stored} \cup {flush[t].batch : t \in Flushers} :
                            s \in DOMAIN x}}

\* All observations, and all events, that are counted somewhere.
ObservationsEverywhere ==
    Calls(pending) + droppedObs + Calls(stored) + storedDrops.obs
    + SumFunction([t \in Flushers |-> Calls(flush[t].batch) + flush[t].obs])

EventsEverywhere ==
    droppedEvents + storedDrops.evs + SumFunction([t \in Flushers |-> flush[t].evs])

\* Nothing is lost and nothing is counted twice, however flushes of two threads,
\* refused writes, re-merges and new observations interleave: the rows, the
\* buffer and the batches in flight together hold exactly the observations add
\* accepted, each surface with its first stamp; what a returning batch could not
\* put back under the cap is in the drop count, with what add refused; reported
\* events are all there (flush, _restore, merge_best_effort).
Accounted ==
    /\ \A s \in Surfaces \ shed :
        /\ s \in DOMAIN kept <=> StampsEverywhere(s) # {}
        /\ s \in DOMAIN kept =>
              kept[s] = [calls |-> CallsEverywhere(s), first |-> Min(StampsEverywhere(s))]
    /\ ObservationsEverywhere = Calls(kept) + refused
    /\ EventsEverywhere = events
=============================================================================
