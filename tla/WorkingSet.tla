----------------------------- MODULE WorkingSet -----------------------------
(***************************************************************************)
(* The agent-local working set: a JSONL cache of what client processes     *)
(* have read, stamped with the revision and the config digest of the read. *)
(* working_set.py, its capture hooks in cli/ and mcp/, and `cruxible ws`.  *)
(*                                                                         *)
(* Clients append to the file and rewrite it without a lock, and state and *)
(* config move on between any two of their steps.  Lines may be lost that  *)
(* way, as the module says; what is left must not pass for fresh unless it *)
(* is.                                                                     *)
(*                                                                         *)
(* A write of the state gives every property of a thing the number of its  *)
(* revision.  The daemon and local commands read a revision before or      *)
(* after the values; a record is sure unless it was after, and a commit    *)
(* came in between.                                                        *)
(***************************************************************************)
EXTENDS Naturals, Sequences, FiniteSets, SequencesExt

CONSTANTS
    Clients,
    Things,         \* entities and edges, by their dedupe identity
    Props,
    Payloads,       \* what a read shows: sequences of <<thing, set of properties>>
    Earlier,        \* what may be in the file, such as the lines of two captures that raced
    Threshold,      \* COMPACT_THRESHOLD_BYTES, in lines
    MaxRevision, MaxReloads, MaxStamps   \* bounds

VARIABLES
    revision,       \* of the state
    values,         \* [thing -> the revision that wrote it, or Gone]
    digest,         \* of the active config
    reloads,
    file,           \* the records of records.jsonl
    time,           \* as_of of the last stamp
    call            \* [client -> the capture or refresh it is in]

vars == <<revision, values, digest, reloads, file, time, call>>
state == <<revision, values, digest, reloads>>

Gone == 0
Unresolved == 0        \* a missing read_revision or config_digest
Idle == [at |-> "idle"]

\* A record of a thing and some of its properties, before it is stamped.
Shown(t, props) ==
    [thing |-> t, props |-> [p \in props |-> values[t]],
     revision |-> Unresolved, digest |-> Unresolved, asOf |-> 0, sure |-> TRUE]

-----------------------------------------------------------------------------
(* Records. *)

RecordWins(new, old) ==
    IF new.revision # old.revision THEN new.revision > old.revision ELSE new.asOf >= old.asOf

Overlay(old, new) ==
    [p \in DOMAIN old \cup DOMAIN new |-> IF p \in DOMAIN new THEN new[p] ELSE old[p]]

\* Mutant: what an earlier read showed is kept whatever it was read at.
KeepAllProperties(old, new) ==
    [new EXCEPT !.props = Overlay(old.props, @), !.sure = @ /\ old.sure]

\* _merge_winning_record: properties are kept only at the same coordinates.
MergeWinningRecord(old, new) ==
    IF /\ new.revision # Unresolved /\ new.revision = old.revision
       /\ new.digest # Unresolved /\ new.digest = old.digest
    THEN [new EXCEPT !.props = Overlay(old.props, @), !.sure = @ /\ old.sure]
    ELSE new

Places(records, t) == {i \in DOMAIN records : records[i].thing = t}
Fold(records, r) ==
    IF Places(records, r.thing) = {} THEN Append(records, r)
    ELSE LET i == CHOOSE i \in Places(records, r.thing) : TRUE
         IN  IF RecordWins(r, records[i])
             THEN [records EXCEPT ![i] = MergeWinningRecord(@, r)] ELSE records

\* The records, one after the other, folded into those of base.
Merged(base, records) ==
    LET after[i \in 0 .. Len(records)] ==
          IF i = 0 THEN base ELSE Fold(after[i - 1], records[i])
    IN  after[Len(records)]
Dedupe(records) == Merged(<<>>, records)

\* The records that are in S, in their order.
Among(records, S) ==
    LET kept[i \in 0 .. Len(records)] ==
          IF i = 0 THEN <<>>
          ELSE IF records[i] \in S THEN Append(kept[i - 1], records[i]) ELSE kept[i - 1]
    IN  kept[Len(records)]

\* _classify, against a revision and a digest that were read for it.
Classify(r, rev, dig) ==
    IF r.revision = Unresolved THEN "unknown"
    ELSE IF r.revision # rev THEN "stale"
    ELSE IF r.digest = Unresolved \/ dig = Unresolved THEN "unknown"
    ELSE IF r.digest = dig THEN "fresh" ELSE "stale"

-----------------------------------------------------------------------------
(* Everybody else: committed writes, and config reloads. *)

Refreshing == {"refresh", "classify", "fetch", "fetched"}
AfterReload(k) == IF k.at \in Refreshing THEN [k EXCEPT !.alone = FALSE] ELSE k
AfterWrite(k) ==
    IF k.at \in {"revision", "fetched"} THEN [AfterReload(k) EXCEPT !.sure = FALSE]
    ELSE AfterReload(k)

WriteState(t, gone) ==
    /\ revision < MaxRevision
    /\ gone => values[t] # Gone
    /\ revision' = revision + 1
    /\ values' = [values EXCEPT ![t] = IF gone THEN Gone ELSE revision + 1]
    /\ call' = [c \in Clients |-> AfterWrite(call[c])]
    /\ UNCHANGED <<digest, reloads, file, time>>

ReloadConfig ==
    /\ reloads < MaxReloads
    /\ reloads' = reloads + 1
    /\ digest' = 3 - digest
    /\ call' = [c \in Clients |-> AfterReload(call[c])]
    /\ UNCHANGED <<revision, values, file, time>>

-----------------------------------------------------------------------------
(* Capture of a read. *)

Goto(c, next) == call' = [call EXCEPT ![c] = next]
At(c, place) == call[c].at = place

\* The values of the read, and the revision if it was read before them.
Read(c, payload, before) ==
    /\ At(c, "idle") /\ time < MaxStamps
    /\ \A i \in DOMAIN payload : values[payload[i][1]] # Gone
    /\ Goto(c, [at |-> IF before = Unresolved THEN "revision" ELSE "digest", sure |-> TRUE,
                read |-> [i \in DOMAIN payload |->
                            [Shown(payload[i][1], payload[i][2]) EXCEPT !.revision = before]]])
    /\ UNCHANGED <<state, file, time>>

\* The revision after them, the envelope's or the local instance's; or none.
ResolveRevision(c, known) ==
    /\ At(c, "revision")
    /\ Goto(c, [call[c] EXCEPT
                  !.at = "digest", !.sure = TRUE,
                  !.read = [i \in DOMAIN @ |->
                              [@[i] EXCEPT !.revision = IF known THEN revision ELSE Unresolved,
                                           !.sure = call[c].sure]]])
    /\ UNCHANGED <<state, file, time>>

\* resolve_active_config_digest may fail; capture_read_payload stamps.
StampCapture(c, resolved) ==
    /\ At(c, "digest") /\ time < MaxStamps
    /\ time' = time + 1
    /\ Goto(c, [at |-> "load", read |->
                  [i \in DOMAIN call[c].read |->
                     [call[c].read[i] EXCEPT !.digest = IF resolved THEN digest ELSE Unresolved,
                                             !.asOf = time + 1]]])
    /\ UNCHANGED <<state, file>>

\* append_records: what is there is read, and the outcome decided.
LoadForAppend(c) ==
    /\ At(c, "load")
    /\ LET existing == Dedupe(file)
           fresh == Dedupe(call[c].read)
           merged == Merged(existing, fresh)
           superseded == SubSeq(merged, 1, Len(existing)) # existing
           appended == SubSeq(merged, Len(existing) + 1, Len(merged))
       IN  IF superseded \/ Len(file) > Threshold \/ (file # <<>> /\ existing # file)
           THEN Goto(c, [at |-> "rewrite", records |-> merged])
           ELSE IF appended # <<>>
           THEN Goto(c, [at |-> "append", replaced |-> FALSE, records |-> appended])
           ELSE Goto(c, Idle)
    /\ UNCHANGED <<state, file, time>>

\* Another file takes the place of the one that some client is about to append to.
Displace(k) == IF k.at = "append" THEN [k EXCEPT !.replaced = TRUE] ELSE k
Replaced(c) == [d \in Clients |-> IF d = c THEN Idle ELSE Displace(call[d])]

\* write_records: a temporary file, renamed.
Rewrite(c) ==
    /\ At(c, "rewrite")
    /\ file' = call[c].records
    /\ call' = Replaced(c)
    /\ UNCHANGED <<state, time>>

\* One O_APPEND write; it is lost if the file was replaced after it was opened.
AppendLines(c) ==
    /\ At(c, "append")
    /\ \/ file' = file \o call[c].records
       \/ call[c].replaced /\ file' = file
    /\ Goto(c, Idle)
    /\ UNCHANGED <<state, time>>

-----------------------------------------------------------------------------
(* ws clear and ws refresh. *)

Clear ==
    /\ file # <<>>
    /\ file' = <<>>
    /\ call' = [d \in Clients |-> Displace(call[d])]
    /\ UNCHANGED <<state, time>>

StartRefresh(c, resolved) ==
    /\ At(c, "idle") /\ time < MaxStamps
    /\ Goto(c, [at |-> "refresh", alone |-> resolved,
                digest |-> IF resolved THEN digest ELSE Unresolved])
    /\ UNCHANGED <<state, file, time>>

LoadForRefresh(c) ==
    /\ At(c, "refresh")
    /\ IF file = <<>> THEN Goto(c, Idle)
       ELSE Goto(c, [at |-> "classify", alone |-> call[c].alone, digest |-> call[c].digest,
                     records |-> file])
    /\ UNCHANGED <<state, file, time>>

ClassifyRecords(c) ==
    /\ At(c, "classify") /\ time < MaxStamps
    /\ time' = time + 1
    /\ LET Of(class) == Among(call[c].records,
              {r \in Range(call[c].records) : Classify(r, revision, call[c].digest) = class})
       IN  Goto(c, [at |-> "fetch", alone |-> call[c].alone, digest |-> call[c].digest,
                    records |-> call[c].records, asOf |-> time + 1, sure |-> TRUE,
                    todo |-> Of("stale") \o Of("unknown"), found |-> <<>>])
    /\ UNCHANGED <<state, file>>

Found(c, r) == [call[c] EXCEPT !.todo = Tail(@), !.found = Append(@, r)]

Stamped(c, r, rev, sure) ==
    [r EXCEPT !.revision = rev, !.digest = call[c].digest, !.asOf = call[c].asOf, !.sure = sure]

\* A record is read again: it is there, and an edge's revision was read before it;
\* or it is gone and dropped; or the fetch fails, is cut short, and it stays.
Fetch(c) ==
    /\ At(c, "fetch") /\ call[c].todo # <<>>
    /\ LET old == Head(call[c].todo)
           new == Shown(old.thing, Props)
       IN  \/ Goto(c, [Found(c, old) EXCEPT !.alone = FALSE])
           \/ /\ values[old.thing] = Gone
              /\ Goto(c, Found(c, Shown(old.thing, {})))
           \/ /\ values[old.thing] # Gone
              /\ \/ Goto(c, [Found(c, new) EXCEPT !.at = "fetched", !.sure = TRUE])
                 \/ \E before \in IF call[c].alone THEN {revision} ELSE 1 .. revision :
                       Goto(c, Found(c, Stamped(c, new, before, TRUE)))
    /\ UNCHANGED <<state, file, time>>

\* The revision after it; digest and time are those the refresh began with.
StampFetched(c) ==
    /\ At(c, "fetched")
    /\ Goto(c, [call[c] EXCEPT
                  !.at = "fetch", !.sure = TRUE,
                  !.found[Len(call[c].found)] = Stamped(c, @, revision, call[c].sure)])
    /\ UNCHANGED <<state, file, time>>

\* Every line of an identity that was fetched becomes what was fetched last.
Refreshed(old, found) ==
    LET new == [i \in DOMAIN old |->
                  IF Places(found, old[i].thing) = {} THEN old[i]
                  ELSE found[CHOOSE k \in Places(found, old[i].thing) :
                               \A j \in Places(found, old[i].thing) : j <= k]]
    IN  Among(new, {r \in Range(new) : DOMAIN r.props # {}})

FinishRefresh(c) ==
    /\ At(c, "fetch") /\ call[c].todo = <<>>
    /\ file' = Refreshed(call[c].records, call[c].found)
    /\ call' = Replaced(c)
    /\ UNCHANGED <<state, time>>

-----------------------------------------------------------------------------
Init ==
    /\ revision = 1 /\ values = [t \in Things |-> 1] /\ digest = 1 /\ reloads = 0
    /\ \E payload \in Earlier :
         file = [i \in DOMAIN payload |->
                   [Shown(payload[i][1], payload[i][2]) EXCEPT !.revision = 1, !.digest = 1]]
    /\ time = 0
    /\ call = [c \in Clients |-> Idle]

Next ==
    \/ \E t \in Things, gone \in BOOLEAN : WriteState(t, gone)
    \/ ReloadConfig
    \/ Clear
    \/ \E c \in Clients :
          \/ \E payload \in Payloads, before \in {Unresolved} \cup 1 .. revision :
                Read(c, payload, before)
          \/ \E known \in BOOLEAN : ResolveRevision(c, known)
          \/ \E resolved \in BOOLEAN : StampCapture(c, resolved) \/ StartRefresh(c, resolved)
          \/ LoadForAppend(c) \/ Rewrite(c) \/ AppendLines(c)
          \/ LoadForRefresh(c) \/ ClassifyRecords(c) \/ Fetch(c) \/ StampFetched(c)
          \/ FinishRefresh(c)

Spec == Init /\ [][Next]_vars

-----------------------------------------------------------------------------
\* Whatever was appended, merged, rewritten and lost: a line that verifies as
\* fresh shows what the state holds, unless a commit split a read of its own.
FreshIsTrue ==
    \A r \in Range(file) :
        r.sure /\ Classify(r, revision, digest) = "fresh" =>
            \A p \in DOMAIN r.props : r.props[p] = values[r.thing]

\* A refresh that no write, reload or failure disturbs writes fresh lines only.
RefreshFreshens ==
    \A c \in Clients :
        At(c, "fetch") /\ call[c].todo = <<>> /\ call[c].alone =>
            \A r \in Range(Refreshed(call[c].records, call[c].found)) :
                Classify(r, revision, digest) = "fresh"

\* What the cache calls fresh is, and a refresh makes it so (working_set.py,
\* _merge_winning_record; cli/commands/working_set.py, _classify and refresh).
CacheHonest == FreshIsTrue /\ RefreshFreshens
=============================================================================
