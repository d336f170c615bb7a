-------------------------- MODULE SourceArtifacts --------------------------
(***************************************************************************)
(* The revisions of one source artifact, the file it was registered from,  *)
(* and the citations that are minted and dereferenced against it.          *)
(*                                                                         *)
(* A registration reads the file and then runs in one transaction.  A read *)
(* is several SELECTs and a read of the file, with registrations, edits    *)
(* and other reads in between.  A document stands for the text of its one  *)
(* block, which keeps its chunk id from revision to revision.              *)
(***************************************************************************)
EXTENDS Integers, Sequences, FiniteSets

CONSTANTS
    Processes, Documents, None,
    MaxRevisions    \* bound

VARIABLES
    file,           \* what the local path holds, or None
    revisions,      \* the rows of the artifact; all but the last are superseded
    call,           \* [process -> the registration or read it is in, or None]
    out             \* [process -> what its last call returned, or None]

vars == <<file, revisions, call, out>>

Current == Len(revisions)

\* Somebody edits, removes or restores the file.
EditFile(document) ==
    /\ file # document
    /\ file' = document
    /\ UNCHANGED <<revisions, call, out>>

----------------------------------------------------------------------------
(* service_register_source_artifact *)

\* The bytes come from the path or with the request; the parser runs on them.
StartRegister(p, document, local, archived) ==
    /\ call[p] = None
    /\ local => document = file
    /\ call' = [call EXCEPT ![p] =
          [op |-> "register", document |-> document, local |-> local, archived |-> archived]]
    /\ out' = [out EXCEPT ![p] = None]
    /\ UNCHANGED <<file, revisions>>

\* save_artifact: the head is superseded, the new row and its chunks inserted,
\* and with archive retention the bytes kept for good.
NewRevision(c) ==
    [document |-> c.document, local |-> c.local, archived |-> c.archived,
     drift |-> None, firstDrift |-> None]

\* The duplicate check is made by the transaction that inserts.
Register(p) ==
    /\ call[p] # None /\ call[p].op = "register"
    /\ \/ /\ Current > 0 /\ revisions[Current].document = call[p].document
          /\ UNCHANGED revisions
       \/ /\ Current > 0 => revisions[Current].document # call[p].document
          /\ Current < MaxRevisions
          /\ revisions' = Append(revisions, NewRevision(call[p]))
    /\ call' = [call EXCEPT ![p] = None]
    /\ UNCHANGED <<file, out>>

----------------------------------------------------------------------------
(* Locators, handles, service_dereference_source_evidence. *)

\* _resolve_artifact_revision: the row of the pinned revision, or the head's.
\* The locator may carry the hash that the chunk is expected to have.
StartRead(p, pin, cite, expected) ==
    /\ call[p] = None /\ Current > 0
    /\ LET k == IF pin = 0 THEN Current ELSE pin
       IN call' = [call EXCEPT ![p] =
             [op |-> "chunk", pinned |-> pin # 0, cite |-> cite, revision |-> k,
              superseded |-> k < Current, expected |-> expected]]
    /\ out' = [out EXCEPT ![p] = None]
    /\ UNCHANGED <<file, revisions>>

\* Mutant: the chunk is looked up in the head, whatever revision was pinned.
HeadChunk(c) == revisions[Current].document

\* _resolve_chunk and _resolve_revision_chunk
ResolveChunk(c) == revisions[IF c.pinned THEN c.revision ELSE Current].document

\* _chunk_body: the chunk's lines of the content, garbled if they are not its own.
ChunkBody(content, chunk) == IF content = chunk THEN content ELSE None

\* current is current_artifact_hash, of the bytes that were compared if any were.
Answer(c, status, body, current) ==
    [status |-> status, pinned |-> c.pinned, revision |-> c.revision,
     expected |-> c.expected, body |-> body, current |-> current]

Deliver(p, answer) ==
    /\ call' = [call EXCEPT ![p] = None]
    /\ out' = [out EXCEPT ![p] = answer]

\* The chunk's hash is compared with the expected one: a citation is refused,
\* a read is told that its chunk drifted, and nothing is recorded.  Otherwise a
\* citation is done: its ref names the revision and the hash of the chunk.
ReadChunk(p) ==
    /\ call[p] # None /\ call[p].op = "chunk"
    /\ LET c == call[p]
           chunk == ResolveChunk(c)
           mismatch == c.expected \notin {None, chunk}
       IN \/ /\ c.cite /\ mismatch
             /\ Deliver(p, None)
          \/ /\ c.cite /\ ~mismatch
             /\ Deliver(p, Answer(c, "cited", chunk, None))
          \/ /\ ~c.cite /\ mismatch
             /\ Deliver(p, Answer(c, "drifted", None, None))
          \/ /\ ~c.cite /\ ~mismatch
             /\ call' = [call EXCEPT ![p] =
                   [op |-> "content", pinned |-> c.pinned, revision |-> c.revision,
                    superseded |-> c.superseded, expected |-> c.expected, chunk |-> chunk]]
             /\ UNCHANGED out
    /\ UNCHANGED <<file, revisions>>

\* _resolve_artifact_content: the archive, nothing for a revision that was
\* superseded when its row was read, or the file, hashed and compared.
ReadContent(p) ==
    /\ call[p] # None /\ call[p].op = "content"
    /\ LET c == call[p]
           row == revisions[c.revision]
       IN \/ /\ row.archived
             /\ Deliver(p, Answer(c, "available", ChunkBody(row.document, c.chunk),
                                  row.document))
          \/ /\ ~row.archived /\ c.superseded
             /\ Deliver(p, Answer(c, "not_retained", None, None))
          \/ /\ ~row.archived /\ ~c.superseded /\ (row.local => file = None)
             /\ Deliver(p, Answer(c, "unavailable", None, None))
          \/ /\ ~row.archived /\ ~c.superseded /\ row.local /\ file # None
             /\ call' = [call EXCEPT ![p] =
                   IF file = row.document
                   THEN [op |-> "stamp", observed |-> None, answer |->
                           Answer(c, "available", ChunkBody(file, c.chunk), file)]
                   ELSE [op |-> "stamp", observed |-> file, answer |->
                           Answer(c, "drifted", None, file)]]
             /\ UNCHANGED out
    /\ UNCHANGED <<file, revisions>>

\* record_content_drift: the current finding comes and goes, the first one stays.
Observed(row, observed) ==
    [row EXCEPT !.drift = observed,
                !.firstDrift = IF @ = None THEN observed ELSE @]

\* What was observed is stamped on revision k, and the reader is answered.
Stamp(p, k) ==
    /\ call[p] # None /\ call[p].op = "stamp"
    /\ revisions' = [revisions EXCEPT ![k] = Observed(@, call[p].observed)]
    /\ Deliver(p, call[p].answer)
    /\ UNCHANGED file

\* Mutant: the finding goes to the head of the artifact.
StampHead(p) == Stamp(p, Current)

\* The finding goes to the revision whose row was read, whatever was
\* registered since.
StampDrift(p) == call[p] # None /\ call[p].op = "stamp" /\ Stamp(p, call[p].answer.revision)

\* A refusal, or the process dies.
AbandonCall(p) ==
    /\ call[p] # None
    /\ call' = [call EXCEPT ![p] = None]
    /\ UNCHANGED <<file, revisions, out>>

Init ==
    /\ file = None
    /\ revisions = <<>>
    /\ call = [p \in Processes |-> None]
    /\ out = [p \in Processes |-> None]

Next ==
    \/ \E document \in Documents \cup {None} : EditFile(document)
    \/ \E p \in Processes :
          \/ \E document \in Documents, local, archived \in BOOLEAN :
                StartRegister(p, document, local, archived)
          \/ \E pin \in 0 .. Current, cite \in BOOLEAN, expected \in Documents \cup {None} :
                StartRead(p, pin, cite, expected)
          \/ Register(p) \/ ReadChunk(p) \/ ReadContent(p) \/ StampDrift(p) \/ AbandonCall(p)

Spec == Init /\ [][Next]_vars

----------------------------------------------------------------------------
\* service/source_artifacts.py: while registrations, edits and reads race, a
\* pinned citation names and yields the bytes of its revision, the ones its
\* reader expected if it said so, or says that it cannot.  No revision repeats
\* the one before it.  A reader is told of drift for one of two reasons: the
\* file differed from the registered document, which then stays on record even
\* after the file is restored, or the hash it expected was never its
\* revision's, which leaves no record.  And a record of drift is only ever on a
\* revision that is served from the file and that the observed bytes are not.
CitationsHold ==
    /\ \A k \in 1 .. Current - 1 : revisions[k].document # revisions[k + 1].document
    /\ \A k \in 1 .. Current :
          \A seen \in {revisions[k].firstDrift, revisions[k].drift} \ {None} :
             revisions[k].local /\ ~revisions[k].archived /\ revisions[k].document # seen
    /\ \A p \in Processes : out[p] # None =>
          LET row == revisions[out[p].revision]
          IN /\ out[p].status \in {"available", "cited"} /\ out[p].pinned =>
                    out[p].body = row.document /\ out[p].expected \in {None, row.document}
             /\ out[p].status = "drifted" /\ out[p].current # None =>
                    out[p].current # row.document /\ row.firstDrift # None
             /\ out[p].status = "drifted" /\ out[p].current = None /\ out[p].pinned =>
                    out[p].expected # row.document

=============================================================================
