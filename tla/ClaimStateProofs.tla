-------------------------- MODULE ClaimStateProofs --------------------------
(***************************************************************************)
(* Machine-checked proofs about ClaimState, for every set of claims,       *)
(* entities, groups, properties and values.  Types, the chains of          *)
(* superseded entities and what observers were told is on record hold for  *)
(* any number of processes.  The review axis, the drift *)
(* marker and the chains of superseded claims are proved for one process:  *)
(* feedback and add_relationship write back whole rows that they loaded    *)
(* before their transaction.                                               *)
(***************************************************************************)
EXTENDS ClaimState, TLAPS

-----------------------------------------------------------------------------
(* The inductive invariant of types. *)

RowsOK(rows) ==
    /\ rows \in [Claims -> ClaimRows \cup {None}]
    /\ \A c \in Claims : rows[c] # None /\ rows[c].drift # None => rows[c].group # None

LifeRows ==
    [status : {"active", "inactive", "live", "superseded", "retracted", "retired"},
     supersedes : Nodes \cup {None}, supersededBy : Nodes \cup {None}]

\* supersededBy leads from claim to claim or from entity to entity.
PointsAlike(n, row) == row.supersededBy # None => (n \in Claims <=> row.supersededBy \in Claims)

LivesOK(f) == f \in [Nodes -> LifeRows] /\ \A n \in Nodes : PointsAlike(n, f[n])

Decisions == [review : Reviews, by : Sources, props : Contents \cup {None}]
Attestations ==
    [claim : Claims, stance : Stances, digest : Contents, verdict : Verdicts \cup {None},
     key : Keys \cup {None}]

HistoryOK ==
    /\ approved \in [Claims -> Contents \cup {None}]
    /\ word \in [Claims -> Decisions \cup {None}]

AttestationsOK ==
    /\ attestations \in Seq(Attestations)
    /\ \A a \in DOMAIN attestations : claims[attestations[a].claim] # None

\* What a process has loaded is well-typed as well: it will be written back.
ViewsOK ==
    /\ view \in [Processes -> {None} \cup Views]
    /\ \A p \in Processes : view[p] # None => RowsOK(view[p].claims) /\ LivesOK(view[p].life)

TInv == RowsOK(claims) /\ LivesOK(life) /\ ViewsOK /\ AttestationsOK /\ HistoryOK

\* The parts are the type invariant.
LEMMA TypesOfTInv == TInv => TypeOK
  <1>1. Lives = [Nodes -> LifeRows]
    BY DEF Lives, LifeRows
  <1> QED
    BY <1>1 DEF TInv, TypeOK, RowsOK, LivesOK, PointsAlike, ViewsOK, AttestationsOK, Attestations

-----------------------------------------------------------------------------
(* Rows. *)

\* A merge of updates into a content is a content.
LEMMA MergedType ==
    ASSUME NEW old \in Contents, NEW updates \in Updates
    PROVE  Merged(old, updates) \in Contents
  <1>1. PICK names \in SUBSET Props : updates \in [names -> Values]
    BY DEF Updates
  <1> QED
    BY <1>1 DEF Merged, Contents

\* The content of which nothing is known.
LEMMA BlankType == [p \in Props |-> None] \in Contents
  BY DEF Contents

\* A row that is made is a row, and carries no marker.
LEMMA NewRowType ==
    ASSUME NEW props \in Contents, NEW review \in Reviews, NEW by \in Sources,
           NEW group \in Groups \cup {None}
    PROVE  /\ NewRow(props, review, by, group) \in ClaimRows
           /\ NewRow(props, review, by, group).drift = None
  BY DEF NewRow, ClaimRows

\* The lifecycle of a node that was made.
LEMMA FreshType ==
    ASSUME NEW n \in Nodes
    PROVE  /\ Fresh(n) \in LifeRows /\ Fresh(n).supersededBy = None
           /\ Fresh(n).status # "superseded"
           /\ \A status \in {"active", "inactive", "live", "superseded", "retracted", "retired"} :
                 /\ [Fresh(n) EXCEPT !.status = status] \in LifeRows
                 /\ [Fresh(n) EXCEPT !.status = status].supersededBy = None
  BY DEF Fresh, LifeRows

\* The marker after a write is a marker or none.
LEMMA DriftType ==
    ASSUME NEW old \in ClaimRows, NEW new \in Contents
    PROVE  /\ DriftAfter(old, new) \in Markers \cup {None}
           /\ old.group = None => DriftAfter(old, new) = old.drift
  <1> DEFINE changed == {p \in Props : new[p] # old.props[p]}
             carried == IF old.drift = None THEN {} ELSE DOMAIN old.drift
             baseline == [p \in changed \cup carried |->
                             IF p \in carried THEN old.drift[p] ELSE old.props[p]]
             divergent == {p \in DOMAIN baseline : new[p] # baseline[p]}
             All == UNION {[names -> Values \cup {None}] : names \in SUBSET Props}
  <1>1. old.props \in [Props -> Values \cup {None}] /\ old.drift \in Markers \cup {None}
    BY DEF ClaimRows, Contents
  <1>2. Markers = {m \in All : DOMAIN m # {}}
    BY DEF Markers
  <1>3. old.drift # None => \E names \in SUBSET Props : old.drift \in [names -> Values \cup {None}]
    BY <1>1, <1>2
  <1>4. carried \subseteq Props /\ \A p \in carried : old.drift[p] \in Values \cup {None}
    BY <1>3
  <1>5. DriftAfter(old, new) =
           IF old.group = None \/ changed = {} THEN old.drift
           ELSE IF divergent = {} THEN None ELSE Restrict(baseline, divergent)
    BY DEF DriftAfter
  <1>6. ASSUME divergent # {} PROVE Restrict(baseline, divergent) \in Markers
    <2>1. divergent \in SUBSET Props
      BY <1>4
    <2>2. \A p \in divergent : baseline[p] \in Values \cup {None}
      BY <1>1, <1>4
    <2> HIDE DEF divergent, baseline
    <2>3. Restrict(baseline, divergent) \in [divergent -> Values \cup {None}]
      BY <2>2 DEF Restrict
    <2>4. DOMAIN Restrict(baseline, divergent) # {}
      BY <1>6 DEF Restrict
    <2> QED
      BY <1>2, <2>1, <2>3, <2>4
  <1> QED
    BY <1>1, <1>5, <1>6

\* A row that is updated is a row, and its review is what it was.
LEMMA UpdatedRowType ==
    ASSUME NEW old \in ClaimRows, NEW updates \in Updates,
           old.drift # None => old.group # None
    PROVE  LET row == UpdatedRow(old, updates)
           IN /\ row \in ClaimRows
              /\ row.drift # None => row.group # None
              /\ row.review = old.review /\ row.by = old.by /\ row.group = old.group
              /\ row.props = Merged(old.props, updates)
              /\ row.drift = DriftAfter(old, row.props)
  <1> DEFINE new == Merged(old.props, updates)
             drift == DriftAfter(old, new)
  <1>1. new \in Contents
    BY MergedType DEF ClaimRows
  <1>2. drift \in Markers \cup {None} /\ (old.group = None => drift = old.drift)
    BY <1>1, DriftType
  <1>3. UpdatedRow(old, updates) = [old EXCEPT !.props = new, !.drift = drift]
    BY DEF UpdatedRow
  <1> HIDE DEF new, drift
  <1>4. /\ UpdatedRow(old, updates) \in ClaimRows
        /\ UpdatedRow(old, updates).drift = drift
        /\ UpdatedRow(old, updates).props = new
        /\ UpdatedRow(old, updates).review = old.review
        /\ UpdatedRow(old, updates).by = old.by
        /\ UpdatedRow(old, updates).group = old.group
    BY <1>1, <1>2, <1>3 DEF ClaimRows
  <1> QED
    BY <1>2, <1>4 DEF new, drift

\* A blessed row is a row without a marker.
LEMMA BlessedType ==
    ASSUME NEW row \in ClaimRows, NEW g \in Groups
    PROVE  /\ Blessed(row, g) \in ClaimRows
           /\ Blessed(row, g).drift = None /\ Blessed(row, g).props = row.props
           /\ Blessed(row, g).review = "approved" /\ Blessed(row, g).by = "group"
  BY DEF Blessed, ClaimRows, Reviews, Sources

\* A judged row is a row; only a correction moves the content.
LEMMA JudgedType ==
    ASSUME NEW row \in ClaimRows, NEW action \in Actions, NEW corrections,
           action = "correct" => corrections \in Updates
    PROVE  LET new == Judged(row, action, corrections)
           IN /\ new \in ClaimRows
              /\ new.drift = row.drift /\ new.group = row.group
              /\ new.review \in {"approved", "rejected"} /\ new.by = "human"
              /\ action # "correct" => new.props = row.props
  <1> DEFINE props == IF action = "correct" THEN Merged(row.props, corrections) ELSE row.props
             review == IF action = "reject" THEN "rejected" ELSE "approved"
  <1>1. props \in Contents
    BY MergedType DEF ClaimRows
  <1>2. Judged(row, action, corrections) =
           [row EXCEPT !.review = review, !.by = "human", !.props = props]
    BY DEF Judged
  <1>3. review \in {"approved", "rejected"} /\ (action # "correct" => props = row.props)
    OBVIOUS
  <1> HIDE DEF props, review
  <1> QED
    BY <1>1, <1>2, <1>3 DEF ClaimRows, Reviews, Sources

-----------------------------------------------------------------------------
(* Types are preserved by every step, of any process. *)

\* A row is put in the place of one claim.
LEMMA PutRow ==
    ASSUME RowsOK(claims), NEW c \in Claims, NEW row \in ClaimRows,
           row.drift # None => row.group # None,
           claims' = [claims EXCEPT ![c] = row]
    PROVE  /\ RowsOK(claims') /\ claims'[c] = row /\ row # None
           /\ \A d \in Claims : claims[d] # None => claims'[d] # None
           /\ \A d \in Claims : d # c => claims'[d] = claims[d]
  BY AbsenceAssumption DEF RowsOK

\* A lifecycle is put in the place of one node's.
LEMMA PutLife ==
    ASSUME LivesOK(life), NEW n \in Nodes, NEW row \in LifeRows, PointsAlike(n, row),
           life' = [life EXCEPT ![n] = row]
    PROVE  LivesOK(life')
  <1>1. life' \in [Nodes -> LifeRows]
    BY DEF LivesOK
  <1>2. \A m \in Nodes : life'[m] = IF m = n THEN row ELSE life[m]
    BY DEF LivesOK
  <1> HIDE DEF PointsAlike
  <1> QED
    BY <1>1, <1>2 DEF LivesOK

\* Claims that are there stay there: what was said of them has its claim.
LEMMA AttestationsKept ==
    ASSUME AttestationsOK, UNCHANGED attestations,
           \A d \in Claims : claims[d] # None => claims'[d] # None
    PROVE  AttestationsOK'
  <1>1. \A a \in DOMAIN attestations : attestations[a] \in Attestations
    BY DEF AttestationsOK
  <1>2. \A a \in DOMAIN attestations : attestations[a].claim \in Claims
    BY <1>1 DEF Attestations
  <1> QED
    BY <1>2 DEF AttestationsOK

\* A process drops what it has loaded, or nobody touches it.
LEMMA ViewsKept ==
    ASSUME ViewsOK, view' = view \/ \E p \in Processes : view' = [view EXCEPT ![p] = None]
    PROVE  ViewsOK'
  <1>1. \A q \in Processes : view'[q] = None \/ view'[q] = view[q]
    BY DEF ViewsOK
  <1>2. view' \in [Processes -> {None} \cup Views]
    BY DEF ViewsOK
  <1> HIDE DEF RowsOK, LivesOK
  <1> QED
    BY <1>1, <1>2 DEF ViewsOK

\* A decision is recorded.
LEMMA WordType ==
    ASSUME HistoryOK, NEW c \in Claims, NEW review \in Reviews, NEW by \in Sources,
           NEW props \in Contents, Word(c, review, by, props)
    PROVE  /\ word' \in [Claims -> Decisions \cup {None}]
           /\ word'[c].review = review /\ word'[c].by = by
           /\ review = "pending" => word'[c].props = props
           /\ \A d \in Claims : d # c => word'[d] = word[d]
  <1> DEFINE x == Decision(review, by, props)
  <1>1. x \in Decisions /\ x.review = review /\ x.by = by /\ (review = "pending" => x.props = props)
    BY DEF Decision, Decisions
  <1>2. word' = [word EXCEPT ![c] = x]
    BY DEF Word
  <1> HIDE DEF x
  <1> QED
    BY <1>1, <1>2 DEF HistoryOK

\* What a write of a claim makes of it, from the rows that the writer has loaded.
LEMMA WriteClaimStep ==
    ASSUME TInv, NEW rows, NEW f, RowsOK(rows), LivesOK(f), NEW c \in Claims,
           NEW updates \in Updates, NEW pending \in BOOLEAN,
           NEW status \in FreeStatuses \cup {None},
           WriteClaim(rows, f, c, updates, pending, status)
    PROVE  /\ RowsOK(claims') /\ LivesOK(life') /\ HistoryOK' /\ AttestationsOK'
           /\ \A d \in Claims : d # c => claims'[d] = claims[d] /\ word'[d] = word[d]
           /\ rows[c] = None =>
                 /\ claims'[c].review = word'[c].review /\ claims'[c].by = word'[c].by
                 /\ claims'[c].review = "pending" => claims'[c].props = word'[c].props
           /\ rows[c] # None =>
                 /\ claims'[c] = UpdatedRow(rows[c], updates) /\ word' = word
                 /\ rows[c].review # "pending"
           /\ claims'[c] # None
           /\ \A n \in Nodes : n # c => life'[n] = life[n]
           /\ life'[c] = f[c] \/ life'[c].supersededBy = None
           /\ approved' = approved
  <1> DEFINE props == Merged([p \in Props |-> None], updates)
             by == IF pending THEN "agent" ELSE "system"
             review == IF pending THEN "pending" ELSE "unreviewed"
             lf == IF status # None THEN [Fresh(c) EXCEPT !.status = status]
                   ELSE IF rows[c] = None THEN Fresh(c) ELSE f[c]
  <1>1. /\ rows[c] # None => MayUpdate(rows[c])
        /\ rows[c] = None => /\ claims' = [claims EXCEPT ![c] = NewRow(props, review, by, None)]
                             /\ Word(c, review, by, props)
        /\ rows[c] # None => /\ claims' = [claims EXCEPT ![c] = UpdatedRow(rows[c], updates)]
                             /\ word' = word
        /\ life' = [life EXCEPT ![c] = lf]
        /\ attestations' = attestations /\ approved' = approved
    BY DEF WriteClaim
  <1>2. props \in Contents /\ by \in Sources /\ review \in Reviews
    BY BlankType, MergedType DEF Sources, Reviews
  <1>3. NewRow(props, review, by, None) \in ClaimRows /\ NewRow(props, review, by, None).drift = None
        /\ NewRow(props, review, by, None).review = review
        /\ NewRow(props, review, by, None).by = by
        /\ NewRow(props, review, by, None).props = props
    BY <1>2, NewRowType DEF NewRow
  <1>4. c \in Nodes /\ f[c] \in LifeRows /\ PointsAlike(c, f[c])
    BY DEF Nodes, LivesOK
  <1>5. lf \in LifeRows /\ PointsAlike(c, lf) /\ (lf = f[c] \/ lf.supersededBy = None)
    <2>1. status # None => status \in {"active", "inactive"}
      BY FreeAssumption
    <2> HIDE DEF lf
    <2>2. CASE status # None
      <3>1. lf = [Fresh(c) EXCEPT !.status = status]
        BY <2>2 DEF lf
      <3> QED
        BY <1>4, <2>1, <2>2, <3>1, FreshType DEF PointsAlike
    <2>3. CASE status = None
      BY <1>4, <2>3, FreshType DEF PointsAlike, lf
    <2> QED
      BY <2>2, <2>3
  <1> HIDE DEF props, by, review, lf
  <1>6. LivesOK(life') /\ life'[c] = lf /\ \A n \in Nodes : n # c => life'[n] = life[n]
    BY <1>1, <1>4, <1>5, PutLife DEF TInv, LivesOK
  <1>7. HistoryOK /\ RowsOK(claims) /\ AttestationsOK
    BY DEF TInv
  <1>8. CASE rows[c] = None
    <2>1. /\ RowsOK(claims') /\ claims'[c] = NewRow(props, review, by, None) /\ claims'[c] # None
          /\ \A d \in Claims : claims[d] # None => claims'[d] # None
          /\ \A d \in Claims : d # c => claims'[d] = claims[d]
      BY <1>1, <1>3, <1>7, <1>8, PutRow
    <2>2. AttestationsOK'
      BY <1>1, <1>7, <2>1, AttestationsKept
    <2>3. Word(c, review, by, props)
      BY <1>1, <1>8
    <2>4. /\ word' \in [Claims -> Decisions \cup {None}]
          /\ word'[c].review = review /\ word'[c].by = by
          /\ review = "pending" => word'[c].props = props
          /\ \A d \in Claims : d # c => word'[d] = word[d]
      BY <1>2, <1>7, <2>3, WordType
    <2> QED
      BY <1>1, <1>3, <1>5, <1>6, <1>7, <1>8, <2>1, <2>2, <2>4 DEF HistoryOK
  <1>9. CASE rows[c] # None
    <2>1. rows[c] \in ClaimRows /\ (rows[c].drift # None => rows[c].group # None)
      BY <1>9 DEF RowsOK
    <2>2. /\ UpdatedRow(rows[c], updates) \in ClaimRows
          /\ UpdatedRow(rows[c], updates).drift # None => UpdatedRow(rows[c], updates).group # None
      BY <2>1, UpdatedRowType
    <2>3. /\ RowsOK(claims') /\ claims'[c] = UpdatedRow(rows[c], updates) /\ claims'[c] # None
          /\ \A d \in Claims : claims[d] # None => claims'[d] # None
          /\ \A d \in Claims : d # c => claims'[d] = claims[d]
      BY <1>1, <1>7, <1>9, <2>2, PutRow
    <2>4. AttestationsOK'
      BY <1>1, <1>7, <2>3, AttestationsKept
    <2> QED
      BY <1>1, <1>5, <1>6, <1>7, <1>9, <2>3, <2>4 DEF HistoryOK, MayUpdate
  <1> QED
    BY <1>8, <1>9

\* What a batch of verdicts makes of the claims, from the rows that were loaded.
LEMMA FeedbackStep ==
    ASSUME TInv, NEW p \in Processes, NEW judged \in SUBSET Claims, NEW acts \in [judged -> Actions],
           NEW corrections,
           (\E c \in judged : acts[c] = "correct") => corrections \in Updates,
           Feedback(p, acts, corrections)
    PROVE  /\ view[p] # None /\ RowsOK(view[p].claims) /\ LivesOK(view[p].life)
           /\ RowsOK(claims') /\ LivesOK(life') /\ HistoryOK' /\ AttestationsOK'
           /\ \A c \in Claims :
                 \/ claims'[c] = claims[c] /\ word'[c] = word[c] /\ approved'[c] = approved[c]
                 \/ /\ claims'[c] # None /\ view[p].claims[c] # None
                    /\ claims'[c].review = word'[c].review /\ claims'[c].by = word'[c].by
                    /\ claims'[c].review # "pending"
                    /\ claims'[c].drift = view[p].claims[c].drift
                    /\ claims'[c].group = view[p].claims[c].group
                    /\ \/ approved'[c] = None
                       \/ /\ approved'[c] = approved[c]
                          /\ claims'[c].props = view[p].claims[c].props
           /\ \A n \in Nodes : life'[n] = life[n] \/ (n \in Claims /\ life'[n] = view[p].life[n])
           /\ view' = [view EXCEPT ![p] = None]
  <1> DEFINE seen == view[p].claims
             old == view[p].life
             touched == {c \in judged : seen[c] # None}
             New(c) == Judged(seen[c], acts[c], corrections)
             Says(c) == Decision(New(c).review, "human", New(c).props)
  <1>1. DOMAIN acts = judged
    OBVIOUS
  <1>2. /\ view[p] # None
        /\ claims' = [c \in Claims |-> IF c \in touched THEN New(c) ELSE claims[c]]
        /\ life' = [n \in Nodes |-> IF n \in touched THEN old[n] ELSE life[n]]
        /\ word' = [c \in Claims |-> IF c \in touched THEN Says(c) ELSE word[c]]
        /\ approved' = [c \in Claims |->
              IF c \in touched /\ acts[c] = "correct" THEN None ELSE approved[c]]
        /\ view' = [view EXCEPT ![p] = None]
        /\ attestations' = attestations
    BY <1>1 DEF Feedback
  <1>3. RowsOK(seen) /\ LivesOK(old)
    BY <1>2 DEF TInv, ViewsOK
  <1>4. RowsOK(claims) /\ LivesOK(life) /\ HistoryOK /\ AttestationsOK
    BY DEF TInv
  <1> HIDE DEF seen, old
  <1>5. ASSUME NEW c \in touched
        PROVE  /\ seen[c] \in ClaimRows /\ New(c) \in ClaimRows /\ New(c) # None
               /\ New(c).drift = seen[c].drift /\ New(c).group = seen[c].group
               /\ New(c).drift # None => New(c).group # None
               /\ New(c).review \in {"approved", "rejected"} /\ New(c).by = "human"
               /\ acts[c] # "correct" => New(c).props = seen[c].props
    <2>1. c \in Claims /\ seen[c] \in ClaimRows /\ (seen[c].drift # None => seen[c].group # None)
      BY <1>3 DEF RowsOK
    <2>2. acts[c] \in Actions /\ (acts[c] = "correct" => corrections \in Updates)
      OBVIOUS
    <2> QED
      BY <2>1, <2>2, JudgedType, AbsenceAssumption
  <1>6. ASSUME NEW c \in touched
        PROVE  Says(c) \in Decisions /\ Says(c).review = New(c).review /\ Says(c).by = "human"
    <2> DEFINE x == New(c).review
               y == New(c).props
    <2>1. x \in {"approved", "rejected"} /\ y \in Contents
      BY <1>5 DEF ClaimRows
    <2>2. Says(c) = Decision(x, "human", y)
      OBVIOUS
    <2> HIDE DEF x, y, Says, New
    <2>3. Says(c) \in Decisions /\ Says(c).review = x /\ Says(c).by = "human"
      BY <2>1, <2>2 DEF Decision, Decisions, Reviews, Sources
    <2> QED
      BY <2>3 DEF x
  <1> HIDE DEF New, Says
  <1>7. touched \subseteq Claims
    OBVIOUS
  <1>8. touched = {c \in Claims : c \in touched} /\ \A c \in touched : seen[c] # None
    OBVIOUS
  <1> HIDE DEF touched
  <1>9. \A c \in Claims : claims'[c] = IF c \in touched THEN New(c) ELSE claims[c]
    BY <1>2
  <1>10. RowsOK(claims') /\ \A d \in Claims : claims[d] # None => claims'[d] # None
    <2>1. claims' \in [Claims -> ClaimRows \cup {None}]
      BY <1>2, <1>4, <1>5 DEF RowsOK
    <2> QED
      BY <1>4, <1>5, <1>9, <2>1 DEF RowsOK
  <1>11. \A n \in Nodes : life'[n] = life[n] \/ (n \in Claims /\ life'[n] = old[n])
    BY <1>2, <1>7
  <1>12. LivesOK(life')
    <2>1. DOMAIN life' = Nodes /\ life' = [n \in Nodes |-> life'[n]]
      BY <1>2
    <2> HIDE DEF PointsAlike
    <2>2. \A n \in Nodes : life'[n] \in LifeRows /\ PointsAlike(n, life'[n])
      BY <1>3, <1>4, <1>11 DEF LivesOK
    <2>3. life' \in [Nodes -> LifeRows]
      BY <2>1, <2>2
    <2> QED
      BY <2>2, <2>3 DEF LivesOK
  <1>13. HistoryOK'
    BY <1>2, <1>4, <1>6 DEF HistoryOK
  <1>14. AttestationsOK'
    BY <1>2, <1>4, <1>10, AttestationsKept
  <1>15. ASSUME NEW c \in Claims
         PROVE \/ claims'[c] = claims[c] /\ word'[c] = word[c] /\ approved'[c] = approved[c]
               \/ /\ claims'[c] # None /\ seen[c] # None
                  /\ claims'[c].review = word'[c].review /\ claims'[c].by = word'[c].by
                  /\ claims'[c].review # "pending"
                  /\ claims'[c].drift = seen[c].drift
                  /\ claims'[c].group = seen[c].group
                  /\ \/ approved'[c] = None
                     \/ /\ approved'[c] = approved[c]
                        /\ claims'[c].props = seen[c].props
    <2>1. CASE c \in touched
      <3>1. claims'[c] = New(c) /\ word'[c] = Says(c)
            /\ approved'[c] = IF acts[c] = "correct" THEN None ELSE approved[c]
        BY <1>2, <2>1
      <3> QED
        BY <1>5, <1>6, <1>8, <2>1, <3>1
    <2>2. CASE c \notin touched
      BY <1>2, <2>2
    <2> QED
      BY <2>1, <2>2
  <1> QED
    BY <1>2, <1>3, <1>10, <1>11, <1>12, <1>13, <1>14, <1>15 DEF seen, old

\* A group approves a claim.
LEMMA ApproveStep ==
    ASSUME TInv, NEW g \in Groups, NEW c \in Claims, NEW props \in Offered(c),
           ApproveGroup(g, c, props)
    PROVE  /\ RowsOK(claims') /\ LivesOK(life') /\ HistoryOK' /\ AttestationsOK' /\ view' = view
           /\ \A d \in Claims : d # c => /\ claims'[d] = claims[d] /\ word'[d] = word[d]
                                         /\ approved'[d] = approved[d]
           /\ claims'[c] # None
           /\ claims'[c].review = word'[c].review /\ claims'[c].by = word'[c].by
           /\ claims'[c].review # "pending"
           /\ claims'[c].drift = None /\ approved'[c] = claims'[c].props
           /\ claims'[c].group # None
           /\ \A n \in Nodes : life'[n] = life[n] \/ life'[n] = Fresh(n)
  <1> DEFINE row == IF claims[c] = None THEN NewRow(props, "approved", "group", g)
                    ELSE Blessed(claims[c], g)
  <1>1. /\ claims' = [claims EXCEPT ![c] = row]
        /\ life' = IF claims[c] = None THEN [life EXCEPT ![c] = Fresh(c)] ELSE life
        /\ approved' = [approved EXCEPT ![c] = row.props]
        /\ Word(c, "approved", "group", row.props)
        /\ view' = view /\ attestations' = attestations
    BY DEF ApproveGroup
  <1>2. RowsOK(claims) /\ LivesOK(life) /\ HistoryOK /\ AttestationsOK
    BY DEF TInv
  <1>3. /\ row \in ClaimRows /\ row.drift = None /\ row.review = "approved" /\ row.by = "group"
        /\ row.group = g
    <2>1. CASE claims[c] = None
      <3>1. props \in Contents
        BY <2>1 DEF Offered
      <3> QED
        BY <2>1, <3>1, NewRowType DEF NewRow, Reviews, Sources
    <2>2. CASE claims[c] # None
      <3>1. claims[c] \in ClaimRows
        BY <1>2, <2>2 DEF RowsOK
      <3>2. Blessed(claims[c], g).group = g
        BY <3>1 DEF Blessed, ClaimRows
      <3> QED
        BY <2>2, <3>1, <3>2, BlessedType
    <2> QED
      BY <2>1, <2>2
  <1> HIDE DEF row
  <1>4. /\ RowsOK(claims') /\ claims'[c] = row /\ row # None
        /\ \A d \in Claims : claims[d] # None => claims'[d] # None
        /\ \A d \in Claims : d # c => claims'[d] = claims[d]
    BY <1>1, <1>2, <1>3, PutRow
  <1>5. row.props \in Contents
    BY <1>3 DEF ClaimRows
  <1>6. /\ word' \in [Claims -> Decisions \cup {None}]
        /\ word'[c].review = "approved" /\ word'[c].by = "group"
        /\ \A d \in Claims : d # c => word'[d] = word[d]
    <2>1. "approved" \in Reviews /\ "group" \in Sources
      BY DEF Reviews, Sources
    <2> QED
      BY <1>1, <1>2, <1>5, <2>1, WordType
  <1>7. HistoryOK' /\ approved'[c] = row.props
        /\ \A d \in Claims : d # c => approved'[d] = approved[d]
    BY <1>1, <1>2, <1>5, <1>6 DEF HistoryOK
  <1>8. c \in Nodes /\ PointsAlike(c, Fresh(c)) /\ Fresh(c) \in LifeRows
    BY FreshType DEF Nodes, PointsAlike
  <1>9. LivesOK(life') /\ \A n \in Nodes : life'[n] = life[n] \/ life'[n] = Fresh(n)
    <2>1. CASE claims[c] = None
      <3>1. life' = [life EXCEPT ![c] = Fresh(c)]
        BY <1>1, <2>1
      <3>2. LivesOK(life')
        BY <1>2, <1>8, <3>1, PutLife
      <3> QED
        BY <1>2, <3>1, <3>2 DEF LivesOK
    <2>2. CASE claims[c] # None
      BY <1>1, <1>2, <2>2
    <2> QED
      BY <2>1, <2>2
  <1>10. AttestationsOK'
    BY <1>1, <1>2, <1>4, AttestationsKept
  <1>11. g # None
    BY NoneAssumption
  <1> QED
    BY <1>1, <1>3, <1>4, <1>6, <1>7, <1>9, <1>10, <1>11

\* What is said of a claim is recorded; a first "support" makes the claim.
LEMMA AttestStep ==
    ASSUME TInv, NEW c \in Claims, NEW stance \in Stances, NEW props \in Offered(c),
           NEW key \in Keys \cup {None}, Attest(c, stance, props, key)
    PROVE  /\ RowsOK(claims') /\ LivesOK(life') /\ HistoryOK' /\ AttestationsOK'
           /\ view' = view /\ approved' = approved
           /\ \A d \in Claims : d # c => claims'[d] = claims[d] /\ word'[d] = word[d]
           /\ claims'[c] # None
           /\ claims[c] # None => claims' = claims /\ word' = word
           /\ claims[c] = None =>
                 /\ claims'[c].review = word'[c].review /\ claims'[c].by = word'[c].by
                 /\ claims'[c].review = "pending" => claims'[c].props = word'[c].props
           /\ \A n \in Nodes : life'[n] = life[n] \/ life'[n] = Fresh(n)
  <1> DEFINE row == NewRow(props, "pending", "agent", None)
             said == [claim |-> c, stance |-> stance, digest |-> claims'[c].props, verdict |-> None,
                      key |-> key]
  <1>1. /\ claims[c] = None => /\ claims' = [claims EXCEPT ![c] = row]
                               /\ life' = [life EXCEPT ![c] = Fresh(c)]
                               /\ Word(c, "pending", "agent", props)
        /\ claims[c] # None => claims' = claims /\ life' = life /\ word' = word
        /\ attestations' = Append(attestations, said)
        /\ view' = view /\ approved' = approved
    BY DEF Attest
  <1>2. RowsOK(claims) /\ LivesOK(life) /\ HistoryOK /\ AttestationsOK
    BY DEF TInv
  <1>3. /\ RowsOK(claims') /\ LivesOK(life') /\ HistoryOK'
        /\ \A d \in Claims : d # c => claims'[d] = claims[d] /\ word'[d] = word[d]
        /\ claims'[c] # None
        /\ claims[c] = None =>
                 /\ claims'[c].review = word'[c].review /\ claims'[c].by = word'[c].by
                 /\ claims'[c].review = "pending" => claims'[c].props = word'[c].props
        /\ \A n \in Nodes : life'[n] = life[n] \/ life'[n] = Fresh(n)
    <2>1. CASE claims[c] # None
      BY <1>1, <1>2, <2>1 DEF HistoryOK
    <2>2. CASE claims[c] = None
      <3>1. props \in Contents /\ "pending" \in Reviews /\ "agent" \in Sources
        BY <2>2 DEF Offered, Reviews, Sources
      <3>2. row \in ClaimRows /\ row.drift = None
        BY <3>1, NewRowType
      <3>3. row.review = "pending" /\ row.by = "agent" /\ row.props = props
        BY DEF NewRow
      <3> HIDE DEF row
      <3>4. /\ RowsOK(claims') /\ claims'[c] = row /\ row # None
            /\ \A d \in Claims : d # c => claims'[d] = claims[d]
        BY <1>1, <1>2, <2>2, <3>2, PutRow
      <3>5. /\ word' \in [Claims -> Decisions \cup {None}]
            /\ word'[c].review = "pending" /\ word'[c].by = "agent" /\ word'[c].props = props
            /\ \A d \in Claims : d # c => word'[d] = word[d]
        BY <1>1, <1>2, <2>2, <3>1, WordType
      <3>6. c \in Nodes /\ PointsAlike(c, Fresh(c)) /\ Fresh(c) \in LifeRows
        BY FreshType DEF Nodes, PointsAlike
      <3>7. LivesOK(life')
        BY <1>1, <1>2, <2>2, <3>6, PutLife
      <3>8. \A n \in Nodes : life'[n] = life[n] \/ life'[n] = Fresh(n)
        BY <1>1, <1>2, <2>2 DEF LivesOK
      <3> QED
        BY <1>1, <1>2, <3>3, <3>4, <3>5, <3>7, <3>8 DEF HistoryOK
    <2> QED
      BY <2>1, <2>2
  <1>4. AttestationsOK'
    <2>1. claims'[c].props \in Contents
      BY <1>3 DEF RowsOK, ClaimRows
    <2>2. said \in Attestations /\ said.claim = c
      BY <2>1 DEF Attestations
    <2> HIDE DEF said, Attestations
    <2>3. attestations \in Seq(Attestations)
      BY <1>2 DEF AttestationsOK
    <2>4. attestations' \in Seq(Attestations)
      BY <1>1, <2>2, <2>3
    <2>5. ASSUME NEW a \in DOMAIN attestations' PROVE claims'[attestations'[a].claim] # None
      <3>1. CASE a \in DOMAIN attestations
        <4>1. attestations'[a] = attestations[a]
          BY <1>1, <2>3, <3>1
        <4>2. attestations[a] \in Attestations
          BY <2>3, <3>1
        <4>3. attestations[a].claim \in Claims
          BY <4>2 DEF Attestations
        <4>4. claims[attestations[a].claim] # None
          BY <1>2, <3>1 DEF AttestationsOK
        <4> QED
          BY <1>1, <1>3, <4>1, <4>3, <4>4
      <3>2. CASE a = Len(attestations) + 1
        <4>1. attestations'[a] = said
          BY <1>1, <2>3, <3>2
        <4> QED
          BY <1>3, <2>2, <4>1
      <3> QED
        BY <1>1, <2>3, <3>1, <3>2
    <2> QED
      BY <2>4, <2>5 DEF AttestationsOK
  <1> QED
    BY <1>1, <1>3, <1>4

\* A reviewer's word on what was said.
LEMMA ResolveAttestationStep ==
    ASSUME TInv, NEW a \in DOMAIN attestations, NEW verdict \in Verdicts,
           ResolveAttestation(a, verdict)
    PROVE  AttestationsOK'
  <1> DEFINE x == [attestations[a] EXCEPT !.verdict = verdict]
  <1>1. attestations' = [attestations EXCEPT ![a] = x] /\ claims' = claims
    BY DEF ResolveAttestation
  <1>2. attestations \in Seq(Attestations)
    BY DEF TInv, AttestationsOK
  <1>3. attestations[a] \in Attestations
    BY <1>2
  <1>4. x \in Attestations /\ x.claim = attestations[a].claim
    BY <1>3 DEF Attestations
  <1> HIDE DEF x, Attestations
  <1>5. attestations' \in Seq(Attestations) /\ DOMAIN attestations' = DOMAIN attestations
    BY <1>1, <1>2, <1>4
  <1>6. \A b \in DOMAIN attestations : attestations'[b].claim = attestations[b].claim
    BY <1>1, <1>2, <1>4
  <1> QED
    BY <1>1, <1>5, <1>6 DEF AttestationsOK, TInv

\* One node supersedes another.
LEMMA SupersedeStep ==
    ASSUME TInv, NEW a \in Nodes, NEW b \in Nodes, Supersede(a, b)
    PROVE  /\ LivesOK(life') /\ a # b /\ (a \in Claims <=> b \in Claims)
           /\ life[a].status # "superseded" /\ life[b].status # "superseded"
           /\ life'[b].supersededBy = life[b].supersededBy /\ life'[b].status = life[b].status
           /\ life'[a].supersededBy = b /\ life'[a].status = "superseded"
           /\ \A n \in Nodes : n # a /\ n # b => life'[n] = life[n]
  <1> DEFINE ra == [life[a] EXCEPT !.status = "superseded", !.supersededBy = b]
             rb == [life[b] EXCEPT !.supersedes = a]
  <1>1. /\ a # b /\ (a \in Claims <=> b \in Claims)
        /\ life' = [life EXCEPT ![b].supersedes = a,
                            ![a].status = "superseded", ![a].supersededBy = b]
    BY DEF Supersede
  <1>2. life \in [Nodes -> LifeRows] /\ \A n \in Nodes : PointsAlike(n, life[n])
    BY DEF TInv, LivesOK
  <1>3. life[a] \in LifeRows /\ life[b] \in LifeRows
    BY <1>2
  <1>4. /\ DOMAIN life' = Nodes /\ life' = [n \in Nodes |-> life'[n]]
        /\ life'[a] = ra /\ life'[b] = rb
        /\ \A n \in Nodes : n # a /\ n # b => life'[n] = life[n]
    <2>1. DOMAIN life' = Nodes /\ life' = [n \in Nodes |-> life'[n]]
      BY <1>1, <1>2
    <2>2. life'[b] = rb
      BY <1>1, <1>2
    <2>3. life'[a] = ra
      BY <1>1, <1>2, <1>3 DEF LifeRows
    <2>4. \A n \in Nodes : n # a /\ n # b => life'[n] = life[n]
      BY <1>1, <1>2
    <2> QED
      BY <2>1, <2>2, <2>3, <2>4
  <1>5. /\ ra \in LifeRows /\ ra.supersededBy = b /\ ra.status = "superseded"
        /\ rb \in LifeRows /\ rb.supersededBy = life[b].supersededBy /\ rb.status = life[b].status
    BY <1>3 DEF LifeRows
  <1>6. PointsAlike(a, ra) /\ PointsAlike(b, rb)
    BY <1>1, <1>2, <1>5 DEF PointsAlike
  <1> HIDE DEF ra, rb, PointsAlike
  <1>7. /\ life' \in [Nodes -> LifeRows] /\ life'[a] = ra /\ life'[b] = rb
        /\ \A n \in Nodes : n # a /\ n # b => life'[n] = life[n]
    <2>1. \A n \in Nodes : life'[n] \in LifeRows
      BY <1>2, <1>4, <1>5
    <2> QED
      BY <1>4, <2>1
  <1>8. LivesOK(life')
    BY <1>2, <1>6, <1>7 DEF LivesOK
  <1>9. Active(life, a) /\ Active(life, b)
    BY DEF Supersede, Eligible, LiveSuccessor, IsLive
  <1>10. life[a].status # "superseded" /\ life[b].status # "superseded"
    BY <1>9, FreshType DEF Active
  <1> QED
    BY <1>1, <1>5, <1>7, <1>8, <1>10

\* A node is retracted or retired.
LEMMA SettleStep ==
    ASSUME TInv, NEW n \in Nodes, Settle(n)
    PROVE  /\ LivesOK(life') /\ life[n].status # "superseded"
           /\ life'[n].supersededBy = life[n].supersededBy
           /\ \A m \in Nodes : m # n => life'[m] = life[m]
  <1> DEFINE status == IF n \in Claims THEN "retracted" ELSE "retired"
             row == [life[n] EXCEPT !.status = status]
  <1>1. life' = [life EXCEPT ![n] = row]
    BY DEF Settle
  <1>2. LivesOK(life) /\ life \in [Nodes -> LifeRows] /\ PointsAlike(n, life[n])
    BY DEF TInv, LivesOK
  <1>3. life[n] \in LifeRows
    BY <1>2
  <1>4. row \in LifeRows /\ row.supersededBy = life[n].supersededBy
    BY <1>3 DEF LifeRows
  <1>5. PointsAlike(n, row)
    BY <1>2, <1>4 DEF PointsAlike
  <1> HIDE DEF row, PointsAlike
  <1>6. LivesOK(life') /\ life'[n] = row /\ \A m \in Nodes : m # n => life'[m] = life[m]
    BY <1>1, <1>2, <1>4, <1>5, PutLife
  <1>7. life[n].status # "superseded"
    BY FreshType DEF Settle, Eligible, Active
  <1> QED
    BY <1>4, <1>6, <1>7

\* An entity is written as live.
LEMMA ReviveStep ==
    ASSUME TInv, NEW e \in Entities, ReviveEntity(e)
    PROVE  LivesOK(life') /\ \A n \in Nodes : life'[n] = life[n] \/ life'[n] = Fresh(n)
  <1>1. e \in Nodes /\ PointsAlike(e, Fresh(e)) /\ Fresh(e) \in LifeRows
    BY FreshType DEF Nodes, PointsAlike
  <1>2. life' = [life EXCEPT ![e] = Fresh(e)] /\ LivesOK(life)
    BY DEF ReviveEntity, TInv
  <1>3. LivesOK(life')
    BY <1>1, <1>2, PutLife
  <1> QED
    BY <1>2, <1>3 DEF LivesOK

\* A process loads the graph.
LEMMA LoadGraphStep ==
    ASSUME TInv, NEW p \in Processes, LoadGraph(p)
    PROVE  ViewsOK'
  <1> DEFINE x == [claims |-> claims, life |-> life]
  <1>1. view' = [view EXCEPT ![p] = x] /\ view \in [Processes -> {None} \cup Views]
    BY DEF LoadGraph, TInv, ViewsOK
  <1>2. RowsOK(claims) /\ LivesOK(life)
    BY DEF TInv
  <1>3. x \in Views
    BY <1>2 DEF RowsOK, LivesOK, Views, Lives, LifeRows
  <1>4. x.claims = claims /\ x.life = life
    OBVIOUS
  <1> HIDE DEF x, RowsOK, LivesOK
  <1>5. view' \in [Processes -> {None} \cup Views]
    BY <1>1, <1>3
  <1>6. \A q \in Processes : view'[q] = x \/ view'[q] = view[q]
    BY <1>1
  <1> QED
    BY <1>2, <1>4, <1>5, <1>6 DEF ViewsOK, TInv

\* The types hold initially.
LEMMA InitTypes == Init => TInv
  <1> SUFFICES ASSUME Init PROVE TInv
    OBVIOUS
  <1>1. RowsOK(claims)
    BY DEF Init, RowsOK
  <1>2. LivesOK(life)
    <2>1. \A n \in Nodes : life[n] = Fresh(n)
      BY DEF Init
    <2>2. \A n \in Nodes : life[n] \in LifeRows /\ PointsAlike(n, life[n])
      BY <2>1, FreshType DEF PointsAlike
    <2>3. life \in [Nodes -> LifeRows]
      BY <2>2 DEF Init
    <2> QED
      BY <2>2, <2>3 DEF LivesOK
  <1>3. ViewsOK
    BY DEF Init, ViewsOK
  <1>4. AttestationsOK
    BY DEF Init, AttestationsOK
  <1>5. HistoryOK
    BY DEF Init, HistoryOK
  <1> QED
    BY <1>1, <1>2, <1>3, <1>4, <1>5 DEF TInv

\* Lifecycle verbs leave the rest alone.
LEMMA LifecycleFrame ==
    ASSUME NEW a, NEW b, Supersede(a, b) \/ Settle(a) \/ ReviveEntity(a)
    PROVE  UNCHANGED <<claims, view, attestations, approved, word>>
  BY DEF Supersede, Settle, ReviveEntity, history

\* Every step preserves the types.
LEMMA NextTypes == TInv /\ [Next]_vars => TInv'
  <1> SUFFICES ASSUME TInv, [Next]_vars PROVE TInv'
    OBVIOUS
  <1>1. /\ RowsOK(claims) /\ LivesOK(life) /\ ViewsOK /\ AttestationsOK /\ HistoryOK
    BY DEF TInv
  <1>2. ASSUME NEW c \in Claims, NEW updates \in Updates, NEW pending \in BOOLEAN,
               NEW status \in FreeStatuses \cup {None},
               BatchDirectWrite(c, updates, pending, status)
        PROVE  TInv'
    <2>1. WriteClaim(claims, life, c, updates, pending, status) /\ view' = view
      BY <1>2 DEF BatchDirectWrite
    <2> QED
      BY <1>1, <2>1, WriteClaimStep, ViewsKept DEF TInv
  <1>3. ASSUME NEW p \in Processes, NEW c \in Claims, NEW updates \in Updates,
               NEW pending \in BOOLEAN, NEW status \in FreeStatuses \cup {None},
               AddRelationship(p, c, updates, pending, status)
        PROVE  TInv'
    <2>1. /\ WriteClaim(view[p].claims, view[p].life, c, updates, pending, status)
          /\ view' = [view EXCEPT ![p] = None] /\ view[p] # None
      BY <1>3 DEF AddRelationship
    <2>2. RowsOK(view[p].claims) /\ LivesOK(view[p].life)
      BY <1>1, <2>1 DEF ViewsOK
    <2> QED
      BY <1>1, <2>1, <2>2, WriteClaimStep, ViewsKept DEF TInv
  <1>4. CASE Write
    BY <1>2, <1>3, <1>4 DEF Write
  <1>5. CASE Judge
    <2>1. PICK p \in Processes, judged \in (SUBSET Claims) \ {{}} :
             \E acts \in [judged -> Actions] :
                \E corrections \in IF \E c \in judged : acts[c] = "correct" THEN Updates ELSE {<<>>} :
                   Feedback(p, acts, corrections)
      BY <1>5 DEF Judge
    <2>2. PICK acts \in [judged -> Actions] :
             \E corrections \in IF \E c \in judged : acts[c] = "correct" THEN Updates ELSE {<<>>} :
                Feedback(p, acts, corrections)
      BY <2>1
    <2>3. PICK corrections : /\ (\E c \in judged : acts[c] = "correct") => corrections \in Updates
                             /\ Feedback(p, acts, corrections)
      BY <2>2
    <2>4. judged \in SUBSET Claims
      BY <2>1
    <2> QED
      BY <1>1, <2>3, <2>4, FeedbackStep, ViewsKept DEF TInv
  <1>6. ASSUME NEW p \in Processes, LoadGraph(p) PROVE TInv'
    BY <1>1, <1>6, LoadGraphStep, AttestationsKept DEF TInv, LoadGraph, HistoryOK, history
  <1>7. ASSUME NEW p \in Processes, Abandon(p) PROVE TInv'
    BY <1>1, <1>7, ViewsKept, AttestationsKept DEF TInv, Abandon, HistoryOK, history
  <1>8. ASSUME NEW c \in Claims, NEW updates \in Updates, WorkflowApply(c, updates) PROVE TInv'
    <2>1. WriteClaim(claims, life, c, updates, FALSE, None) /\ view' = view
      BY <1>8 DEF WorkflowApply
    <2> QED
      BY <1>1, <2>1, WriteClaimStep, ViewsKept DEF TInv
  <1>9. ASSUME NEW g \in Groups, NEW c \in Claims, NEW props \in Offered(c),
               ApproveGroup(g, c, props)
        PROVE  TInv'
    BY <1>1, <1>9, ApproveStep, ViewsKept DEF TInv
  <1>10. ASSUME LivesOK(life'), UNCHANGED <<claims, view, attestations, approved, word>> PROVE TInv'
    BY <1>1, <1>10, ViewsKept, AttestationsKept DEF TInv, HistoryOK
  <1>11. ASSUME NEW a \in Nodes, NEW b \in Nodes, Supersede(a, b) PROVE TInv'
    BY <1>10, <1>11, SupersedeStep, LifecycleFrame
  <1>12. ASSUME NEW n \in Nodes, Settle(n) PROVE TInv'
    BY <1>10, <1>12, SettleStep, LifecycleFrame
  <1>13. ASSUME NEW e \in Entities, ReviveEntity(e) PROVE TInv'
    BY <1>10, <1>13, ReviveStep, LifecycleFrame
  <1>14. ASSUME NEW c \in Claims, NEW stance \in Stances, NEW props \in Offered(c),
                NEW key \in Keys \cup {None}, Attest(c, stance, props, key)
         PROVE  TInv'
    BY <1>1, <1>14, AttestStep, ViewsKept DEF TInv
  <1>17. ASSUME NEW c, NEW stance, NEW key, ReplayAttest(c, stance, key) PROVE TInv'
    BY <1>1, <1>10, <1>17 DEF ReplayAttest
  <1>15. ASSUME NEW a \in DOMAIN attestations, NEW verdict \in Verdicts,
                ResolveAttestation(a, verdict)
         PROVE  TInv'
    BY <1>1, <1>15, ResolveAttestationStep, ViewsKept
      DEF TInv, ResolveAttestation, HistoryOK, history
  <1>16. CASE UNCHANGED vars
    BY <1>1, <1>10, <1>16 DEF vars
  <1> QED
    BY <1>4, <1>5, <1>6, <1>7, <1>8, <1>9, <1>11, <1>12, <1>13, <1>14, <1>15, <1>16, <1>17
    DEF Next

\* The inductive invariant of types holds in every reachable state.
THEOREM Types == Spec => []TInv
  BY InitTypes, NextTypes, PTL DEF Spec

\* Rows are of their type, whatever stale rows are written back, and what is
\* said of a claim is said of one that is there.
THEOREM TypeCorrect == Spec => []TypeOK
  BY Types, TypesOfTInv, PTL

-----------------------------------------------------------------------------
(* What observers were told. *)

\* A record is the one that was acknowledged.
RecordOf(k, x) ==
    x.claim = k.claim /\ x.key = k.key /\ x.stance = k.stance /\ x.digest = k.content

\* A key has minted at most one record for a claim, and what was acknowledged
\* is on record.
ObservedInv ==
    /\ \A a, b \in DOMAIN attestations :
          /\ attestations[a].key # None /\ attestations[a].key = attestations[b].key
          /\ attestations[a].claim = attestations[b].claim
          => a = b
    /\ \A k \in acks : k.claim \in Claims /\ k.key # None
    /\ \A k \in acks : \E a \in DOMAIN attestations : RecordOf(k, attestations[a])

\* The other operations neither observe nor acknowledge.
LEMMA ObservationsFrame ==
    ASSUME Next
    PROVE  \/ UNCHANGED <<attestations, acks>>
           \/ \E c \in Claims, stance \in Stances, key \in Keys \cup {None} :
                 \E props \in Offered(c) : Attest(c, stance, props, key)
           \/ \E c \in Claims, stance \in Stances, key \in Keys \cup {None} :
                 ReplayAttest(c, stance, key)
           \/ \E a \in DOMAIN attestations, verdict \in Verdicts : ResolveAttestation(a, verdict)
  <1>1. ASSUME NEW rows, NEW f, NEW c, NEW updates, NEW pending, NEW status,
               WriteClaim(rows, f, c, updates, pending, status)
        PROVE  UNCHANGED <<attestations, acks>>
    BY <1>1 DEF WriteClaim
  <1>2. Write => UNCHANGED <<attestations, acks>>
    BY <1>1 DEF Write, AddRelationship, BatchDirectWrite
  <1>3. Judge => UNCHANGED <<attestations, acks>>
    BY DEF Judge, Feedback
  <1>4. ASSUME NEW c, NEW updates, WorkflowApply(c, updates) PROVE UNCHANGED <<attestations, acks>>
    BY <1>1, <1>4 DEF WorkflowApply
  <1>5. ASSUME NEW g, NEW c, NEW props, ApproveGroup(g, c, props)
        PROVE  UNCHANGED <<attestations, acks>>
    BY <1>5 DEF ApproveGroup
  <1>6. ASSUME NEW p, LoadGraph(p) \/ Abandon(p) PROVE UNCHANGED <<attestations, acks>>
    BY <1>6 DEF LoadGraph, Abandon, history
  <1>7. ASSUME NEW a, NEW b, Supersede(a, b) \/ Settle(a) \/ ReviveEntity(a)
        PROVE  UNCHANGED <<attestations, acks>>
    BY <1>7 DEF Supersede, Settle, ReviveEntity, history
  <1>8. CASE \/ \E c \in Claims, updates \in Updates : WorkflowApply(c, updates)
             \/ \E g \in Groups, c \in Claims : \E props \in Offered(c) : ApproveGroup(g, c, props)
    BY <1>4, <1>5, <1>8
  <1>9. CASE \/ \E a, b \in Nodes : Supersede(a, b)
             \/ \E n \in Nodes : Settle(n)
             \/ \E e \in Entities : ReviveEntity(e)
    BY <1>7, <1>9
  <1>10. CASE \E p \in Processes : LoadGraph(p) \/ Abandon(p)
    BY <1>6, <1>10
  <1>11. CASE \E c \in Claims, stance \in Stances, key \in Keys \cup {None} :
                \/ \E props \in Offered(c) : Attest(c, stance, props, key)
                \/ ReplayAttest(c, stance, key)
    BY <1>11
  <1> QED
    BY <1>2, <1>3, <1>8, <1>9, <1>10, <1>11 DEF Next

\* A new observation: its key was not used for the claim.
LEMMA AttestObserved ==
    ASSUME TInv, ObservedInv, NEW c \in Claims, NEW stance, NEW props,
           NEW key \in Keys \cup {None}, Attest(c, stance, props, key)
    PROVE  ObservedInv'
  <1> DEFINE content == claims'[c].props
             said == [claim |-> c, stance |-> stance, digest |-> content, verdict |-> None,
                      key |-> key]
             told == [claim |-> c, key |-> key, stance |-> stance, content |-> content]
             n == Len(attestations)
  <1>1. /\ attestations' = Append(attestations, said)
        /\ acks' = IF key = None THEN acks ELSE acks \cup {told}
        /\ Originals(c, key) = {}
    BY DEF Attest, Acknowledge
  <1>2. /\ said.claim = c /\ said.key = key /\ RecordOf(told, said)
        /\ told.claim = c /\ told.key = key
    BY DEF RecordOf
  <1>3. \A a \in DOMAIN attestations :
           key # None => ~(attestations[a].claim = c /\ attestations[a].key = key)
    BY <1>1 DEF Originals
  <1>4. attestations \in Seq(Attestations)
    BY DEF TInv, AttestationsOK
  <1> HIDE DEF said, told
  <1>5. /\ n \in Nat /\ DOMAIN attestations = 1 .. n /\ DOMAIN attestations' = 1 .. n + 1
        /\ attestations'[n + 1] = said
        /\ \A a \in 1 .. n : attestations'[a] = attestations[a]
    BY <1>1, <1>4
  <1> HIDE DEF n
  <1>6. ASSUME NEW a \in DOMAIN attestations', NEW b \in DOMAIN attestations',
               attestations'[a].key # None, attestations'[a].key = attestations'[b].key,
               attestations'[a].claim = attestations'[b].claim
        PROVE  a = b
    <2>1. a = n + 1 \/ a \in 1 .. n
      BY <1>5
    <2>2. b = n + 1 \/ b \in 1 .. n
      BY <1>5
    <2>3. CASE a \in 1 .. n /\ b \in 1 .. n
      BY <1>5, <1>6, <2>3 DEF ObservedInv
    <2>4. CASE a = n + 1 /\ b \in 1 .. n
      BY <1>2, <1>3, <1>5, <1>6, <2>4
    <2>5. CASE a \in 1 .. n /\ b = n + 1
      BY <1>2, <1>3, <1>5, <1>6, <2>5
    <2> QED
      BY <2>1, <2>2, <2>3, <2>4, <2>5
  <1>7. ASSUME NEW k \in acks'
        PROVE  /\ k.claim \in Claims /\ k.key # None
               /\ \E a \in DOMAIN attestations' : RecordOf(k, attestations'[a])
    <2>1. CASE k \in acks
      <3>1. PICK a \in DOMAIN attestations : RecordOf(k, attestations[a])
        BY <2>1 DEF ObservedInv
      <3>2. a \in DOMAIN attestations' /\ attestations'[a] = attestations[a]
        BY <1>5, <3>1
      <3> QED
        BY <2>1, <3>1, <3>2 DEF ObservedInv
    <2>2. CASE k = told /\ key # None
      <3>1. n + 1 \in DOMAIN attestations'
        BY <1>5
      <3> QED
        BY <1>2, <1>5, <2>2, <3>1
    <2> QED
      BY <1>1, <1>7, <2>1, <2>2
  <1> QED
    BY <1>6, <1>7 DEF ObservedInv

\* A retry: the original answers for it.
LEMMA ReplayObserved ==
    ASSUME TInv, ObservedInv, NEW c \in Claims, NEW stance, NEW key \in Keys \cup {None},
           ReplayAttest(c, stance, key)
    PROVE  ObservedInv'
  <1>1. PICK a \in Originals(c, key) :
           /\ SameRequest(attestations[a], stance)
           /\ Acknowledge(c, key, stance, attestations[a].digest)
    BY DEF ReplayAttest
  <1> DEFINE told == [claim |-> c, key |-> key, stance |-> stance,
                      content |-> attestations[a].digest]
  <1>2. /\ a \in DOMAIN attestations /\ key # None /\ attestations[a].claim = c
        /\ attestations[a].key = key /\ attestations[a].stance = stance
        /\ acks' = acks \cup {told} /\ attestations' = attestations
    BY <1>1 DEF ReplayAttest, Originals, SameRequest, Acknowledge
  <1>3. told.claim = c /\ told.key = key /\ RecordOf(told, attestations[a])
    BY <1>2 DEF RecordOf
  <1> HIDE DEF told
  <1> QED
    BY <1>2, <1>3 DEF ObservedInv

\* A disposition changes neither what was said nor what was told.
LEMMA ResolveObserved ==
    ASSUME TInv, ObservedInv, NEW a \in DOMAIN attestations, NEW verdict,
           ResolveAttestation(a, verdict)
    PROVE  ObservedInv'
  <1> DEFINE x == [attestations[a] EXCEPT !.verdict = verdict]
  <1>1. attestations' = [attestations EXCEPT ![a] = x] /\ acks' = acks
    BY DEF ResolveAttestation, history
  <1>2. attestations \in Seq(Attestations) /\ attestations[a] \in Attestations
    BY DEF TInv, AttestationsOK
  <1>3. /\ x.claim = attestations[a].claim /\ x.key = attestations[a].key
        /\ x.stance = attestations[a].stance /\ x.digest = attestations[a].digest
    BY <1>2 DEF Attestations
  <1> HIDE DEF x
  <1>4. /\ DOMAIN attestations' = DOMAIN attestations
        /\ \A b \in DOMAIN attestations :
              /\ attestations'[b].claim = attestations[b].claim
              /\ attestations'[b].key = attestations[b].key
              /\ attestations'[b].stance = attestations[b].stance
              /\ attestations'[b].digest = attestations[b].digest
    BY <1>1, <1>3
  <1> QED
    BY <1>1, <1>4 DEF ObservedInv, RecordOf

\* The queue and the summary show an open contradiction of the content of now.
LEMMA ContradictionShown ==
    ASSUME NEW a \in DOMAIN attestations, NEW c \in Claims,
           attestations[a].claim = c, attestations[a].stance = "contradict",
           attestations[a].verdict = None, IsLive(claims, life, c),
           attestations[a].digest = claims[c].props
    PROVE  c \in AttestationQueue /\ Summary(c).openContradiction
  <1>1. None # "invalidated"
    BY NoneAssumption DEF Verdicts
  <1>2. a \in OpenContradictions
    BY DEF OpenContradictions
  <1>3. Summary(c).openContradiction <=>
           \E b \in DOMAIN attestations :
              /\ attestations[b].claim = c /\ attestations[b].digest = claims[c].props
              /\ attestations[b].verdict # "invalidated"
              /\ attestations[b].stance = "contradict" /\ attestations[b].verdict = None
    BY DEF Summary
  <1> QED
    BY <1>1, <1>2, <1>3 DEF AttestationQueue

\* service_attest: what an observer was told is on record is there, once, as it
\* was said and about the content that was seen, however often the call is
\* retried; and while a contradiction is unanswered and its claim live with
\* that content, the queue and the claim's summary show it.
THEOREM ObservationsKept == Spec => []ObservationsStand
  <1>1. Init => ObservedInv
    BY DEF Init, ObservedInv
  <1>2. ASSUME TInv, ObservedInv, [Next]_vars PROVE ObservedInv'
    <2>1. CASE UNCHANGED <<attestations, acks>>
      BY <1>2, <2>1 DEF ObservedInv
    <2>2. UNCHANGED vars => UNCHANGED <<attestations, acks>>
      BY DEF vars
    <2> QED
      BY <1>2, <2>1, <2>2, ObservationsFrame, AttestObserved, ReplayObserved, ResolveObserved
  <1>3. ASSUME ObservedInv PROVE ObservationsStand
    <2> SUFFICES ASSUME NEW k \in acks
                 PROVE  \E a \in DOMAIN attestations :
                    /\ {b \in DOMAIN attestations :
                           attestations[b].claim = k.claim /\ attestations[b].key = k.key} = {a}
                    /\ attestations[a].stance = k.stance /\ attestations[a].digest = k.content
                    /\ ( /\ k.stance = "contradict" /\ attestations[a].verdict = None
                         /\ IsLive(claims, life, k.claim) /\ claims[k.claim].props = k.content )
                       => k.claim \in AttestationQueue /\ Summary(k.claim).openContradiction
      BY DEF ObservationsStand
    <2>1. k.claim \in Claims /\ k.key # None
      BY <1>3 DEF ObservedInv
    <2>2. PICK a \in DOMAIN attestations :
             /\ attestations[a].claim = k.claim /\ attestations[a].key = k.key
             /\ attestations[a].stance = k.stance /\ attestations[a].digest = k.content
      BY <1>3 DEF ObservedInv, RecordOf
    <2>3. \A b \in DOMAIN attestations :
             attestations[b].claim = k.claim /\ attestations[b].key = k.key => b = a
      BY <1>3, <2>1, <2>2 DEF ObservedInv
    <2>4. {b \in DOMAIN attestations :
              attestations[b].claim = k.claim /\ attestations[b].key = k.key} = {a}
      BY <2>2, <2>3
    <2>5. ( /\ k.stance = "contradict" /\ attestations[a].verdict = None
            /\ IsLive(claims, life, k.claim) /\ claims[k.claim].props = k.content )
          => k.claim \in AttestationQueue /\ Summary(k.claim).openContradiction
      BY <2>1, <2>2, ContradictionShown
    <2> QED
      BY <2>2, <2>4, <2>5
  <1> QED
    BY <1>1, <1>2, <1>3, Types, PTL DEF Spec

-----------------------------------------------------------------------------
(* Chains of superseded nodes. *)

\* Among N, supersededBy leads from settled nodes only and never back.
Chained(f, N) ==
    /\ \A n \in N : f[n].supersededBy # None => f[n].status = "superseded"
    /\ \A S \in (SUBSET N) \ {{}} : \E n \in S : f[n].supersededBy \notin S

\* Pointers are kept or dropped: no way back appears.
LEMMA PointersDropped ==
    ASSUME NEW f, NEW g, NEW N \in SUBSET Nodes, Chained(f, N),
           \A n \in N : g[n] = f[n] \/ g[n].supersededBy = None
    PROVE  Chained(g, N)
  <1>1. None \notin N
    BY NoneAssumption
  <1>2. ASSUME NEW S \in (SUBSET N) \ {{}} PROVE \E n \in S : g[n].supersededBy \notin S
    <2>1. PICK n \in S : f[n].supersededBy \notin S
      BY DEF Chained
    <2> QED
      BY <1>1, <2>1
  <1> QED
    BY <1>2 DEF Chained

\* A node that was not settled is pointed to one that is not settled either:
\* the chain ends there.
LEMMA PointerSet ==
    ASSUME NEW f, NEW g, NEW N \in SUBSET Nodes, Chained(f, N), NEW a \in N, NEW b \in N,
           a # b, f[b].status # "superseded",
           g[b].supersededBy = f[b].supersededBy,
           g[a].supersededBy = b, g[a].status = "superseded",
           \A n \in N : n # a /\ n # b => g[n] = f[n]
    PROVE  Chained(g, N)
  <1>1. None \notin N
    BY NoneAssumption
  <1>2. g[b].supersededBy = None
    BY DEF Chained
  <1>3. ASSUME NEW S \in (SUBSET N) \ {{}} PROVE \E n \in S : g[n].supersededBy \notin S
    <2>1. CASE b \in S
      BY <1>1, <1>2, <2>1
    <2>2. CASE b \notin S
      <3>1. PICK n \in S : f[n].supersededBy \notin S
        BY DEF Chained
      <3> QED
        BY <2>2, <3>1
    <2> QED
      BY <2>1, <2>2
  <1>4. \A n \in N : g[n].supersededBy # None => g[n].status = "superseded"
    BY <1>2 DEF Chained
  <1> QED
    BY <1>3, <1>4 DEF Chained

\* A step that leaves the lifecycle of N alone or makes it anew.
LEMMA ChainsKept ==
    ASSUME NEW N \in SUBSET Nodes, Chained(life, N),
           \A n \in N : life'[n] = life[n] \/ life'[n] = Fresh(n)
    PROVE  Chained(life', N)
  <1>1. \A n \in N : life'[n] = life[n] \/ life'[n].supersededBy = None
    BY FreshType
  <1> QED
    BY <1>1, PointersDropped

\* The lifecycle verbs, on claims and entities alike.
LEMMA VerbsChained ==
    ASSUME TInv, NEW N \in {Nodes, Entities}, Chained(life, N),
           \/ \E a, b \in Nodes : Supersede(a, b)
           \/ \E n \in Nodes : Settle(n)
           \/ \E e \in Entities : ReviveEntity(e)
    PROVE  Chained(life', N)
  <1>1. N \in SUBSET Nodes
    BY DEF Nodes
  <1>2. ASSUME NEW a \in Nodes, NEW b \in Nodes, Supersede(a, b) PROVE Chained(life', N)
    <2>1. /\ a # b /\ (a \in Claims <=> b \in Claims)
          /\ life[a].status # "superseded" /\ life[b].status # "superseded"
          /\ life'[b].supersededBy = life[b].supersededBy /\ life'[b].status = life[b].status
          /\ life'[a].supersededBy = b /\ life'[a].status = "superseded"
          /\ \A n \in Nodes : n # a /\ n # b => life'[n] = life[n]
      BY <1>2, SupersedeStep
    <2>2. CASE a \in N /\ b \in N
      BY <1>1, <2>1, <2>2, PointerSet
    <2>3. CASE ~(a \in N /\ b \in N)
      <3>1. a \notin N /\ b \notin N
        BY <2>1, <2>3, NodesAssumption DEF Nodes
      <3>2. \A n \in N : life'[n] = life[n]
        BY <1>1, <2>1, <3>1
      <3> QED
        BY <1>1, <3>2, PointersDropped
    <2> QED
      BY <2>2, <2>3
  <1>3. ASSUME NEW n \in Nodes, Settle(n) PROVE Chained(life', N)
    <2>1. /\ life[n].status # "superseded"
          /\ life'[n].supersededBy = life[n].supersededBy
          /\ \A m \in Nodes : m # n => life'[m] = life[m]
      BY <1>3, SettleStep
    <2>2. n \in N => life'[n].supersededBy = None
      BY <2>1 DEF Chained
    <2>3. \A m \in N : life'[m] = life[m] \/ life'[m].supersededBy = None
      BY <1>1, <2>1, <2>2
    <2> QED
      BY <1>1, <2>3, PointersDropped
  <1>4. ASSUME NEW e \in Entities, ReviveEntity(e) PROVE Chained(life', N)
    BY <1>1, <1>4, ReviveStep, ChainsKept
  <1> QED
    BY <1>2, <1>3, <1>4

\* A write of a claim moves no entity, and a claim's pointer only to none or to
\* the one that the writer has loaded.
LEMMA WritesChained ==
    ASSUME TInv, NEW N \in {Nodes, Entities}, Chained(life, N), NEW rows, NEW f,
           RowsOK(rows), LivesOK(f), (\E d \in Claims : d \in N) => f = life, NEW c \in Claims,
           NEW updates \in Updates, NEW pending \in BOOLEAN,
           NEW status \in FreeStatuses \cup {None},
           WriteClaim(rows, f, c, updates, pending, status)
    PROVE  Chained(life', N)
  <1>1. N \in SUBSET Nodes /\ c \notin Entities
    BY NodesAssumption DEF Nodes
  <1>2. /\ \A n \in Nodes : n # c => life'[n] = life[n]
        /\ life'[c] = f[c] \/ life'[c].supersededBy = None
    BY WriteClaimStep
  <1>3. \A n \in N : life'[n] = life[n] \/ life'[n].supersededBy = None
    BY <1>1, <1>2
  <1> QED
    BY <1>1, <1>3, PointersDropped

\* A batch of verdicts moves no entity, and writes back what was loaded.
LEMMA FeedbackChained ==
    ASSUME TInv, NEW N \in {Nodes, Entities}, Chained(life, N), Judge,
           \A p \in Processes : view[p] # None /\ (\E d \in Claims : d \in N) => view[p].life = life
    PROVE  Chained(life', N)
  <1>1. PICK p \in Processes, judged \in (SUBSET Claims) \ {{}} :
           \E acts \in [judged -> Actions] :
              \E corrections \in IF \E c \in judged : acts[c] = "correct" THEN Updates ELSE {<<>>} :
                 Feedback(p, acts, corrections)
    BY DEF Judge
  <1>2. PICK acts \in [judged -> Actions] :
           \E corrections \in IF \E c \in judged : acts[c] = "correct" THEN Updates ELSE {<<>>} :
              Feedback(p, acts, corrections)
    BY <1>1
  <1>3. PICK corrections : /\ (\E c \in judged : acts[c] = "correct") => corrections \in Updates
                           /\ Feedback(p, acts, corrections)
    BY <1>2
  <1>4. judged \in SUBSET Claims
    BY <1>1
  <1>5. /\ view[p] # None
        /\ \A n \in Nodes : life'[n] = life[n] \/ (n \in Claims /\ life'[n] = view[p].life[n])
    BY <1>3, <1>4, FeedbackStep
  <1>6. N \in SUBSET Nodes /\ Claims \cap Entities = {}
    BY NodesAssumption DEF Nodes
  <1>7. \A n \in N : life'[n] = life[n]
    BY <1>5, <1>6
  <1> QED
    BY <1>6, <1>7, PointersDropped

\* Every step keeps the chains, those of claims where what was loaded is stored.
LEMMA NextChained ==
    ASSUME TInv, [Next]_vars, NEW N \in {Nodes, Entities}, Chained(life, N),
           \A p \in Processes : view[p] # None /\ (\E d \in Claims : d \in N) => view[p].life = life
    PROVE  Chained(life', N)
  <1>1. N \in SUBSET Nodes
    BY DEF Nodes
  <1>2. life' = life => Chained(life', N)
    OBVIOUS
  <1>3. CASE Write
    <2>1. PICK c \in Claims, updates \in Updates, pending \in BOOLEAN,
               status \in FreeStatuses \cup {None} :
             \/ \E p \in Processes : AddRelationship(p, c, updates, pending, status)
             \/ BatchDirectWrite(c, updates, pending, status)
      BY <1>3 DEF Write
    <2>2. CASE BatchDirectWrite(c, updates, pending, status)
      BY <2>2, WritesChained DEF BatchDirectWrite, TInv
    <2>3. ASSUME NEW p \in Processes, AddRelationship(p, c, updates, pending, status)
          PROVE  Chained(life', N)
      <3>1. /\ WriteClaim(view[p].claims, view[p].life, c, updates, pending, status)
            /\ view[p] # None
        BY <2>3 DEF AddRelationship
      <3>2. RowsOK(view[p].claims) /\ LivesOK(view[p].life)
        BY <3>1 DEF TInv, ViewsOK
      <3>3. (\E d \in Claims : d \in N) => view[p].life = life
        BY <3>1
      <3> QED
        BY <3>1, <3>2, <3>3, WritesChained
    <2> QED
      BY <2>1, <2>2, <2>3
  <1>4. ASSUME NEW c \in Claims, NEW updates \in Updates, WorkflowApply(c, updates)
        PROVE  Chained(life', N)
    BY <1>4, WritesChained DEF WorkflowApply, TInv
  <1>5. ASSUME NEW p \in Processes, LoadGraph(p) \/ Abandon(p) PROVE Chained(life', N)
    BY <1>2, <1>5 DEF LoadGraph, Abandon
  <1>6. ASSUME NEW g \in Groups, NEW c \in Claims, NEW props \in Offered(c),
               ApproveGroup(g, c, props)
        PROVE  Chained(life', N)
    BY <1>1, <1>6, ApproveStep, ChainsKept
  <1>7. ASSUME NEW c \in Claims, NEW stance \in Stances, NEW props \in Offered(c),
               NEW key \in Keys \cup {None}, Attest(c, stance, props, key)
        PROVE  Chained(life', N)
    BY <1>1, <1>7, AttestStep, ChainsKept
  <1>12. ASSUME NEW c, NEW stance, NEW key, ReplayAttest(c, stance, key)
         PROVE  Chained(life', N)
    BY <1>2, <1>12 DEF ReplayAttest
  <1>8. ASSUME NEW a \in DOMAIN attestations, NEW verdict \in Verdicts,
               ResolveAttestation(a, verdict)
        PROVE  Chained(life', N)
    BY <1>2, <1>8 DEF ResolveAttestation
  <1>9. UNCHANGED vars => Chained(life', N)
    BY <1>2 DEF vars
  <1>10. CASE Judge
    BY <1>10, FeedbackChained
  <1>11. CASE \/ \E a, b \in Nodes : Supersede(a, b)
              \/ \E n \in Nodes : Settle(n)
              \/ \E e \in Entities : ReviveEntity(e)
    BY <1>11, VerbsChained
  <1> QED
    BY <1>3, <1>4, <1>5, <1>6, <1>7, <1>8, <1>9, <1>10, <1>11, <1>12 DEF Next

\* Nobody has superseded anybody yet.
LEMMA InitChained ==
    ASSUME Init, NEW N \in SUBSET Nodes
    PROVE  Chained(life, N)
  <1>1. \A n \in N : life[n].supersededBy = None
    BY FreshType DEF Init
  <1>2. None \notin N
    BY NoneAssumption
  <1> QED
    BY <1>1, <1>2 DEF Chained

EntityChains == Chained(life, Entities)

\* The chains of superseded entities end, for any number of processes: only the
\* lifecycle verbs and whole writes of the entity move its pointers
\* (service/artifact_lifecycle.py).
THEOREM EntityChainsEnd == Spec => []EntityChains
  <1>1. Init => EntityChains
    BY InitChained DEF EntityChains, Nodes
  <1>2. TInv /\ EntityChains /\ [Next]_vars => EntityChains'
    <2> SUFFICES ASSUME TInv, EntityChains, [Next]_vars PROVE Chained(life', Entities)
      BY DEF EntityChains
    <2>1. ~\E d \in Claims : d \in Entities
      BY NodesAssumption
    <2> QED
      BY <2>1, NextChained DEF EntityChains
  <1> QED
    BY <1>1, <1>2, Types, PTL DEF Spec

-----------------------------------------------------------------------------
(* One process: what it has loaded is what is stored. *)

\* No two processes work on the instance.
Solo == \A p, q \in Processes : p = q

ViewFresh ==
    \A p \in Processes : view[p] # None => view[p].claims = claims /\ view[p].life = life

\* The properties that a process has changed since the approval.
Divergence(content, props) == {p \in Props : props[p] # content[p]}

\* The marker that names them.
Marker(content, props) ==
    IF Divergence(content, props) = {} THEN None
    ELSE Restrict(content, Divergence(content, props))

\* A row as its history has it: the drift marker, and the review.
Drifts(row, content) ==
    content # None => row # None /\ row.group # None /\ row.drift = Marker(content, row.props)
Heeds(row, decision) ==
    row # None => /\ row.review = decision.review /\ row.by = decision.by
                  /\ row.review = "pending" => row.props = decision.props

ClaimsHeard == \A c \in Claims : Drifts(claims[c], approved[c]) /\ Heeds(claims[c], word[c])

SoloInv == TInv /\ ViewFresh /\ Chained(life, Nodes) /\ ClaimsHeard

\* stamp_group_approval_drift: a write moves an exact marker to the exact marker.
LEMMA DriftExact ==
    ASSUME NEW old \in ClaimRows, NEW new \in Contents, NEW content \in Contents,
           old.group # None, old.drift = Marker(content, old.props)
    PROVE  DriftAfter(old, new) = Marker(content, new)
  <1> DEFINE D == Divergence(content, old.props)
             changed == {p \in Props : new[p] # old.props[p]}
             carried == IF old.drift = None THEN {} ELSE DOMAIN old.drift
             baseline == [p \in changed \cup carried |->
                             IF p \in carried THEN old.drift[p] ELSE old.props[p]]
             divergent == {p \in DOMAIN baseline : new[p] # baseline[p]}
  <1>1. /\ old.props \in [Props -> Values \cup {None}] /\ new \in [Props -> Values \cup {None}]
        /\ content \in [Props -> Values \cup {None}]
    BY DEF ClaimRows, Contents
  <1>2. D \in SUBSET Props
    BY DEF Divergence
  <1>3. D # {} => Restrict(content, D) # None
    <2> SUFFICES ASSUME D # {} PROVE Restrict(content, D) \in Markers
      BY AbsenceAssumption
    <2> HIDE DEF D
    <2>1. Restrict(content, D) \in [D -> Values \cup {None}]
      BY <1>1, <1>2 DEF Restrict
    <2>2. DOMAIN Restrict(content, D) # {}
      BY DEF Restrict
    <2> QED
      BY <1>2, <2>1, <2>2 DEF Markers
  <1>4. carried = D /\ \A p \in D : old.drift[p] = content[p]
    <2>1. CASE D = {}
      BY <2>1 DEF Marker
    <2>2. CASE D # {}
      <3>1. old.drift = Restrict(content, D) /\ old.drift # None
        BY <1>3, <2>2 DEF Marker
      <3> HIDE DEF D
      <3>2. DOMAIN old.drift = D /\ \A p \in D : old.drift[p] = content[p]
        BY <3>1 DEF Restrict
      <3> QED
        BY <3>1, <3>2
    <2> QED
      BY <2>1, <2>2
  <1>5. \A p \in Props : p \notin D => old.props[p] = content[p]
    BY DEF Divergence
  <1>6. \A p \in changed \cup carried : baseline[p] = content[p]
    BY <1>2, <1>4, <1>5
  <1>7. divergent = Divergence(content, new)
    <2>1. divergent \subseteq Divergence(content, new)
      BY <1>2, <1>4, <1>6 DEF Divergence
    <2>2. ASSUME NEW p \in Divergence(content, new) PROVE p \in divergent
      <3>1. p \in Props /\ new[p] # content[p]
        BY DEF Divergence
      <3>2. p \in changed \cup carried
        BY <1>4, <1>5, <3>1
      <3> QED
        BY <1>6, <3>1, <3>2
    <2> QED
      BY <2>1, <2>2
  <1>8. DriftAfter(old, new) =
           IF changed = {} THEN old.drift
           ELSE IF divergent = {} THEN None ELSE Restrict(baseline, divergent)
    BY DEF DriftAfter
  <1>9. CASE changed = {}
    <2>1. new = old.props
      BY <1>1, <1>9
    <2> QED
      BY <1>8, <1>9, <2>1
  <1>10. CASE changed # {}
    <2>1. Restrict(baseline, divergent) = Restrict(content, divergent)
      <3>1. \A p \in divergent : baseline[p] = content[p]
        BY <1>6
      <3> HIDE DEF baseline, divergent
      <3> QED
        BY <3>1 DEF Restrict
    <2> HIDE DEF divergent, baseline, changed
    <2> QED
      BY <1>7, <1>8, <1>10, <2>1 DEF Marker
  <1> QED
    BY <1>9, <1>10

\* An approved content is its own baseline.
LEMMA NoDivergence ==
    ASSUME NEW content
    PROVE  Marker(content, content) = None
  BY DEF Marker, Divergence

\* A write of a claim on the stored rows leaves it as its history has it.
LEMMA WriteHeard ==
    ASSUME TInv, ClaimsHeard, NEW c \in Claims, NEW updates \in Updates,
           NEW pending \in BOOLEAN, NEW status \in FreeStatuses \cup {None},
           WriteClaim(claims, life, c, updates, pending, status)
    PROVE  ClaimsHeard'
  <1>1. RowsOK(claims) /\ LivesOK(life) /\ HistoryOK
    BY DEF TInv
  <1>2. /\ \A d \in Claims : d # c => claims'[d] = claims[d] /\ word'[d] = word[d]
        /\ claims[c] = None =>
              /\ claims'[c].review = word'[c].review /\ claims'[c].by = word'[c].by
              /\ claims'[c].review = "pending" => claims'[c].props = word'[c].props
        /\ claims[c] # None =>
              /\ claims'[c] = UpdatedRow(claims[c], updates) /\ word' = word
              /\ claims[c].review # "pending"
        /\ claims'[c] # None
        /\ approved' = approved
    BY <1>1, WriteClaimStep
  <1>3. Drifts(claims[c], approved[c]) /\ Heeds(claims[c], word[c])
    BY DEF ClaimsHeard
  <1>4. Drifts(claims'[c], approved'[c]) /\ Heeds(claims'[c], word'[c])
    <2>1. CASE claims[c] = None
      BY <1>2, <1>3, <2>1 DEF Drifts, Heeds
    <2>2. CASE claims[c] # None
      <3> DEFINE old == claims[c]
                 row == UpdatedRow(old, updates)
      <3>1. old \in ClaimRows /\ (old.drift # None => old.group # None)
        BY <1>1, <2>2 DEF RowsOK
      <3>2. /\ row \in ClaimRows
            /\ row.review = old.review /\ row.by = old.by /\ row.group = old.group
            /\ row.drift = DriftAfter(old, row.props)
        BY <3>1, UpdatedRowType
      <3>3. claims'[c] = row /\ word'[c] = word[c] /\ approved'[c] = approved[c]
            /\ old.review # "pending" /\ row # None
        BY <1>2, <2>2
      <3> HIDE DEF row, old
      <3>4. Heeds(claims'[c], word'[c])
        BY <1>3, <2>2, <3>2, <3>3 DEF Heeds, old
      <3>5. ASSUME approved[c] # None PROVE row.drift = Marker(approved[c], row.props)
        <4>1. approved[c] \in Contents /\ row.props \in Contents
          BY <1>1, <3>2, <3>5 DEF HistoryOK, ClaimRows
        <4>2. old.group # None /\ old.drift = Marker(approved[c], old.props)
          BY <1>3, <3>5 DEF Drifts, old
        <4> QED
          BY <3>1, <3>2, <4>1, <4>2, DriftExact
      <3>6. approved[c] # None => old.group # None
        BY <1>3 DEF Drifts, old
      <3> QED
        BY <3>2, <3>3, <3>4, <3>5, <3>6 DEF Drifts
    <2> QED
      BY <2>1, <2>2
  <1>5. \A d \in Claims : d # c => Drifts(claims'[d], approved'[d]) /\ Heeds(claims'[d], word'[d])
    BY <1>2 DEF ClaimsHeard
  <1> QED
    BY <1>4, <1>5 DEF ClaimsHeard

\* A batch of verdicts on the stored rows: only a correction ends an approval.
LEMMA FeedbackHeard ==
    ASSUME TInv, ViewFresh, ClaimsHeard, Judge
    PROVE  ClaimsHeard'
  <1>1. PICK p \in Processes, judged \in (SUBSET Claims) \ {{}} :
           \E acts \in [judged -> Actions] :
              \E corrections \in IF \E c \in judged : acts[c] = "correct" THEN Updates ELSE {<<>>} :
                 Feedback(p, acts, corrections)
    BY DEF Judge
  <1>2. PICK acts \in [judged -> Actions] :
           \E corrections \in IF \E c \in judged : acts[c] = "correct" THEN Updates ELSE {<<>>} :
              Feedback(p, acts, corrections)
    BY <1>1
  <1>3. PICK corrections : /\ (\E c \in judged : acts[c] = "correct") => corrections \in Updates
                           /\ Feedback(p, acts, corrections)
    BY <1>2
  <1>4. judged \in SUBSET Claims
    BY <1>1
  <1>5. /\ view[p] # None
        /\ \A c \in Claims :
              \/ claims'[c] = claims[c] /\ word'[c] = word[c] /\ approved'[c] = approved[c]
              \/ /\ claims'[c] # None /\ view[p].claims[c] # None
                 /\ claims'[c].review = word'[c].review /\ claims'[c].by = word'[c].by
                 /\ claims'[c].review # "pending"
                 /\ claims'[c].drift = view[p].claims[c].drift
                 /\ claims'[c].group = view[p].claims[c].group
                 /\ \/ approved'[c] = None
                    \/ /\ approved'[c] = approved[c]
                       /\ claims'[c].props = view[p].claims[c].props
    BY <1>3, <1>4, FeedbackStep
  <1>6. view[p].claims = claims
    BY <1>5 DEF ViewFresh
  <1>7. ASSUME NEW c \in Claims
        PROVE  Drifts(claims'[c], approved'[c]) /\ Heeds(claims'[c], word'[c])
    <2>1. Drifts(claims[c], approved[c]) /\ Heeds(claims[c], word[c])
      BY DEF ClaimsHeard
    <2> QED
      BY <1>5, <1>6, <2>1 DEF Drifts, Heeds
  <1> QED
    BY <1>7 DEF ClaimsHeard

\* An approval, or an attestation that makes its claim.
LEMMA ApproveHeard ==
    ASSUME TInv, ClaimsHeard, NEW c \in Claims, NEW props \in Offered(c),
           \/ \E g \in Groups : ApproveGroup(g, c, props)
           \/ \E stance \in Stances, key \in Keys \cup {None} : Attest(c, stance, props, key)
    PROVE  ClaimsHeard'
  <1>1. Drifts(claims[c], approved[c]) /\ Heeds(claims[c], word[c])
    BY DEF ClaimsHeard
  <1>2. ASSUME NEW g \in Groups, ApproveGroup(g, c, props) PROVE ClaimsHeard'
    <2>1. /\ \A d \in Claims : d # c => /\ claims'[d] = claims[d] /\ word'[d] = word[d]
                                        /\ approved'[d] = approved[d]
          /\ claims'[c] # None
          /\ claims'[c].review = word'[c].review /\ claims'[c].by = word'[c].by
          /\ claims'[c].review # "pending"
          /\ claims'[c].drift = None /\ approved'[c] = claims'[c].props
          /\ claims'[c].group # None
      BY <1>2, ApproveStep
    <2>2. Drifts(claims'[c], approved'[c]) /\ Heeds(claims'[c], word'[c])
      BY <2>1, NoDivergence DEF Drifts, Heeds
    <2> QED
      BY <2>1, <2>2 DEF ClaimsHeard
  <1>3. ASSUME NEW stance \in Stances, NEW key \in Keys \cup {None},
               Attest(c, stance, props, key)
        PROVE  ClaimsHeard'
    <2>1. /\ approved' = approved
          /\ \A d \in Claims : d # c => claims'[d] = claims[d] /\ word'[d] = word[d]
          /\ claims'[c] # None
          /\ claims[c] # None => claims' = claims /\ word' = word
          /\ claims[c] = None =>
                /\ claims'[c].review = word'[c].review /\ claims'[c].by = word'[c].by
                /\ claims'[c].review = "pending" => claims'[c].props = word'[c].props
      BY <1>3, AttestStep
    <2>2. Drifts(claims'[c], approved'[c]) /\ Heeds(claims'[c], word'[c])
      BY <1>1, <2>1 DEF Drifts, Heeds
    <2> QED
      BY <2>1, <2>2 DEF ClaimsHeard
  <1> QED
    BY <1>2, <1>3

\* With one process every step leaves the claims as their histories have them.
LEMMA NextHeard ==
    ASSUME SoloInv, [Next]_vars
    PROVE  ClaimsHeard'
  <1>1. TInv /\ ViewFresh /\ ClaimsHeard
    BY DEF SoloInv
  <1>2. ASSUME UNCHANGED <<claims, approved, word>> PROVE ClaimsHeard'
    BY <1>1, <1>2 DEF ClaimsHeard
  <1>3. CASE Write
    <2>1. PICK c \in Claims, updates \in Updates, pending \in BOOLEAN,
               status \in FreeStatuses \cup {None} :
             \/ \E p \in Processes : AddRelationship(p, c, updates, pending, status)
             \/ BatchDirectWrite(c, updates, pending, status)
      BY <1>3 DEF Write
    <2>2. WriteClaim(claims, life, c, updates, pending, status)
      BY <1>1, <2>1 DEF BatchDirectWrite, AddRelationship, ViewFresh
    <2> QED
      BY <1>1, <2>2, WriteHeard
  <1>4. ASSUME NEW c \in Claims, NEW updates \in Updates, WorkflowApply(c, updates)
        PROVE  ClaimsHeard'
    BY <1>1, <1>4, WriteHeard DEF WorkflowApply
  <1>5. ASSUME NEW p \in Processes, LoadGraph(p) \/ Abandon(p) PROVE ClaimsHeard'
    BY <1>2, <1>5 DEF LoadGraph, Abandon, history
  <1>6. ASSUME NEW c \in Claims, NEW props \in Offered(c),
               \/ \E g \in Groups : ApproveGroup(g, c, props)
               \/ \E stance \in Stances, key \in Keys \cup {None} : Attest(c, stance, props, key)
        PROVE  ClaimsHeard'
    BY <1>1, <1>6, ApproveHeard
  <1>11. ASSUME NEW c, NEW stance, NEW key, ReplayAttest(c, stance, key) PROVE ClaimsHeard'
    BY <1>2, <1>11 DEF ReplayAttest
  <1>7. ASSUME NEW a, NEW verdict, ResolveAttestation(a, verdict) PROVE ClaimsHeard'
    BY <1>2, <1>7 DEF ResolveAttestation, history
  <1>8. UNCHANGED vars => ClaimsHeard'
    BY <1>2 DEF vars
  <1>9. CASE Judge
    BY <1>1, <1>9, FeedbackHeard
  <1>10. CASE \/ \E a, b \in Nodes : Supersede(a, b)
              \/ \E n \in Nodes : Settle(n)
              \/ \E e \in Entities : ReviveEntity(e)
    BY <1>2, <1>10, LifecycleFrame
  <1> QED
    BY <1>3, <1>4, <1>5, <1>6, <1>7, <1>8, <1>9, <1>10, <1>11 DEF Next

\* With one process what was loaded stays what is stored: between loading and
\* writing back the process does nothing else.
LEMMA NextFresh ==
    ASSUME Solo, SoloInv, [Next]_vars
    PROVE  ViewFresh'
  <1>1. view \in [Processes -> {None} \cup Views]
    BY DEF SoloInv, TInv, ViewsOK
  <1>2. ASSUME UNCHANGED <<view, claims, life>> PROVE ViewFresh'
    BY <1>2 DEF SoloInv, ViewFresh
  <1>3. ASSUME NEW p \in Processes, view' = [view EXCEPT ![p] = None] PROVE ViewFresh'
    <2>1. \A q \in Processes : view'[q] = None
      BY <1>1, <1>3 DEF Solo
    <2> QED
      BY <2>1 DEF ViewFresh
  <1>4. ASSUME \E p \in Processes : view[p] = None, UNCHANGED view PROVE ViewFresh'
    <2>1. \A q \in Processes : view[q] = None
      BY <1>4 DEF Solo
    <2> QED
      BY <1>4, <2>1 DEF ViewFresh
  <1>5. ASSUME NEW p \in Processes, LoadGraph(p) PROVE ViewFresh'
    <2>1. view' = [view EXCEPT ![p] = [claims |-> claims, life |-> life]]
          /\ claims' = claims /\ life' = life
      BY <1>5 DEF LoadGraph
    <2>2. \A q \in Processes : view'[q] = [claims |-> claims, life |-> life]
      BY <1>1, <2>1 DEF Solo
    <2> QED
      BY <2>1, <2>2 DEF ViewFresh
  <1>6. ASSUME NEW p \in Processes, Abandon(p) PROVE ViewFresh'
    BY <1>3, <1>6 DEF Abandon
  <1>7. CASE Write
    BY <1>3, <1>4, <1>7 DEF Write, AddRelationship, BatchDirectWrite
  <1>8. CASE Judge
    <2>1. PICK p \in Processes : \E acts, corrections : Feedback(p, acts, corrections)
      BY <1>8 DEF Judge
    <2>2. view' = [view EXCEPT ![p] = None]
      BY <2>1 DEF Feedback
    <2> QED
      BY <1>3, <2>2
  <1>9. CASE UNCHANGED vars
    BY <1>2, <1>9 DEF vars
  <1>10. CASE /\ \E p \in Processes : view[p] = None
              /\ \/ \E c \in Claims, updates \in Updates : WorkflowApply(c, updates)
                 \/ \E g \in Groups, c \in Claims :
                       \E props \in Offered(c) : ApproveGroup(g, c, props)
                 \/ \E a, b \in Nodes : Supersede(a, b)
                 \/ \E n \in Nodes : Settle(n)
                 \/ \E e \in Entities : ReviveEntity(e)
                 \/ \E c \in Claims, stance \in Stances, key \in Keys \cup {None} :
                       \/ \E props \in Offered(c) : Attest(c, stance, props, key)
                       \/ ReplayAttest(c, stance, key)
                 \/ \E a \in DOMAIN attestations, verdict \in Verdicts :
                       ResolveAttestation(a, verdict)
    <2>2. ASSUME NEW c, NEW updates, WorkflowApply(c, updates) PROVE view' = view
      BY <2>2 DEF WorkflowApply
    <2>3. ASSUME NEW g, NEW c, NEW props, ApproveGroup(g, c, props) PROVE view' = view
      BY <2>3 DEF ApproveGroup
    <2>4. ASSUME NEW c, NEW stance, NEW props, NEW key,
                 Attest(c, stance, props, key) \/ ReplayAttest(c, stance, key)
          PROVE  view' = view
      BY <2>4 DEF Attest, ReplayAttest
    <2>5. ASSUME NEW a, NEW b,
                 Supersede(a, b) \/ Settle(a) \/ ReviveEntity(a) \/ ResolveAttestation(a, b)
          PROVE  view' = view
      BY <2>5 DEF Supersede, Settle, ReviveEntity, ResolveAttestation
    <2>1. view' = view
      BY <1>10, <2>2, <2>3, <2>4, <2>5
    <2> QED
      BY <1>4, <1>10, <2>1
  <1> QED
    BY <1>5, <1>6, <1>7, <1>8, <1>9, <1>10 DEF Next

\* With one process SoloInv is an invariant.
THEOREM SoloInvariance == Solo => (Spec => []SoloInv)
  <1> SUFFICES ASSUME Solo PROVE Spec => []SoloInv
    OBVIOUS
  <1>1. Init => SoloInv
    <2> SUFFICES ASSUME Init PROVE SoloInv
      OBVIOUS
    <2>1. TInv /\ Chained(life, Nodes)
      BY InitTypes, InitChained
    <2>2. ViewFresh /\ ClaimsHeard
      BY DEF Init, ViewFresh, ClaimsHeard, Drifts, Heeds
    <2> QED
      BY <2>1, <2>2 DEF SoloInv
  <1>2. SoloInv /\ [Next]_vars => SoloInv'
    <2> SUFFICES ASSUME SoloInv, [Next]_vars PROVE SoloInv'
      OBVIOUS
    <2>1. Chained(life', Nodes)
      BY NextChained DEF SoloInv, ViewFresh
    <2>2. (Chained(life, Nodes))'
      BY <2>1 DEF Chained
    <2>3. TInv' /\ ViewFresh' /\ ClaimsHeard'
      BY NextTypes, NextFresh, NextHeard DEF SoloInv
    <2> QED
      BY <2>2, <2>3 DEF SoloInv
  <1> QED
    BY <1>1, <1>2, PTL DEF Spec

\* With one process supersession never leads back, among claims and entities
\* (service/artifact_lifecycle.py).
THEOREM ChainsEnd == Solo => (Spec => []SupersessionAcyclic)
  <1>1. SoloInv => SupersessionAcyclic
    BY DEF SoloInv, Chained, SupersessionAcyclic
  <1> QED
    BY <1>1, SoloInvariance, PTL

\* With one process the marker of a group-approved claim is exactly its
\* divergence from what the group approved (graph/group_drift.py).
THEOREM MarkerExact == Solo => (Spec => []DriftIsDivergence)
  <1>1. SoloInv => DriftIsDivergence
    BY DEF SoloInv, ClaimsHeard, Drifts, Marker, Divergence, DriftIsDivergence
  <1> QED
    BY <1>1, SoloInvariance, PTL

\* With one process the review of a claim is its latest review decision, and a
\* proposal still has the content that was proposed (apply_relationship).
THEOREM LastWordStands == Solo => (Spec => []ReviewIsLastWord)
  <1>1. SoloInv => ReviewIsLastWord
    BY DEF SoloInv, ClaimsHeard, Heeds, ReviewIsLastWord
  <1> QED
    BY <1>1, SoloInvariance, PTL

=============================================================================
