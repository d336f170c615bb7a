-------------------------- MODULE ProceduresProofs --------------------------
(***************************************************************************)
(* Machine-checked proofs about Procedures, for every set of procedures,   *)
(* runs, actors, configs, artifacts, graphs and definitions.               *)
(***************************************************************************)
EXTENDS Procedures, TLAPS

USE DEF READ_ONLY, GOVERNED_WRITE, GRAPH_WRITE, ADMIN

\* The absent records are well typed.
LEMMA AbsentTypes ==
    /\ AbsentProcedure \in ProcedureRecord
    /\ AbsentRun \in RunRecord
    /\ IdleInvocation \in Invocation
  BY NoneAssumption
     DEF AbsentProcedure, ProcedureRecord, Statuses, AbsentRun, RunRecord,
         IdleInvocation, Invocation, PermissionMode

\* A lifecycle transition keeps a record well typed.
LEMMA TransitionType ==
    ASSUME NEW rec \in ProcedureRecord, NEW to \in Statuses
    PROVE  transition_procedure(rec, to) \in ProcedureRecord
  <1>1. rec.version + 1 \in Nat
    BY DEF ProcedureRecord
  <1>2. \A v \in Nat : [rec EXCEPT !.status = to, !.version = v]
                           \in ProcedureRecord
    BY DEF ProcedureRecord
  <1> QED
    BY <1>1, <1>2 DEF transition_procedure

\* Finalizing a run keeps the tables well typed (finalize_run).
LEMMA FinalizeType ==
    ASSUME TypeOK, NEW r \in RunIds, NEW verdict \in Verdicts,
           NEW reason \in Reasons \cup {None},
           NEW executed \in Worlds \cup {None}, NEW evidence \in BOOLEAN,
           FinalizeRun(r, verdict, reason, executed, evidence)
    PROVE  /\ runs' \in [RunIds -> RunRecord]
           /\ invocation' \in [RunIds -> Invocation]
  <1>1. invocation[r] \in Invocation /\ calls[r] \in Nat
        /\ runs[r] \in RunRecord
    BY DEF TypeOK
  <1>2. invocation[r].seen.pins \in Worlds \cup {None}
    BY <1>1 DEF Invocation, ProcedureRecord
  <1>3. [runs[r] EXCEPT !.status = "finalized", !.verdict = verdict,
                 !.reason = reason, !.executed = executed,
                 !.accepted = invocation[r].seen.pins,
                 !.spent = calls[r], !.evidence = evidence] \in RunRecord
    BY <1>1, <1>2 DEF RunRecord
  <1>4. [invocation[r] EXCEPT !.pc = "returned"] \in Invocation
    BY <1>1 DEF Invocation
  <1> QED
    BY <1>3, <1>4 DEF TypeOK, FinalizeRun

\* What preflight loads is a world (load_config, load_lock).
LEMMA LoadedWorldType ==
    ASSUME TypeOK, NEW r \in RunIds, invocation[r].config \in Configs
    PROVE  LoadedWorld(r) \in Worlds
  BY DEF TypeOK, LoadedWorld, Worlds

-----------------------------------------------------------------------------
(* Lifecycle actions change one or two records and nothing else.  The run  *)
(* part of the invariant only looks at three columns of a procedure.       *)

\* A change of the procedure table that keeps every stored definition and
\* never takes a live procedure anywhere but to retired, with its pins,
\* preserves what runs rely on.
LEMMA RunsUnaffected ==
    ASSUME IInv,
           procedures' \in [ProcedureIds -> ProcedureRecord],
           UNCHANGED <<runs, config, lock, graph, invocation, calls>>,
           \A p \in ProcedureIds : procedures[p].status # "absent" =>
               procedures'[p].definition = procedures[p].definition,
           \A p \in ProcedureIds :
               procedures[p].status \in {"live", "retired"} =>
                   /\ procedures'[p].status \in {"live", "retired"}
                   /\ procedures'[p].pins = procedures[p].pins
    PROVE  TypeOK' /\ InvocationInv' /\ LedgerHonest'
  <1>1. TypeOK'
    BY DEF IInv, TypeOK
  <1>2. \A r \in RunIds : invocation[r].pc # "idle" =>
            /\ invocation[r].procedure \in ProcedureIds
            /\ procedures[invocation[r].procedure].status # "absent"
    BY NoneAssumption
       DEF IInv, InvocationInv, RecordInv, AbsentProcedure
  <1>3. InvocationInv'
    BY <1>2 DEF IInv, InvocationInv
  <1>4. \A r \in RunIds : runs[r].status = "finalized" =>
            /\ runs[r].procedure = invocation[r].procedure
            /\ invocation[r].pc = "returned"
            /\ runs[r].procedure \in ProcedureIds
    BY DEF IInv, InvocationInv, AbsentRun
  <1>5. LedgerHonest'
    <2> SUFFICES ASSUME NEW r \in RunIds, runs[r].status = "finalized",
                        runs[r].verdict \in Executed
                 PROVE  runs[r].executed =
                            procedures'[runs[r].procedure].pins
      BY DEF IInv, LedgerHonest
    <2>1. runs[r].executed = procedures[runs[r].procedure].pins
      BY DEF IInv, LedgerHonest
    <2> QED
      BY <1>4, <2>1 DEF IInv, LedgerHonest, InvocationInv
  <1> QED
    BY <1>1, <1>3, <1>5

-----------------------------------------------------------------------------
(* One lemma per lifecycle operation.                                      *)

\* A supersedes link names a row or nothing.
LEMMA SupersedesType ==
    ASSUME IInv
    PROVE  \A q \in ProcedureIds :
               procedures[q].supersedes \in ProcedureIds \cup {None}
  BY DEF IInv, TypeOK, ProcedureRecord

\* Proposing adds a pending record (service_propose_procedure).
LEMMA ProposeStep ==
    ASSUME IInv, NEW p \in ProcedureIds, NEW d \in Definitions,
           NEW s \in ProcedureIds \cup {None}, NEW a \in Actors,
           ProposeProcedure(p, d, s, a)
    PROVE  IInv'
  <1> DEFINE new == [status |-> "pending", version |-> 1, definition |-> d,
                     supersedes |-> s, proposer |-> a,
                     reviewer |-> None, pins |-> None]
  <1>1. procedures \in [ProcedureIds -> ProcedureRecord]
    BY DEF IInv, TypeOK
  <1>2. new \in ProcedureRecord
    BY DEF ProcedureRecord, Statuses
  <1>3. /\ procedures' \in [ProcedureIds -> ProcedureRecord]
        /\ procedures'[p] = new
        /\ \A q \in ProcedureIds : q # p => procedures'[q] = procedures[q]
    BY <1>1, <1>2 DEF ProposeProcedure
  <1>4. procedures[p].status = "absent"
    BY DEF ProposeProcedure
  <1>5. s # None => /\ s \in ProcedureIds /\ s # p
                    /\ procedures[s].status = "live"
                    /\ procedures[s].definition.name = d.name
    BY <1>4 DEF ProposeProcedure
  <1>6. TypeOK' /\ InvocationInv' /\ LedgerHonest'
    BY <1>3, <1>4, RunsUnaffected DEF ProposeProcedure
  <1>7. RecordInv'
    BY <1>3, <1>4 DEF IInv, RecordInv, Compiles
  <1>8. OneLivePerName'
    BY <1>3 DEF IInv, OneLivePerName
  <1>9. SupersessionChain'
    BY <1>3, <1>4, <1>5, SupersedesType DEF IInv, SupersessionChain
  <1>10. VersionCountsTransitions'
    BY <1>3 DEF IInv, VersionCountsTransitions
  <1> QED
    BY <1>6, <1>7, <1>8, <1>9, <1>10 DEF IInv

\* A pending record that is rejected or withdrawn becomes final; no other
\* record changes (service_reject_procedure, service_withdraw_procedure).
LEMMA CloseStep ==
    ASSUME IInv, NEW p \in ProcedureIds, NEW a \in Actors,
           NEW to \in {"rejected", "withdrawn"}, NEW v,
           ClosePending(p, to, a, v)
    PROVE  IInv'
  <1> DEFINE old == procedures[p]
             new == [transition_procedure(old, to) EXCEPT !.reviewer = a]
  <1>1. procedures \in [ProcedureIds -> ProcedureRecord]
    BY DEF IInv, TypeOK
  <1>2. old \in ProcedureRecord /\ transition_procedure(old, to) \in ProcedureRecord
    BY <1>1, TransitionType DEF Statuses
  <1>3. /\ new \in ProcedureRecord
        /\ new.status = to /\ new.version = old.version + 1
        /\ new.definition = old.definition /\ new.supersedes = old.supersedes
        /\ new.proposer = old.proposer /\ new.reviewer = a
        /\ new.pins = old.pins
    BY <1>2 DEF ProcedureRecord, transition_procedure
  <1>4. /\ procedures' \in [ProcedureIds -> ProcedureRecord]
        /\ procedures'[p] = new
        /\ \A q \in ProcedureIds : q # p => procedures'[q] = procedures[q]
    BY <1>1, <1>3 DEF ClosePending
  <1>4a. old.status = "pending"
    BY DEF ClosePending
  <1> HIDE DEF new
  <1>5. TypeOK' /\ InvocationInv' /\ LedgerHonest'
    BY <1>3, <1>4, <1>4a, RunsUnaffected DEF ClosePending
  <1>6. RecordInv'
    BY <1>3, <1>4, <1>4a DEF IInv, RecordInv, Compiles
  <1>7. OneLivePerName'
    BY <1>3, <1>4 DEF IInv, OneLivePerName
  <1>8. SupersessionChain'
    BY <1>3, <1>4, <1>4a, SupersedesType DEF IInv, SupersessionChain
  <1>9. VersionCountsTransitions'
    <2>1. old.version = 1
      BY <1>4a DEF IInv, VersionCountsTransitions
    <2>2. procedures'[p].version = 2
      BY <1>3, <1>4, <2>1
    <2>3. procedures'[p].status \in {"rejected", "withdrawn"}
      BY <1>3, <1>4
    <2> QED
      BY <1>4, <2>2, <2>3 DEF IInv, VersionCountsTransitions
  <1> QED
    BY <1>5, <1>6, <1>7, <1>8, <1>9 DEF IInv

\* Retiring a live record, on its own (service_retire_procedure).
LEMMA RetireStep ==
    ASSUME IInv, NEW p \in ProcedureIds, NEW v, RetireProcedure(p, v)
    PROVE  IInv'
  <1> DEFINE old == procedures[p]
             new == transition_procedure(old, "retired")
  <1>1. procedures \in [ProcedureIds -> ProcedureRecord]
    BY DEF IInv, TypeOK
  <1>2. old \in ProcedureRecord /\ new \in ProcedureRecord
    BY <1>1, TransitionType DEF Statuses
  <1>3. /\ new.status = "retired" /\ new.version = old.version + 1
        /\ new.definition = old.definition /\ new.supersedes = old.supersedes
        /\ new.proposer = old.proposer /\ new.reviewer = old.reviewer
        /\ new.pins = old.pins
    BY <1>2 DEF ProcedureRecord, transition_procedure
  <1>4. old.status = "live"
    BY DEF RetireProcedure
  <1>5. /\ procedures' \in [ProcedureIds -> ProcedureRecord]
        /\ procedures'[p] = new
        /\ \A q \in ProcedureIds : q # p => procedures'[q] = procedures[q]
    BY <1>1, <1>2 DEF RetireProcedure
  <1> HIDE DEF new
  <1>6. TypeOK' /\ InvocationInv' /\ LedgerHonest'
    BY <1>3, <1>4, <1>5, RunsUnaffected DEF RetireProcedure
  <1>7. RecordInv'
    BY <1>3, <1>4, <1>5 DEF IInv, RecordInv, Compiles
  <1>8. OneLivePerName'
    BY <1>3, <1>5 DEF IInv, OneLivePerName
  <1>9. SupersessionChain'
    BY <1>3, <1>4, <1>5, SupersedesType DEF IInv, SupersessionChain
  <1>10. VersionCountsTransitions'
    BY <1>3, <1>4, <1>5 DEF IInv, VersionCountsTransitions
  <1> QED
    BY <1>6, <1>7, <1>8, <1>9, <1>10 DEF IInv

\* Acceptance makes a pending record live, pins it to the world it compiled
\* against, and retires the record it supersedes in the same transaction
\* (service_accept_procedure).
LEMMA AcceptStep ==
    ASSUME IInv, NEW p \in ProcedureIds, NEW a \in Actors, NEW v,
           AcceptProcedure(p, a, v)
    PROVE  IInv'
  <1> DEFINE rec == procedures[p]
             s   == procedures[p].supersedes
             live == transition_procedure(rec, "live")
             new == [live EXCEPT !.reviewer = a, !.pins = CurrentWorld]
             mid == [procedures EXCEPT ![p] = new]
             replaced == transition_procedure(procedures[s], "retired")
  <1>1. procedures \in [ProcedureIds -> ProcedureRecord]
    BY DEF IInv, TypeOK
  <1>2. CurrentWorld \in Worlds
    BY DEF IInv, TypeOK, CurrentWorld, Worlds
  <1>3. rec \in ProcedureRecord /\ live \in ProcedureRecord
    BY <1>1, TransitionType DEF Statuses
  <1>4. /\ live.status = "live" /\ live.version = rec.version + 1
        /\ live.definition = rec.definition /\ live.supersedes = s
        /\ live.proposer = rec.proposer
    BY <1>3 DEF ProcedureRecord, transition_procedure
  <1> HIDE DEF live
  <1>5. /\ new \in ProcedureRecord
        /\ new.status = "live" /\ new.version = rec.version + 1
        /\ new.definition = rec.definition /\ new.supersedes = s
        /\ new.proposer = rec.proposer /\ new.reviewer = a
        /\ new.pins = CurrentWorld
    BY <1>2, <1>3, <1>4 DEF ProcedureRecord
  <1>6. /\ rec.status = "pending"
        /\ rec.proposer # a
        /\ Compiles(rec.definition, CurrentWorld)
        /\ Conflicting(p) = {}
    BY DEF AcceptProcedure, Independent
  <1>7. s # None => /\ s \in ProcedureIds /\ s # p
                    /\ procedures[s].status \in {"live", "retired"}
    BY <1>6, SupersedesType DEF IInv, SupersessionChain
  <1>8. procedures' = RetireSuperseded(mid, s)
    BY DEF AcceptProcedure, live
  <1> HIDE DEF new
  <1>9. /\ mid \in [ProcedureIds -> ProcedureRecord]
        /\ mid[p] = new
        /\ \A q \in ProcedureIds : q # p => mid[q] = procedures[q]
    BY <1>1, <1>5
  <1> HIDE DEF mid
  <1>10. s # None => replaced \in ProcedureRecord
    BY <1>1, <1>7, TransitionType DEF Statuses
  <1>11. s # None =>
            /\ replaced.status = "retired"
            /\ replaced.version = procedures[s].version + 1
            /\ replaced.definition = procedures[s].definition
            /\ replaced.supersedes = procedures[s].supersedes
            /\ replaced.proposer = procedures[s].proposer
            /\ replaced.reviewer = procedures[s].reviewer
            /\ replaced.pins = procedures[s].pins
    BY <1>1, <1>7 DEF ProcedureRecord, transition_procedure
  <1>12. /\ procedures' \in [ProcedureIds -> ProcedureRecord]
         /\ procedures'[p] = new
         /\ \A q \in ProcedureIds : q # p /\ q # s =>
                procedures'[q] = procedures[q]
         /\ s # None /\ procedures[s].status = "live" =>
                procedures'[s] = replaced
         /\ s # None /\ procedures[s].status = "retired" =>
                procedures'[s] = procedures[s]
    BY <1>7, <1>8, <1>9, <1>10 DEF RetireSuperseded
  <1> HIDE DEF replaced
  <1>13. \A q \in ProcedureIds : q # p =>
            /\ procedures'[q].definition = procedures[q].definition
            /\ procedures'[q].supersedes = procedures[q].supersedes
            /\ procedures'[q].proposer = procedures[q].proposer
            /\ procedures'[q].reviewer = procedures[q].reviewer
            /\ procedures'[q].pins = procedures[q].pins
            /\ procedures'[q].status =
                  (IF q = s THEN "retired" ELSE procedures[q].status)
            /\ procedures'[q].version =
                  (IF q = s /\ procedures[q].status = "live"
                   THEN procedures[q].version + 1 ELSE procedures[q].version)
    <2> SUFFICES ASSUME NEW q \in ProcedureIds, q # p
                 PROVE  /\ procedures'[q].definition = procedures[q].definition
                        /\ procedures'[q].supersedes = procedures[q].supersedes
                        /\ procedures'[q].proposer = procedures[q].proposer
                        /\ procedures'[q].reviewer = procedures[q].reviewer
                        /\ procedures'[q].pins = procedures[q].pins
                        /\ procedures'[q].status =
                              (IF q = s THEN "retired" ELSE procedures[q].status)
                        /\ procedures'[q].version =
                              (IF q = s /\ procedures[q].status = "live"
                               THEN procedures[q].version + 1
                               ELSE procedures[q].version)
      OBVIOUS
    <2>1. CASE q # s
      BY <1>12, <2>1
    <2>2. CASE q = s /\ procedures[q].status = "live"
      BY <1>11, <1>12, <2>2, NoneAssumption
    <2>3. CASE q = s /\ procedures[q].status = "retired"
      BY <1>12, <2>3, NoneAssumption
    <2> QED
      BY <1>7, <2>1, <2>2, <2>3, NoneAssumption
  <1>14. TypeOK' /\ InvocationInv' /\ LedgerHonest'
    <2>1. \A q \in ProcedureIds : procedures[q].status # "absent" =>
              procedures'[q].definition = procedures[q].definition
      BY <1>5, <1>12, <1>13
    <2>2. \A q \in ProcedureIds :
              procedures[q].status \in {"live", "retired"} =>
                  /\ procedures'[q].status \in {"live", "retired"}
                  /\ procedures'[q].pins = procedures[q].pins
      BY <1>6, <1>13
    <2> QED
      BY <1>12, <2>1, <2>2, RunsUnaffected DEF AcceptProcedure
  <1>15. RecordInv'
    BY <1>2, <1>5, <1>6, <1>7, <1>12, <1>13, NoneAssumption
       DEF IInv, RecordInv, Compiles, AbsentProcedure
  <1>16. \A q \in ProcedureIds :
            /\ procedures[q].status = "live"
            /\ procedures[q].definition.name = rec.definition.name
            => q \in {p, s}
    BY <1>6 DEF Conflicting, LiveWithName
  <1>17. OneLivePerName'
    BY <1>5, <1>12, <1>13, <1>16 DEF IInv, OneLivePerName
  <1>18. SupersessionChain'
    <2> SUFFICES ASSUME NEW q \in ProcedureIds,
                        NEW t, t = procedures[q].supersedes, t # None
                 PROVE  /\ t # q
                        /\ procedures'[t].status \in {"live", "retired"}
                        /\ procedures'[t].definition.name =
                              procedures'[q].definition.name
                        /\ procedures'[q].status \in {"live", "retired"} =>
                              procedures'[t].status = "retired"
      <3>1. \A q \in ProcedureIds :
                procedures'[q].supersedes = procedures[q].supersedes
        BY <1>5, <1>12, <1>13
      <3> QED
        BY <3>1 DEF SupersessionChain
    <2>1. /\ t \in ProcedureIds /\ t # q
          /\ procedures[t].status \in {"live", "retired"}
          /\ procedures[t].definition.name = procedures[q].definition.name
          /\ procedures[q].status \in {"live", "retired"} =>
                procedures[t].status = "retired"
      BY SupersedesType DEF IInv, SupersessionChain
    <2>2. t # p
      BY <1>6, <2>1
    <2>3. procedures'[q].definition = procedures[q].definition
      BY <1>5, <1>12, <1>13
    <2>4. CASE q = p
      BY <1>5, <1>7, <1>12, <1>13, <2>1, <2>2, <2>3, <2>4
    <2>5. CASE q # p
      <3>1. procedures'[t].definition = procedures[t].definition
        BY <1>13, <2>1, <2>2
      <3>2. procedures'[t].status = procedures[t].status
            \/ procedures'[t].status = "retired"
        BY <1>13, <2>1, <2>2
      <3>3. procedures'[q].status \in {"live", "retired"} =>
                procedures[q].status \in {"live", "retired"}
        BY <1>7, <1>13, <2>5, NoneAssumption
      <3> QED
        BY <2>1, <2>3, <3>1, <3>2, <3>3
    <2> QED
      BY <2>4, <2>5
  <1>19. VersionCountsTransitions'
    <2> SUFFICES ASSUME NEW q \in ProcedureIds
                 PROVE  procedures'[q].version =
                            CASE procedures'[q].status = "absent" -> 0
                              [] procedures'[q].status = "pending" -> 1
                              [] procedures'[q].status = "retired" -> 3
                              [] OTHER -> 2
      BY DEF VersionCountsTransitions
    <2>1. CASE q = p
      <3>1. rec.version = 1
        BY <1>6 DEF IInv, VersionCountsTransitions
      <3> QED
        BY <1>5, <1>12, <2>1, <3>1
    <2>2. CASE q # p /\ q # s
      BY <1>13, <2>2 DEF IInv, VersionCountsTransitions
    <2>3. CASE q # p /\ q = s
      <3>1. procedures[q].status = "live" => procedures[q].version = 2
        BY DEF IInv, VersionCountsTransitions
      <3>2. procedures[q].status = "retired" => procedures[q].version = 3
        BY DEF IInv, VersionCountsTransitions
      <3> QED
        BY <1>7, <1>13, <2>3, <3>1, <3>2, NoneAssumption
    <2> QED
      BY <2>1, <2>2, <2>3
  <1> QED
    BY <1>14, <1>15, <1>17, <1>18, <1>19 DEF IInv

-----------------------------------------------------------------------------
(* Steps of a run leave the procedure table alone.                         *)

\* The table part of the invariant does not depend on runs.
LEMMA TableUnaffected ==
    ASSUME IInv, UNCHANGED procedures
    PROVE  /\ RecordInv' /\ OneLivePerName' /\ SupersessionChain'
           /\ VersionCountsTransitions'
  BY DEF IInv, RecordInv, OneLivePerName, SupersessionChain,
         VersionCountsTransitions, Compiles

\* A finalization that reports the truth keeps the invariant
\* (_persist_built_procedure_receipt_in_uow).
LEMMA FinalizeStep ==
    ASSUME IInv, NEW r \in RunIds, NEW verdict \in Verdicts,
           NEW reason \in Reasons \cup {None},
           NEW executed \in Worlds \cup {None}, NEW evidence \in BOOLEAN,
           FinalizeRun(r, verdict, reason, executed, evidence),
           UNCHANGED <<procedures, config, lock, graph, calls>>,
           invocation[r].pc \notin {"idle", "crashed", "returned"},
           verdict = "refused" <=> reason # None,
           verdict = "refused" => calls[r] = 0,
           verdict \in Executed =>
               /\ invocation[r].seen.status = "live"
               /\ executed = invocation[r].seen.pins,
           evidence => verdict = "succeeded"
    PROVE  IInv'
  <1>1. TypeOK'
    <2>1. /\ runs' \in [RunIds -> RunRecord]
          /\ invocation' \in [RunIds -> Invocation]
      BY FinalizeType DEF IInv
    <2> QED
      BY <2>1 DEF IInv, TypeOK
  <1>2. /\ runs \in [RunIds -> RunRecord]
        /\ invocation \in [RunIds -> Invocation]
    BY DEF IInv, TypeOK
  <1>3. /\ runs'[r].status = "finalized" /\ runs'[r].verdict = verdict
        /\ runs'[r].reason = reason /\ runs'[r].executed = executed
        /\ runs'[r].accepted = invocation[r].seen.pins
        /\ runs'[r].spent = calls[r] /\ runs'[r].evidence = evidence
        /\ runs'[r].procedure = runs[r].procedure
    BY <1>2 DEF FinalizeRun, RunRecord
  <1>4. /\ invocation'[r].pc = "returned"
        /\ invocation'[r].procedure = invocation[r].procedure
        /\ invocation'[r].seen = invocation[r].seen
        /\ invocation'[r].mode = invocation[r].mode
        /\ invocation'[r].world = invocation[r].world
    BY <1>2 DEF FinalizeRun, Invocation
  <1>5. \A x \in RunIds : x # r =>
            runs'[x] = runs[x] /\ invocation'[x] = invocation[x]
    BY <1>2 DEF FinalizeRun
  <1>6. InvocationInv'
    <2> SUFFICES ASSUME NEW x \in RunIds
                 PROVE  InvocationInv!(x)'
      BY DEF InvocationInv
    <2>1. CASE x = r
      BY <1>3, <1>4, <2>1 DEF IInv, InvocationInv
    <2>2. CASE x # r
      BY <1>5, <2>2 DEF IInv, InvocationInv
    <2> QED
      BY <2>1, <2>2
  <1>7. LedgerHonest'
    <2> SUFFICES ASSUME NEW x \in RunIds
                 PROVE  LedgerHonest!(x)'
      BY DEF LedgerHonest
    <2>1. CASE x = r
      <3>1. runs[r].procedure = invocation[r].procedure
        BY DEF IInv, InvocationInv
      <3>2. invocation[r].seen.status = "live" =>
                invocation[r].seen.pins =
                    procedures[invocation[r].procedure].pins
        BY DEF IInv, InvocationInv
      <3> QED
        BY <1>3, <2>1, <3>1, <3>2
    <2>2. CASE x # r
      BY <1>5, <2>2 DEF IInv, LedgerHonest
    <2> QED
      BY <2>1, <2>2
  <1> QED
    BY <1>1, <1>6, <1>7, TableUnaffected DEF IInv

\* Starting a run (transaction 1).
LEMMA StartStep ==
    ASSUME IInv, NEW r \in RunIds, NEW p \in ProcedureIds,
           NEW m \in GOVERNED_WRITE..ADMIN, StartRun(r, p, m)
    PROVE  IInv'
  <1> DEFINE row == [AbsentRun EXCEPT !.status = "started", !.procedure = p]
             inv == [IdleInvocation EXCEPT !.pc = "started", !.mode = m,
                                 !.procedure = p, !.seen = procedures[p]]
  <1>1. /\ row \in RunRecord
        /\ row.status = "started" /\ row.verdict = None
        /\ row.procedure = p
    BY NoneAssumption DEF AbsentRun, RunRecord
  <1>2. procedures[p] \in ProcedureRecord /\ m \in PermissionMode
    BY DEF IInv, TypeOK, PermissionMode
  <1>3. /\ inv \in Invocation
        /\ inv.pc = "started" /\ inv.procedure = p
        /\ inv.seen = procedures[p]
    BY <1>2, AbsentTypes DEF IdleInvocation, Invocation
  <1>4. /\ runs \in [RunIds -> RunRecord]
        /\ invocation \in [RunIds -> Invocation]
    BY DEF IInv, TypeOK
  <1> HIDE DEF row, inv
  <1>5. /\ runs' = [runs EXCEPT ![r] = row]
        /\ invocation' = [invocation EXCEPT ![r] = inv]
    BY DEF StartRun, row, inv
  <1>6. TypeOK'
    BY <1>1, <1>3, <1>4, <1>5 DEF IInv, TypeOK, StartRun
  <1>7. calls[r] = 0
    BY DEF IInv, InvocationInv, StartRun
  <1>8. procedures[p].definition \in Definitions
    BY DEF IInv, RecordInv, StartRun
  <1>9. /\ procedures' = procedures /\ calls' = calls
        /\ runs'[r] = row /\ invocation'[r] = inv
        /\ \A x \in RunIds : x # r =>
               runs'[x] = runs[x] /\ invocation'[x] = invocation[x]
    BY <1>4, <1>5 DEF StartRun
  <1>10. InvocationInv'
    <2> SUFFICES ASSUME NEW x \in RunIds
                 PROVE  InvocationInv!(x)'
      BY DEF InvocationInv
    <2>1. CASE x = r
      BY <1>1, <1>3, <1>7, <1>8, <1>9, <2>1, NoneAssumption DEF Executed, Verdicts
    <2>2. CASE x # r
      BY <1>9, <2>2 DEF IInv, InvocationInv
    <2> QED
      BY <2>1, <2>2
  <1>11. LedgerHonest'
    BY <1>1, <1>9 DEF IInv, LedgerHonest
  <1> QED
    BY <1>6, <1>9, <1>10, <1>11, TableUnaffected DEF IInv

\* A step that only moves one call's local state keeps the invariant if the
\* call's own part of it holds afterwards.
LEMMA MoveStep ==
    ASSUME IInv, NEW r \in RunIds, NEW inv \in Invocation,
           invocation' = [invocation EXCEPT ![r] = inv],
           UNCHANGED <<procedures, runs, config, lock, graph, calls>>,
           InvocationInv!(r)'
    PROVE  IInv'
  <1>1. invocation \in [RunIds -> Invocation]
    BY DEF IInv, TypeOK
  <1>2. TypeOK'
    BY <1>1 DEF IInv, TypeOK
  <1>3. InvocationInv'
    <2> SUFFICES ASSUME NEW x \in RunIds
                 PROVE  InvocationInv!(x)'
      BY DEF InvocationInv
    <2>1. CASE x = r
      BY <2>1
    <2>2. CASE x # r
      BY <1>1, <2>2 DEF IInv, InvocationInv
    <2> QED
      BY <2>1, <2>2
  <1>4. LedgerHonest'
    BY DEF IInv, LedgerHonest
  <1> QED
    BY <1>2, <1>3, <1>4, TableUnaffected DEF IInv

\* Preflight reads the config file.
LEMMA LoadConfigStep ==
    ASSUME IInv, NEW r \in RunIds, LoadConfig(r)
    PROVE  IInv'
  <1> DEFINE inv == [invocation[r] EXCEPT !.pc = "config_loaded",
                                          !.config = config]
  <1>1. invocation \in [RunIds -> Invocation] /\ config \in Configs
    BY DEF IInv, TypeOK
  <1>2. /\ inv \in Invocation
        /\ inv.pc = "config_loaded" /\ inv.config = config
        /\ inv.procedure = invocation[r].procedure
        /\ inv.seen = invocation[r].seen
        /\ inv.mode = invocation[r].mode /\ inv.world = invocation[r].world
    BY <1>1 DEF Invocation
  <1>3. invocation' = [invocation EXCEPT ![r] = inv]
    BY <1>1 DEF LoadConfig
  <1>4. invocation'[r] = inv
    BY <1>1, <1>3
  <1> HIDE DEF inv
  <1>5. InvocationInv!(r)'
    BY <1>1, <1>2, <1>4 DEF IInv, InvocationInv, LoadConfig
  <1> QED
    BY <1>2, <1>3, <1>5, MoveStep DEF LoadConfig

\* A preflight that does not refuse has found the pinned world and the tier.
LEMMA PreflightPassed ==
    ASSUME IInv, NEW r \in RunIds, invocation[r].pc # "idle",
           PreflightRefusal(r, TRUE) = None
    PROVE  /\ invocation[r].mode >= invocation[r].seen.definition.tier
           /\ invocation[r].seen.pins = LoadedWorld(r)
  <1>1. invocation[r].mode \in PermissionMode
    BY DEF IInv, TypeOK, Invocation
  <1>2. invocation[r].seen.definition.tier \in GOVERNED_WRITE..ADMIN
    BY DefinitionsAssumption DEF IInv, InvocationInv, DefinitionType
  <1> QED
    BY <1>1, <1>2, NoneAssumption
       DEF PreflightRefusal, PinsMatch, Reasons, PermissionMode

\* Preflight passes.
LEMMA PassPreflightStep ==
    ASSUME IInv, NEW r \in RunIds, PassPreflight(r)
    PROVE  IInv'
  <1> DEFINE inv == [invocation[r] EXCEPT !.pc = "preflighted",
                                          !.world = LoadedWorld(r)]
  <1>1. /\ invocation \in [RunIds -> Invocation]
        /\ invocation[r].config \in Configs
    BY DEF IInv, TypeOK, InvocationInv, PassPreflight
  <1>2. LoadedWorld(r) \in Worlds
    BY <1>1, LoadedWorldType DEF IInv
  <1>3. /\ inv \in Invocation
        /\ inv.pc = "preflighted" /\ inv.config = invocation[r].config
        /\ inv.procedure = invocation[r].procedure
        /\ inv.seen = invocation[r].seen
        /\ inv.mode = invocation[r].mode /\ inv.world = LoadedWorld(r)
    BY <1>1, <1>2 DEF Invocation
  <1>4. invocation' = [invocation EXCEPT ![r] = inv]
    BY <1>1 DEF PassPreflight
  <1>5. invocation'[r] = inv
    BY <1>1, <1>4
  <1>6. /\ invocation[r].mode >= invocation[r].seen.definition.tier
        /\ invocation[r].seen.pins = LoadedWorld(r)
    BY PreflightPassed DEF PassPreflight
  <1> HIDE DEF inv
  <1>7. InvocationInv!(r)'
    BY <1>1, <1>3, <1>5, <1>6 DEF IInv, InvocationInv, PassPreflight
  <1> QED
    BY <1>3, <1>4, <1>7, MoveStep DEF PassPreflight

\* Authorization, the end of execution, the wall clock and a crash change
\* only the program counter or the expiry flag.
LEMMA MarkStep ==
    ASSUME IInv, NEW r \in RunIds,
           Authorize(r) \/ CompleteExecution(r)
           \/ WallClockExpires(r) \/ CrashRun(r)
    PROVE  IInv'
  <1>1. invocation \in [RunIds -> Invocation]
    BY DEF IInv, TypeOK
  <1>2. PICK inv \in Invocation :
            /\ invocation' = [invocation EXCEPT ![r] = inv]
            /\ inv.procedure = invocation[r].procedure
            /\ inv.seen = invocation[r].seen
            /\ inv.config = invocation[r].config
            /\ inv.mode = invocation[r].mode
            /\ inv.world = invocation[r].world
            /\ \/ inv.pc = invocation[r].pc
               \/ inv.pc = "executing" /\ invocation[r].pc = "preflighted"
               \/ inv.pc = "executed" /\ invocation[r].pc = "executing"
               \/ /\ inv.pc = "crashed"
                  /\ invocation[r].pc \notin {"idle", "returned", "crashed"}
    <2>1. \A to \in {"executing", "executed", "crashed"} :
              LET inv == [invocation[r] EXCEPT !.pc = to] IN
              /\ inv \in Invocation /\ inv.pc = to
              /\ inv.procedure = invocation[r].procedure
              /\ inv.seen = invocation[r].seen
              /\ inv.config = invocation[r].config
              /\ inv.mode = invocation[r].mode
              /\ inv.world = invocation[r].world
      BY <1>1 DEF Invocation
    <2>2. LET inv == [invocation[r] EXCEPT !.expired = TRUE] IN
              /\ inv \in Invocation /\ inv.pc = invocation[r].pc
              /\ inv.procedure = invocation[r].procedure
              /\ inv.seen = invocation[r].seen
              /\ inv.config = invocation[r].config
              /\ inv.mode = invocation[r].mode
              /\ inv.world = invocation[r].world
      BY <1>1 DEF Invocation
    <2>3. CASE Authorize(r)
      BY <2>1, <2>3, <1>1 DEF Authorize
    <2>4. CASE CompleteExecution(r)
      BY <2>1, <2>4, <1>1 DEF CompleteExecution
    <2>5. CASE WallClockExpires(r)
      BY <2>2, <2>5, <1>1 DEF WallClockExpires
    <2>6. CASE CrashRun(r)
      BY <2>1, <2>6, <1>1 DEF CrashRun
    <2> QED
      BY <2>3, <2>4, <2>5, <2>6
  <1>3. invocation'[r] = inv
    BY <1>1, <1>2
  <1>4. UNCHANGED <<procedures, runs, config, lock, graph, calls>>
    BY DEF Authorize, CompleteExecution, WallClockExpires, CrashRun
  <1>5. InvocationInv!(r)'
    BY <1>1, <1>2, <1>3, <1>4 DEF IInv, InvocationInv
  <1> QED
    BY <1>2, <1>4, <1>5, MoveStep

\* A provider call is within the budget of the definition that was read.
LEMMA CallStep ==
    ASSUME IInv, NEW r \in RunIds, CallProvider(r)
    PROVE  IInv'
  <1>1. calls \in [RunIds -> Nat]
    BY DEF IInv, TypeOK
  <1>2. /\ calls' \in [RunIds -> Nat] /\ calls'[r] = calls[r] + 1
        /\ \A x \in RunIds : x # r => calls'[x] = calls[x]
    BY <1>1 DEF CallProvider
  <1>3. invocation[r].seen.definition.maxCalls \in Nat
    BY DefinitionsAssumption
       DEF IInv, InvocationInv, CallProvider, DefinitionType
  <1>4. calls'[r] <= invocation[r].seen.definition.maxCalls
    BY <1>1, <1>2, <1>3 DEF CallProvider
  <1>5. TypeOK'
    BY <1>2 DEF IInv, TypeOK, CallProvider
  <1>6. InvocationInv'
    <2> SUFFICES ASSUME NEW x \in RunIds
                 PROVE  InvocationInv!(x)'
      BY DEF InvocationInv
    <2>1. CASE x = r
      BY <1>4, <2>1 DEF IInv, InvocationInv, CallProvider
    <2>2. CASE x # r
      BY <1>2, <2>2 DEF IInv, InvocationInv, CallProvider
    <2> QED
      BY <2>1, <2>2
  <1>7. runs[r].status = "started"
    BY DEF IInv, InvocationInv, CallProvider
  <1>8. LedgerHonest'
    <2> SUFFICES ASSUME NEW x \in RunIds
                 PROVE  LedgerHonest!(x)'
      BY DEF LedgerHonest
    <2>1. CASE x = r
      BY <1>7, <2>1 DEF CallProvider
    <2>2. CASE x # r
      BY <1>2, <2>2 DEF IInv, LedgerHonest, CallProvider
    <2> QED
      BY <2>1, <2>2
  <1> QED
    BY <1>5, <1>6, <1>8, TableUnaffected DEF IInv, CallProvider

\* Every step the code of a call takes preserves the invariant.
LEMMA RunStepInv ==
    ASSUME IInv, NEW r \in RunIds, RunStep(r)
    PROVE  IInv'
  <1>1. CASE RefuseNotLive(r)
    <2>1. calls[r] = 0
      BY <1>1 DEF IInv, InvocationInv, RefuseNotLive
    <2> QED
      BY <1>1, <2>1, FinalizeStep, NoneAssumption
         DEF RefuseNotLive, Verdicts, Reasons, Executed
  <1>2. CASE LoadConfig(r)
    BY <1>2, LoadConfigStep
  <1>3. ASSUME NEW inputOk \in BOOLEAN, RefusePreflight(r, inputOk)
        PROVE  IInv'
    <2>1. calls[r] = 0 /\ invocation[r].config \in Configs
      BY <1>3 DEF IInv, InvocationInv, RefusePreflight
    <2>2. LoadedWorld(r) \in Worlds
      BY <2>1, LoadedWorldType DEF IInv
    <2>3. PreflightRefusal(r, inputOk) \in Reasons
      BY <1>3 DEF RefusePreflight, PreflightRefusal, Reasons
    <2> HIDE DEF PreflightRefusal
    <2> QED
      BY <1>3, <2>1, <2>2, <2>3, FinalizeStep, NoneAssumption
         DEF RefusePreflight, Verdicts, Executed
  <1>4. CASE PassPreflight(r)
    BY <1>4, PassPreflightStep
  <1>5. CASE RefuseAuthorization(r)
    <2>1. PICK reason \in AuthorizationRefusals(r) :
              FinalizeRun(r, "refused", reason, invocation[r].world, FALSE)
      BY <1>5 DEF RefuseAuthorization
    <2>2. reason \in Reasons
      BY DEF AuthorizationRefusals, Reasons
    <2>3. calls[r] = 0 /\ invocation[r].world \in Worlds \cup {None}
      BY <1>5 DEF IInv, TypeOK, Invocation, InvocationInv, RefuseAuthorization
    <2> QED
      BY <1>5, <2>1, <2>2, <2>3, FinalizeStep, NoneAssumption
         DEF RefuseAuthorization, Verdicts, Executed
  <1>6. CASE Authorize(r) \/ CompleteExecution(r)
    BY <1>6, MarkStep
  <1>7. CASE CallProvider(r)
    BY <1>7, CallStep
  <1>8. ASSUME NEW budgetRaised \in BOOLEAN, FailExecution(r, budgetRaised)
        PROVE  IInv'
    <2>1. /\ invocation[r].world \in Worlds \cup {None}
          /\ invocation[r].seen.status = "live"
          /\ invocation[r].world = invocation[r].seen.pins
      BY <1>8 DEF IInv, TypeOK, Invocation, InvocationInv, FailExecution
    <2>2. PICK verdict \in {"failed", "budget_exceeded"} :
              FinalizeRun(r, verdict, None, invocation[r].world, FALSE)
      BY <1>8 DEF FailExecution
    <2> QED
      BY <1>8, <2>1, <2>2, FinalizeStep
         DEF FailExecution, Verdicts
  <1>9. ASSUME NEW stored \in BOOLEAN, FinalizeSuccess(r, stored)
        PROVE  IInv'
    <2>1. /\ invocation[r].world \in Worlds \cup {None}
          /\ invocation[r].seen.status = "live"
          /\ invocation[r].world = invocation[r].seen.pins
      BY <1>9 DEF IInv, TypeOK, Invocation, InvocationInv, FinalizeSuccess
    <2> QED
      BY <1>9, <2>1, FinalizeStep DEF FinalizeSuccess, Verdicts
  <1> QED
    BY <1>1, <1>2, <1>3, <1>4, <1>5, <1>6, <1>7, <1>8, <1>9 DEF RunStep

\* Config edits, lock builds and graph commits touch nothing the invariant
\* relates, because a call works on what it loaded.
LEMMA SurroundingsStep ==
    ASSUME IInv, Surroundings
    PROVE  IInv'
  <1>1. UNCHANGED <<procedures, runs, invocation, calls>>
    BY DEF Surroundings, EditConfig, service_lock, CommitGraph
  <1>2. TypeOK'
    BY <1>1 DEF IInv, TypeOK, Surroundings, EditConfig, service_lock,
                CommitGraph, Locks
  <1>3. InvocationInv' /\ LedgerHonest'
    BY <1>1 DEF IInv, InvocationInv, LedgerHonest
  <1> QED
    BY <1>1, <1>2, <1>3, TableUnaffected DEF IInv

\* The invariant holds initially.
LEMMA InitIInv == Init => IInv
  <1> SUFFICES ASSUME Init PROVE IInv
    OBVIOUS
  <1>1. TypeOK
    BY AbsentTypes DEF Init, TypeOK
  <1>2. \A p \in ProcedureIds : procedures[p] = AbsentProcedure
    BY DEF Init
  <1>3. \A r \in RunIds : /\ runs[r] = AbsentRun
                          /\ invocation[r] = IdleInvocation /\ calls[r] = 0
    BY DEF Init
  <1>4. RecordInv /\ OneLivePerName /\ SupersessionChain
        /\ VersionCountsTransitions
    BY <1>2 DEF RecordInv, OneLivePerName, SupersessionChain,
                VersionCountsTransitions, AbsentProcedure
  <1>5. \A r \in RunIds : /\ runs[r].status = "absent"
                          /\ runs[r].verdict \notin Executed
                          /\ invocation[r].pc = "idle"
    BY <1>3, NoneAssumption DEF AbsentRun, IdleInvocation, Executed, Verdicts
  <1>6. InvocationInv
    BY <1>3, <1>5 DEF InvocationInv
  <1>7. LedgerHonest
    BY <1>5 DEF LedgerHonest
  <1> QED
    BY <1>1, <1>4, <1>6, <1>7 DEF IInv

\* Every step preserves the invariant.
LEMMA NextIInv == IInv /\ [Next]_vars => IInv'
  <1> SUFFICES ASSUME IInv, [Next]_vars PROVE IInv'
    OBVIOUS
  <1>1. CASE Lifecycle
    <2>1. ASSUME NEW p \in ProcedureIds, NEW d \in Definitions,
                 NEW a \in Actors, NEW s \in ProcedureIds \cup {None},
                 ProposeProcedure(p, d, s, a)
          PROVE  IInv'
      BY <2>1, ProposeStep
    <2>2. ASSUME NEW p \in ProcedureIds, NEW a \in Actors, NEW v \in 1..3,
                 AcceptProcedure(p, a, v)
          PROVE  IInv'
      BY <2>2, AcceptStep
    <2>3. ASSUME NEW p \in ProcedureIds, NEW a \in Actors, NEW v \in 1..3,
                 RejectProcedure(p, a, v)
                 \/ \E m \in GOVERNED_WRITE..ADMIN :
                        WithdrawProcedure(p, a, m, v)
          PROVE  IInv'
      BY <2>3, CloseStep DEF RejectProcedure, WithdrawProcedure
    <2>4. ASSUME NEW p \in ProcedureIds, NEW v \in 1..3,
                 RetireProcedure(p, v)
          PROVE  IInv'
      BY <2>4, RetireStep
    <2> QED
      BY <1>1, <2>1, <2>2, <2>3, <2>4 DEF Lifecycle
  <1>2. ASSUME NEW r \in RunIds, NEW p \in ProcedureIds,
               NEW m \in GOVERNED_WRITE..ADMIN, StartRun(r, p, m)
        PROVE  IInv'
    BY <1>2, StartStep
  <1>3. ASSUME NEW r \in RunIds,
               RunStep(r) \/ WallClockExpires(r) \/ CrashRun(r)
        PROVE  IInv'
    BY <1>3, RunStepInv, MarkStep
  <1>4. CASE Surroundings
    BY <1>4, SurroundingsStep
  <1>5. CASE UNCHANGED vars
    <2>1. UNCHANGED <<procedures, runs, config, lock, graph, invocation, calls>>
      BY <1>5 DEF vars
    <2>2. TypeOK' /\ InvocationInv' /\ LedgerHonest'
      BY <2>1 DEF IInv, TypeOK, InvocationInv, LedgerHonest
    <2> QED
      BY <2>1, <2>2, TableUnaffected DEF IInv
  <1> QED
    BY <1>1, <1>2, <1>3, <1>4, <1>5 DEF Next

\* The inductive invariant holds in every reachable state.
THEOREM Invariance == Spec => []IInv
  BY InitIInv, NextIInv, PTL DEF Spec

\* Every reachable state is well typed.
THEOREM TypeCorrectness == Spec => []TypeOK
  <1>1. IInv => TypeOK
    BY DEF IInv
  <1> QED
    BY <1>1, Invariance, PTL

\* No two live procedures ever share a name, for any number of procedures,
\* names, reviewers and concurrent runs.
THEOREM OneLiveVersion == Spec => []OneLivePerName
  <1>1. IInv => OneLivePerName
    BY DEF IInv
  <1> QED
    BY <1>1, Invariance, PTL

\* Supersession links only accepted versions of one name, in order.
THEOREM Supersession == Spec => []SupersessionChain
  <1>1. IInv => SupersessionChain
    BY DEF IInv
  <1> QED
    BY <1>1, Invariance, PTL

\* The run ledger reports what happened.
THEOREM HonestLedger == Spec => []LedgerHonest
  <1>1. IInv => LedgerHonest
    BY DEF IInv
  <1> QED
    BY <1>1, Invariance, PTL

\* Providers are called only for reviewed definitions in their pinned world.
THEOREM ReviewedProviderCalls == Spec => []ProviderCallsReviewed
  <1>1. IInv => ProviderCallsReviewed
    <2> SUFFICES ASSUME IInv, NEW r \in RunIds, calls[r] > 0
                 PROVE  ProviderCallsReviewed!(r)!2
      BY DEF ProviderCallsReviewed
    <2>1. invocation[r].pc # "idle" /\ invocation[r].seen.status = "live"
      BY DEF IInv, InvocationInv
    <2>2. /\ invocation[r].procedure \in ProcedureIds
          /\ runs[r].procedure = invocation[r].procedure
          /\ runs[r].status \in {"started", "finalized"}
          /\ invocation[r].seen.definition =
                procedures[invocation[r].procedure].definition
          /\ procedures[invocation[r].procedure].status \in {"live", "retired"}
          /\ invocation[r].seen.pins =
                procedures[invocation[r].procedure].pins
          /\ invocation[r].world = invocation[r].seen.pins
          /\ invocation[r].mode >= invocation[r].seen.definition.tier
          /\ calls[r] <= invocation[r].seen.definition.maxCalls
      BY <2>1 DEF IInv, InvocationInv
    <2> QED
      BY <2>2, NoneAssumption DEF IInv, RecordInv
  <1> QED
    BY <1>1, Invariance, PTL

-----------------------------------------------------------------------------
(* The governance record is append-only.                                   *)

\* A transition keeps everything but the status and the version.
LEMMA TransitionFields ==
    ASSUME NEW rec \in ProcedureRecord, NEW to \in Statuses
    PROVE  LET new == transition_procedure(rec, to) IN
           /\ new \in ProcedureRecord
           /\ new.definition = rec.definition
           /\ new.supersedes = rec.supersedes
           /\ new.proposer = rec.proposer
           /\ new.reviewer = rec.reviewer
           /\ new.pins = rec.pins
  <1>1. transition_procedure(rec, to) \in ProcedureRecord
    BY TransitionType
  <1> QED
    BY <1>1 DEF transition_procedure, ProcedureRecord

\* A pending record has no reviewer yet, so its verdict may be written.
LEMMA PendingKept ==
    ASSUME IInv, NEW p \in ProcedureIds, procedures[p].status = "pending",
           NEW new,
           new.definition = procedures[p].definition,
           new.supersedes = procedures[p].supersedes,
           new.proposer = procedures[p].proposer
    PROVE  RecordKept(procedures[p], new)
  <1>1. procedures[p].reviewer = None
    BY DEF IInv, RecordInv
  <1> QED
    BY <1>1 DEF RecordKept

\* No step of the lifecycle rewrites what a record already says.
LEMMA LifecycleKeepsRecords ==
    ASSUME IInv, Lifecycle
    PROVE  \A q \in ProcedureIds : RecordKept(procedures[q], procedures'[q])
  <1> DEFINE Kept == \A q \in ProcedureIds :
                         RecordKept(procedures[q], procedures'[q])
  <1>1. procedures \in [ProcedureIds -> ProcedureRecord]
    BY DEF IInv, TypeOK
  <1>2. \A q \in ProcedureIds :
            procedures'[q] = procedures[q] => RecordKept(procedures[q], procedures'[q])
    BY DEF RecordKept
  <1>3. ASSUME NEW p \in ProcedureIds, NEW d \in Definitions,
               NEW a \in Actors, NEW s \in ProcedureIds \cup {None},
               ProposeProcedure(p, d, s, a)
        PROVE  Kept
    <2>1. /\ procedures[p].status = "absent"
          /\ \A q \in ProcedureIds : q # p => procedures'[q] = procedures[q]
      BY <1>1, <1>3 DEF ProposeProcedure
    <2>2. procedures[p].reviewer = None
      BY <2>1 DEF IInv, RecordInv, AbsentProcedure
    <2>3. RecordKept(procedures[p], procedures'[p])
      BY <2>1, <2>2 DEF RecordKept
    <2> QED
      BY <1>2, <2>1, <2>3
  <1>4. ASSUME NEW p \in ProcedureIds, NEW a \in Actors, NEW v \in 1..3,
               AcceptProcedure(p, a, v)
        PROVE  Kept
    <2> DEFINE s   == procedures[p].supersedes
               new == [transition_procedure(procedures[p], "live") EXCEPT
                          !.reviewer = a, !.pins = CurrentWorld]
               mid == [procedures EXCEPT ![p] = new]
    <2>1. /\ procedures[p].status = "pending"
          /\ procedures' = RetireSuperseded(mid, s)
      BY <1>4 DEF AcceptProcedure
    <2>2. s # None => s \in ProcedureIds /\ s # p
      BY SupersedesType DEF IInv, SupersessionChain
    <2>3. /\ new.definition = procedures[p].definition
          /\ new.supersedes = procedures[p].supersedes
          /\ new.proposer = procedures[p].proposer
      BY <1>1, TransitionFields DEF Statuses, ProcedureRecord
    <2> HIDE DEF new
    <2>4. /\ DOMAIN mid = ProcedureIds
          /\ mid[p] = new
          /\ \A q \in ProcedureIds : q # p => mid[q] = procedures[q]
      BY <1>1
    <2> HIDE DEF mid
    <2>5. RecordKept(procedures[p], new)
      BY <2>1, <2>3, PendingKept
    <2>6. CASE s # None /\ mid[s].status = "live"
      <3> DEFINE old == transition_procedure(procedures[s], "retired")
      <3>1. procedures' = [mid EXCEPT ![s] = old]
        BY <2>1, <2>2, <2>4, <2>6 DEF RetireSuperseded
      <3>2. RecordKept(procedures[s], old)
        <4>1. procedures[s] \in ProcedureRecord /\ procedures[s].status = "live"
          BY <1>1, <2>2, <2>4, <2>6
        <4> QED
          BY <4>1, TransitionFields DEF RecordKept, Statuses
      <3> HIDE DEF old
      <3>3. /\ procedures'[s] = old /\ procedures'[p] = new
            /\ \A q \in ProcedureIds \ {p, s} : procedures'[q] = procedures[q]
        BY <2>2, <2>4, <2>6, <3>1
      <3> QED
        BY <1>2, <2>5, <3>2, <3>3
    <2>7. CASE ~(s # None /\ mid[s].status = "live")
      <3>1. procedures' = mid
        BY <2>1, <2>7 DEF RetireSuperseded
      <3> QED
        BY <1>2, <2>4, <2>5, <3>1
    <2> QED
      BY <2>6, <2>7
  <1>5. ASSUME NEW p \in ProcedureIds, NEW a \in Actors, NEW v \in 1..3,
               NEW to \in {"rejected", "withdrawn"}, ClosePending(p, to, a, v)
        PROVE  Kept
    <2> DEFINE new == [transition_procedure(procedures[p], to) EXCEPT
                          !.reviewer = a]
    <2>1. /\ procedures[p].status = "pending"
          /\ procedures' = [procedures EXCEPT ![p] = new]
      BY <1>5 DEF ClosePending
    <2>2. /\ new.definition = procedures[p].definition
          /\ new.supersedes = procedures[p].supersedes
          /\ new.proposer = procedures[p].proposer
      BY <1>1, TransitionFields DEF Statuses, ProcedureRecord
    <2> HIDE DEF new
    <2>3. RecordKept(procedures[p], new)
      BY <2>1, <2>2, PendingKept
    <2>4. /\ procedures'[p] = new
          /\ \A q \in ProcedureIds : q # p => procedures'[q] = procedures[q]
      BY <1>1, <2>1
    <2> QED
      BY <1>2, <2>3, <2>4
  <1>6. ASSUME NEW p \in ProcedureIds, NEW v \in 1..3, RetireProcedure(p, v)
        PROVE  Kept
    <2> DEFINE new == transition_procedure(procedures[p], "retired")
    <2>1. /\ procedures[p].status = "live"
          /\ procedures' = [procedures EXCEPT ![p] = new]
      BY <1>6 DEF RetireProcedure
    <2>2. RecordKept(procedures[p], new)
      BY <1>1, <2>1, TransitionFields DEF RecordKept, Statuses
    <2> HIDE DEF new
    <2>3. /\ procedures'[p] = new
          /\ \A q \in ProcedureIds : q # p => procedures'[q] = procedures[q]
      BY <1>1, <2>1
    <2> QED
      BY <1>2, <2>2, <2>3
  <1> HIDE DEF Kept
  <1>7. Kept
    BY <1>3, <1>4, <1>5, <1>6 DEF Lifecycle, RejectProcedure, WithdrawProcedure
  <1> QED
    BY <1>7 DEF Kept

\* Runs and their surroundings leave the procedure table alone.
LEMMA RunsKeepTable ==
    ASSUME Next, ~Lifecycle
    PROVE  UNCHANGED procedures
  <1>1. ASSUME NEW r \in RunIds, NEW p \in ProcedureIds,
               NEW m \in GOVERNED_WRITE..ADMIN, StartRun(r, p, m)
        PROVE  UNCHANGED procedures
    BY <1>1 DEF StartRun
  <1>2. ASSUME NEW r \in RunIds, RunStep(r)
        PROVE  UNCHANGED procedures
    BY <1>2 DEF RunStep, RefuseNotLive, LoadConfig, RefusePreflight,
        PassPreflight, RefuseAuthorization, Authorize, CallProvider,
        FailExecution, CompleteExecution, FinalizeSuccess, FinalizeRun
  <1>3. ASSUME NEW r \in RunIds, WallClockExpires(r) \/ CrashRun(r)
        PROVE  UNCHANGED procedures
    BY <1>3 DEF WallClockExpires, CrashRun
  <1>4. Surroundings => UNCHANGED procedures
    BY DEF Surroundings, EditConfig, service_lock, CommitGraph
  <1> QED
    BY <1>1, <1>2, <1>3, <1>4 DEF Next

\* A stored definition, its author, a verdict and its pins are never
\* rewritten, and a closed record never changes again.
THEOREM AppendOnly == Spec => GovernanceAppendOnly
  <1> DEFINE Kept == \A p \in ProcedureIds :
                         RecordKept(procedures[p], procedures'[p])
  <1>1. IInv /\ [Next]_vars => [Kept]_vars
    <2> SUFFICES ASSUME IInv, Next PROVE Kept
      OBVIOUS
    <2>1. CASE Lifecycle
      BY <2>1, LifecycleKeepsRecords
    <2>2. CASE ~Lifecycle
      BY <2>2, RunsKeepTable DEF RecordKept
    <2> QED
      BY <2>1, <2>2
  <1> QED
    BY <1>1, Invariance, PTL DEF Spec, GovernanceAppendOnly

\* The version a reviewer has to name counts the transitions of a record.
THEOREM VersionsCount == Spec => []VersionCountsTransitions
  <1>1. IInv => VersionCountsTransitions
    BY DEF IInv
  <1> QED
    BY <1>1, Invariance, PTL

-----------------------------------------------------------------------------
(* The procedure table implements the register of live procedures.         *)

\* A live procedure is the holder of its name.
LEMMA HolderOfName ==
    ASSUME IInv, NEW p \in ProcedureIds, procedures[p].status = "live",
           NEW n \in Names, procedures[p].definition.name = n
    PROVE  Holder(n) = p
  <1>1. p \in LiveWithName(n)
    BY DEF LiveWithName
  <1>2. \A q \in LiveWithName(n) : q = p
    BY DEF LiveWithName, IInv, OneLivePerName
  <1> QED
    BY <1>1, <1>2 DEF Holder

\* A stored definition has a name of the register.
LEMMA NameOfRecord ==
    ASSUME IInv, NEW p \in ProcedureIds, procedures[p].status # "absent"
    PROVE  procedures[p].definition.name \in Names
  <1>1. procedures[p].definition \in Definitions
    BY DEF IInv, RecordInv
  <1> QED
    BY <1>1, DefinitionsAssumption DEF DefinitionType

\* What the register shows of a step that neither makes a record live nor
\* retires one: nothing.
LEMMA RegisterStutters ==
    ASSUME \A q \in ProcedureIds :
               /\ procedures'[q].status = "live" <=> procedures[q].status = "live"
               /\ procedures'[q].status = "retired" <=>
                     procedures[q].status = "retired"
               /\ procedures[q].status = "live" =>
                     procedures'[q].definition = procedures[q].definition
    PROVE  UNCHANGED <<Holders, Installed>>
  <1>1. \A n \in Names : LiveWithName(n)' = LiveWithName(n)
    BY DEF LiveWithName
  <1>2. ASSUME NEW n \in Names PROVE Holder(n)' = Holder(n)
    <2>1. LiveWithName(n)' = LiveWithName(n)
      BY <1>1
    <2> QED
      BY <2>1 DEF Holder
  <1>3. Holders' = Holders
    BY <1>2 DEF Holders
  <1>4. Installed' = Installed
    BY DEF Installed
  <1> QED
    BY <1>3, <1>4

\* Names that a step does not concern keep their holder.
LEMMA OtherHolders ==
    ASSUME NEW n \in Names,
           \A q \in ProcedureIds :
               \/ procedures'[q] = procedures[q]
               \/ /\ procedures[q].definition.name = n
                  /\ procedures'[q].definition.name = n
    PROVE  \A m \in Names \ {n} : Holder(m)' = Holder(m)
  <1> SUFFICES ASSUME NEW m \in Names \ {n} PROVE Holder(m)' = Holder(m)
    OBVIOUS
  <1>1. LiveWithName(m)' = LiveWithName(m)
    BY DEF LiveWithName
  <1> QED
    BY <1>1 DEF Holder

\* Retiring a procedure empties the place of its name.
LEMMA RetireVacates ==
    ASSUME IInv, IInv', NEW p \in ProcedureIds, NEW v, RetireProcedure(p, v)
    PROVE  \E n \in Names : Register!Vacate(n)
  <1> DEFINE new == transition_procedure(procedures[p], "retired")
  <1>1. procedures \in [ProcedureIds -> ProcedureRecord]
    BY DEF IInv, TypeOK
  <1>2. /\ procedures[p].status = "live"
        /\ procedures' = [procedures EXCEPT ![p] = new]
    BY DEF RetireProcedure
  <1>3. new.status = "retired" /\ new.definition = procedures[p].definition
    BY <1>1 DEF transition_procedure, ProcedureRecord
  <1> HIDE DEF new
  <1>4. PICK n \in Names : n = procedures[p].definition.name
    BY <1>2, NameOfRecord
  <1>5. /\ procedures'[p] = new
        /\ \A q \in ProcedureIds : q # p => procedures'[q] = procedures[q]
    BY <1>1, <1>2
  <1>6. Holder(n) = p
    BY <1>2, <1>4, HolderOfName
  <1>7. \A m \in Names \ {n} : Holder(m)' = Holder(m)
    BY <1>3, <1>4, <1>5, OtherHolders
  <1>8. LiveWithName(n)' = {}
    <2> SUFFICES ASSUME NEW q \in ProcedureIds, procedures'[q].status = "live",
                        procedures'[q].definition.name = n
                 PROVE  FALSE
      BY DEF LiveWithName
    <2>1. q # p
      BY <1>3, <1>5
    <2> QED
      BY <2>1, <1>2, <1>4, <1>5 DEF IInv, OneLivePerName
  <1>9. \A m \in Names : Holder(m)' = IF m = n THEN None ELSE Holder(m)
    BY <1>7, <1>8 DEF Holder
  <1>10. Holders' = [Holders EXCEPT ![n] = None]
    BY <1>9 DEF Holders
  <1>11. Holders[n] # None
    BY <1>4, <1>6, NoneAssumption DEF Holders
  <1>12. Installed' = Installed
    BY <1>2, <1>3, <1>5 DEF Installed
  <1> QED
    BY <1>4, <1>10, <1>11, <1>12 DEF Register!Vacate

\* Accepting a procedure installs it, and with that removes its predecessor.
LEMMA AcceptInstalls ==
    ASSUME IInv, IInv', NEW p \in ProcedureIds, NEW a \in Actors, NEW v,
           AcceptProcedure(p, a, v)
    PROVE  \E n \in Names : Register!Install(n, p)
  <1> DEFINE s == procedures[p].supersedes
             live == transition_procedure(procedures[p], "live")
             new == [live EXCEPT !.reviewer = a, !.pins = CurrentWorld]
             mid == [procedures EXCEPT ![p] = new]
  <1>1. procedures \in [ProcedureIds -> ProcedureRecord]
    BY DEF IInv, TypeOK
  <1>2. /\ procedures[p].status = "pending"
        /\ procedures' = RetireSuperseded(mid, s)
    BY DEF AcceptProcedure
  <1>3. s # None => /\ s \in ProcedureIds /\ s # p
                    /\ procedures[s].status \in {"live", "retired"}
                    /\ procedures[s].definition.name =
                          procedures[p].definition.name
    BY SupersedesType DEF IInv, SupersessionChain
  <1>4. live \in ProcedureRecord /\ live.status = "live"
        /\ live.definition = procedures[p].definition
    <2>1. live \in ProcedureRecord
      BY <1>1, TransitionType DEF Statuses
    <2>2. live.status = "live" /\ live.definition = procedures[p].definition
      BY <1>1 DEF transition_procedure, ProcedureRecord
    <2> QED
      BY <2>1, <2>2
  <1> HIDE DEF live
  <1>5. new.status = "live" /\ new.definition = procedures[p].definition
    BY <1>4 DEF ProcedureRecord
  <1> HIDE DEF new
  <1>6. /\ DOMAIN mid = ProcedureIds
        /\ mid[p] = new
        /\ \A q \in ProcedureIds : q # p => mid[q] = procedures[q]
    BY <1>1
  <1> HIDE DEF mid
  <1>7. /\ procedures'[p] = new
        /\ \A q \in ProcedureIds : q # p /\ q # s => procedures'[q] = procedures[q]
    BY <1>2, <1>3, <1>6 DEF RetireSuperseded
  <1>8. s # None => /\ procedures'[s].status = "retired"
                    /\ procedures'[s].definition = procedures[s].definition
    <2> SUFFICES ASSUME s # None
                 PROVE  /\ procedures'[s].status = "retired"
                        /\ procedures'[s].definition = procedures[s].definition
      OBVIOUS
    <2>1. mid[s] = procedures[s] /\ procedures[s] \in ProcedureRecord
      BY <1>1, <1>3, <1>6
    <2> DEFINE old == transition_procedure(procedures[s], "retired")
    <2>2. old.status = "retired" /\ old.definition = procedures[s].definition
      BY <2>1 DEF transition_procedure, ProcedureRecord
    <2>3. CASE procedures[s].status = "live"
      <3>1. procedures' = [mid EXCEPT ![s] = old]
        BY <1>2, <2>1, <2>3 DEF RetireSuperseded
      <3> HIDE DEF old
      <3> QED
        BY <1>3, <1>6, <2>2, <3>1
    <2>4. CASE procedures[s].status = "retired"
      <3>1. procedures' = mid
        BY <1>2, <2>1, <2>4 DEF RetireSuperseded
      <3> QED
        BY <2>1, <2>4, <3>1
    <2> QED
      BY <1>3, <2>3, <2>4
  <1>9. PICK n \in Names : n = procedures[p].definition.name
    BY <1>2, NameOfRecord
  <1>10. Holder(n)' = p
    <2>1. p \in LiveWithName(n)'
      BY <1>5, <1>7, <1>9 DEF LiveWithName
    <2>2. \A q \in LiveWithName(n)' : q = p
      BY <1>5, <1>7, <1>9 DEF LiveWithName, IInv, OneLivePerName
    <2> QED
      BY <2>1, <2>2 DEF Holder
  <1>11. \A m \in Names \ {n} : Holder(m)' = Holder(m)
    <2>1. \A q \in ProcedureIds :
              \/ procedures'[q] = procedures[q]
              \/ /\ procedures[q].definition.name = n
                 /\ procedures'[q].definition.name = n
      <3> SUFFICES ASSUME NEW q \in ProcedureIds, procedures'[q] # procedures[q]
                   PROVE  /\ procedures[q].definition.name = n
                          /\ procedures'[q].definition.name = n
        OBVIOUS
      <3>1. CASE q = p
        BY <1>5, <1>7, <1>9, <3>1
      <3>2. CASE q # p
        <4>1. q = s /\ s # None
          BY <1>7, <3>2, NoneAssumption
        <4> QED
          BY <1>3, <1>8, <1>9, <4>1
      <3> QED
        BY <3>1, <3>2
    <2> QED
      BY <2>1, OtherHolders
  <1>12. Holders' = [Holders EXCEPT ![n] = p]
    BY <1>9, <1>10, <1>11 DEF Holders
  <1>13. p \notin Installed /\ Installed' = Installed \cup {p}
    <2>1. \A q \in ProcedureIds : q # p =>
              (procedures'[q].status \in {"live", "retired"} <=>
                  procedures[q].status \in {"live", "retired"})
      <3> SUFFICES ASSUME NEW q \in ProcedureIds, q # p
                   PROVE  procedures'[q].status \in {"live", "retired"} <=>
                             procedures[q].status \in {"live", "retired"}
        OBVIOUS
      <3>1. CASE q = s
        <4>1. s # None
          BY <3>1, NoneAssumption
        <4> QED
          BY <1>3, <1>8, <3>1, <4>1
      <3>2. CASE q # s
        BY <1>7, <3>2
      <3> QED
        BY <3>1, <3>2
    <2>2. procedures'[p].status = "live"
      BY <1>5, <1>7
    <2> QED
      BY <1>2, <2>1, <2>2 DEF Installed
  <1> QED
    BY <1>9, <1>12, <1>13 DEF Register!Install

\* Every step is a step of the register, or invisible to it.
LEMMA RegisterStep ==
    IInv /\ [Next]_vars => [Register!LRNext]_<<Holders, Installed>>
  <1> SUFFICES ASSUME IInv, [Next]_vars
               PROVE  [Register!LRNext]_<<Holders, Installed>>
    OBVIOUS
  <1>1. IInv'
    BY NextIInv
  <1>2. procedures \in [ProcedureIds -> ProcedureRecord]
    BY DEF IInv, TypeOK
  <1>3. CASE UNCHANGED procedures
    BY <1>3, RegisterStutters
  <1>4. ASSUME NEW p \in ProcedureIds, NEW d \in Definitions,
               NEW a \in Actors, NEW s \in ProcedureIds \cup {None},
               ProposeProcedure(p, d, s, a)
        PROVE  UNCHANGED <<Holders, Installed>>
    <2>1. /\ procedures[p].status = "absent" /\ procedures'[p].status = "pending"
          /\ \A q \in ProcedureIds : q # p => procedures'[q] = procedures[q]
      BY <1>2, <1>4 DEF ProposeProcedure
    <2> QED
      BY <2>1, RegisterStutters
  <1>5. ASSUME NEW p \in ProcedureIds, NEW a \in Actors, NEW v \in 1..3,
               NEW to \in {"rejected", "withdrawn"}, ClosePending(p, to, a, v)
        PROVE  UNCHANGED <<Holders, Installed>>
    <2> DEFINE mid == transition_procedure(procedures[p], to)
               new == [mid EXCEPT !.reviewer = a]
    <2>1. /\ procedures[p].status = "pending"
          /\ procedures' = [procedures EXCEPT ![p] = new]
      BY <1>5 DEF ClosePending
    <2>2. mid \in ProcedureRecord
      BY <1>2, TransitionType DEF Statuses
    <2>3. mid.status = to
      BY <1>2 DEF transition_procedure, ProcedureRecord
    <2> HIDE DEF mid
    <2>4. new.status = to
      BY <2>2, <2>3 DEF ProcedureRecord
    <2> HIDE DEF new
    <2>5. /\ procedures'[p] = new
          /\ \A q \in ProcedureIds : q # p => procedures'[q] = procedures[q]
      BY <1>2, <2>1
    <2> QED
      BY <2>1, <2>4, <2>5, RegisterStutters
  <1>6. CASE Lifecycle
    BY <1>1, <1>4, <1>5, <1>6, AcceptInstalls, RetireVacates
    DEF Lifecycle, RejectProcedure, WithdrawProcedure, Register!LRNext
  <1>7. CASE Next /\ ~Lifecycle
    BY <1>3, <1>7, RunsKeepTable
  <1>8. CASE UNCHANGED vars
    BY <1>3, <1>8 DEF vars
  <1> QED
    BY <1>6, <1>7, <1>8

\* The table starts as the empty register.
LEMMA RegisterInit == Init => Register!LRInit
  <1> SUFFICES ASSUME Init PROVE Register!LRInit
    OBVIOUS
  <1>1. \A p \in ProcedureIds : procedures[p].status = "absent"
    BY DEF Init, AbsentProcedure
  <1>2. \A n \in Names : LiveWithName(n) = {}
    BY <1>1 DEF LiveWithName
  <1> QED
    BY <1>1, <1>2 DEF Register!LRInit, Holders, Holder, Installed

\* Readers of the procedure table see a register of one procedure per name:
\* acceptance swaps the holder in one step, and nothing is installed twice.
THEOREM Refinement == Spec => ImplementsRegister
  <1> QED
    BY RegisterInit, RegisterStep, Invariance, PTL
    DEF Spec, ImplementsRegister, Register!LRSpec

-----------------------------------------------------------------------------
(* Retirement stops every run that has not been authorized.                *)

Unauthorized == {"started", "config_loaded", "preflighted"}

\* A run of a retired procedure that has not called a provider and is not
\* about to.
Stopped(r) ==
    /\ invocation[r].pc \in Unauthorized \cup {"returned", "crashed"}
    /\ invocation[r].procedure \in ProcedureIds
    /\ procedures[invocation[r].procedure].status = "retired"
    /\ calls[r] = 0

\* A step of one call leaves the locals of the others alone.
LEMMA CallsAreLocal ==
    ASSUME IInv, NEW r \in RunIds, NEW x \in RunIds \ {r},
           RunStep(x) \/ WallClockExpires(x) \/ CrashRun(x)
    PROVE  invocation'[r] = invocation[r] /\ calls'[r] = calls[r]
  <1>1. invocation \in [RunIds -> Invocation] /\ calls \in [RunIds -> Nat]
    BY DEF IInv, TypeOK
  <1>2. /\ \/ UNCHANGED invocation
           \/ \E inv : invocation' = [invocation EXCEPT ![x] = inv]
        /\ \/ UNCHANGED calls
           \/ \E n : calls' = [calls EXCEPT ![x] = n]
    BY DEF RunStep, RefuseNotLive, LoadConfig, RefusePreflight,
        PassPreflight, RefuseAuthorization, Authorize, CallProvider,
        FailExecution, CompleteExecution, FinalizeSuccess, FinalizeRun,
        WallClockExpires, CrashRun
  <1> QED
    BY <1>1, <1>2

\* The call itself can only go on to a refusal, or die.
LEMMA StoppedCall ==
    ASSUME IInv, NEW r \in RunIds, Stopped(r),
           RunStep(r) \/ WallClockExpires(r) \/ CrashRun(r)
    PROVE  /\ invocation'[r].pc \in Unauthorized \cup {"returned", "crashed"}
           /\ invocation'[r].procedure = invocation[r].procedure
           /\ calls' = calls
  <1>1. invocation \in [RunIds -> Invocation]
    BY DEF IInv, TypeOK
  <1>2. DOMAIN invocation = RunIds /\ invocation[r] \in Invocation
    BY <1>1
  <1> DEFINE Moved(to) == [invocation[r] EXCEPT !.pc = to]
  <1>3. \A to : Moved(to).pc = to
                /\ Moved(to).procedure = invocation[r].procedure
    BY <1>2 DEF Invocation
  <1>4. ASSUME RefuseNotLive(r) \/ RefuseAuthorization(r)
               \/ \E inputOk \in BOOLEAN : RefusePreflight(r, inputOk)
        PROVE  invocation' = [invocation EXCEPT ![r] = Moved("returned")]
               /\ calls' = calls
    BY <1>4 DEF RefuseNotLive, RefuseAuthorization, RefusePreflight, FinalizeRun
  <1>5. CASE RefuseNotLive(r) \/ RefuseAuthorization(r)
             \/ \E inputOk \in BOOLEAN : RefusePreflight(r, inputOk)
    <2> HIDE DEF Moved
    <2> QED
      BY <1>2, <1>3, <1>4, <1>5
  <1>6. CASE LoadConfig(r)
    BY <1>2, <1>6 DEF LoadConfig, Invocation, Unauthorized
  <1>7. CASE PassPreflight(r)
    BY <1>2, <1>7 DEF PassPreflight, Invocation, Unauthorized
  <1>8. CASE WallClockExpires(r)
    BY <1>2, <1>8 DEF WallClockExpires, Invocation, Stopped
  <1>9. CASE CrashRun(r)
    BY <1>2, <1>9 DEF CrashRun, Invocation
  <1>10. ~Authorize(r) /\ invocation[r].pc \notin {"executing", "executed"}
    BY DEF Stopped, Authorize, Unauthorized
  <1> QED
    BY <1>5, <1>6, <1>7, <1>8, <1>9, <1>10
    DEF RunStep, CallProvider, FailExecution, CompleteExecution, FinalizeSuccess

\* Nothing wakes a stopped run.
LEMMA StoppedStep ==
    ASSUME NEW r \in RunIds
    PROVE  IInv /\ Stopped(r) /\ [Next]_vars => Stopped(r)'
  <1> SUFFICES ASSUME IInv, Stopped(r), [Next]_vars PROVE Stopped(r)'
    OBVIOUS
  <1> DEFINE p == invocation[r].procedure
  <1>1. p \in ProcedureIds /\ procedures[p].status = "retired" /\ calls[r] = 0
    BY DEF Stopped
  <1>2. CASE Lifecycle
    <2>1. UNCHANGED <<invocation, calls>>
      BY <1>2 DEF Lifecycle, ProposeProcedure, AcceptProcedure,
          RejectProcedure, WithdrawProcedure, ClosePending, RetireProcedure
    <2>2. procedures'[p] = procedures[p]
      BY <1>1, <1>2, LifecycleKeepsRecords DEF RecordKept
    <2> QED
      BY <1>1, <2>1, <2>2 DEF Stopped
  <1>3. CASE Next /\ ~Lifecycle
    <2>1. UNCHANGED procedures
      BY <1>3, RunsKeepTable
    <2>2. ASSUME NEW x \in RunIds,
                 RunStep(x) \/ WallClockExpires(x) \/ CrashRun(x)
          PROVE  Stopped(r)'
      <3>1. CASE x = r
        BY <1>1, <2>1, <2>2, <3>1, StoppedCall DEF Stopped
      <3>2. CASE x # r
        BY <1>1, <2>1, <2>2, <3>2, CallsAreLocal DEF Stopped
      <3> QED
        BY <3>1, <3>2
    <2>3. ASSUME NEW x \in RunIds, NEW q \in ProcedureIds,
                 NEW m \in GOVERNED_WRITE..ADMIN, StartRun(x, q, m)
          PROVE  Stopped(r)'
      <3>1. x # r
        BY <2>3 DEF StartRun, Stopped, Unauthorized
      <3>2. invocation'[r] = invocation[r] /\ UNCHANGED calls
        BY <2>3, <3>1 DEF StartRun, IInv, TypeOK
      <3> QED
        BY <1>1, <2>1, <3>2 DEF Stopped
    <2>4. CASE Surroundings
      <3>1. UNCHANGED <<invocation, calls>>
        BY <2>4 DEF Surroundings, EditConfig, service_lock, CommitGraph
      <3> QED
        BY <1>1, <2>1, <3>1 DEF Stopped
    <2> QED
      BY <1>3, <2>2, <2>3, <2>4 DEF Next
  <1>4. CASE UNCHANGED vars
    BY <1>4 DEF vars, Stopped
  <1> QED
    BY <1>2, <1>3, <1>4

\* A run that was not authorized when its procedure was retired never calls
\* a provider.
THEOREM RetirementIsFinal == Spec => RetirementStopsRuns
  <1> SUFFICES ASSUME NEW r \in RunIds
               PROVE  Spec => [](/\ invocation[r].pc \in {"started", "config_loaded", "preflighted"}
                                 /\ procedures[invocation[r].procedure].status = "retired"
                                 => [](calls[r] = 0))
    BY DEF RetirementStopsRuns
  <1> DEFINE Retired == /\ invocation[r].pc \in {"started", "config_loaded", "preflighted"}
                        /\ procedures[invocation[r].procedure].status = "retired"
  <1>1. IInv /\ Retired => Stopped(r)
    BY DEF IInv, InvocationInv, Stopped, Unauthorized
  <1>2. Stopped(r) => calls[r] = 0
    BY DEF Stopped
  <1>3. IInv /\ Stopped(r) /\ [Next]_vars => Stopped(r)'
    BY StoppedStep
  <1> QED
    BY <1>1, <1>2, <1>3, Invariance, PTL DEF Spec
=============================================================================
