---------------------------- MODULE MCProcedures ----------------------------
(* Small instances of Procedures for TLC. *)
EXTENDS Procedures

CONSTANTS n1, c1, c2, g1, g2, a1, p1

\* Review: two names, definitions that always compile.
ReviewDefinitions ==
    [name : Names, tier : {GOVERNED_WRITE}, compilesIn : {Configs},
     precondition : {Graphs}, maxCalls : {0}]

\* Execution: one definition that compiles only under c1 and needs g1, one
\* that compiles everywhere, needs nothing and a higher tier.
RunDefinitions ==
    {[name |-> n1, tier |-> GOVERNED_WRITE, compilesIn |-> {c1},
      precondition |-> {g1}, maxCalls |-> 1],
     [name |-> n1, tier |-> GRAPH_WRITE, compilesIn |-> {c1, c2},
      precondition |-> {g1, g2}, maxCalls |-> 2]}

MCDefinitions == ReviewDefinitions \cup RunDefinitions

Recorded(ids, definitions) ==
    \A p \in ProcedureIds : procedures[p] # AbsentProcedure =>
        p \in ids /\ procedures[p].definition \in definitions

\* Records compete while the world stands still and nothing runs, or one
\* procedure runs while the world moves.
Focus ==
    \/ /\ Recorded(ProcedureIds, ReviewDefinitions)
       /\ \A r \in RunIds : runs[r] = AbsentRun
       /\ config = c1 /\ lock = [config |-> c1, artifacts |-> a1] /\ graph = g1
    \/ Recorded({p1}, RunDefinitions)
=============================================================================
