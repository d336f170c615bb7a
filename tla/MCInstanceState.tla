-------------------------- MODULE MCInstanceState --------------------------
(* Small instances of InstanceState: an entity row with two properties and *)
(* an edge row with two.                                                   *)
EXTENDS InstanceState, TLC

CONSTANTS name, status, weight, note, v1, v2

MCCells == {name, status, weight, note}
MCEntityCells == {name, status}
MCEntityDeltas == {name :> v2, status :> v1}
MCEdgeDeltas == {note :> v1}
MCBatchDeltas == {status :> v2 @@ weight :> v1, weight :> v2}
MCWorkflowDelta == name :> v1 @@ weight :> v1

\* Handles are interchangeable.
Symmetry == Permutations(Processes)

=============================================================================
