------------------------------ MODULE MCGroups ------------------------------
(* Small instances of Groups. *)
EXTENDS Groups, TLC

\* Processes, theses and tuples are interchangeable.
Symmetry ==
    Permutations(Processes) \cup Permutations(Signatures) \cup Permutations(Tuples)

=============================================================================
