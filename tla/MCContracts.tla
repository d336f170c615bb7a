---------------------------- MODULE MCContracts ----------------------------
(* Small instances of ResolutionContracts. *)
EXTENDS ResolutionContracts, TLC

MCClocks == {<<0, 1>>, <<1, 2>>}

Symmetry == Permutations(Contents) \cup Permutations(ClaimContents)

\* Two contracts are there for the accepting writes that compete for them,
\* evidence and answers for one contract under one guard.  Until a contract is
\* open there is nothing to race, and once there is evidence the only write of
\* the subject is to its status.  A subject dies, and is revived, once it was accepted, late.
Focus ==
    LET idle == \A p \in Processes : view[p] = None
    IN /\ contracts = <<>> => idle /\ guards > 0 /\ query # None
       /\ Len(contracts) > 1 => evidence = <<>> /\ resolutions = <<>> /\ query # None
       /\ (\E s \in Subjects : life[s] # "live") =>
             /\ Len(contracts) = 1 /\ activations # {} /\ guards = 1 /\ idle
             /\ now = MaxTime /\ query # None /\ Len(resolutions) < MaxResolutions
       /\ evidence # <<>> \/ resolutions # <<>> =>
             /\ idle /\ guards = 1
             /\ \A s \in Subjects : entities[s] # None /\ entities[s].tracking = "required"
             /\ contracts # <<>> =>
                    entities[contracts[1].subject].content = contracts[1].digest.content

=============================================================================
