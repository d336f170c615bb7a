---------------------------- MODULE LiveRegister ----------------------------
(***************************************************************************)
(* What the procedure lifecycle promises its callers, without reviews,     *)
(* versions or rows: a register that holds at most one procedure per name. *)
(* A procedure enters the register at most once in its life; installing a  *)
(* replacement removes its predecessor in the same step, so a reader finds *)
(* one holder of the name before it and one after it, never two.           *)
(***************************************************************************)
CONSTANTS Names, ProcedureIds, None

VARIABLES
    live,   \* live[n]: the procedure that holds name n, or None
    spent   \* the procedures that were ever installed

LRInit ==
    /\ live = [n \in Names |-> None]
    /\ spent = {}

Install(n, p) ==
    /\ p \notin spent
    /\ live' = [live EXCEPT ![n] = p]
    /\ spent' = spent \cup {p}

Vacate(n) ==
    /\ live[n] # None
    /\ live' = [live EXCEPT ![n] = None]
    /\ UNCHANGED spent

LRNext ==
    \E n \in Names : Vacate(n) \/ \E p \in ProcedureIds : Install(n, p)

LRSpec == LRInit /\ [][LRNext]_<<live, spent>>
=============================================================================
