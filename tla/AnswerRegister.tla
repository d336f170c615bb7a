--------------------------- MODULE AnswerRegister ---------------------------
(***************************************************************************)
(* What outcome contracts promise: each contract holds at most one         *)
(* standing answer.  It is given when there is none, a reviewer may        *)
(* withdraw it, and only the answer given last may be put back.            *)
(***************************************************************************)
CONSTANTS Contracts, Verdicts, None

VARIABLES
    standing,   \* [contract -> its standing answer, or None]
    last        \* [contract -> the answer given last, or None]

vars == <<standing, last>>

Init ==
    /\ standing = [c \in Contracts |-> None]
    /\ last = [c \in Contracts |-> None]

Answer(c, v) ==
    /\ standing[c] = None
    /\ standing' = [standing EXCEPT ![c] = v]
    /\ last' = [last EXCEPT ![c] = v]

Overturn(c) ==
    /\ standing[c] # None
    /\ standing' = [standing EXCEPT ![c] = None]
    /\ UNCHANGED last

Reinstate(c) ==
    /\ standing[c] = None /\ last[c] # None
    /\ standing' = [standing EXCEPT ![c] = last[c]]
    /\ UNCHANGED last

Next ==
    \E c \in Contracts :
        Overturn(c) \/ Reinstate(c) \/ \E v \in Verdicts : Answer(c, v)

Spec == Init /\ [][Next]_vars

=============================================================================
