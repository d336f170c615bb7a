------------------------------ MODULE MCClaims ------------------------------
(* ClaimState on small instances. *)
EXTENDS ClaimState, TLC

Symmetry ==
    Permutations(Processes) \cup Permutations(Claims) \cup Permutations(Entities)
    \cup Permutations(Groups) \cup Permutations(Props) \cup Permutations(Values)

\* A claim whose content no write has touched and that no group has approved.
Plain(c) ==
    claims[c] # None => claims[c].group = None /\ \A p \in Props : claims[c].props[p] = None

\* Entities share nothing with claims but the rules of supersession: they
\* move before the first claim is made.  Content, drift and attestations of a
\* claim concern no other: they vary while there is one claim, and with two
\* claims only review and lifecycle do.  Attestations know nothing of groups,
\* and a second one is for retries and counts, not for content that moves.
Focus ==
    /\ (\E c \in Claims : claims[c] # None) => \A e \in Entities : life[e] = Fresh(e)
    /\ (\A c \in Claims : claims[c] # None) => attestations = <<>> /\ \A c \in Claims : Plain(c)
    /\ attestations # <<>> => \A c \in Claims : claims[c] # None => claims[c].group = None
    /\ Len(attestations) > 1 => \A c \in Claims : Plain(c)
=============================================================================
