-------------------------- MODULE MCPassLifecycle --------------------------
(* Constants of the runs of PassLifecycle. *)
EXTENDS PassLifecycle, TLC

CONSTANTS LastDocDay

EveryoneVigente == [p \in Passengers |-> LastDocDay]
\* Every viewer is the same passenger.
SomeOwner == [w \in Viewers |-> CHOOSE p \in Passengers : TRUE]

Symmetry == Permutations(Issuers) \cup Permutations(Consumers)
=============================================================================
