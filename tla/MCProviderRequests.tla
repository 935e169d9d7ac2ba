------------------------- MODULE MCProviderRequests -------------------------
(* Three requests.  Two backends and two slots, one of them reserved for the  *)
(* user's turn q1: the chain and its breakers are at work.  One backend and  *)
(* three slots, so that the adaptive limit can move: with a user's turn, and *)
(* with auxiliary requests only, which could fill the reserved slot; and    *)
(* once with a limit that does not adapt.                                   *)
EXTENDS ProviderRequests, TLC

CONSTANTS q1, q2, q3

\* The user's turn may try both backends, q2 one, and q3 belongs to an operation
\* that has spent its attempts.
Small ==
    [max_concurrent |-> 2, foreground_reserved |-> 1, adaptive |-> TRUE, backends |-> 2,
     auxiliary |-> {q2, q3},
     max_attempts |-> q1 :> 2 @@ q2 :> 1 @@ q3 :> 0]
Adaptive ==
    [max_concurrent |-> 3, foreground_reserved |-> 1, adaptive |-> TRUE, backends |-> 1,
     auxiliary |-> {q2, q3},
     max_attempts |-> [r \in Requests |-> 1]]

AllConfigs ==
    {Small, Adaptive, [Adaptive EXCEPT !.auxiliary = Requests],
     [Adaptive EXCEPT !.adaptive = FALSE]}
=============================================================================
