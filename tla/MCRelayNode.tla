------------------------------ MODULE MCRelayNode ------------------------------
(* The instances of RelayNode that TLC explores. *)
EXTENDS RelayNode, TLC

\* Ids and peers are compared and stored, never ordered.
IdsAndPeers == Permutations(SessionIds) \cup Permutations(Peers)
================================================================================
