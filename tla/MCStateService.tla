--------------------------- MODULE MCStateService ---------------------------
(* The instances of StateService that TLC explores. *)
EXTENDS StateService

MCKinds == AllKinds

(* No request presents the key of a node: the middleware would lock twice. *)
MCCreds == AllCreds \ {"node"}
=============================================================================
