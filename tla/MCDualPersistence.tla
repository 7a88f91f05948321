--------------------------- MODULE MCDualPersistence ---------------------------
(* Instances of DualPersistence for TLC. *)
EXTENDS DualPersistence, TLC

(* Clients are interchangeable; keys, digests and subjects are too few to  *)
(* be worth permuting.                                                     *)
ClientSymmetry == Permutations(Client)
=============================================================================
