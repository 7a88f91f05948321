-------------------------- MODULE MCApplicationIntake --------------------------
(* Instances of ApplicationIntake for TLC. *)
EXTENDS ApplicationIntake, TLC

CONSTANTS u1, u2

BothUploads == [d \in Digest |-> {u1, u2}]

Interchangeable == Permutations(Client) \cup Permutations({u1, u2})
=============================================================================
