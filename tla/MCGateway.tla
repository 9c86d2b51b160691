------------------------------ MODULE MCGateway ------------------------------
(* Instances of Gateway for TLC. *)
EXTENDS Gateway

Symmetry == Permutations(Requests) \cup Permutations(Keys)
==============================================================================
