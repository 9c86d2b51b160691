-------------------------- MODULE MCProviderRouting --------------------------
(* Instances of ProviderRouting for TLC. *)
EXTENDS ProviderRouting, TLC

Symmetry == Permutations(Requests)
==============================================================================
