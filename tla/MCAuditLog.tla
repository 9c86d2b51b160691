----------------------------- MODULE MCAuditLog -----------------------------
(* Instances of AuditLog for TLC. *)
EXTENDS AuditLog

Symmetry == Permutations(Writers)

\* Rows that differ by less than the columns keep.
StoredAlike == [w \in Writers |-> "rounded"]
==============================================================================
