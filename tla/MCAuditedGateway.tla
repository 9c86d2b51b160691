-------------------------- MODULE MCAuditedGateway --------------------------
(* Instances of AuditedGateway for TLC. *)
EXTENDS AuditedGateway

\* Rows that differ by less than the columns keep.
StoredAlike == [r \in Requests |-> "rounded"]
==============================================================================
