------------------------------ MODULE HashChain ------------------------------
(***************************************************************************)
(* What record_audit_log promises its readers: one chain of row hashes     *)
(* that only grows, one link at a time, and an audit table in which every  *)
(* row is either a link of that chain or a row hashed from genesis.        *)
(***************************************************************************)
EXTENDS AuditRows

CONSTANT Rows       \* the serialized audit rows

VARIABLES
    chain,          \* the newest row hash
    table           \* the audit table

Links == {AuditRow(chain[i], SubSeq(chain, 1, i - 1)) : i \in DOMAIN chain}
Orphans == {AuditRow(row, GENESIS_HASH) : row \in Rows}

Init == chain = GENESIS_HASH /\ table = {}

Extend(row) ==
    /\ chain' = compute_row_hash(chain, row)
    /\ UNCHANGED table

Store(rec) ==
    /\ table' = table \cup {rec}
    /\ UNCHANGED chain

Next ==
    \/ \E row \in Rows : Extend(row)
    \/ \E rec \in Links \cup Orphans : Store(rec)

Spec == Init /\ [][Next]_<<chain, table>>
==============================================================================
