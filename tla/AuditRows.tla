----------------------------- MODULE AuditRows ------------------------------
(***************************************************************************)
(* app/core/telemetry.py, lines 21-84 (GENESIS_HASH, serialize_audit_row,  *)
(* compute_row_hash) and the table llm_audit_logs: hashes and rows of the  *)
(* audit chain.                                                            *)
(*                                                                         *)
(* SHA-256 is taken to be injective and prev_hash has a fixed width, so a  *)
(* hash is represented by the sequence of rows that were hashed into it,   *)
(* from genesis on.  Two hashes are equal iff their histories are.         *)
(***************************************************************************)
EXTENDS SequencesExt

CONSTANT Stored     \* Stored[row] is what the columns keep of a row: DateTime64(3)
                    \* drops microseconds, Float32 rounds the scores, UUID loses
                    \* the spelling of the id.  Different rows may be stored alike.

GENESIS_HASH == <<>>

\* The row is hashed as it is serialized: in full.
compute_row_hash(prev_hash, row) == Append(prev_hash, row)

\* A row of llm_audit_logs, reduced to what the chain is made of.  The two
\* hashes are Strings and kept exactly.
AuditRow(row, prev_hash) ==
    [row |-> Stored[row], prev_hash |-> prev_hash,
     row_hash |-> compute_row_hash(prev_hash, row)]
==============================================================================
