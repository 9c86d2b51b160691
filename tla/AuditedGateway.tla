--------------------------- MODULE AuditedGateway ---------------------------
(***************************************************************************)
(* Gateway with the real audit task: record_audit_log (module AuditLog)    *)
(* runs await by await at the head of a request's background tasks, beside *)
(* the handlers and audit tasks of other requests, with the failures of    *)
(* Redis and ClickHouse that it swallows, crashes and cancellations.       *)
(***************************************************************************)
EXTENDS Gateway

CONSTANTS
    MaxRetries,     \* max_retries, 5 in the code
    Faults,         \* of AuditLog's, those that a service produces
    Stored          \* what the columns of llm_audit_logs keep of a request's row

\* Crashes are the process's, below; Redis is not restarted from a snapshot.
ASSUME AuditedAssumption ==
    /\ MaxRetries \in Nat \ {0}
    /\ Faults \subseteq {"redis", "reply", "insert"}

VARIABLES
    latest_hash, watching, audit_pc, attempts, current_prev, prev_hash, table

A == INSTANCE AuditLog WITH Writers <- Requests, pc <- audit_pc

audit == <<latest_hash, watching, audit_pc, attempts, current_prev, prev_hash, table>>
audited_vars == <<vars, audit>>

AuditedInit == Init /\ A!Init

Auditing(r) == tasks[r] # <<>> /\ Head(tasks[r]) = "audit"

\* From one await of record_audit_log to the next.  The insert fails, among
\* other reasons, when the trace id is not a UUID; a repeated one does not stop
\* it (the table has no unique key).
AuditStep(r) ==
    /\ Auditing(r)
    /\ \/ A!Step(r)
       \/ A!RedisError(r)
       \/ A!ExecReplyLost(r)
       \/ A!InsertFails(r)
    /\ UNCHANGED vars

\* A mutant: the audit is only started by its background task (create_task).
RunAuditedTask_NotAwaited(r) ==
    /\ RunTask(r)
    /\ UNCHANGED audit

\* A background task ends: the audit task when record_audit_log has returned,
\* with the row inserted or not.
RunAuditedTask(r) ==
    /\ RunTask(r)
    /\ Auditing(r) => audit_pc[r] \in {"done", "lost"}
    /\ UNCHANGED audit

\* The watched connection of a cancelled task is reset.  If its EXEC or its
\* insert still takes effect, it is as if it had ended just before.
AuditedCancel(r) ==
    /\ Cancel(r)
    /\ watching' = watching \ {r}
    /\ UNCHANGED <<latest_hash, audit_pc, attempts, current_prev, prev_hash, table>>

AuditedCrash ==
    /\ Crash
    /\ watching' = {}
    /\ UNCHANGED <<latest_hash, audit_pc, attempts, current_prev, prev_hash, table>>

AuditedNext ==
    \/ \E r \in Requests :
         \/ AuditStep(r)
         \/ RunAuditedTask(r)
         \/ AuditedCancel(r)
         \/ (HandlerStep(r) \/ EmbeddingEnds(r) \/ WriteMetrics(r)) /\ UNCHANGED audit
    \/ \E k \in Keys : Expire(k) /\ UNCHANGED audit
    \/ AuditedCrash

\* The audit task stands at one of its Redis calls, or another part of the
\* request does.
HeldByRedis(r) ==
    AwaitsRedis(r) /\ (Auditing(r) => audit_pc[r] \in {"watch", "get", "exec"})

\* Fairness as in Gateway: Redis calls may never return.
AuditedSpec ==
    /\ AuditedInit /\ [][AuditedNext]_audited_vars
    /\ \A r \in Requests :
         /\ WF_audited_vars(~AwaitsRedis(r) /\ HandlerStep(r) /\ UNCHANGED audit)
         /\ WF_audited_vars(EmbeddingEnds(r) /\ UNCHANGED audit)
         /\ ClickHouseResponds =>
              /\ WF_audited_vars(WriteMetrics(r) /\ UNCHANGED audit)
              /\ WF_audited_vars(~HeldByRedis(r) /\ (AuditStep(r) \/ RunAuditedTask(r)))
------------------------------------------------------------------------------
\* An answer is served again from the cache only when its audit task is through:
\* it has exactly one row in the audit table, unless the insert has failed, and
\* then none, nor will it get one.  A row that names a predecessor lies on the
\* chain.  No crash, cancellation, lost reply or race for the head between the
\* awaits of the task and the cache write behind it changes that.
ReusedAnswersAudited ==
    \A r \in Requests :
        LET origin == reply[r].origin
            rows == {rec \in table : Last(rec.row_hash) = origin}
        IN  reply[r].status = 200 /\ origin # r =>
                /\ audit_pc[origin] \in {"done", "lost"}
                /\ Cardinality(rows) = IF audit_pc[origin] = "done" THEN 1 ELSE 0
                /\ \A rec \in rows : rec.prev_hash = A!GENESIS_HASH
                                     \/ IsPrefix(rec.row_hash, latest_hash)
==============================================================================
