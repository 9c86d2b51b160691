------------------------------ MODULE AuditLog ------------------------------
(***************************************************************************)
(* app/core/telemetry.py, record_audit_log: the background task that links *)
(* an audit row to the hash chain whose head is the Redis key              *)
(* llmgov:audit:latest_hash, under WATCH / GET / MULTI-SET-EXEC optimistic *)
(* locking, and then inserts the row into ClickHouse.  A Writer is one     *)
(* such task, for one row; tasks of one or of several gateway processes    *)
(* interleave at every await.                                              *)
(***************************************************************************)
EXTENDS AuditRows

CONSTANTS
    Writers,        \* audit tasks, each with its own row
    MaxRetries,     \* max_retries, 5 in the code
    Faults          \* which of FaultKinds the environment may produce

\* "redis"   a command fails and was not applied (Redis down, not initialised)
\* "reply"   EXEC is applied but the connection drops before the reply
\* "insert"  the ClickHouse insert raises (server down, trace_id not a UUID)
\* "crash"   the task is lost with its process
\* "restart" Redis restarts from an older snapshot
FaultKinds == {"redis", "reply", "insert", "crash", "restart"}

ASSUME AuditAssumption ==
    /\ IsFiniteSet(Writers)
    /\ MaxRetries \in Nat \ {0}
    /\ Faults \subseteq FaultKinds

VARIABLES
    latest_hash,    \* the Redis key; GENESIS_HASH when it does not exist, which
                    \* is how the code reads a missing key
    watching,       \* tasks whose WATCH is unbroken
    pc,             \* the task's next await, "done" once its row is inserted,
                    \* "lost" when it ended without
    attempts,       \* completed iterations of the retry loop
    current_prev,   \* the task's local of that name
    prev_hash,      \* ditto; its row_hash is compute_row_hash(prev_hash, row)
    table           \* llm_audit_logs

vars == <<latest_hash, watching, pc, attempts, current_prev, prev_hash, table>>

HC == INSTANCE HashChain WITH Rows <- Writers, chain <- latest_hash

Init ==
    /\ latest_hash = GENESIS_HASH
    /\ watching = {}
    /\ pc = [w \in Writers |-> "watch"]
    /\ attempts = [w \in Writers |-> 0]
    /\ current_prev = [w \in Writers |-> GENESIS_HASH]
    /\ prev_hash = [w \in Writers |-> GENESIS_HASH]
    /\ table = {}

Goto(w, label) == pc' = [pc EXCEPT ![w] = label]

\* Mutants, here and below: a bug that the definition after it could have.
Watch_SkipsGet(w) ==             \* GET before the retry loop
    /\ pc[w] = "watch"
    /\ watching' = watching \cup {w}
    /\ Goto(w, IF attempts[w] = 0 THEN "get" ELSE "exec")
    /\ UNCHANGED <<latest_hash, attempts, current_prev, prev_hash, table>>

\* await pipe.watch(...)
Watch(w) ==
    /\ pc[w] = "watch"
    /\ watching' = watching \cup {w}
    /\ Goto(w, "get")
    /\ UNCHANGED <<latest_hash, attempts, current_prev, prev_hash, table>>

Get_TakesLink(w) ==              \* prev_hash assigned before the EXEC
    /\ pc[w] = "get"
    /\ current_prev' = [current_prev EXCEPT ![w] = latest_hash]
    /\ prev_hash' = [prev_hash EXCEPT ![w] = latest_hash]
    /\ Goto(w, "exec")
    /\ UNCHANGED <<latest_hash, watching, attempts, table>>

\* current_prev = await pipe.get(...)
Get(w) ==
    /\ pc[w] = "get"
    /\ current_prev' = [current_prev EXCEPT ![w] = latest_hash]
    /\ Goto(w, "exec")
    /\ UNCHANGED <<latest_hash, watching, attempts, prev_hash, table>>

SetLatestHash_Unwatched(w) ==    \* a plain SET
    /\ pc[w] = "exec"
    /\ latest_hash' = compute_row_hash(current_prev[w], w)
    /\ watching' = {}

SetLatestHash_OtherKey(w) ==     \* WATCH and SET name different keys
    /\ pc[w] = "exec"
    /\ w \in watching
    /\ latest_hash' = compute_row_hash(current_prev[w], w)
    /\ watching' = watching \ {w}

\* Redis runs the transaction, which breaks every other task's WATCH.
SetLatestHash(w) ==
    /\ pc[w] = "exec"
    /\ w \in watching
    /\ latest_hash' = compute_row_hash(current_prev[w], w)
    /\ watching' = {}

\* await pipe.execute() returns: the locals take the link and the loop breaks.
Exec(w) ==
    /\ SetLatestHash(w)
    /\ prev_hash' = [prev_hash EXCEPT ![w] = current_prev[w]]
    /\ Goto(w, "insert")
    /\ UNCHANGED <<attempts, current_prev, table>>

Retry_WatchedOnce(w) ==          \* WATCH before the retry loop
    /\ attempts' = [attempts EXCEPT ![w] = @ + 1]
    /\ Goto(w, IF attempts[w] + 1 < MaxRetries THEN "get" ELSE "insert")

Retry_OneFewer(w) ==             \* range(max_retries - 1)
    /\ attempts' = [attempts EXCEPT ![w] = @ + 1]
    /\ Goto(w, IF attempts[w] + 2 < MaxRetries THEN "watch" ELSE "insert")

Retry_OneMore(w) ==              \* range(max_retries + 1)
    /\ attempts' = [attempts EXCEPT ![w] = @ + 1]
    /\ Goto(w, IF attempts[w] < MaxRetries THEN "watch" ELSE "insert")

Retry_Forever(w) ==              \* while True
    /\ Goto(w, "watch")
    /\ UNCHANGED attempts

\* except redis.WatchError: continue.  After max_retries iterations the loop
\* simply ends, with prev_hash still GENESIS_HASH.
Retry(w) ==
    /\ attempts' = [attempts EXCEPT ![w] = @ + 1]
    /\ Goto(w, IF attempts[w] + 1 < MaxRetries THEN "watch" ELSE "insert")

\* EXEC is refused because the key was set after this task's WATCH.
ExecConflict(w) ==
    /\ pc[w] = "exec"
    /\ w \notin watching
    /\ Retry(w)
    /\ UNCHANGED <<latest_hash, watching, current_prev, prev_hash, table>>

\* except Exception: a warning, and the row keeps GENESIS_HASH.
GiveUp(w) ==
    /\ Goto(w, "insert")
    /\ UNCHANGED attempts

\* A Redis call fails.  Once the key is watched, redis-py reports a lost
\* connection as a WatchError; any other error ends the loop.
RedisError(w) ==
    /\ "redis" \in Faults
    /\ pc[w] \in {"watch", "get", "exec"}
    /\ GiveUp(w) \/ (pc[w] # "watch" /\ Retry(w))
    /\ watching' = watching \ {w}
    /\ UNCHANGED <<latest_hash, current_prev, prev_hash, table>>

\* The transaction is applied but the task is told that it was not.
ExecReplyLost(w) ==
    /\ "reply" \in Faults
    /\ SetLatestHash(w)
    /\ GiveUp(w) \/ Retry(w)
    /\ UNCHANGED <<current_prev, prev_hash, table>>

\* await asyncio.to_thread(_insert)
Insert(w) ==
    /\ pc[w] = "insert"
    /\ table' = table \cup {AuditRow(w, prev_hash[w])}
    /\ Goto(w, "done")
    /\ UNCHANGED <<latest_hash, watching, attempts, current_prev, prev_hash>>

\* _insert logs whatever it catches: the row is gone and nobody retries.
InsertFails(w) ==
    /\ "insert" \in Faults
    /\ pc[w] = "insert"
    /\ Goto(w, "lost")
    /\ UNCHANGED <<latest_hash, watching, attempts, current_prev, prev_hash, table>>

Crash(w) ==
    /\ "crash" \in Faults
    /\ pc[w] \notin {"done", "lost"}
    /\ Goto(w, "lost")
    /\ watching' = watching \ {w}
    /\ UNCHANGED <<latest_hash, attempts, current_prev, prev_hash, table>>

\* Redis comes back with an older value of the key (or none); connections, and
\* the WATCHes they held, are gone.
RedisRestart ==
    /\ "restart" \in Faults
    /\ latest_hash' \in Prefixes(latest_hash)
    /\ watching' = {}
    /\ UNCHANGED <<pc, attempts, current_prev, prev_hash, table>>

Step(w) == Watch(w) \/ Get(w) \/ Exec(w) \/ ExecConflict(w) \/ Insert(w)

Next ==
    \/ \E w \in Writers :
         \/ Step(w)
         \/ RedisError(w)
         \/ ExecReplyLost(w)
         \/ InsertFails(w)
         \/ Crash(w)
    \/ RedisRestart

Spec == Init /\ [][Next]_vars

\* Every task that is still alive keeps running, its calls to Redis and to
\* ClickHouse included; faults need not happen.
FairSpec == Spec /\ \A w \in Writers : WF_vars(Step(w))
------------------------------------------------------------------------------
Hashes == Seq(Writers)

TypeOK ==
    /\ latest_hash \in Hashes
    /\ watching \subseteq Writers
    /\ pc \in [Writers -> {"watch", "get", "exec", "insert", "done", "lost"}]
    /\ attempts \in [Writers -> 0 .. MaxRetries]
    /\ current_prev \in [Writers -> Hashes]
    /\ prev_hash \in [Writers -> Hashes]
    /\ table \subseteq [row : {Stored[w] : w \in Writers},
                       prev_hash : Hashes, row_hash : Hashes]

Quiescent == \A w \in Writers : pc[w] \in {"done", "lost"}

\* Two rows never claim the same predecessor, unless that is the genesis hash
\* which rows written without Redis share: the optimistic lock serialises
\* every writer that got through.
NoFork ==
    \A a, b \in table :
        a.prev_hash = b.prev_hash /\ a.prev_hash # GENESIS_HASH => a = b

\* A row with a predecessor lies on the one chain that latest_hash ends.
LinkedRowsOnChain ==
    \A rec \in table :
        rec.prev_hash # GENESIS_HASH => IsPrefix(rec.row_hash, latest_hash)

\* The head of the chain only moves forward, by one row at a time: no writer
\* overwrites a link that another one has made.
HeadOnlyGrows ==
    [][\E w \in Writers : latest_hash' = compute_row_hash(latest_hash, w)]_latest_hash

\* With Redis healthy, a task only loses a race to a row that was linked in its
\* place, and no two races to the same one: attempts are never burnt on tasks
\* that merely watch, retry or crash.
RacesLostToLinks ==
    \A w \in Writers :
        attempts[w] <= Cardinality({i \in DOMAIN latest_hash : latest_hash[i] # w})

\* With Redis healthy, chain and table account for each other: a row is linked
\* once; a link whose row is missing belongs to a task that has yet to insert
\* it, could not, or crashed; and a row off the chain is hashed from genesis
\* and belongs to a task that has lost max_retries races.
ChainAccounted ==
    /\ IsInjective(latest_hash)
    /\ \A i \in DOMAIN latest_hash :
         \/ AuditRow(latest_hash[i], SubSeq(latest_hash, 1, i - 1)) \in table
         \/ pc[latest_hash[i]] \in {"insert", "lost"}
    /\ \A w \in Writers :
         pc[w] = "done" /\ w \notin Range(latest_hash)
             => attempts[w] = MaxRetries /\ AuditRow(w, GENESIS_HASH) \in table

\* GENESIS_HASH as a predecessor means that the row is the first of the chain
\* (ADR-005: "in the absence of preceding rows"), as long as Redis answers.
GenesisOnlyForFirstRow ==
    \A rec \in table : rec.prev_hash = GENESIS_HASH => IsPrefix(rec.row_hash, latest_hash)

\* The hash of a row can be computed again from the row and its predecessor's
\* hash (ADR-005:7, sha256(prev_hash + serialized_row)), by whoever checks the
\* table for tampering.
RowHashRecomputable ==
    \A rec \in table : rec.row_hash = compute_row_hash(rec.prev_hash, rec.row)

\* Every audit task ends, whatever conflicts and faults it meets: the retry
\* loop cannot spin.  That each single Redis call returns is assumed (FairSpec).
EveryTaskEnds == <>Quiescent

\* The concrete log implements the abstract chain.
ImplementsHashChain == HC!Spec
==============================================================================
