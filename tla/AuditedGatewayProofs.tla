------------------------ MODULE AuditedGatewayProofs ------------------------
(***************************************************************************)
(* AuditedGateway implements Gateway, so that what GatewayProofs says      *)
(* holds with the real audit task as well; and an answer that is served    *)
(* again has been through its audit task, which takes facts about both     *)
(* sides.                                                                  *)
(***************************************************************************)
EXTENDS AuditedGateway, GatewayProofs, FiniteSetTheorems, SequenceTheorems

\* The theorems about AuditLog, for the audit tasks of the gateway.
P == INSTANCE AuditLogProofs WITH Writers <- Requests, pc <- audit_pc

\* Every step of the composition is one of Gateway, or leaves its variables alone.
LEMMA StepOfGateway == [AuditedNext]_audited_vars => [Next]_vars
  <1> SUFFICES ASSUME [AuditedNext]_audited_vars PROVE [Next]_vars
    OBVIOUS
  <1>1. ASSUME NEW r \in Requests, AuditStep(r) PROVE UNCHANGED vars
    BY <1>1 DEF AuditStep
  <1>2. ASSUME NEW r \in Requests, RunAuditedTask(r) PROVE Next
    BY <1>2 DEF RunAuditedTask, Next
  <1>3. ASSUME NEW r \in Requests, AuditedCancel(r) PROVE Next
    BY <1>3 DEF AuditedCancel, Next
  <1>4. ASSUME NEW r \in Requests, HandlerStep(r) \/ EmbeddingEnds(r) \/ WriteMetrics(r)
        PROVE  Next
    BY <1>4 DEF Next
  <1>5. ASSUME NEW k \in Keys, Expire(k) PROVE Next
    BY <1>5 DEF Next
  <1>6. CASE AuditedCrash
    BY <1>6 DEF AuditedCrash, Next
  <1>7. CASE UNCHANGED audited_vars
    BY <1>7 DEF audited_vars
  <1>8. QED
    BY <1>1, <1>2, <1>3, <1>4, <1>5, <1>6, <1>7 DEF AuditedNext

\* With record_audit_log running await by await the gateway still behaves as
\* Gateway says, for any number of requests, keys, retries and crashes.
THEOREM AuditedGatewayImplementsGateway == AuditedSpec => Spec
  <1>1. AuditedInit => Init
    BY DEF AuditedInit
  <1>2. QED
    BY <1>1, StepOfGateway, PTL DEF AuditedSpec, Spec

\* No cached answer of the audited gateway is a fallback's, or another key's.
THEOREM AuditedCacheHoldsPrimaryAnswers == AuditedSpec => []CacheHoldsPrimaryAnswers
  BY AuditedGatewayImplementsGateway, OnlyPrimaryAnswersCached, PTL

\* The audited gateway keeps what is proved of the gateway alone: its types,
\* full scores, and no reuse of an answer that has not been recorded.
THEOREM AuditedGatewaySafe ==
  AuditedSpec => [](TypeOK /\ ScoredInFull /\ RecordedBeforeReuse)
  BY AuditedGatewayImplementsGateway, GatewayTypeCorrect, ScoredInFullAlways,
     ReuseOnlyAfterRecording, PTL
------------------------------------------------------------------------------
(***************************************************************************)
(* The audit tasks inside the gateway                                      *)
(***************************************************************************)

\* What the theorems about AuditLog assume.
LEMMA AuditHypotheses ==
  /\ P!IsFiniteSet(Requests) /\ MaxRetries \in Nat \ {0}
  /\ Faults \subseteq P!FaultKinds /\ "restart" \notin Faults
  <1>1. P!IsFiniteSet(Requests)
    BY GatewayAssumption DEF IsFiniteSet, P!IsFiniteSet
  <1>2. QED
    BY <1>1, AuditedAssumption DEF P!FaultKinds

\* A step of an audit task, in the words of the theorems about AuditLog.
LogStep(r) == P!Step(r) \/ P!RedisError(r) \/ P!ExecReplyLost(r) \/ P!InsertFails(r)

\* The two instances of AuditLog take the same steps.
LEMMA SameStep ==
  ASSUME NEW r, A!Step(r) \/ A!RedisError(r) \/ A!ExecReplyLost(r) \/ A!InsertFails(r)
  PROVE  LogStep(r)
  <1>1. CASE A!Step(r)
    BY <1>1 DEF LogStep, A!Step, A!Watch, A!Get, A!Exec, A!ExecConflict, A!Insert,
           A!Goto, A!SetLatestHash, A!Retry, A!compute_row_hash, A!AuditRow,
           P!Step, P!Watch, P!Get, P!Exec, P!ExecConflict, P!Insert,
           P!Goto, P!SetLatestHash, P!Retry, P!compute_row_hash, P!AuditRow
  <1>2. CASE A!RedisError(r)
    BY <1>2 DEF LogStep, A!RedisError, A!GiveUp, A!Retry, A!Goto,
                P!RedisError, P!GiveUp, P!Retry, P!Goto
  <1>3. CASE A!ExecReplyLost(r)
    BY <1>3 DEF LogStep, A!ExecReplyLost, A!SetLatestHash, A!compute_row_hash,
                A!GiveUp, A!Retry, A!Goto, P!ExecReplyLost, P!SetLatestHash,
                P!compute_row_hash, P!GiveUp, P!Retry, P!Goto
  <1>4. CASE A!InsertFails(r)
    BY <1>4 DEF LogStep, A!InsertFails, A!Goto, P!InsertFails, P!Goto
  <1>5. QED
    BY <1>1, <1>2, <1>3, <1>4

\* They begin in the same state.
LEMMA SameInit == A!Init => P!Init
  BY DEF A!Init, P!Init, A!GENESIS_HASH, P!GENESIS_HASH

\* The audit log's own invariants.
ChainKept == P!TypeOK /\ P!Looping /\ P!ChainInv

\* A row is the work of a task that is done, with the link it took, and such a
\* task has inserted its row.
RowsOfDone ==
    /\ \A rec \in table : \E r \in Requests :
         audit_pc[r] = "done" /\ rec = P!AuditRow(r, prev_hash[r])
    /\ \A r \in Requests :
         audit_pc[r] = "done" => P!AuditRow(r, prev_hash[r]) \in table

\* The background task only ends once record_audit_log has returned.
EndedMeansDone ==
    \A r \in Requests : "audit" \in ended[r] => audit_pc[r] \in {"done", "lost"}

AuditedInv == CacheInv /\ ChainKept /\ RowsOfDone /\ EndedMeansDone

\* The invariant holds at the start.
LEMMA AuditedInvInit == AuditedInit => AuditedInv
  <1> SUFFICES ASSUME AuditedInit PROVE AuditedInv
    OBVIOUS
  <1>1. Init /\ P!Init
    BY SameInit DEF AuditedInit
  <1>2. CacheInv
    BY <1>1, CacheInvInit
  <1>3. ChainKept
    <2>1. P!TypeOK
      BY <1>1, AuditHypotheses, P!TypeInit
    <2>2. P!Looping
      BY <1>1, AuditHypotheses, P!LoopingInit
    <2>3. P!ChainInv
      BY <1>1, AuditHypotheses, P!ChainInit
    <2>4. QED
      BY <2>1, <2>2, <2>3 DEF ChainKept
  <1>4. RowsOfDone
    BY <1>1 DEF P!Init, RowsOfDone
  <1>5. EndedMeansDone
    BY <1>1 DEF Init, EndedMeansDone
  <1>6. QED
    BY <1>2, <1>3, <1>4, <1>5 DEF AuditedInv

\* One await of an audit task.
LEMMA AuditStepKeeps ==
  ASSUME AuditedInv, NEW r \in Requests, AuditStep(r)
  PROVE  ChainKept' /\ RowsOfDone' /\ EndedMeansDone'
  <1>0. P!TypeOK /\ P!Looping /\ P!ChainInv /\ RowsOfDone /\ EndedMeansDone
    BY DEF AuditedInv, ChainKept
  <1>1. LogStep(r) /\ ended' = ended
    BY SameStep DEF AuditStep, vars, background
  <1>2. P!Next
    BY <1>1 DEF P!Next, LogStep
  <1>3. ChainKept'
    <2>1. P!TypeOK' /\ P!Looping'
      BY <1>0, <1>2, AuditHypotheses, P!TypeStep
    <2>2. P!ChainInv'
      BY <1>0, <1>2, AuditHypotheses, P!ChainStep
    <2>3. QED
      BY <2>1, <2>2 DEF ChainKept
  <1>4. audit_pc \in [Requests -> {"watch", "get", "exec", "insert", "done", "lost"}]
        /\ DOMAIN prev_hash = Requests
    BY <1>0 DEF P!TypeOK
  \* Whatever is not the insert leaves the table and those that are done alone.
  <1>5. CASE ~P!Insert(r)
    <2>1. /\ table' = table
          /\ audit_pc[r] \notin {"done", "lost"} /\ audit_pc'[r] # "done"
          /\ \A q \in Requests \ {r} : audit_pc'[q] = audit_pc[q] /\ prev_hash'[q] = prev_hash[q]
      BY <1>1, <1>4, <1>5
         DEF LogStep, P!Step, P!Watch, P!Get, P!Exec, P!ExecConflict, P!RedisError,
             P!ExecReplyLost, P!InsertFails, P!Goto, P!SetLatestHash, P!Retry, P!GiveUp
    <2>2. RowsOfDone'
      BY <1>0, <2>1 DEF RowsOfDone, P!AuditRow, P!compute_row_hash
    <2>3. EndedMeansDone'
      BY <1>0, <1>1, <2>1 DEF EndedMeansDone
    <2>4. QED
      BY <1>3, <2>2, <2>3
  <1>6. CASE P!Insert(r)
    <2>1. /\ table' = table \cup {P!AuditRow(r, prev_hash[r])}
          /\ audit_pc[r] = "insert" /\ audit_pc'[r] = "done"
          /\ \A q \in Requests \ {r} : audit_pc'[q] = audit_pc[q]
          /\ prev_hash' = prev_hash
      BY <1>4, <1>6 DEF P!Insert, P!Goto
    <2>2. \A rec \in table' : \E q \in Requests :
             audit_pc'[q] = "done" /\ rec = P!AuditRow(q, prev_hash'[q])
      <3> SUFFICES ASSUME NEW rec \in table'
                   PROVE  \E q \in Requests :
                            audit_pc'[q] = "done" /\ rec = P!AuditRow(q, prev_hash'[q])
        OBVIOUS
      <3>1. CASE rec \in table
        <4>1. PICK q \in Requests : audit_pc[q] = "done" /\ rec = P!AuditRow(q, prev_hash[q])
          BY <1>0, <3>1 DEF RowsOfDone
        <4>2. QED
          BY <2>1, <4>1
      <3>2. CASE rec = P!AuditRow(r, prev_hash[r])
        BY <2>1, <3>2
      <3>3. QED
        BY <2>1, <3>1, <3>2
    <2>3. \A q \in Requests :
             audit_pc'[q] = "done" => P!AuditRow(q, prev_hash'[q]) \in table'
      BY <1>0, <2>1 DEF RowsOfDone
    <2>4. RowsOfDone'
      BY <2>2, <2>3 DEF RowsOfDone, P!AuditRow, P!compute_row_hash
    <2>5. EndedMeansDone'
      BY <1>0, <1>1, <2>1 DEF EndedMeansDone
    <2>6. QED
      BY <1>3, <2>4, <2>5
  <1>7. QED
    BY <1>5, <1>6

\* A gateway step that at most drops WATCHes, and ends no audit task early.
LEMMA GatewayStepKeeps ==
  ASSUME AuditedInv, watching' \subseteq watching,
         UNCHANGED <<latest_hash, audit_pc, attempts, current_prev, prev_hash, table>>,
         \A r \in Requests : "audit" \in ended'[r] =>
             "audit" \in ended[r] \/ audit_pc[r] \in {"done", "lost"}
  PROVE  ChainKept' /\ RowsOfDone' /\ EndedMeansDone'
  <1>1. P!TypeOK' /\ P!Looping'
    BY DEF AuditedInv, ChainKept, P!TypeOK, P!Looping, P!Hashes
  <1>2. P!ChainInv'
    BY DEF AuditedInv, ChainKept, P!ChainInv, P!Fresh, P!OwnLink, P!TableLinks,
           P!AuditRow, P!compute_row_hash
  <1>3. RowsOfDone'
    BY DEF AuditedInv, RowsOfDone, P!AuditRow, P!compute_row_hash
  <1>4. EndedMeansDone'
    BY DEF AuditedInv, EndedMeansDone
  <1>5. QED
    BY <1>1, <1>2, <1>3, <1>4 DEF ChainKept

\* Every step of the composition keeps it.
LEMMA AuditedInvStep == AuditedInv /\ [AuditedNext]_audited_vars => AuditedInv'
  <1> SUFFICES ASSUME AuditedInv, [AuditedNext]_audited_vars
               PROVE  ChainKept' /\ RowsOfDone' /\ EndedMeansDone'
    BY StepOfGateway, CacheInvStep DEF AuditedInv
  <1> USE DEF audit
  <1>0. ended \in [Requests -> SUBSET Tasks]
    BY DEF AuditedInv, CacheInv
  <1>1. ASSUME NEW r \in Requests, AuditStep(r)
        PROVE  ChainKept' /\ RowsOfDone' /\ EndedMeansDone'
    BY <1>1, AuditStepKeeps
  <1>2. ASSUME NEW r \in Requests, RunAuditedTask(r)
        PROVE  ChainKept' /\ RowsOfDone' /\ EndedMeansDone'
    <2>1. /\ tasks[r] # <<>>
          /\ ended' = [ended EXCEPT ![r] = ended[r] \cup {Head(tasks[r])}]
          /\ Head(tasks[r]) = "audit" => audit_pc[r] \in {"done", "lost"}
      BY <1>2 DEF RunAuditedTask, RunTask, RunRecorder, CacheAnswer, EndTask, Auditing
    <2>2. \A q \in Requests : "audit" \in ended'[q] =>
             "audit" \in ended[q] \/ audit_pc[q] \in {"done", "lost"}
      BY <1>0, <2>1
    <2>3. QED
      BY <1>2, <2>2, GatewayStepKeeps DEF RunAuditedTask
  <1>3. ASSUME NEW r \in Requests, AuditedCancel(r)
        PROVE  ChainKept' /\ RowsOfDone' /\ EndedMeansDone'
    BY <1>3, GatewayStepKeeps DEF AuditedCancel, Cancel
  <1>4. ASSUME NEW r \in Requests,
               HandlerStep(r) \/ EmbeddingEnds(r) \/ WriteMetrics(r), UNCHANGED audit
        PROVE  ChainKept' /\ RowsOfDone' /\ EndedMeansDone'
    <2>1. ended' = ended
      BY <1>4 DEF HandlerStep, Authenticate, CheckRateLimit, CacheHit, CacheMiss,
                  ModelAnswers, PrimaryFails, ModelRaises, AwaitEmbedding, EmbedReference,
                  PublishReferences, ReferenceFails, EmbeddingEnds, WriteMetrics, background
    <2>2. QED
      BY <1>4, <2>1, GatewayStepKeeps
  <1>5. ASSUME NEW k \in Keys, Expire(k), UNCHANGED audit
        PROVE  ChainKept' /\ RowsOfDone' /\ EndedMeansDone'
    BY <1>5, GatewayStepKeeps DEF Expire
  <1>6. CASE AuditedCrash
    BY <1>6, GatewayStepKeeps DEF AuditedCrash, Crash
  <1>7. CASE UNCHANGED audited_vars
    BY <1>7, GatewayStepKeeps DEF audited_vars, vars, background
  <1>8. QED
    BY <1>1, <1>2, <1>3, <1>4, <1>5, <1>6, <1>7 DEF AuditedNext

\* The rows for a request, told from the others by what their hashes end in.
RowsOf(r) == {rec \in table : Last(rec.row_hash) = r}

\* The row that a hash was computed for can be told from the hash.
LEMMA LastOfRow ==
  ASSUME P!TypeOK, NEW r \in Requests
  PROVE  Last(P!AuditRow(r, prev_hash[r]).row_hash) = r
  <1> DEFINE h == Append(prev_hash[r], r)
  <1>1. prev_hash[r] \in Seq(Requests)
    BY DEF P!TypeOK, P!Hashes
  <1>2. Len(h) = Len(prev_hash[r]) + 1 /\ h[Len(prev_hash[r]) + 1] = r
    BY <1>1, AppendProperties
  <1>3. P!AuditRow(r, prev_hash[r]).row_hash = h
    BY DEF P!AuditRow, P!compute_row_hash
  <1> HIDE DEF h
  <1>4. QED
    BY <1>2, <1>3 DEF Last

\* There is one if the insert succeeded and none otherwise, and a linked one is
\* on the chain.
LEMMA RowsOnChain ==
  ASSUME AuditedInv, NEW r \in Requests
  PROVE  /\ Cardinality(RowsOf(r)) = IF audit_pc[r] = "done" THEN 1 ELSE 0
         /\ \A rec \in RowsOf(r) : rec.prev_hash = A!GENESIS_HASH
                                   \/ IsPrefix(rec.row_hash, latest_hash)
  <1> DEFINE own == P!AuditRow(r, prev_hash[r])
  <1>0. P!TypeOK /\ RowsOfDone
    BY DEF AuditedInv, ChainKept
  <1>1. Last(own.row_hash) = r
    BY <1>0, LastOfRow
  <1>2. \A rec \in RowsOf(r) : audit_pc[r] = "done" /\ rec = own
    <2> SUFFICES ASSUME NEW rec \in RowsOf(r) PROVE audit_pc[r] = "done" /\ rec = own
      OBVIOUS
    <2>1. rec \in table /\ Last(rec.row_hash) = r
      BY DEF RowsOf
    <2>2. PICK q \in Requests : audit_pc[q] = "done" /\ rec = P!AuditRow(q, prev_hash[q])
      BY <1>0, <2>1 DEF RowsOfDone
    <2>3. q = r
      BY <1>0, <2>1, <2>2, LastOfRow
    <2>4. QED
      BY <2>2, <2>3
  <1>3. audit_pc[r] = "done" => own \in RowsOf(r)
    BY <1>0, <1>1 DEF RowsOfDone, RowsOf
  <1>4. Cardinality(RowsOf(r)) = IF audit_pc[r] = "done" THEN 1 ELSE 0
    <2> HIDE DEF own
    <2>1. CASE audit_pc[r] = "done"
      <3>1. RowsOf(r) = {own}
        BY <1>2, <1>3, <2>1
      <3>2. QED
        BY <2>1, <3>1, FS_Singleton
    <2>2. CASE audit_pc[r] # "done"
      <3>1. RowsOf(r) = {}
        BY <1>2, <2>2
      <3>2. QED
        BY <2>2, <3>1, FS_EmptySet
    <2>3. QED
      BY <2>1, <2>2
  <1>5. \A rec \in RowsOf(r) : rec.prev_hash = A!GENESIS_HASH
                              \/ IsPrefix(rec.row_hash, latest_hash)
    <2>1. \A rec \in table : rec.prev_hash # P!GENESIS_HASH => P!IsPrefix(rec.row_hash, latest_hash)
      BY DEF AuditedInv, ChainKept, P!ChainInv, P!TableLinks
    <2>2. QED
      BY <2>1 DEF RowsOf, A!GENESIS_HASH, P!GENESIS_HASH, IsPrefix, P!IsPrefix
  <1>6. QED
    BY <1>4, <1>5

\* An answer served again from the cache has been through its audit task, and
\* has one row in the audit table, on the chain if it is linked, or none when
\* the insert failed: for any number of requests racing for the head, and
\* whatever failures of Redis and ClickHouse, crashes and cancellations come
\* between the task's awaits (completions.py:302-335 awaits it before the cache
\* write).
THEOREM ReusedAnswersAuditedAlways == AuditedSpec => []ReusedAnswersAudited
  <1>1. ASSUME AuditedInv PROVE ReusedAnswersAudited
    <2> SUFFICES ASSUME NEW r \in Requests, reply[r].status = 200, reply[r].origin # r
                 PROVE  /\ audit_pc[reply[r].origin] \in {"done", "lost"}
                        /\ Cardinality(RowsOf(reply[r].origin)) =
                             IF audit_pc[reply[r].origin] = "done" THEN 1 ELSE 0
                        /\ \A rec \in RowsOf(reply[r].origin) :
                             rec.prev_hash = A!GENESIS_HASH
                               \/ IsPrefix(rec.row_hash, latest_hash)
      BY DEF ReusedAnswersAudited, RowsOf
    <2>1. reply[r] \in [status : {200, 401, 429, 500, 503}, origin : Requests]
      BY <1>1 DEF AuditedInv, CacheInv, NoReply
    <2>2. reply[r].origin \in Requests
      BY <2>1
    <2>3. "audit" \in ended[reply[r].origin]
      BY <1>1 DEF AuditedInv, CacheInv, RecordedBeforeReuse
    <2>4. audit_pc[reply[r].origin] \in {"done", "lost"}
      BY <1>1, <2>2, <2>3 DEF AuditedInv, EndedMeansDone
    <2>5. QED
      BY <1>1, <2>2, <2>4, RowsOnChain
  <1>2. AuditedSpec => []AuditedInv
    BY AuditedInvInit, AuditedInvStep, PTL DEF AuditedSpec
  <1>3. QED
    BY <1>1, <1>2, PTL
==============================================================================
