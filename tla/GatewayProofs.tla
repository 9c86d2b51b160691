---------------------------- MODULE GatewayProofs ----------------------------
(***************************************************************************)
(* Theorems about Gateway, for any number of requests, keys and crashes:   *)
(* what the response cache may hold and when it may be used, and that      *)
(* answers are scored in full.                                             *)
(***************************************************************************)
EXTENDS Gateway, TLAPS

\* The queues a request can have: suffixes of what the handler queued.
Queues == {<<>>, <<"eval">>, <<"cache">>, <<"audit", "eval">>,
           <<"eval", "cache">>, <<"audit", "eval", "cache">>}

\* What is taken from each queue, and what is left of it.
LEMMA QueueTails ==
  /\ Head(<<"eval">>) = "eval" /\ Tail(<<"eval">>) = <<>>
  /\ Head(<<"cache">>) = "cache" /\ Tail(<<"cache">>) = <<>>
  /\ Head(<<"audit", "eval">>) = "audit" /\ Tail(<<"audit", "eval">>) = <<"eval">>
  /\ Head(<<"eval", "cache">>) = "eval" /\ Tail(<<"eval", "cache">>) = <<"cache">>
  /\ Head(<<"audit", "eval", "cache">>) = "audit"
  /\ Tail(<<"audit", "eval", "cache">>) = <<"eval", "cache">>
  OBVIOUS

\* No two of them are the same.
LEMMA QueuesDistinct ==
  /\ <<>> # <<"eval">> /\ <<>> # <<"cache">> /\ <<"eval">> # <<"cache">>
  /\ <<>> # <<"audit", "eval">> /\ <<>> # <<"eval", "cache">>
  /\ <<>> # <<"audit", "eval", "cache">>
  /\ <<"eval">> # <<"audit", "eval">> /\ <<"eval">> # <<"eval", "cache">>
  /\ <<"cache">> # <<"audit", "eval">> /\ <<"cache">> # <<"eval", "cache">>
  /\ <<"audit", "eval">> # <<"eval", "cache">>
  /\ <<"audit", "eval", "cache">> # <<"eval", "cache">>
  /\ <<"audit", "eval", "cache">> # <<"audit", "eval">>
  /\ <<"audit", "eval", "cache">> # <<"eval">>
  /\ <<"audit", "eval", "cache">> # <<"cache">>
  OBVIOUS

\* A queued task finds its predecessors in the queue done, and the cache write
\* is only queued for an answer of the primary.
QueueInv(r) ==
    /\ tasks[r] # <<>> => pc[r] = "replied" /\ key[r] \in Keys
    /\ tasks[r] \in {<<"eval">>, <<"eval", "cache">>} => "audit" \in ended[r]
    /\ tasks[r] = <<"cache">> => {"audit", "eval"} \subseteq ended[r]
    /\ tasks[r] \in {<<"cache">>, <<"eval", "cache">>, <<"audit", "eval", "cache">>}
         => answered_by[r] = "primary"

PayloadInv(k) ==
    cache[k] # NoPayload =>
        /\ cache[k].answered_by = "primary"
        /\ cache[k].key = k
        /\ {"audit", "eval"} \subseteq ended[cache[k].origin]

KeyInv(r) == pc[r] \in {"cache", "primary", "fallback", "embedding", "reference", "metrics"}
                => key[r] \in Keys

CacheInv ==
    /\ pc \in [Requests -> Stages]
    /\ key \in [Requests -> Keys \cup {NoKey}]
    /\ answered_by \in [Requests -> Models \cup {"none"}]
    /\ tasks \in [Requests -> Queues]
    /\ ended \in [Requests -> SUBSET Tasks]
    /\ reply \in [Requests -> {NoReply} \cup
                    [status : {200, 401, 429, 500, 503}, origin : Requests]]
    /\ cache \in [Keys -> {NoPayload} \cup
                    [origin : Requests, answered_by : Models, key : Keys]]
    /\ \A r \in Requests : QueueInv(r) /\ KeyInv(r)
    /\ \A k \in Keys : PayloadInv(k)
    /\ RecordedBeforeReuse

\* The invariant holds at the start.
LEMMA CacheInvInit == Init => CacheInv
  <1> SUFFICES ASSUME Init PROVE CacheInv
    OBVIOUS
  <1>1. \A r \in Requests : QueueInv(r) /\ KeyInv(r)
    BY QueuesDistinct DEF Init, QueueInv, KeyInv, Queues
  <1>2. \A k \in Keys : PayloadInv(k)
    BY DEF Init, PayloadInv
  <1>3. RecordedBeforeReuse
    BY DEF Init, RecordedBeforeReuse, NoReply
  <1>4. QED
    BY <1>1, <1>2, <1>3 DEF Init, CacheInv, Stages, Queues

\* Steps of the handler of r before its reply: they touch no queue, no payload
\* and no reply, and change only r's own entries.
LEMMA HandlerQuiet ==
  ASSUME CacheInv, NEW r \in Requests, pc[r] # "replied",
         UNCHANGED <<tasks, ended, cache, reply>>,
         NEW label \in Stages, Goto(r, label),
         key' \in [Requests -> Keys \cup {NoKey}],
         answered_by' \in [Requests -> Models \cup {"none"}],
         \A s \in Requests \ {r} : key'[s] = key[s] /\ answered_by'[s] = answered_by[s],
         KeyInv(r)'
  PROVE  CacheInv'
  <1>1. tasks[r] = <<>>
    BY DEF CacheInv, QueueInv
  <1>2. pc' \in [Requests -> Stages] /\ \A s \in Requests \ {r} : pc'[s] = pc[s]
    BY DEF Goto, CacheInv
  <1>3. \A s \in Requests : QueueInv(s)'
    <2> SUFFICES ASSUME NEW s \in Requests PROVE QueueInv(s)'
      OBVIOUS
    <2>1. CASE s = r
      BY <1>1, <2>1, QueuesDistinct DEF QueueInv
    <2>2. CASE s # r
      BY <1>2, <2>2 DEF CacheInv, QueueInv
    <2>3. QED
      BY <2>1, <2>2
  <1>4. \A s \in Requests : KeyInv(s)'
    BY <1>2 DEF CacheInv, KeyInv
  <1>5. (\A k \in Keys : PayloadInv(k))' /\ RecordedBeforeReuse'
    BY DEF CacheInv, PayloadInv, RecordedBeforeReuse
  <1>6. QED
    BY <1>2, <1>3, <1>4, <1>5 DEF CacheInv

\* Steps that end the handler of r with a reply of its own and queue nothing.
LEMMA HandlerReplies ==
  ASSUME CacheInv, NEW r \in Requests, pc[r] # "replied",
         NEW status \in {200, 401, 429, 500, 503},
         NEW origin \in Requests, Respond(r, status, origin),
         status = 200 => origin = r \/ {"audit", "eval"} \subseteq ended[origin],
         UNCHANGED <<key, answered_by, ended, cache>>,
         \A s \in Requests \ {r} : tasks'[s] = tasks[s],
         tasks' \in [Requests -> Queues],
         QueueInv(r)'
  PROVE  CacheInv'
  <1>1. /\ pc' \in [Requests -> Stages] /\ pc'[r] = "replied"
        /\ \A s \in Requests \ {r} : pc'[s] = pc[s]
    BY DEF Respond, Goto, CacheInv, Stages
  <1>2. /\ reply' \in [Requests -> {NoReply} \cup
                    [status : {200, 401, 429, 500, 503}, origin : Requests]]
        /\ reply'[r] = [status |-> status, origin |-> origin]
        /\ \A s \in Requests \ {r} : reply'[s] = reply[s]
    BY DEF Respond, Reply, CacheInv
  <1>3. \A s \in Requests : QueueInv(s)' /\ KeyInv(s)'
    BY <1>1 DEF CacheInv, QueueInv, KeyInv
  <1>4. RecordedBeforeReuse'
    BY <1>2 DEF CacheInv, RecordedBeforeReuse
  <1>5. (\A k \in Keys : PayloadInv(k))'
    BY DEF CacheInv, PayloadInv
  <1>6. QED
    BY <1>1, <1>2, <1>3, <1>4, <1>5 DEF CacheInv

\* A step of the handler keeps it: until the response, no task is queued and
\* nothing is cached.
LEMMA HandlerStepInv ==
  ASSUME CacheInv, NEW r \in Requests, HandlerStep(r)
  PROVE  CacheInv'
  <1> USE DEF handler, background, jailbreak
  <1>q. ASSUME tasks' = tasks, pc[r] # "replied" PROVE /\ QueueInv(r)'
                                                      /\ tasks' \in [Requests -> Queues]
    <2>1. tasks[r] = <<>>
      BY <1>q DEF CacheInv, QueueInv
    <2>2. QED
      BY <1>q, <2>1, QueuesDistinct DEF QueueInv, CacheInv
  \* Replies without an answer.
  <1>e. ASSUME NEW status \in {401, 429, 500, 503}, Respond(r, status, r),
               pc[r] # "replied",
               UNCHANGED <<key, answered_by, ended, cache, tasks>>
        PROVE  CacheInv'
    BY <1>e, <1>q, HandlerReplies
  <1>1. CASE Authenticate(r)
    <2>1. CASE Goto(r, "limit") /\ reply' = reply
      <3>1. KeyInv(r)'
        BY <2>1 DEF Goto, CacheInv, KeyInv
      <3>2. "limit" \in Stages
        BY DEF Stages
      <3>3. QED
        BY <1>1, <2>1, <3>1, <3>2, HandlerQuiet DEF Authenticate, CacheInv
    <2>2. QED
      BY <1>1, <1>e, <2>1 DEF Authenticate, AuthErrors
  <1>2. CASE CheckRateLimit(r)
    <2>1. CASE Goto(r, "cache") /\ reply' = reply
               /\ \E k \in Keys : key' = [key EXCEPT ![r] = k]
      <3>1. PICK k \in Keys : key' = [key EXCEPT ![r] = k]
        BY <2>1
      <3>2. /\ key' \in [Requests -> Keys \cup {NoKey}] /\ key'[r] = k
            /\ \A s \in Requests \ {r} : key'[s] = key[s]
        BY <3>1 DEF CacheInv
      <3>3. KeyInv(r)'
        BY <3>2 DEF KeyInv
      <3>4. "cache" \in Stages
        BY DEF Stages
      <3>5. QED
        BY <1>2, <2>1, <3>2, <3>3, <3>4, HandlerQuiet DEF CheckRateLimit, CacheInv
    <2>2. QED
      BY <1>2, <1>e, <2>1 DEF CheckRateLimit
  <1>3. CASE CacheHit(r)
    <2>1. cache[key[r]] # NoPayload /\ key[r] \in Keys
      BY <1>3 DEF CacheHit, CacheInv, KeyInv
    <2>2. /\ cache[key[r]].origin \in Requests
          /\ {"audit", "eval"} \subseteq ended[cache[key[r]].origin]
      BY <2>1 DEF CacheInv, PayloadInv
    <2>3. QED
      BY <1>3, <1>q, <2>2, HandlerReplies DEF CacheHit
  <1>4. CASE CacheMiss(r)
    <2>1. PICK model \in Models : Goto(r, model)
      BY <1>4 DEF CacheMiss
    <2>2. KeyInv(r)' /\ model \in Stages
      BY <1>4, <2>1 DEF CacheMiss, CacheInv, KeyInv, Models, Stages
    <2>3. QED
      BY <1>4, <2>1, <2>2, HandlerQuiet DEF CacheMiss, CacheInv
  <1>5. CASE ModelAnswers(r)
    <2>1. /\ answered_by' \in [Requests -> Models \cup {"none"}]
          /\ \A s \in Requests \ {r} : answered_by'[s] = answered_by[s]
      BY <1>5 DEF ModelAnswers, CacheInv
    <2>2. KeyInv(r)' /\ "embedding" \in Stages /\ pc[r] # "replied"
      BY <1>5 DEF ModelAnswers, CacheInv, KeyInv, Models, Stages
    <2>3. QED
      BY <1>5, <2>1, <2>2, HandlerQuiet DEF ModelAnswers, CacheInv
  <1>6. CASE PrimaryFails(r)
    BY <1>6, HandlerQuiet DEF PrimaryFails, Goto, CacheInv, KeyInv, Stages
  <1>7. CASE ModelRaises(r) \/ ReferenceFails(r)
    BY <1>7, <1>e DEF ModelRaises, ReferenceFails, Models
  <1>8. CASE AwaitEmbedding(r)
    BY <1>8, HandlerQuiet DEF AwaitEmbedding, Goto, CacheInv, KeyInv, Stages
  <1>9. CASE EmbedReference(r)
    BY <1>9 DEF EmbedReference, CacheInv, QueueInv, KeyInv, PayloadInv,
                RecordedBeforeReuse
  <1>10. CASE PublishReferences(r)
    BY <1>10, HandlerQuiet DEF PublishReferences, Goto, CacheInv, KeyInv, Stages
  <1>11. QED
    BY <1>1, <1>2, <1>3, <1>4, <1>5, <1>6, <1>7, <1>8, <1>9, <1>10 DEF HandlerStep

\* The last step of the handler keeps it: the cache task is queued behind the
\* audit task, for an answer of the primary only.
LEMMA WriteMetricsInv ==
  ASSUME CacheInv, NEW r \in Requests, WriteMetrics(r)
  PROVE  CacheInv'
  <1> USE DEF handler, background, jailbreak
  <1>1. /\ pc[r] = "metrics" /\ key[r] \in Keys
        /\ Respond(r, 200, r)
        /\ UNCHANGED <<key, answered_by, ended, cache>>
        /\ tasks' = [tasks EXCEPT ![r] = BackgroundTasks(r)]
    BY DEF WriteMetrics, CacheInv, KeyInv
  <1>2. BackgroundTasks(r) \in Queues
    BY DEF BackgroundTasks, Queues
  <1>3. /\ tasks' \in [Requests -> Queues] /\ tasks'[r] = BackgroundTasks(r)
        /\ \A s \in Requests \ {r} : tasks'[s] = tasks[s]
    BY <1>1, <1>2 DEF CacheInv
  <1>4. pc'[r] = "replied"
    BY <1>1 DEF Respond, Goto, CacheInv
  <1>5. QueueInv(r)'
    <2>1. CASE answered_by[r] = "primary"
      <3>1. tasks'[r] = <<"audit", "eval", "cache">>
        BY <1>3, <2>1 DEF BackgroundTasks
      <3>2. QED
        BY <1>1, <1>4, <2>1, <3>1, QueuesDistinct DEF QueueInv
    <2>2. CASE answered_by[r] # "primary"
      <3>1. tasks'[r] = <<"audit", "eval">>
        BY <1>3, <2>2 DEF BackgroundTasks
      <3>2. <<"audit", "eval">> # <<"cache">> /\ <<"audit", "eval">> # <<"eval", "cache">>
            /\ <<"audit", "eval">> # <<"audit", "eval", "cache">>
            /\ <<"audit", "eval">> # <<"eval">>
        BY QueuesDistinct
      <3>3. QED
        BY <1>1, <1>4, <3>1, <3>2 DEF QueueInv
    <2>3. QED
      BY <2>1, <2>2
  <1>6. pc[r] # "replied"
    BY <1>1
  <1>7. QED
    BY <1>1, <1>3, <1>5, <1>6, HandlerReplies

\* A background task that ends leaves a shorter queue, whose tasks still find
\* their predecessors done.
LEMMA EndTaskInv ==
  ASSUME CacheInv, NEW r \in Requests, EndTask(r), UNCHANGED <<handler>>
  PROVE  /\ tasks' \in [Requests -> Queues]
         /\ ended' \in [Requests -> SUBSET Tasks]
         /\ \A s \in Requests : QueueInv(s)' /\ ended[s] \subseteq ended'[s]
  <1> USE DEF handler
  <1>1. /\ tasks[r] \in Queues /\ tasks[r] # <<>>
        /\ tasks' = [tasks EXCEPT ![r] = Tail(tasks[r])]
        /\ ended' = [ended EXCEPT ![r] = ended[r] \cup {Head(tasks[r])}]
        /\ QueueInv(r)
    BY DEF EndTask, CacheInv
  <1>2. Tail(tasks[r]) \in Queues /\ Head(tasks[r]) \in Tasks
    BY <1>1, QueueTails DEF Queues, Tasks
  <1>3. /\ tasks' \in [Requests -> Queues] /\ tasks'[r] = Tail(tasks[r])
        /\ \A s \in Requests \ {r} : tasks'[s] = tasks[s]
    BY <1>1, <1>2 DEF CacheInv
  <1>4. /\ ended' \in [Requests -> SUBSET Tasks]
        /\ ended'[r] = ended[r] \cup {Head(tasks[r])}
        /\ \A s \in Requests \ {r} : ended'[s] = ended[s]
    BY <1>1, <1>2 DEF CacheInv
  <1>5. pc' = pc /\ key' = key /\ answered_by' = answered_by
    OBVIOUS
  <1>6. QueueInv(r)'
    <2>1. pc[r] = "replied" /\ key[r] \in Keys
      BY <1>1 DEF QueueInv
    <2>2. CASE tasks[r] = <<"eval">>
      <3>1. tasks'[r] = <<>>
        BY <1>3, <2>2, QueueTails
      <3>2. QED
        BY <2>1, <3>1, QueuesDistinct DEF QueueInv
    <2>3. CASE tasks[r] = <<"cache">>
      <3>1. tasks'[r] = <<>>
        BY <1>3, <2>3, QueueTails
      <3>2. QED
        BY <2>1, <3>1, QueuesDistinct DEF QueueInv
    <2>4. CASE tasks[r] = <<"audit", "eval">>
      <3>1. tasks'[r] = <<"eval">> /\ "audit" \in ended'[r]
        BY <1>3, <1>4, <2>4, QueueTails
      <3>2. QED
        BY <1>5, <2>1, <3>1, QueuesDistinct DEF QueueInv
    <2>5. CASE tasks[r] = <<"eval", "cache">>
      <3>1. tasks'[r] = <<"cache">> /\ "eval" \in ended'[r]
        BY <1>3, <1>4, <2>5, QueueTails
      <3>2. "audit" \in ended[r] /\ answered_by[r] = "primary"
        BY <1>1, <2>5 DEF QueueInv
      <3>3. {"audit", "eval"} \subseteq ended'[r]
        BY <1>4, <3>1, <3>2
      <3>4. QED
        BY <1>5, <2>1, <3>1, <3>2, <3>3, QueuesDistinct DEF QueueInv
    <2>6. CASE tasks[r] = <<"audit", "eval", "cache">>
      <3>1. tasks'[r] = <<"eval", "cache">> /\ "audit" \in ended'[r]
        BY <1>3, <1>4, <2>6, QueueTails
      <3>2. answered_by[r] = "primary"
        BY <1>1, <2>6 DEF QueueInv
      <3>3. QED
        BY <1>5, <2>1, <3>1, <3>2, QueuesDistinct DEF QueueInv
    <2>7. QED
      BY <1>1, <2>2, <2>3, <2>4, <2>5, <2>6 DEF Queues
  <1>7. ASSUME NEW s \in Requests PROVE QueueInv(s)'
    <2>1. CASE s # r
      <3>1. tasks'[s] = tasks[s] /\ ended'[s] = ended[s] /\ QueueInv(s)
        BY <1>3, <1>4, <2>1 DEF CacheInv
      <3>2. QED
        BY <1>5, <3>1 DEF QueueInv
    <2>2. QED
      BY <1>6, <2>1
  <1>8. QED
    BY <1>3, <1>4, <1>7

\* What a larger set of ended tasks leaves true of payloads and replies.
LEMMA MoreEnded ==
  ASSUME CacheInv, reply' = reply,
         \A s \in Requests : ended[s] \subseteq ended'[s]
  PROVE  /\ RecordedBeforeReuse'
         /\ \A k \in Keys : cache'[k] = cache[k] => PayloadInv(k)'
  <1>1. RecordedBeforeReuse'
    <2> SUFFICES ASSUME NEW r \in Requests, reply[r].status = 200
                 PROVE  reply[r].origin = r
                          \/ {"audit", "eval"} \subseteq ended'[reply[r].origin]
      BY DEF RecordedBeforeReuse
    <2>1. reply[r] \in [status : {200, 401, 429, 500, 503}, origin : Requests]
      BY DEF CacheInv, NoReply
    <2>2. reply[r].origin \in Requests
      BY <2>1
    <2>3. QED
      BY <2>2 DEF CacheInv, RecordedBeforeReuse
  <1>2. ASSUME NEW k \in Keys, cache'[k] = cache[k] PROVE PayloadInv(k)'
    <2>1. CASE cache[k] = NoPayload
      BY <1>2, <2>1 DEF PayloadInv
    <2>2. CASE cache[k] # NoPayload
      <3>1. cache[k].origin \in Requests /\ PayloadInv(k)
        BY <2>2 DEF CacheInv
      <3>2. QED
        BY <1>2, <2>2, <3>1 DEF PayloadInv
    <2>3. QED
      BY <2>1, <2>2
  <1>3. QED
    BY <1>1, <1>2

\* A background task keeps it: the tasks end in their order.
LEMMA RunTaskInv ==
  ASSUME CacheInv, NEW r \in Requests, RunTask(r)
  PROVE  CacheInv'
  <1> USE DEF handler
  <1>1. EndTask(r) /\ UNCHANGED handler
    BY DEF RunTask, RunRecorder, CacheAnswer
  <1>2. /\ tasks' \in [Requests -> Queues]
        /\ ended' \in [Requests -> SUBSET Tasks]
        /\ \A s \in Requests : QueueInv(s)' /\ ended[s] \subseteq ended'[s]
    BY <1>1, EndTaskInv
  <1>3. /\ RecordedBeforeReuse'
        /\ \A k \in Keys : cache'[k] = cache[k] => PayloadInv(k)'
    BY <1>1, <1>2, MoreEnded
  <1>4. \A s \in Requests : KeyInv(s)'
    BY <1>1 DEF CacheInv, KeyInv
  <1>5. CASE cache' = cache
    BY <1>1, <1>2, <1>3, <1>4, <1>5 DEF CacheInv
  <1>6. CASE cache' # cache
    <2> DEFINE payload == [origin |-> r, answered_by |-> answered_by[r], key |-> key[r]]
    <2>1. Head(tasks[r]) = "cache" /\ cache' = [cache EXCEPT ![key[r]] = payload]
      BY <1>6 DEF RunTask, RunRecorder, CacheAnswer
    <2>2. tasks[r] \in Queues /\ tasks[r] # <<>> /\ QueueInv(r)
      BY <1>1 DEF EndTask, CacheInv
    <2>3. tasks[r] = <<"cache">>
      BY <2>1, <2>2, QueueTails DEF Queues
    <2>4. /\ key[r] \in Keys /\ answered_by[r] = "primary"
          /\ {"audit", "eval"} \subseteq ended'[r]
      BY <1>2, <2>2, <2>3 DEF QueueInv
    <2>5. payload \in [origin : Requests, answered_by : Models, key : Keys]
      BY <2>4 DEF Models
    <2>6. /\ cache' \in [Keys -> {NoPayload} \cup
                    [origin : Requests, answered_by : Models, key : Keys]]
          /\ cache'[key[r]] = payload
          /\ \A k \in Keys \ {key[r]} : cache'[k] = cache[k]
      BY <2>1, <2>4, <2>5 DEF CacheInv
    <2>7. \A k \in Keys : PayloadInv(k)'
      <3>1. ASSUME NEW k \in Keys, k = key[r] PROVE PayloadInv(k)'
        <4>1. cache'[k] = payload
          BY <2>6, <3>1
        <4>2. QED
          BY <2>4, <3>1, <4>1 DEF PayloadInv
      <3>2. ASSUME NEW k \in Keys, k # key[r] PROVE PayloadInv(k)'
        BY <1>3, <2>6, <3>2
      <3>3. QED
        BY <3>1, <3>2
    <2>8. QED
      BY <1>1, <1>2, <1>3, <1>4, <2>6, <2>7 DEF CacheInv
  <1>7. QED
    BY <1>5, <1>6

\* A crash keeps it: what is cached stays recorded.
LEMMA CrashInv == CacheInv /\ Crash => CacheInv'
  <1> SUFFICES ASSUME CacheInv, Crash PROVE CacheInv'
    OBVIOUS
  <1>1. pc' \in [Requests -> Stages] /\ \A r \in Requests : pc'[r] \in {pc[r], "lost"}
    BY DEF Crash, CacheInv, Stages
  <1>2. tasks' = [r \in Requests |-> <<>>]
        /\ UNCHANGED <<key, answered_by, reply, ended, cache>>
    BY DEF Crash
  <1>3. \A r \in Requests : QueueInv(r)'
    BY <1>2, QueuesDistinct DEF QueueInv
  <1>4. \A r \in Requests : KeyInv(r)'
    BY <1>1, <1>2 DEF KeyInv, CacheInv
  <1>5. (\A k \in Keys : PayloadInv(k))' /\ RecordedBeforeReuse'
    BY <1>2 DEF CacheInv, PayloadInv, RecordedBeforeReuse
  <1>6. tasks' \in [Requests -> Queues]
    BY <1>2 DEF Queues
  <1>7. QED
    BY <1>1, <1>2, <1>3, <1>4, <1>5, <1>6 DEF CacheInv

\* A cancellation keeps it.
LEMMA CancelInv ==
  ASSUME CacheInv, NEW r \in Requests, Cancel(r)
  PROVE  CacheInv'
  <1>1. CASE pc[r] = "embedding"
    <2>1. Goto(r, "metrics") /\ UNCHANGED <<key, answered_by, tasks, ended, cache, reply>>
      BY <1>1 DEF Cancel
    <2>2. KeyInv(r)' /\ "metrics" \in Stages
      BY <1>1, <2>1 DEF Goto, CacheInv, KeyInv, Stages
    <2>3. QED
      BY <1>1, <2>1, <2>2, HandlerQuiet DEF CacheInv
  <1>2. CASE pc[r] # "embedding"
    <2>1. /\ Goto(r, "lost") /\ tasks' = [tasks EXCEPT ![r] = <<>>]
          /\ UNCHANGED <<key, answered_by, ended, cache, reply>>
      BY <1>2 DEF Cancel
    <2>2. /\ pc' \in [Requests -> Stages] /\ pc'[r] = "lost"
          /\ \A s \in Requests \ {r} : pc'[s] = pc[s]
      BY <2>1 DEF Goto, CacheInv, Stages
    <2>3. /\ tasks' \in [Requests -> Queues] /\ tasks'[r] = <<>>
          /\ \A s \in Requests \ {r} : tasks'[s] = tasks[s]
      BY <2>1 DEF CacheInv, Queues
    <2>4. QueueInv(r)' /\ KeyInv(r)'
      BY <2>2, <2>3, QueuesDistinct DEF QueueInv, KeyInv
    <2>5. \A s \in Requests \ {r} : QueueInv(s)' /\ KeyInv(s)'
      BY <2>1, <2>2, <2>3 DEF CacheInv, QueueInv, KeyInv
    <2>6. (\A k \in Keys : PayloadInv(k))' /\ RecordedBeforeReuse'
      BY <2>1 DEF CacheInv, PayloadInv, RecordedBeforeReuse
    <2>7. QED
      BY <2>1, <2>2, <2>3, <2>4, <2>5, <2>6 DEF CacheInv
  <1>3. QED
    BY <1>1, <1>2

\* Every step keeps it.
LEMMA CacheInvStep == CacheInv /\ [Next]_vars => CacheInv'
  <1> SUFFICES ASSUME CacheInv, [Next]_vars PROVE CacheInv'
    OBVIOUS
  <1>1. ASSUME NEW r \in Requests, EmbeddingEnds(r) PROVE CacheInv'
    BY <1>1 DEF EmbeddingEnds, handler, background, CacheInv, QueueInv, KeyInv, PayloadInv,
                RecordedBeforeReuse
  <1>2. ASSUME NEW k \in Keys, Expire(k) PROVE CacheInv'
    <2>1. /\ cache' = [cache EXCEPT ![k] = NoPayload]
          /\ UNCHANGED <<handler, tasks, ended>>
      BY <1>2 DEF Expire
    <2>2. \A j \in Keys : PayloadInv(j)'
      BY <2>1 DEF CacheInv, PayloadInv
    <2>3. \A r \in Requests : QueueInv(r)' /\ KeyInv(r)'
      BY <2>1 DEF handler, CacheInv, QueueInv, KeyInv
    <2>4. RecordedBeforeReuse'
      BY <2>1 DEF handler, CacheInv, RecordedBeforeReuse
    <2>5. QED
      BY <2>1, <2>2, <2>3, <2>4 DEF handler, CacheInv
  <1>3. CASE UNCHANGED vars
    BY <1>3 DEF vars, handler, background, CacheInv, QueueInv, KeyInv, PayloadInv,
                RecordedBeforeReuse
  <1>4. QED
    BY <1>1, <1>2, <1>3, HandlerStepInv, WriteMetricsInv, RunTaskInv, CancelInv, CrashInv
       DEF Next

\* The inductive invariant behind the two theorems below.
THEOREM CacheInvariant == Spec => []CacheInv
  BY CacheInvInit, CacheInvStep, PTL DEF Spec

\* Whatever the interleaving of requests, tasks, expiries and crashes, the
\* cache holds answers of the primary only, each under the key it was asked
\* for: completions.py queues the cache write for nothing else.
THEOREM OnlyPrimaryAnswersCached == Spec => []CacheHoldsPrimaryAnswers
  <1>1. CacheInv => CacheHoldsPrimaryAnswers
    BY DEF CacheInv, PayloadInv, CacheHoldsPrimaryAnswers
  <1>2. QED
    BY <1>1, CacheInvariant, PTL

\* A reply taken from the cache is one whose audit and evaluation tasks have
\* run, for any number of concurrent requests: the queue order of
\* completions.py:302-335 is what makes it so.
THEOREM ReuseOnlyAfterRecording == Spec => []RecordedBeforeReuse
  <1>1. CacheInv => RecordedBeforeReuse
    BY DEF CacheInv
  <1>2. QED
    BY <1>1, CacheInvariant, PTL
------------------------------------------------------------------------------
(***************************************************************************)
(* The states of Gateway are well typed, and an answer goes out scored     *)
(* against every reference vector or none, however the requests that build *)
(* the shared vectors race.                                                *)
(***************************************************************************)
\* What CacheInv does not say about types.
ScoringTypes ==
    /\ embedding \in [Requests -> {"none", "running", "vector", "failed"}]
    /\ loaded \in [Requests -> 0 .. ReferencePrompts]
    /\ compared \in [Requests -> 0 .. ReferencePrompts]
    /\ reference_vectors \in 0 .. ReferencePrompts
    /\ vectors_initialized \in BOOLEAN
    /\ crashes \in 0 .. MaxCrashes

Ended == {"replied", "lost"}

\* The way of a request to its score: nothing is embedded before "reference",
\* nothing compared before "metrics", nothing sent or recorded before the end.
ScoringInv(r) ==
    /\ pc[r] \notin Ended => reply[r] = NoReply /\ ended[r] = {}
    /\ pc[r] \notin Ended \cup {"reference", "metrics"} => loaded[r] = 0
    /\ pc[r] \notin Ended \cup {"metrics"} => compared[r] = 0
    /\ pc[r] = "reference" => embedding[r] = "vector" /\ loaded[r] < ReferencePrompts
    /\ pc[r] = "metrics" \/ reply[r] = Reply(200, r) =>
          /\ embedding[r] \in {"vector", "failed"}
          /\ compared[r] = IF embedding[r] = "vector" THEN ReferencePrompts ELSE 0

\* The flag is never up over a partial list.
VectorsWhole == vectors_initialized => reference_vectors = ReferencePrompts

GatewayInv ==
    /\ CacheInv
    /\ ScoringTypes
    /\ VectorsWhole
    /\ \A r \in Requests : ScoringInv(r)

\* A request without a reply has not been answered.
LEMMA NoReplyIsNoAnswer ==
  ASSUME NEW r
  PROVE  NoReply # Reply(200, r)
  <1>1. NoReply.status # Reply(200, r).status
    BY DEF NoReply, Reply
  <1>2. QED
    BY <1>1

\* The invariant holds at the start.
LEMMA GatewayInvInit == Init => GatewayInv
  <1> SUFFICES ASSUME Init PROVE GatewayInv
    OBVIOUS
  <1>1. ScoringTypes
    <2>1. 0 \in 0 .. ReferencePrompts /\ 0 \in 0 .. MaxCrashes
      BY GatewayAssumption
    <2>2. vectors_initialized \in BOOLEAN
      BY DEF Init
    <2>3. /\ embedding \in [Requests -> {"none", "running", "vector", "failed"}]
          /\ loaded \in [Requests -> 0 .. ReferencePrompts]
          /\ compared \in [Requests -> 0 .. ReferencePrompts]
      BY <2>1 DEF Init
    <2>4. reference_vectors = 0 /\ crashes = 0
      BY DEF Init
    <2>5. QED
      BY <2>1, <2>2, <2>3, <2>4, Zenon DEF ScoringTypes
  <1>2. VectorsWhole
    BY DEF Init, VectorsWhole
  <1>3. ASSUME NEW r \in Requests PROVE ScoringInv(r)
    <2>1. /\ pc[r] = "auth" /\ reply[r] = NoReply /\ ended[r] = {}
          /\ loaded[r] = 0 /\ compared[r] = 0
      BY DEF Init
    <2>2. reply[r] # Reply(200, r)
      BY <2>1, NoReplyIsNoAnswer
    <2>3. QED
      BY <2>1, <2>2 DEF ScoringInv, Ended
  <1>4. QED
    BY <1>1, <1>2, <1>3, CacheInvInit DEF GatewayInv

\* The step of a request r leaves what ScoringInv says of the others alone.
OnlyOf(r) ==
    \A s \in Requests \ {r} :
        /\ pc'[s] = pc[s]
        /\ reply'[s] = reply[s]
        /\ ended'[s] = ended[s]
        /\ loaded'[s] = loaded[s]
        /\ compared'[s] = compared[s]
        /\ embedding'[s] = embedding[s]

\* A step of one request has to be looked at for that request only.
LEMMA GatewayInvLocal ==
  ASSUME GatewayInv, NEW r \in Requests, CacheInv', OnlyOf(r),
         ScoringTypes', VectorsWhole', ScoringInv(r)'
  PROVE  GatewayInv'
  <1>1. ASSUME NEW s \in Requests, s # r PROVE ScoringInv(s)'
    <2>1. ScoringInv(s)
      BY DEF GatewayInv
    <2>2. QED
      BY <1>1, <2>1 DEF OnlyOf, ScoringInv, Ended, Reply, NoReply
  <1>2. QED
    BY <1>1 DEF GatewayInv

\* A reply of r's own that is not an answer.
LEMMA ErrorReply ==
  ASSUME GatewayInv, CacheInv', NEW r \in Requests, NEW status \in {401, 429, 500, 503},
         Respond(r, status, r),
         UNCHANGED <<ended, loaded, compared, embedding, jailbreak, crashes>>
  PROVE  GatewayInv'
  <1>1. /\ pc' = [pc EXCEPT ![r] = "replied"]
        /\ reply' = [reply EXCEPT ![r] = Reply(status, r)]
        /\ pc \in [Requests -> Stages]
        /\ DOMAIN reply = Requests
    BY DEF Respond, Goto, GatewayInv, CacheInv
  <1>2. OnlyOf(r)
    BY <1>1 DEF OnlyOf
  <1>3. pc'[r] = "replied" /\ reply'[r] = Reply(status, r)
    BY <1>1
  <1>4. Reply(status, r) # Reply(200, r)
    BY DEF Reply
  <1>5. ScoringInv(r)'
    BY <1>3, <1>4 DEF ScoringInv, Ended, Reply
  <1>6. ScoringTypes' /\ VectorsWhole'
    BY DEF GatewayInv, ScoringTypes, VectorsWhole, jailbreak
  <1>7. QED
    BY <1>2, <1>5, <1>6, GatewayInvLocal

\* A step to another await that scores nothing.
LEMMA MovesOn ==
  ASSUME GatewayInv, CacheInv', NEW r \in Requests, NEW label, Goto(r, label),
         pc[r] \notin Ended \cup {"reference", "metrics"},
         label \notin Ended \cup {"reference", "metrics"},
         UNCHANGED <<reply, ended, loaded, compared, jailbreak, crashes>>,
         embedding' \in [Requests -> {"none", "running", "vector", "failed"}],
         \A s \in Requests \ {r} : embedding'[s] = embedding[s]
  PROVE  GatewayInv'
  <1>1. pc' = [pc EXCEPT ![r] = label] /\ pc \in [Requests -> Stages]
    BY DEF Goto, GatewayInv, CacheInv
  <1>2. OnlyOf(r)
    BY <1>1 DEF OnlyOf
  <1>3. pc'[r] = label
    BY <1>1
  <1>4. ScoringInv(r)
    BY DEF GatewayInv
  <1>5. ScoringInv(r)'
    BY <1>3, <1>4 DEF ScoringInv, Ended, Reply, NoReply
  <1>6. ScoringTypes' /\ VectorsWhole'
    BY DEF GatewayInv, ScoringTypes, VectorsWhole, jailbreak
  <1>7. QED
    BY <1>2, <1>5, <1>6, GatewayInvLocal

\* A step of the handler keeps it.
LEMMA HandlerStepKeeps ==
  ASSUME GatewayInv, CacheInv', NEW r \in Requests, HandlerStep(r)
  PROVE  GatewayInv'
  <1> USE DEF handler, background
  <1>0. /\ pc \in [Requests -> Stages]
        /\ embedding \in [Requests -> {"none", "running", "vector", "failed"}]
        /\ loaded \in [Requests -> 0 .. ReferencePrompts]
        /\ compared \in [Requests -> 0 .. ReferencePrompts]
        /\ reference_vectors \in 0 .. ReferencePrompts
        /\ ScoringInv(r) /\ ScoringTypes /\ VectorsWhole
    BY DEF GatewayInv, CacheInv, ScoringTypes
  <1>1. CASE Authenticate(r)
    <2>1. CASE Goto(r, "limit") /\ reply' = reply
      BY <1>0, <1>1, <2>1, MovesOn DEF Authenticate, Ended
    <2>2. QED
      BY <1>1, <2>1, ErrorReply DEF Authenticate, AuthErrors
  <1>2. CASE CheckRateLimit(r)
    <2>1. CASE Goto(r, "cache") /\ reply' = reply
      BY <1>0, <1>2, <2>1, MovesOn DEF CheckRateLimit, Ended
    <2>2. QED
      BY <1>2, <2>1, ErrorReply DEF CheckRateLimit
  \* The payload is another request's: r has recorded nothing yet.
  <1>3. CASE CacheHit(r)
    <2> DEFINE origin == cache[key[r]].origin
    <2>1. cache[key[r]] # NoPayload /\ key[r] \in Keys /\ pc[r] = "cache"
      BY <1>3 DEF CacheHit, GatewayInv, CacheInv, KeyInv
    <2>2. origin \in Requests /\ {"audit", "eval"} \subseteq ended[origin]
      BY <2>1 DEF GatewayInv, CacheInv, PayloadInv
    <2>3. ended[r] = {}
      BY <1>0, <2>1 DEF ScoringInv, Ended
    <2>4. origin # r
      BY <2>2, <2>3
    <2>5. /\ pc' = [pc EXCEPT ![r] = "replied"]
          /\ reply' = [reply EXCEPT ![r] = Reply(200, origin)]
          /\ DOMAIN reply = Requests
          /\ UNCHANGED <<ended, loaded, compared, embedding, jailbreak, crashes>>
      BY <1>3 DEF CacheHit, Respond, Goto, GatewayInv, CacheInv
    <2> HIDE DEF origin
    <2>6. OnlyOf(r) /\ pc'[r] = "replied" /\ reply'[r] = Reply(200, origin)
      BY <1>0, <2>5 DEF OnlyOf
    <2>7. Reply(200, origin) # Reply(200, r)
      BY <2>4 DEF Reply
    <2>8. ScoringInv(r)'
      BY <2>6, <2>7 DEF ScoringInv, Ended, Reply
    <2>9. ScoringTypes' /\ VectorsWhole'
      BY <1>0, <2>5 DEF ScoringTypes, VectorsWhole, jailbreak
    <2>10. QED
      BY <2>6, <2>8, <2>9, GatewayInvLocal
  <1>4. CASE CacheMiss(r)
    <2>1. PICK model \in Models : Goto(r, model)
      BY <1>4 DEF CacheMiss
    <2>2. /\ embedding' \in [Requests -> {"none", "running", "vector", "failed"}]
          /\ \A s \in Requests \ {r} : embedding'[s] = embedding[s]
      BY <1>0, <1>4 DEF CacheMiss
    <2>3. model \notin Ended \cup {"reference", "metrics"}
      BY DEF Models, Ended
    <2>4. QED
      BY <1>4, <2>1, <2>2, <2>3, MovesOn DEF CacheMiss, Ended
  <1>5. CASE ModelAnswers(r)
    BY <1>0, <1>5, MovesOn DEF ModelAnswers, Models, Ended
  <1>6. CASE PrimaryFails(r)
    BY <1>0, <1>6, MovesOn DEF PrimaryFails, Ended
  <1>7. CASE ModelRaises(r) \/ ReferenceFails(r)
    BY <1>7, ErrorReply DEF ModelRaises, ReferenceFails
  <1>8. CASE AwaitEmbedding(r)
    <2>1. /\ pc[r] = "embedding"
          /\ UNCHANGED <<reply, loaded, embedding, ended, jailbreak, crashes>>
      BY <1>8 DEF AwaitEmbedding
    <2>2. loaded[r] = 0 /\ compared[r] = 0 /\ reply[r] = NoReply /\ ended[r] = {}
      BY <1>0, <2>1 DEF ScoringInv, Ended
    <2>3. \/ /\ embedding[r] = "failed"
             /\ Goto(r, "metrics") /\ compared' = compared
          \/ /\ embedding[r] = "vector" /\ vectors_initialized
             /\ Goto(r, "metrics")
             /\ compared' = [compared EXCEPT ![r] = reference_vectors]
          \/ /\ embedding[r] = "vector"
             /\ Goto(r, "reference") /\ compared' = compared
      BY <1>8 DEF AwaitEmbedding, Compare
    <2>4. compared' \in [Requests -> 0 .. ReferencePrompts] /\ OnlyOf(r)
      BY <1>0, <2>1, <2>3 DEF Goto, OnlyOf
    <2>5. ScoringInv(r)'
      <3>1. CASE embedding[r] = "failed"
        BY <1>0, <2>1, <2>2, <2>3, <3>1 DEF Goto, ScoringInv, Ended
      <3>2. CASE embedding[r] = "vector" /\ pc'[r] = "metrics"
        <4>1. compared'[r] = reference_vectors /\ vectors_initialized
          BY <1>0, <2>3, <3>2 DEF Goto
        <4>2. compared'[r] = ReferencePrompts
          BY <1>0, <4>1 DEF VectorsWhole
        <4>3. QED
          BY <2>1, <2>2, <3>2, <4>2 DEF ScoringInv, Ended
      <3>3. CASE embedding[r] = "vector" /\ pc'[r] # "metrics"
        <4>1. pc'[r] = "reference" /\ compared' = compared
          BY <1>0, <2>3, <3>3 DEF Goto
        <4>2. QED
          BY <2>1, <2>2, <3>3, <4>1, GatewayAssumption, NoReplyIsNoAnswer DEF ScoringInv, Ended
      <3>4. QED
        BY <2>3, <3>1, <3>2, <3>3
    <2>6. ScoringTypes' /\ VectorsWhole'
      BY <1>0, <2>1, <2>4 DEF ScoringTypes, VectorsWhole, jailbreak
    <2>7. QED
      BY <2>4, <2>5, <2>6, GatewayInvLocal
  <1>9. CASE EmbedReference(r)
    <2>1. /\ pc[r] = "reference" /\ loaded[r] + 1 < ReferencePrompts
          /\ loaded' = [loaded EXCEPT ![r] = loaded[r] + 1]
          /\ UNCHANGED <<pc, reply, compared, embedding, ended, jailbreak, crashes>>
      BY <1>9 DEF EmbedReference
    <2>2. /\ loaded' \in [Requests -> 0 .. ReferencePrompts] /\ OnlyOf(r)
          /\ loaded'[r] = loaded[r] + 1
      BY <1>0, <2>1, GatewayAssumption DEF OnlyOf
    <2>3. ScoringInv(r)'
      BY <1>0, <2>1, <2>2 DEF ScoringInv, Ended
    <2>4. ScoringTypes' /\ VectorsWhole'
      BY <1>0, <2>1, <2>2 DEF ScoringTypes, VectorsWhole, jailbreak
    <2>5. QED
      BY <2>2, <2>3, <2>4, GatewayInvLocal
  <1>10. CASE PublishReferences(r)
    <2>1. /\ pc[r] = "reference" /\ loaded[r] + 1 = ReferencePrompts
          /\ loaded' = [loaded EXCEPT ![r] = loaded[r] + 1]
          /\ reference_vectors' = loaded'[r]
          /\ vectors_initialized' = TRUE
          /\ compared' = [compared EXCEPT ![r] = reference_vectors']
          /\ pc' = [pc EXCEPT ![r] = "metrics"]
          /\ UNCHANGED <<reply, embedding, ended, crashes>>
      BY <1>10 DEF PublishReferences, Compare, Goto
    <2>2. loaded'[r] = ReferencePrompts /\ reference_vectors' = ReferencePrompts
      BY <1>0, <2>1
    <2>3. compared'[r] = ReferencePrompts /\ pc'[r] = "metrics"
      BY <1>0, <2>1, <2>2
    <2>4. /\ loaded' \in [Requests -> 0 .. ReferencePrompts]
          /\ compared' \in [Requests -> 0 .. ReferencePrompts]
          /\ OnlyOf(r)
      BY <1>0, <2>1, <2>2, GatewayAssumption DEF OnlyOf
    <2>5. ScoringInv(r)'
      BY <1>0, <2>1, <2>3 DEF ScoringInv, Ended
    <2>6. ScoringTypes' /\ VectorsWhole'
      BY <1>0, <2>1, <2>2, <2>4, GatewayAssumption DEF ScoringTypes, VectorsWhole
    <2>7. QED
      BY <2>4, <2>5, <2>6, GatewayInvLocal
  <1>11. QED
    BY <1>1, <1>2, <1>3, <1>4, <1>5, <1>6, <1>7, <1>8, <1>9, <1>10 DEF HandlerStep

\* Every step keeps it.
LEMMA GatewayInvStep == GatewayInv /\ [Next]_vars => GatewayInv'
  <1> SUFFICES ASSUME GatewayInv, [Next]_vars PROVE GatewayInv'
    OBVIOUS
  <1> USE DEF handler, background
  <1>0. /\ pc \in [Requests -> Stages]
        /\ embedding \in [Requests -> {"none", "running", "vector", "failed"}]
        /\ loaded \in [Requests -> 0 .. ReferencePrompts]
        /\ compared \in [Requests -> 0 .. ReferencePrompts]
        /\ ended \in [Requests -> SUBSET Tasks]
        /\ DOMAIN reply = Requests
        /\ \A r \in Requests : ScoringInv(r) /\ QueueInv(r)
        /\ ScoringTypes /\ VectorsWhole /\ CacheInv
        /\ CacheInv'
    BY CacheInvStep DEF GatewayInv, CacheInv, ScoringTypes
  <1>1. ASSUME NEW r \in Requests, HandlerStep(r) PROVE GatewayInv'
    BY <1>0, <1>1, HandlerStepKeeps
  <1>2. ASSUME NEW r \in Requests, EmbeddingEnds(r) PROVE GatewayInv'
    <2>1. PICK result \in {"vector", "failed"} : embedding' = [embedding EXCEPT ![r] = result]
      BY <1>2 DEF EmbeddingEnds
    <2>2. /\ embedding[r] = "running"
          /\ UNCHANGED <<pc, reply, ended, loaded, compared, jailbreak, crashes>>
      BY <1>2 DEF EmbeddingEnds
    <2>3. /\ OnlyOf(r)
          /\ embedding' \in [Requests -> {"none", "running", "vector", "failed"}]
      BY <1>0, <2>1, <2>2 DEF OnlyOf
    <2>4. ScoringInv(r)'
      BY <1>0, <2>2 DEF ScoringInv, Ended, Reply, NoReply
    <2>5. ScoringTypes' /\ VectorsWhole'
      BY <1>0, <2>2, <2>3 DEF ScoringTypes, VectorsWhole, jailbreak
    <2>6. QED
      BY <1>0, <2>3, <2>4, <2>5, GatewayInvLocal
  <1>3. ASSUME NEW r \in Requests, WriteMetrics(r) PROVE GatewayInv'
    <2>1. /\ pc[r] = "metrics"
          /\ pc' = [pc EXCEPT ![r] = "replied"]
          /\ reply' = [reply EXCEPT ![r] = Reply(200, r)]
          /\ UNCHANGED <<ended, loaded, compared, embedding, jailbreak, crashes>>
      BY <1>3 DEF WriteMetrics, Respond, Goto
    <2>2. OnlyOf(r) /\ pc'[r] = "replied" /\ reply'[r] = Reply(200, r)
      BY <1>0, <2>1 DEF OnlyOf
    <2>3. ScoringInv(r)'
      BY <1>0, <2>1, <2>2 DEF ScoringInv, Ended
    <2>4. ScoringTypes' /\ VectorsWhole'
      BY <1>0, <2>1 DEF ScoringTypes, VectorsWhole, jailbreak
    <2>5. QED
      BY <1>0, <2>2, <2>3, <2>4, GatewayInvLocal
  <1>4. ASSUME NEW r \in Requests, RunTask(r) PROVE GatewayInv'
    <2>1. /\ tasks[r] # <<>>
          /\ ended' = [ended EXCEPT ![r] = ended[r] \cup {Head(tasks[r])}]
          /\ UNCHANGED <<pc, reply, loaded, compared, embedding, jailbreak, crashes>>
      BY <1>4 DEF RunTask, RunRecorder, CacheAnswer, EndTask
    <2>2. pc[r] = "replied"
      BY <1>0, <2>1 DEF QueueInv
    <2>3. OnlyOf(r)
      BY <1>0, <2>1 DEF OnlyOf
    <2>4. ScoringInv(r)'
      BY <1>0, <2>1, <2>2 DEF ScoringInv, Ended, Reply, NoReply
    <2>5. ScoringTypes' /\ VectorsWhole'
      BY <1>0, <2>1 DEF ScoringTypes, VectorsWhole, jailbreak
    <2>6. QED
      BY <1>0, <2>3, <2>4, <2>5, GatewayInvLocal
  <1>5. ASSUME NEW r \in Requests, Cancel(r) PROVE GatewayInv'
    <2>1. UNCHANGED <<reply, ended, loaded, compared, jailbreak, crashes>>
      BY <1>5 DEF Cancel
    <2>2. CASE pc[r] = "embedding"
      <3>1. /\ pc' = [pc EXCEPT ![r] = "metrics"]
            /\ embedding' = [embedding EXCEPT ![r] = "failed"]
        BY <1>5, <2>2 DEF Cancel, Goto
      <3>2. /\ OnlyOf(r) /\ pc'[r] = "metrics" /\ embedding'[r] = "failed"
            /\ embedding' \in [Requests -> {"none", "running", "vector", "failed"}]
        BY <1>0, <2>1, <3>1 DEF OnlyOf
      <3>3. compared[r] = 0 /\ reply[r] = NoReply /\ ended[r] = {}
        BY <1>0, <2>2 DEF ScoringInv, Ended
      <3>4. ScoringInv(r)'
        BY <2>1, <3>2, <3>3 DEF ScoringInv, Ended
      <3>5. ScoringTypes' /\ VectorsWhole'
        BY <1>0, <2>1, <3>2 DEF ScoringTypes, VectorsWhole, jailbreak
      <3>6. QED
        BY <1>0, <3>2, <3>4, <3>5, GatewayInvLocal
    <2>3. CASE pc[r] # "embedding"
      <3>1. pc' = [pc EXCEPT ![r] = "lost"] /\ embedding' = embedding
        BY <1>5, <2>3 DEF Cancel, Goto
      <3>2. OnlyOf(r) /\ pc'[r] = "lost"
        BY <1>0, <2>1, <3>1 DEF OnlyOf
      <3>3. ScoringInv(r)'
        BY <1>0, <2>1, <3>1, <3>2 DEF ScoringInv, Ended, Reply
      <3>4. ScoringTypes' /\ VectorsWhole'
        BY <1>0, <2>1, <3>1 DEF ScoringTypes, VectorsWhole, jailbreak
      <3>5. QED
        BY <1>0, <3>2, <3>3, <3>4, GatewayInvLocal
    <2>4. QED
      BY <2>2, <2>3
  \* Nobody who was scored still has an embedding running.
  <1>6. CASE Crash
    <2>1. /\ UNCHANGED <<reply, ended, loaded, compared>>
          /\ crashes < MaxCrashes /\ crashes' = crashes + 1
          /\ reference_vectors' = 0 /\ vectors_initialized' = FALSE
          /\ embedding' = [r \in Requests |-> IF embedding[r] = "running" THEN "none"
                                              ELSE embedding[r]]
      BY <1>6 DEF Crash
    <2>2. /\ \A r \in Requests : \/ pc'[r] = "lost"
                                 \/ pc'[r] = pc[r] /\ pc[r] \in {"auth", "replied"}
      BY <1>6 DEF Crash
    <2>3. ASSUME NEW r \in Requests PROVE ScoringInv(r)'
      <3>1. ScoringInv(r)
        BY <1>0
      <3>2. embedding[r] \in {"vector", "failed"} => embedding'[r] = embedding[r]
        BY <2>1
      <3>3. QED
        BY <2>1, <2>2, <3>1, <3>2 DEF ScoringInv, Ended, Reply, NoReply
    <2>4. ScoringTypes'
      <3>1. embedding' \in [Requests -> {"none", "running", "vector", "failed"}]
        BY <1>0, <2>1
      <3>2. crashes' \in 0 .. MaxCrashes /\ reference_vectors' \in 0 .. ReferencePrompts
        BY <1>0, <2>1, GatewayAssumption DEF ScoringTypes
      <3>3. vectors_initialized' \in BOOLEAN
        BY <2>1
      <3>4. QED
        BY <1>0, <2>1, <3>1, <3>2, <3>3 DEF ScoringTypes
    <2>5. VectorsWhole'
      BY <2>1 DEF VectorsWhole
    <2>6. QED
      BY <1>0, <2>3, <2>4, <2>5 DEF GatewayInv
  <1>7. CASE (\E k \in Keys : Expire(k)) \/ UNCHANGED vars
    <2>1. UNCHANGED <<pc, reply, ended, loaded, compared, embedding, jailbreak, crashes>>
      BY <1>7 DEF Expire, vars
    <2>2. \A r \in Requests : ScoringInv(r)'
      BY <1>0, <2>1 DEF ScoringInv, Ended, Reply, NoReply
    <2>3. ScoringTypes' /\ VectorsWhole'
      BY <1>0, <2>1 DEF ScoringTypes, VectorsWhole, jailbreak
    <2>4. QED
      BY <1>0, <2>2, <2>3 DEF GatewayInv
  <1>8. QED
    BY <1>1, <1>2, <1>3, <1>4, <1>5, <1>6, <1>7 DEF Next

\* The inductive invariant behind the two theorems below.
THEOREM GatewayInvariant == Spec => []GatewayInv
  BY GatewayInvInit, GatewayInvStep, PTL DEF Spec

\* Every reachable state of the gateway is well typed.
THEOREM GatewayTypeCorrect == Spec => []TypeOK
  <1>1. Queues \subseteq Seq(Tasks)
    BY DEF Queues, Tasks
  <1>2. ASSUME GatewayInv PROVE TypeOK
    <2>1. tasks \in [Requests -> Seq(Tasks)]
      BY <1>1, <1>2 DEF GatewayInv, CacheInv
    <2>2. QED
      BY <1>2, <2>1 DEF GatewayInv, CacheInv, ScoringTypes, TypeOK
  <1>3. QED
    BY <1>2, GatewayInvariant, PTL

\* Requests that build the reference vectors at the same time, fail half-way,
\* are cancelled or lose their module state to a crash never make an answer go
\* out scored against part of the list (jailbreak.py, _initialize_reference_vectors).
THEOREM ScoredInFullAlways == Spec => []ScoredInFull
  <1>1. GatewayInv => ScoredInFull
    BY DEF GatewayInv, ScoringInv, ScoredInFull
  <1>2. QED
    BY <1>1, GatewayInvariant, PTL
==============================================================================
