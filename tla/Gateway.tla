------------------------------- MODULE Gateway -------------------------------
(***************************************************************************)
(* app/api/completions.py, chat_completions, from the first header         *)
(* to the last background task, with the services it calls: several        *)
(* requests run through the handler on one event loop and interleave at    *)
(* every await; each has an embedding task of its own beside it and        *)
(* background tasks behind it; all share the Redis response cache and the  *)
(* lazily built jailbreak reference vectors (app/core/jailbreak.py).       *)
(*                                                                         *)
(* What allow_request and check_rate_limit answer is left open here: the   *)
(* modules ProviderRouting and RateLimiter are about that.                 *)
(***************************************************************************)
EXTENDS Naturals, FiniteSets, SequencesExt

CONSTANTS
    Requests,           \* each with a trace id that its client may choose
                        \* (X-Request-ID): not always a UUID, nor unique
    Keys,               \* cache keys: prompt version, model and prompt hash
    ReferencePrompts,   \* Len(JAILBREAK_PROMPTS)
    MaxCrashes,         \* bound on crashes and forced stops of the process
    ClickHouseResponds  \* whether an insert is sure to end some day

ASSUME GatewayAssumption ==
    /\ IsFiniteSet(Requests) /\ IsFiniteSet(Keys)
    /\ ReferencePrompts \in Nat \ {0}
    /\ MaxCrashes \in Nat
    /\ ClickHouseResponds \in BOOLEAN

VARIABLES
    pc,                     \* the await each request's handler stands at
    key,                    \* its cache key, once prompt_version is selected
    embedding,              \* its embedding task
    answered_by,            \* the model whose completion it holds
    loaded,                 \* reference prompts it has embedded itself
    compared,               \* reference vectors its prompt was scored against
    reply,                  \* what its client has received
    tasks,                  \* its background tasks still to run, in order
    ended,                  \* its background tasks that have run
    cache,                  \* llmgov:cache payloads in Redis
    reference_vectors,      \* how many vectors the module-level list holds
    vectors_initialized,
    crashes

handler == <<pc, key, answered_by, loaded, compared, reply>>
jailbreak == <<reference_vectors, vectors_initialized>>
background == <<tasks, ended, cache>>
vars == <<handler, embedding, background, jailbreak, crashes>>

NoKey == "no key"
\* An answer's origin is the request that a model answered with it.
NoReply == [status |-> 0, origin |-> "none"]
Reply(status, origin) == [status |-> status, origin |-> origin]
NoPayload == [origin |-> "none", answered_by |-> "none", key |-> NoKey]
Models == {"primary", "fallback"}
Tasks == {"audit", "eval", "cache"}
Stages == {"auth", "limit", "cache", "primary", "fallback", "embedding", "reference",
           "metrics", "replied", "lost"}

TypeOK ==
    /\ pc \in [Requests -> Stages]
    /\ key \in [Requests -> Keys \cup {NoKey}]
    /\ embedding \in [Requests -> {"none", "running", "vector", "failed"}]
    /\ answered_by \in [Requests -> Models \cup {"none"}]
    /\ loaded \in [Requests -> 0 .. ReferencePrompts]
    /\ compared \in [Requests -> 0 .. ReferencePrompts]
    /\ reply \in [Requests -> {NoReply} \cup
                    [status : {200, 401, 429, 500, 503}, origin : Requests]]
    /\ tasks \in [Requests -> Seq(Tasks)]
    /\ ended \in [Requests -> SUBSET Tasks]
    /\ cache \in [Keys -> {NoPayload} \cup
                    [origin : Requests, answered_by : Models, key : Keys]]
    /\ reference_vectors \in 0 .. ReferencePrompts
    /\ vectors_initialized \in BOOLEAN
    /\ crashes \in 0 .. MaxCrashes

Init ==
    /\ pc = [r \in Requests |-> "auth"]
    /\ key = [r \in Requests |-> NoKey]
    /\ embedding = [r \in Requests |-> "none"]
    /\ answered_by = [r \in Requests |-> "none"]
    /\ loaded = [r \in Requests |-> 0]
    /\ compared = [r \in Requests |-> 0]
    /\ reply = [r \in Requests |-> NoReply]
    /\ tasks = [r \in Requests |-> <<>>]
    /\ ended = [r \in Requests |-> {}]
    /\ cache = [k \in Keys |-> NoPayload]
    /\ reference_vectors = 0
    /\ vectors_initialized = FALSE
    /\ crashes = 0

Goto(r, label) == pc' = [pc EXCEPT ![r] = label]

Respond(r, status, origin) ==
    /\ Goto(r, "replied")
    /\ reply' = [reply EXCEPT ![r] = Reply(status, origin)]
------------------------------------------------------------------------------
(***************************************************************************)
(* The handler, await by await                                             *)
(***************************************************************************)

\* InvalidAPIKeyError, AuthServiceUnavailableError
AuthErrors == {401, 503}

\* await authenticate_api_key(raw_key): fails closed.
Authenticate(r) ==
    /\ pc[r] = "auth"
    /\ \/ Goto(r, "limit") /\ UNCHANGED reply
       \/ \E status \in AuthErrors : Respond(r, status, r)
    /\ UNCHANGED <<key, answered_by, loaded, compared,
                   embedding, background, jailbreak, crashes>>

\* await check_rate_limit(...): allowed, denied or unavailable, which lets the
\* request pass.  Then stream=true raises, and select_version picks one of the
\* prompt's versions at random.
CheckRateLimit(r) ==
    /\ pc[r] = "limit"
    /\ \/ /\ \E k \in Keys : key' = [key EXCEPT ![r] = k]
          /\ Goto(r, "cache")
          /\ UNCHANGED reply
       \/ /\ \E status \in {429, 500} : Respond(r, status, r)
          /\ UNCHANGED key
    /\ UNCHANGED <<answered_by, loaded, compared, embedding, background, jailbreak, crashes>>

\* await get_cached_completion(...) finds a payload, which is the reply.
CacheHit(r) ==
    /\ pc[r] = "cache"
    /\ cache[key[r]] # NoPayload
    /\ Respond(r, 200, cache[key[r]].origin)
    /\ UNCHANGED <<key, answered_by, loaded, compared,
                   embedding, background, jailbreak, crashes>>

\* No payload, or Redis failed: the embedding task starts, and the breaker
\* picks the model.
CacheMiss(r) ==
    /\ pc[r] = "cache"
    /\ embedding' = [embedding EXCEPT ![r] = "running"]
    /\ \E model \in Models : Goto(r, model)
    /\ UNCHANGED <<key, answered_by, loaded, compared, reply, background, jailbreak, crashes>>

\* await litellm.acompletion(...) returns, from the primary or from Ollama.
ModelAnswers(r) ==
    /\ pc[r] \in Models
    /\ answered_by' = [answered_by EXCEPT ![r] = pc[r]]
    /\ Goto(r, "embedding")
    /\ UNCHANGED <<key, loaded, compared, reply, embedding, background, jailbreak, crashes>>

PrimaryFails(r) ==
    /\ pc[r] = "primary"
    /\ Goto(r, "fallback")
    /\ UNCHANGED <<key, answered_by, loaded, compared, reply,
                   embedding, background, jailbreak, crashes>>

\* An unlisted exception from the primary, or any from Ollama: the middleware
\* answers 500, and nobody awaits or cancels the embedding task.
ModelRaises(r) ==
    /\ pc[r] \in Models
    /\ Respond(r, 500, r)
    /\ UNCHANGED <<key, answered_by, loaded, compared,
                   embedding, background, jailbreak, crashes>>

\* The embedding task ends, whatever the handler is doing.
EmbeddingEnds(r) ==
    /\ embedding[r] = "running"
    /\ \E result \in {"vector", "failed"} : embedding' = [embedding EXCEPT ![r] = result]
    /\ UNCHANGED <<handler, background, jailbreak, crashes>>

Compare(r, vectors) == compared' = [compared EXCEPT ![r] = vectors]

\* Mutants, here and below: a bug that the definition after it could have.
AwaitEmbedding_OnlyVector(r) ==  \* a failed embedding is waited for
    /\ pc[r] = "embedding" /\ embedding[r] = "vector"
    /\ \/ /\ vectors_initialized
          /\ Goto(r, "metrics") /\ Compare(r, reference_vectors)
       \/ /\ ~vectors_initialized
          /\ Goto(r, "reference") /\ UNCHANGED compared
    /\ UNCHANGED <<key, answered_by, loaded, reply, embedding, background, jailbreak, crashes>>

\* vector = await embedding_task; without a vector the check is skipped, and
\* with the reference vectors in place it does not wait.  (The prompt is not
\* empty: for an empty one detect_jailbreak returns at once.)
AwaitEmbedding(r) ==
    /\ pc[r] = "embedding"
    /\ \/ /\ embedding[r] = "failed"
          /\ Goto(r, "metrics") /\ UNCHANGED compared
       \/ /\ embedding[r] = "vector" /\ vectors_initialized
          /\ Goto(r, "metrics") /\ Compare(r, reference_vectors)
       \/ /\ embedding[r] = "vector" /\ ~vectors_initialized
          /\ Goto(r, "reference") /\ UNCHANGED compared
    /\ UNCHANGED <<key, answered_by, loaded, reply, embedding, background, jailbreak, crashes>>

EmbedReference_InPlace(r) ==     \* the shared list is filled entry by entry
    /\ pc[r] = "reference"
    /\ loaded[r] + 1 < ReferencePrompts
    /\ loaded' = [loaded EXCEPT ![r] = @ + 1]
    /\ reference_vectors' = loaded'[r]
    /\ vectors_initialized' = TRUE
    /\ UNCHANGED <<pc, key, answered_by, compared, reply, embedding, background, crashes>>

\* _initialize_reference_vectors: one more vec = await generate_embedding(prompt)
EmbedReference(r) ==
    /\ pc[r] = "reference"
    /\ loaded[r] + 1 < ReferencePrompts
    /\ loaded' = [loaded EXCEPT ![r] = @ + 1]
    /\ UNCHANGED <<pc, key, answered_by, compared, reply,
                   embedding, background, jailbreak, crashes>>

PublishReferences_Extends(r) ==  \* extends the shared list
    /\ pc[r] = "reference"
    /\ loaded[r] + 1 = ReferencePrompts
    /\ loaded' = [loaded EXCEPT ![r] = @ + 1]
    /\ reference_vectors' = reference_vectors + loaded'[r]
    /\ vectors_initialized' = TRUE
    /\ Compare(r, reference_vectors')
    /\ Goto(r, "metrics")
    /\ UNCHANGED <<key, answered_by, reply, embedding, background, crashes>>

\* The last one: the list is published whole, then used.  A request that began
\* to build it before another one finished publishes its own copy.
PublishReferences(r) ==
    /\ pc[r] = "reference"
    /\ loaded[r] + 1 = ReferencePrompts
    /\ loaded' = [loaded EXCEPT ![r] = @ + 1]
    /\ reference_vectors' = loaded'[r]
    /\ vectors_initialized' = TRUE
    /\ Compare(r, reference_vectors')
    /\ Goto(r, "metrics")
    /\ UNCHANGED <<key, answered_by, reply, embedding, background, crashes>>

\* generate_embedding raises: nothing between it and the middleware catches.
ReferenceFails(r) ==
    /\ pc[r] = "reference"
    /\ Respond(r, 500, r)
    /\ UNCHANGED <<key, answered_by, loaded, compared,
                   embedding, background, jailbreak, crashes>>

BackgroundTasks_CacheFallback(r) == <<"audit", "eval", "cache">>    \* whoever answered

BackgroundTasks_CacheFirst(r) ==
    IF answered_by[r] = "primary" THEN <<"cache", "audit", "eval">>
                                  ELSE <<"audit", "eval">>

BackgroundTasks_NoEval(r) ==     \* evaluation under "if not fallback_used"
    IF answered_by[r] = "primary" THEN <<"audit", "eval", "cache">> ELSE <<"audit">>

\* The background tasks, in the order of the add_task calls.
BackgroundTasks(r) ==
    IF answered_by[r] = "primary" THEN <<"audit", "eval", "cache">>
                                  ELSE <<"audit", "eval">>

\* await write_metrics(...) ends, well or badly; then the tasks are queued and
\* the response is sent.
WriteMetrics(r) ==
    /\ pc[r] = "metrics"
    /\ tasks' = [tasks EXCEPT ![r] = BackgroundTasks(r)]
    /\ Respond(r, 200, r)
    /\ UNCHANGED <<key, answered_by, loaded, compared,
                   embedding, ended, cache, jailbreak, crashes>>
------------------------------------------------------------------------------
(***************************************************************************)
(* Behind the handler                                                      *)
(***************************************************************************)

EndTask(r) ==
    /\ tasks[r] # <<>>
    /\ tasks' = [tasks EXCEPT ![r] = Tail(@)]
    /\ ended' = [ended EXCEPT ![r] = @ \cup {Head(tasks[r])}]

\* record_audit_log and evaluate_and_record_response; both swallow errors.
RunRecorder(r) ==
    /\ EndTask(r)
    /\ Head(tasks[r]) \in {"audit", "eval"}
    /\ UNCHANGED <<handler, embedding, cache, jailbreak, crashes>>

\* set_cached_completion writes the payload, or fails and swallows the error.
CacheAnswer(r) ==
    /\ EndTask(r)
    /\ Head(tasks[r]) = "cache"
    /\ cache' \in {cache, [cache EXCEPT ![key[r]] =
                     [origin |-> r, answered_by |-> answered_by[r], key |-> key[r]]]}
    /\ UNCHANGED <<handler, embedding, jailbreak, crashes>>

RunTask(r) == RunRecorder(r) \/ CacheAnswer(r)

\* The SETEX lifetime of a payload is over.
Expire(k) ==
    /\ cache[k] # NoPayload
    /\ cache' = [cache EXCEPT ![k] = NoPayload]
    /\ UNCHANGED <<handler, embedding, tasks, ended, jailbreak, crashes>>

\* The process dies and restarts: requests in the handler and queued tasks are
\* gone, module state is fresh, Redis keeps the cache.
Crash ==
    /\ crashes < MaxCrashes
    /\ crashes' = crashes + 1
    /\ pc' = [r \in Requests |-> IF pc[r] = "auth" \/ (pc[r] = "replied" /\ tasks[r] = <<>>)
                                 THEN pc[r] ELSE "lost"]
    /\ tasks' = [r \in Requests |-> <<>>]
    /\ embedding' = [r \in Requests |-> IF embedding[r] = "running" THEN "none"
                                        ELSE embedding[r]]
    /\ reference_vectors' = 0
    /\ vectors_initialized' = FALSE
    /\ UNCHANGED <<key, answered_by, loaded, compared, reply, ended, cache>>

\* A server that is about to stop cancels its requests, each at its await.  The
\* one for the embedding swallows that (except BaseException): the vector is
\* dropped and the handler goes on.  Any other passes it on, and the request is
\* gone with the tasks behind it.
Cancel(r) ==
    /\ crashes < MaxCrashes
    /\ \/ /\ pc[r] = "embedding"
          /\ embedding' = [embedding EXCEPT ![r] = "failed"]
          /\ Goto(r, "metrics")
          /\ UNCHANGED tasks
       \/ /\ pc[r] \notin {"embedding", "lost"}
          /\ pc[r] = "replied" => tasks[r] # <<>>
          /\ tasks' = [tasks EXCEPT ![r] = <<>>]
          /\ Goto(r, "lost")
          /\ UNCHANGED embedding
    /\ UNCHANGED <<key, answered_by, loaded, compared, reply, ended, cache, jailbreak, crashes>>

\* What the handler does by itself, once the services it awaits have answered.
HandlerStep(r) ==
    \/ Authenticate(r)
    \/ CheckRateLimit(r)
    \/ CacheHit(r)
    \/ CacheMiss(r)
    \/ ModelAnswers(r)
    \/ PrimaryFails(r)
    \/ ModelRaises(r)
    \/ AwaitEmbedding(r)
    \/ EmbedReference(r)
    \/ PublishReferences(r)
    \/ ReferenceFails(r)

Next ==
    \/ \E r \in Requests :
         \/ HandlerStep(r)
         \/ EmbeddingEnds(r)
         \/ WriteMetrics(r)
         \/ RunTask(r)
         \/ Cancel(r)
    \/ \E k \in Keys : Expire(k)
    \/ Crash

Spec == Init /\ [][Next]_vars

\* The next step of the request, or of its background tasks, is up to Redis.
AwaitsRedis(r) ==
    \/ pc[r] \in {"auth", "limit", "cache"}
    \/ tasks[r] # <<>> /\ Head(tasks[r]) \in {"audit", "cache"}

(***************************************************************************)
(* The model providers answer or time out some day (litellm's limit).      *)
(* Redis need not: redis.py:42-45 gives the client no socket_timeout, so a *)
(* call to a stalled Redis may never return.  Whether ClickHouse does is a *)
(* constant, so that its part in the response path shows.                  *)
(***************************************************************************)
FairSpec ==
    /\ Spec
    /\ \A r \in Requests :
         /\ WF_vars(~AwaitsRedis(r) /\ HandlerStep(r))
         /\ WF_vars(EmbeddingEnds(r))
         /\ ClickHouseResponds =>
              /\ WF_vars(WriteMetrics(r))
              /\ WF_vars(~AwaitsRedis(r) /\ RunTask(r))
------------------------------------------------------------------------------
(***************************************************************************)
(* Properties                                                              *)
(***************************************************************************)

\* Degraded answers do not outlive the outage: whatever fails, crashes or
\* overtakes, a cached payload was produced by the primary model for exactly
\* the key it is found under.
CacheHoldsPrimaryAnswers ==
    \A k \in Keys : cache[k] # NoPayload =>
        cache[k].answered_by = "primary" /\ cache[k].key = k

\* No answer reaches a second client unrecorded: the audit and evaluation
\* tasks of the request that produced it have run before it can be served from
\* the cache, which is why the cache write is queued last.
RecordedBeforeReuse ==
    \A r \in Requests : reply[r].status = 200 =>
        LET origin == reply[r].origin
        IN  origin = r \/ {"audit", "eval"} \subseteq ended[origin]

\* A fresh answer goes out scored against every reference vector if its prompt
\* has an embedding: requests that race to build the vectors, or find them half
\* built by another one, never score against a partial list.
ScoredInFull ==
    \A r \in Requests : pc[r] = "metrics" \/ reply[r] = Reply(200, r) =>
        compared[r] = IF embedding[r] = "vector" THEN ReferencePrompts ELSE 0

\* Every request that neither a crash nor a Redis call without an end has taken
\* gets a reply, whatever races with it: nothing else in the handler waits for
\* ever.
EveryRequestAnswered ==
    \A r \in Requests : <>(pc[r] \in {"replied", "lost"}) \/ <>[]AwaitsRedis(r)

\* A fresh answer has its audit and evaluation tasks and, if the primary gave
\* it, its cache write run to their ends, unless its process dies first or one
\* of them hangs in Redis.
AnswerRecorded ==
    \A r \in Requests :
        \/ reply[r] = Reply(200, r) ~>
              \/ {"audit", "eval"} \subseteq ended[r]
                 /\ (answered_by[r] = "primary" => "cache" \in ended[r])
              \/ pc[r] = "lost"
        \/ <>[]AwaitsRedis(r)

\* The jailbreak check "does not reject the request" (completions.py:233): a
\* request for which a model has answered is not turned into an error.
AnswerNotRejected ==
    \A r \in Requests : answered_by[r] # "none" => reply[r].status # 500
==============================================================================
