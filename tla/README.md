# A TLA+ development for LLMGov

LLMGov is a gateway in front of LLM providers: a FastAPI handler that
authenticates a request, limits its rate, looks in a response cache, calls the
primary provider behind a circuit breaker (or a local Ollama model instead of
it), screens the prompt, and records metrics, an audit row and an evaluation.
This directory models the parts of it where requests, background tasks and
services interleave or fail, and the guardrails computed in between, checks them
with TLC on small instances, and proves
the main properties with TLAPS for every value of the constants. Paths below are
relative to the repository's root.

## 1. The system

| Component | State | Operations | Interacts by |
|---|---|---|---|
| Circuit breaker `app/core/circuit_breaker.py` | `state`, `failure_count`, `last_failure_time`, `_half_open_probe_in_flight` | `allow_request`, `record_success`, `record_failure`, `release_half_open_probe` | one object per process, shared by all requests |
| Chat handler `app/api/completions.py` | a coroutine per request, `primary_breaker` | `chat_completions` | awaits every service below; starts an embedding task; queues background tasks |
| Audit log `app/core/telemetry.py` | Redis key `llmgov:audit:latest_hash`, table `llm_audit_logs` | `record_audit_log` | WATCH/GET/MULTI-SET-EXEC between processes; insert in a thread |
| Metrics `app/core/telemetry.py` | table `llm_metrics` | `write_metrics` | awaited by the handler |
| Rate limiter `app/core/rate_limiter.py` | a Redis counter per application and window | `check_rate_limit` | INCR + EXPIRE; the caller fails open |
| Authentication `app/core/auth.py` | Redis `llmgov:auth:*` | `authenticate_api_key` | HGET; fails closed |
| Response cache `app/core/cache.py`, `cache_keys.py` | Redis payload and vector keys with a lifetime | `get_cached_completion`, `set_cached_completion` | GET before the call, SETEX in a background task |
| Jailbreak check `app/core/jailbreak.py` | `_reference_vectors`, `_vectors_initialized` | `detect_jailbreak` | shared by all requests; built lazily over several awaits |
| Evaluation `app/core/eval.py` | table `llm_eval_results` | `evaluate_and_record_response` | background task |
| Request id `app/middleware/request_id.py` | a context variable | `dispatch` | outermost error boundary: 500 |
| Prompt registry `app/core/prompt_registry.py` | loaded prompts | `load`, `select_version`, `get_version`, `list_prompts` | the version is part of the cache key |
| PII redaction `app/core/pii.py` | none | `redact_pii`, `passes_luhn` | called on every message before it leaves |
| Toxicity `app/core/toxicity.py` | none | `classify_toxicity` | called on the answer |

What is hard here: requests interleave at every `await` around one breaker, one
list of reference vectors and one cache; a late answer meets a breaker that has
moved on; audit tasks of several processes race for one Redis key and can lose a
reply, their retries or their process; background tasks run after the response,
in order, and die with the process; time (recovery timeout, rate windows, key
lifetimes) races with slow calls.

What makes each component correct:

- breaker: trips exactly at the threshold, sends one probe when half open unless a
  call older than the outage interferes, never locks callers out, recovers with the
  provider;
- audit log: one chain without forks, that only grows, and no row claiming a
  predecessor off the chain; chain and table account for each other: whatever one
  has and the other lacks is a task's that is under way, failed, crashed or out of
  retries;
- rate limiter: no window admits more than its quota on Redis's word, nobody is
  refused early;
- redaction: no pass misses an identifier or uncovers one for a later pass to miss;
  card numbers are recognised whatever surrounds them;
- toxicity: a discount has a reason in the same sentence; no sentence hides another;
- prompt registry: the traffic split is the file's, or everybody gets `v1`;
- cache key: conversations share one only if they are the same but for case and
  outer blanks;
- evaluation: a score that is not the judge's says so;
- handler: every request is answered unless Redis hangs; only primary answers are
  cached, and reused only after their audit and evaluation tasks have run; prompts
  are scored against the whole reference list or not at all.

`PROJECT.json` lists the hazards behind these, each at its line.

## 2. The modules

| Module | Models | How it corresponds to the code |
|---|---|---|
| `Breaker` | `circuit_breaker.py` | the object is a record, each method an operator from record to record. `since_failure` is `time.monotonic() - last_failure_time`, kept up to `RecoveryTimeout` because the code only compares it with that |
| `ProviderRouting` | `completions.py:186-219` | one action per way through the `try/except/finally` around the primary call, for any number of requests; `Tick` is the clock; `CallDeadline` bounds a primary call |
| `AuditRows` | `telemetry.py:34-84`, the columns of `llm_audit_logs` | hashes as histories: SHA-256 is taken to be injective, so a hash is the sequence of rows hashed into it. The constant `Stored` is what the columns keep of a row, any function: different rows may be stored alike |
| `HashChain` | what `record_audit_log` promises | a chain that grows by one link, a table of links and of rows hashed from genesis |
| `AuditLog` | `telemetry.py:159-251` | one action per await (`Watch`, `Get`, `Exec`, `Insert`) and per fault. `watching` holds the tasks whose WATCH no write has broken |
| `RateLimiter` | `rate_limiter.py:19-55`, `completions.py:100-121` | `ReadClock` picks the key, `Decide` is the transaction when Redis runs it, any time up to `MaxDelay` later; `RedisDown` and `ReplyLost` fail open |
| `Gateway` | `completions.py:61-342` with `jailbreak.py`, `cache.py`, `auth.py`, the middleware | one action per await of the handler; an embedding task per request; background tasks as a queue; crashes |
| `AuditedGateway` | `Gateway` with `AuditLog` | the audit task at the head of a request's background tasks runs await by await, with failing Redis commands, lost EXEC replies and failing inserts; cancellations and crashes hit it anywhere |
| `Redaction` | `pii.py` | a text is a sequence of tokens; `XEnds(text, i)` are the ends of a pattern's matches at token `i`, `Sub` is `re.sub`, `Passes` their order |
| `Toxicity` | `toxicity.py` | texts as above; weights in hundredths |
| `CacheKey` | `cache.py:16-36` | the text that is hashed |
| `PromptRegistry` | `prompt_registry.py:55-128` | the registry is a record, `load` an operator from record to record, `select_version` the set of its outcomes |
| `Evaluation` | `eval.py:44-78`, `126-234` | a judge's reply is a sequence of lines; `evaluate_and_record_response` is the set of what the table may get: a row, or none |
| `Guardrails` | `completions.py:133-325` between its awaits | one action per piece of synchronous code, for one request after another; the registry survives them |
| `MCProviderRouting`, `MCAuditLog`, `MCRateLimiter`, `MCGateway`, `MCAuditedGateway` | | the symmetry sets and the values of `Stored` TLC uses: every row stored alike |
| `MCGuardrails` | | the texts, replies and files TLC uses |
| `FoldLemmas` | | sums over functions, flattened sequences, parts of sequences: what the library does not prove about them |
| `RedactionProofs` | | lemmas about `Redaction`: what one pass of `Sub` and what all five leave of a text |
| `ProviderRoutingProofs`, `AuditLogProofs`, `RateLimiterProofs`, `GatewayProofs`, `AuditedGatewayProofs`, `GuardrailsProofs` | | theorems about the module of that name, section 5 |

`ProviderRouting` extends `Breaker`; `AuditLog` instantiates `HashChain` under the
refinement `Rows <- Writers, chain <- latest_hash`; `AuditedGateway` extends `Gateway`
and instantiates `AuditLog` with the requests as writers; `Guardrails` extends the
five modules of pure functions. `Gateway` leaves open what the
breaker and the limiter answer (every answer is possible), so its properties hold
whatever those decide.

Definitions named `X_...` in front of a definition `X` are mutants: a plausible bug
each. No specification uses them. `PROJECT.json` pairs every checked property with
a mutant that breaks it, which is the evidence that the property depends on the
code.

## 3. What the runs check

| Run | Instance | Properties | Distinct states |
|---|---|---|---|
| `Routing` | 3 requests, threshold 2, recovery timeout 2, calls up to 3 ticks | `TypeOK` `TrippedIffThreshold` `ProbeBacked` `StragglersAreOld` `OutageNotExtended` `SingleProbe` `ProbeSlotFreed` `RecoversWithPrimary` `OpenIsTemporary` | 62 535 |
| `ProbeOverlap` | as `Routing` | `AtMostOneProbe` is violated | |
| `Audit` | 4 tasks, 2 retries, failing inserts and crashes | `RacesLostToLinks` `ChainAccounted` | 15 413 |
| `AuditFaults` | 3 tasks, 2 retries, all faults but a Redis restart | `TypeOK` `NoFork` `LinkedRowsOnChain` `HeadOnlyGrows` `ImplementsHashChain` | 264 803 |
| `AuditTermination` | 2 tasks, 3 retries, all faults | `EveryTaskEnds` | 153 837 |
| `AuditGenesis` | 3 tasks, 2 retries, no faults | `GenesisOnlyForFirstRow` is violated | |
| `AuditRecompute` | 2 tasks, 2 retries, no faults, rows stored alike | `RowHashRecomputable` is violated | |
| `RateLimit` | 4 requests, quota 2, windows of 2, delays up to 2, clock up to 5 | `TypeOK` `WindowQuota` `QuotaUsedWhenDenied` | 107 463 |
| `Gateway` | `AuditedGateway`: 2 requests, 2 cache keys, 2 reference prompts, 2 retries, 1 crash, cancellations, failing inserts | `TypeOK` `CacheHoldsPrimaryAnswers` `RecordedBeforeReuse` `ScoredInFull` `ReusedAnswersAudited` `EveryRequestAnswered` `AnswerRecorded` | 340 034 |
| `Guardrails` | 4 278 conversations, 19 608 answers, 156 replies of the judge, 7 config files | `TypeOK` `SplitFollowsFile` `SharedKeyMeansSameConversation` `NothingIdentifiableLeft` `LoneCardsRedacted` `SlipsAreNotCards` `DiscountNeedsReason` `NoSentenceHidesAnother` `ScoreIsVerdictOrMarked` | 200 458 |
| `GatewayReject` | 2 requests | `AnswerNotRejected` is violated | |
| `GatewayMetrics` | 1 request, ClickHouse need not respond | `EveryRequestAnswered` is violated | |

The bounds, and why they are enough for the interesting cases:

- `Routing`: three requests are one straggler, one probe and one bystander;
  a threshold of 2 separates "a failure" from "the last failure"; a call longer
  than the recovery timeout lets stragglers meet a half-open breaker.
- `Audit`: with N tasks a task can lose N-1 races; there are fewer retries than
  tasks, so they run out, here as in `AuditFaults`. A task is one audit row: the bound
  on tasks is one of the instance and not of the properties, which the theorems
  have for any number of tasks.
- `RateLimit`: three windows; a key can expire and be counted afresh within the
  clock's bound; the quota is smaller than the number of requests. Clients and
  Redis read the same clock.
- `Gateway`: two requests share a key or not, race for the reference vectors or
  find them half built, and race for the head of the chain, where one of them
  retries; one crash can fall anywhere, and cancellations before it. A stopping
  server is the only thing that cancels a request, so `Cancel` needs a crash to come
  (it is disabled once the bound on crashes is reached). Of the services' failures the
  run has failing inserts; with failing Redis commands and lost replies it exceeds
  five minutes, and the theorem about `ReusedAnswersAudited` covers those.
- `Guardrails`: texts of up to three of twelve items (cards of 13, 15 and 16 digits
  and one with a wrong check digit, phones, SSN, addresses, e-mail, words, short
  numbers) with blanks, hyphens, dots or commas between, and two items of which the
  second is a phone number that touches the first; conversations of two
  messages around the separators of the key (`ComparedLength` = 5 leaves out the
  long ones, which are there for the redaction, when two conversations are compared); every answer of up to five tokens, which
  is a quoted term, another one and a sentence end; every reply of up to three lines,
  which is a verdict between fences; files that are missing, unreadable, incomplete
  half-way, without the entry, without a positive weight, or with the entry twice.

`CHECK_DEADLOCK FALSE` is set where the system stops by itself: all tasks done, all
requests answered, or the clock's bound reached.

### Fairness

- `ProviderRouting`: the clock ticks, requests keep arriving, and each outbound
  call ends (HTTP clients have a limit); nothing is assumed of how a primary call
  ends. `RecoversWithPrimary` is about behaviours in which, from some point on,
  every return of a primary call is a success.
- `AuditLog`: a live task goes on running (the event loop schedules it), and each
  single call to Redis and ClickHouse returns. Faults need not happen, and no fault
  is assumed to stop. `EveryTaskEnds` is thus about the retry loop.
- `Gateway`: the handler, the embedding tasks and the background tasks go on, the
  audit task included, except where they await Redis: its client has no
  `socket_timeout` (core/redis.py:42-45), so a call to it may never return. Weak
  fairness otherwise, since no other request disables these steps. The liveness
  properties except the requests that stay at a Redis call for ever
  (`<>[]AwaitsRedis(r)`) and no others. Cancellations and crashes need not happen. That
  ClickHouse ends an insert is a separate constant, because the response path
  depends on it; models and embeddings are called by clients with a time limit.

## 4. What the code does not do as described

- **Two probes at once** (`ProbeOverlap`). `release_half_open_probe` runs in the
  `finally` of every primary call and lowers the flag whoever raised it. A call that
  outlives `recovery_timeout` (30 s; the call sets no timeout) lowers the flag of
  somebody else's probe, and a second probe starts. README.md:158, task.md:78-83
  and ADR-006:15 promise one. Nothing else does that: by `SingleProbe` two probes
  overlap only in behaviours in which a call admitted before the trip is still out
  in HALF_OPEN, and by `StragglersAreOld` such a call is at least as old as the
  recovery timeout.
- **Genesis rows in the middle of the log** (`AuditGenesis`). A task that loses all
  its retries inserts its row with `GENESIS_HASH` and logs nothing, with Redis
  healthy. ADR-005:15-16 reserve the genesis hash for the absence of preceding
  rows and for an unavailable Redis, with a warning. It does not take many tasks at
  once: one that loses each of its five races to another new task is out of
  retries although never more than two run together. `ChainAccounted` says that no
  other row is off the chain.
- **Hashes that the table does not reproduce** (`AuditRecompute`). The hash is taken
  over microseconds, double-precision scores and the id as the client spelt it
  (telemetry.py:68-77), while the table keeps `DateTime64(3)`, `Float32` and `UUID`
  (docker/clickhouse/init/002_llm_audit_logs.sql:5-6,10-11). So the links `prev_hash` and
  `row_hash` can be followed from row to row, but that a row is the one that was hashed
  cannot be verified by `sha256(prev_hash + serialized_row)` (ADR-005:7,13).
- **The jailbreak check can reject** (`GatewayReject`). An embedding failure while
  the reference vectors are being built leaves `detect_jailbreak` and becomes a 500,
  although completions.py:233 says the check does not reject.
- **The response waits for ClickHouse** (`GatewayMetrics`). `write_metrics` awaits
  its thread and the handler awaits `write_metrics`; telemetry.py:155 and ADR-004:13
  say the response never waits. In practice the client's time limit ends the wait;
  the run shows that the response depends on it.

The following have no run of their own; the properties named state what holds instead.

- **The threshold** (`TrippedIffThreshold`). The docstring at circuit_breaker.py:12 says
  that CLOSED is left when "failures > threshold"; line 54 compares with `>=`, so
  the breaker opens at `failure_threshold` failures, not at one more.
  tests/test_circuit_breaker.py:13-25 agrees with the code. The property states the
  code's boundary, against the docstring's.
- **Reused answers without a row** (`ReusedAnswersAudited`). `_insert` swallows every
  failure (telemetry.py:248-251) and the cache write still follows. A trace id that is
  not a UUID is enough (telemetry.py:222), and the trace id is the client's
  `X-Request-ID` (request_id.py:49): with every service healthy, an answer to such a
  request is never audited and yet served to others. A repeated `X-Request-ID` gives
  several rows with the same trace id; the requests of the model are what is
  counted, not their ids.
- **A Redis that accepts calls and does not answer** (`EveryRequestAnswered`). No
  `socket_timeout` is set (core/redis.py:42-45), so authentication, limiter and cache
  read wait for ever; "fails open" (completions.py:100-121) covers errors only.
- **Evaluation rows** can be lost: `record_eval_result` swallows a failed insert and an
  id that is no UUID (eval.py:147,167-168), and JSON that is nested too deep or holds an
  overlong integer leaves `validate_schema` with an error that it does not catch
  (eval.py:63,72).
- **Roles are not redacted** (`NothingIdentifiableLeft`). The role of a message is free
  text and is sent as it is; the property is about contents.
- **Cards behind other digits** (`LoneCardsRedacted`). In "12 4111 1111 1111 1111" or
  "123-456-7890 4111 1111 1111 1111" the pattern takes the digits in front with the
  beginning of the card number, the Luhn check fails, and `sub` goes on behind the
  match: the card number is sent on.
  ADR-007:15 says that credit cards are redacted at the gateway; its line 20 allows
  for missed "highly unconventional PII formats", which this is not.
- **Phones that touch what is in front of them** (`NothingIdentifiableLeft`). In
  "123-456-7890(123) 456-7890" or "10.0.0.1+1 123-456-7890" the lookbehind
  `(?<!\w)` hides the second number, which would be found behind the placeholder of
  the first, were the pass repeated. The number is sent on, although ADR-007:15 says
  that phones are redacted. The property says that nothing else is left.
- **What counts as quoted** (`DiscountNeedsReason`). toxicity.py:93 says "exclusively
  within quotes". An apostrophe is a quote character, so that "it's an idiot, isn't
  it" is a quote, and one quoted occurrence of a term excuses the others.
- **Cache keys without escaping** (`SharedKeyMeansSameConversation`). README.md:156
  says the key guarantees "context safety". One user message "a|user:b" has the key of
  two user messages "a" and "b" (cache.py:34).
- **Prompt versions** (`SplitFollowsFile`). README.md:161 describes A/B selection and
  template substitution. The handler never renders a template: the version is only a
  part of the cache key. The Dockerfile copies `app/` only and no volume adds
  `prompts.yaml`, so that in the container the file is missing and every request is
  "v1"; `missing` is one of the files of the run.
- **The judge's score** (`ScoreIsVerdictOrMarked`) is taken as it is: a verdict without
  one counts as 5 with nothing to mark it, and nothing keeps it within the scale.

Known and accepted, hence no property: the fixed window lets two quotas through
around a boundary (task.md:30; README.md:160 still calls it a sliding window).
ADR-006:10 gives a threshold of 3 failures in 60 s; the code counts 5 consecutive
ones without a window, and `FailureThreshold` is a constant here.

## 5. What is proved

All theorems hold for every number of requests, writers and keys and every value
of the parameters that the `ASSUME`s in the modules allow. Further conditions
are in the theorem itself.

- `ProviderRoutingProofs`: `TypeOK`, `TrippedIffThreshold`, `ProbeBacked`,
  `OutageNotExtended`, `StragglersAreOld` and `SingleProbe`, without any condition on
  `CallDeadline` and `RecoveryTimeout`. `TypeOK` alone is not inductive: `failure_count`
  stays in range only because the breaker is closed exactly below the threshold, so
  the two are proved together (`Sound`). While the breaker is open, every call in
  flight is at least as old as the outage (`Aged`), so that those still out in
  HALF_OPEN are as old as the recovery timeout. Where none is (`NoStragglers`), a
  probe holds the flag for as long as it is out (`Exclusive`).
- `AuditLogProofs`: `TypeOK` under all faults; unless Redis restarts, `NoFork`,
  `LinkedRowsOnChain`, `HeadOnlyGrows` and the refinement of `HashChain`. The key of
  the invariant: a task whose WATCH is unbroken holds the head it read, so EXEC
  extends the head; and a task about to insert holds a link or genesis. With a
  healthy Redis (`RedisHealthy`), failed inserts and crashes included, and for any
  number of tasks and retries: `RacesLostToLinks`, for which every attempt lost, and
  every WATCH already broken, is charged to a row that another task has linked since
  (`RacesCharged`); and `ChainAccounted`, from where each link and each task off the
  chain can be (`Placed`).
- `RateLimiterProofs`: `TypeOK` (together with `CountersBounded`: no counter exceeds the
  requests that ended in its window); `QuotaUsedWhenDenied`; and `WindowQuota` if
  `MaxDelay <= WindowSeconds`.
  The condition says that a request decides within a window's length of reading the
  clock; the limiter's margin over it is the expiry of two windows (rate_limiter.py:46).
  The invariant (`QuotaInv`) says that a counter in use outlives its window by a whole
  window, hence every transaction still under way, and that every request allowed is on
  its window's counter. For refusals (`DenialInv`): until a window's quota is given
  away, its counter counts only requests that were let through.
- `GatewayProofs`: `CacheHoldsPrimaryAnswers` and `RecordedBeforeReuse`. The
  invariant (`CacheInv`) says of every queue of background tasks that what was
  before its head has run and that a cache write is only in it for an answer of the
  primary; and of every payload that its request has been recorded. `TypeOK` and
  `ScoredInFull` from a second one (`GatewayInv`): while requests build the
  reference list over several awaits, a request that scores does so against all
  of it.
- `AuditedGatewayProofs`: every step of `AuditedGateway` is a step of `Gateway` or
  leaves its variables alone, hence `AuditedSpec => Spec`, and the theorems about
  `Gateway` hold of the composition. `ReusedAnswersAudited` from `AuditedInv`: the
  audit task has done with the log before the queue of its request moves on, and
  by then its row is in the table, once, or its insert has failed. The theorem has the
  failures of both services, lost EXEC replies included; a Redis that restarts
  from a snapshot is left out.
- `GuardrailsProofs`: `TypeOK` and all eight other invariants of `Guardrails`, for texts,
  conversations, config files and replies of every length. The inductive invariant
  (`GuardrailsInv`) says that the registry is what reading the file again would give,
  and of each stage what its results were computed from; what the functions compute
  is in the lemmas before it:
  - *redaction* (`RedactionProofs`): `Sub` is a function on the places of a text, so
    facts about it are proved by induction down from the end. Every piece of a pass's
    output stems from a piece of the text of the same tokens or from one placeholder;
    hence a match in the output would have been a match in the text, at or behind a
    place where the scan passed by (`SubCleans`), and a later pass uncovers
    nothing (`SubKeepsClean`). Only the phone pattern forbids something in front of
    the match, which is where its exception comes from. For a lone card, each pass splits
    at the card, since no match crosses its ends (`LoneCardRedacted`);
  - *check digits*: one wrong digit moves the Luhn sum by less than ten, but not
    by zero (the doubled digit's sum is a permutation of 0..9);
  - *toxicity*: a sentence end splits the sentences of a text into those of its
    two parts;
  - *cache key*: a key can be taken apart at its separators in one way if the
    contents hold none;
  - *evaluation*: what the fences of a reply leave of it.
- `FoldLemmas`: the folds of the community modules come without theorems, and the
  library's induction theorems take operators. Both gaps are closed by an induction over
  *sets* of naturals (a set that holds 0, and n + 1 with n, holds all), which the prover
  can instantiate.

Only model-checked: every liveness property (`ProbeSlotFreed`,
`RecoversWithPrimary`, `OpenIsTemporary`, `EveryTaskEnds`,
`EveryRequestAnswered`, `AnswerRecorded`), since fairness and ENABLED are out of the
prover's reach, and the five violations. Every other property of the passing runs is also a
theorem; the conditions are that Redis does not restart (chain), that Redis is
healthy (`RacesLostToLinks`, `ChainAccounted`) and `MaxDelay <= WindowSeconds` (quota).

## 6. Assumptions and what is left out

- SHA-256 has no collisions, and `serialize_audit_row` gives different rows
  different text (it serialises them in full; what the table keeps is another matter,
  `Stored`).
- redis-py 5 (pyproject.toml:13) reports a connection lost while a key is watched as
  a `WatchError` and any other failure as another exception, and does not send a
  command again by itself.
- In `RateLimiter`, a reply can be lost but the process does not crash between INCR and
  its reply. Of a background task that has ended, nothing is said but that it has
  returned; only the audit task's swallowed errors are in the model.
- Code between two awaits is one step: the gateway runs on one event loop. Several
  processes share Redis and ClickHouse only; the audit log and the rate limiter are
  modelled for tasks of any process, the breaker and the reference vectors for one.
- In `Gateway`, the code between the awaits does not raise and prompts are not empty.
  A client that disconnects does not cancel its request (uvicorn lets it finish); a
  stopping server does.
- In `Guardrails`, digit runs, words and domains are never neighbours in a text, so a
  match is made of whole tokens, and the weights of the lexicon are exact (the code
  adds binary fractions). A placeholder is no digit run, word or domain; a
  lower-cased token is never a separator of the key; no fence of a reply reads as a
  verdict; the files that parse have entries with natural weights and fields of the expected types (others
  end in a TypeError and a 500). The operators have been compared with the Python functions
  on every bounded text of the run.
- Not modelled: the cosine score (real arithmetic over embeddings), `get_version` and
  `list_prompts` (not called), the Redis connection lifecycle, settings, logging, the
  API models, `error_handler.py` (never registered), containers, Terraform, dashboards,
  scripts: declarations, environment and output without a state of their own.

## 7. Plan

Written so far, in order of importance: `Breaker` and `ProviderRouting`; `AuditRows`,
`HashChain` and `AuditLog`; `RateLimiter`; `Gateway`; the pure functions and
`Guardrails`; `AuditedGateway`; the proof modules. What is left:

1. An abstract specification of the provider switch (closed, tripped, probing) that
   `ProviderRouting` refines while no call is older than the outage.
2. An abstract admission counter per window that `RateLimiter` refines.
3. The embedding task a failed completion leaves behind, and `AuditLog` after a
   Redis restart: how far behind the fork may begin.

## 8. Running it

    tlc -config Routing.cfg MCProviderRouting     # likewise the other runs
    tlapm ProviderRoutingProofs.tla               # likewise the other proofs

Every `MCX` module goes with the configurations named after its component:
`MCProviderRouting` with `Routing`, `ProbeOverlap`; `MCAuditLog` with
`Audit*`; `MCRateLimiter` with `RateLimit`; `MCGateway` with `GatewayReject` and
`GatewayMetrics`; `MCAuditedGateway` with `Gateway`; `MCGuardrails` with `Guardrails`.
