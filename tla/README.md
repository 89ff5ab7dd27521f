# DeepRouter in TLA+

DeepRouter (`src/`) is an API gateway written in Python: FastAPI middlewares
authenticate, rate-limit and count requests; `/chat/completions` classifies a
query and either calls an LLM behind a circuit breaker or dispatches a Celery
task that runs a LangGraph options analysis; admin routes manage API keys; a
dashboard polls the tasks. Redis, Postgres, the LLM backend and the market-data
service are outside the program.

This directory holds TLA+ modules for the parts of it that carry logic of their
own, TLC configurations that check them on small instances, and TLAPS proofs
for every value of the constants.

- [Inventory](#inventory): the system's components and what makes each correct
- [Plan](#plan): what is modelled now, what comes next
- [Modules](#modules): each module against the code
- [Runs](#runs): what is checked, with which bounds
- [Fairness](#fairness)
- [Proofs](#proofs)
- [Where code and documents differ](#where-code-and-documents-differ)
- [What is not modelled](#what-is-not-modelled)

To run: `tlc -config Breaker.cfg MCLlmBreaker.tla` (the configurations of each MC
module are in the table of runs) and `tlapm LlmBreaker_proofs.tla`.

## Inventory

| component | source | state | operations | modelled |
|---|---|---|---|---|
| LLM circuit breaker, retrying call | `main.py:43-83`, `main.py:246-290` | `_failures`, `_opened_at`, one per process | `is_open` (moves to half-open), `record_success`, `record_failure`, `_call_llm` under tenacity | yes |
| Rate limiter | `api/middlewares/rate_limiter.py` | a Redis hash per user: `tokens`, `last_update`, an expiry | the Lua script, fail-open on `RedisError` | yes |
| API keys | `api/middlewares/auth.py`, `routers/admin.py`, `migrations/` | table `api_keys`, Redis entries `apikey:<hash>` | resolve (Redis, Postgres, rehydrate), create, revoke, list | all that changes state |
| Quant task queue | `workers/celery_worker.py`, `routers/tasks.py`, `main.py:190-212` | broker messages, result backend, revocations in the workers | dispatch, run, retry, acknowledge, poll, cancel | yes |
| Quant analysis graph | `orchestration/finance_graph.py` | `FinanceState` of one run | fetch, analyze, assess, gate, finalize | yes |
| Metrics | `api/middlewares/metrics.py`, `routers/metrics.py` | Redis counters, per-minute series, a capped list | record a request or an intent, count a dispatch, summarise | yes |
| Request pipeline | `main.py:126-143`, `api/middlewares/`, the routes | `request.state` | the middlewares around every handler, with each call they make | yes |
| Connection pools, lifespan | `core/redis_pool.py`, `core/db_session.py`, `main.py:110-122` | connections in use | borrow, wait or be turned away, return | all but closing at shutdown |
| Intent router, ticker extraction | `agents/semantic_router.py`, `main.py:228-243` | none | the loop over the routes, the choice of the ticker | yes |
| Memory injection | `api/middlewares/context_injector.py` | none | reads one row; a failure is a default text | as a call of the pipeline |
| Dashboard | `dashboard/index.html` | one interval handle, the visible panels | send a query, poll its task, refresh | queries and polls |
| Log context, formatter | `core/logging.py` | two context variables | set, read | no |
| Configuration, deployment | `core/config.py`, `docker-compose.yml`, `nginx/`, `Dockerfile` | none | | no |

How they interact. A request passes RequestID, Auth, RateLimit, Metrics and CORS in
that order, then its route. Auth and the limiter share nothing but
`request.state.user_id`, which is the limiter's bucket key. The chat route either
awaits `_call_llm`, through the process-wide breaker, or publishes a Celery
message and answers with its id. The worker runs the graph to its end inside
one attempt of the task and stores what it returns. The task route reads the
result backend that the worker writes, and broadcasts revocations to workers. The
admin routes write the table and the cache that Auth reads. Everything shared
between processes is in Redis or Postgres, with no transaction around two calls.

What is hard in each, and what makes it correct:

- **Breaker.** Requests overlap at every `await`; a result may arrive long after
  the breaker changed its state; half-open is not a state of its own but a counter
  value; the same exception class carries backend failures and the breaker's own
  rejections. Correct: the counter is the number of consecutive failures whatever
  overlaps (the code keeps this only as far as the last malformed answer); the timeout runs from the last failure; a tripped breaker keeps load off
  the backend for the whole timeout; it recovers; every request is answered.
- **Limiter.** The clock is read on one side of an `await` and used on the other;
  the script's runs come in any order; idle buckets expire and come back full; Redis
  may lose them. Correct: over any interval a user is charged at most a bucket and
  the refill; a user is refused only while the bucket is really spent.
- **API keys.** Two stores and no transaction: a row read before a revocation is
  cached after it; calls fail halfway; Redis restarts from an old snapshot.
  Correct: a dead key is served for a bounded time, and eventually not at all.
- **Task queue.** At-least-once delivery with retries that are new messages: a crash
  may lose, repeat or multiply work, a late store may overwrite a verdict; broker and result
  backend are one Redis, which restarts from an old snapshot under working workers. Correct:
  nothing dispatched is forgotten, copies and attempts are bounded by the crashes and by
  what a restart of Redis brings back, no worker overwrites a verdict, every task comes to one.
- **Graph.** Sparse chains, roundings and an edge back. Correct: the loss reported is
  the worst that can happen, an accepted risk is within the limit, the loop ends, and
  what a wider spread does to the risk is known.
- **Dashboard.** Queries overlap (the Enter key ignores the disabled button), status
  fetches overtake each other, and one interval handle serves them all. Correct: no
  interval is left that nothing can stop, the page is never blank nor spins for
  nothing, a poll ends with its task.
- **Metrics.** Counters, series and list are written in one transaction but read in four
  round trips; buckets expire; Redis restarts from a snapshot in the middle of it all.
  Correct: what is stored tells of the same requests, and a summary is never short of
  what it counted itself.
- **Pipeline and pools.** Any of a dozen calls to two stores may fail or find no
  connection; one pool raises, the other waits; the order of the middlewares is the
  reverse of the order in the source. Correct: no outage lets anybody in, the user
  authenticated is the one charged, nobody waits for ever, and a pool only runs out when
  more requests are inside than it has connections.
- **Routing.** Ties, thresholds, negative similarities and a rounded result; two regular
  expressions and a list of stop words that only one of them looks at.

The hazards behind these, each with its line and the properties aimed at it, are
listed in `PROJECT.json`.

## Plan

Done, in this order: the breaker, the limiter, the keys, the task queue, the
graph, the dashboard's polling, the metrics, the pipeline and the routing, each as

- a module of the code's own state and steps (`LlmBreaker`, `TokenBucket`,
  `KeyCache`, `QuantTask`, `FinanceGraph`, `DashboardPoller`, `Metrics`,
  `RequestPipeline`, `Routing`);
- where the code's own state does not suffice, a module that adds what an observer
  sees and states the properties (`...History`, `FinanceGraphProperties`): its history
  variables never influence a step;
- an `MC...` module with constants for TLC;
- a `..._proofs` module; `Metrics` and `Routing` share one, `RoutingMetrics_proofs`, since the proofs
  of both rest on induction over finite sets (see [Proofs](#proofs)).

`IdealBucket` is the abstract specification of the limiter. `RequestPipeline` is where the
components meet: it has the calls of all middlewares and handlers in their order, and takes
from the other modules only that a call returns or raises.

Next, most important first:

1. `KeyAuthority`, an abstract specification of the keys (a key is created, dies,
   and is refused at the latest a grace period later), with `KeyCache` shown to
   implement it, by TLC and then by proof.
2. A composition of `QuantTask` with `DashboardPoller`: what a user sees of
   a task that crashes, expires or is cancelled.

The models stay small, so that one run asks all the questions of one component.

## Modules

Every action is one uninterrupted stretch of code between two points where
something else can happen: an `await`, a call to Redis, Postgres or the broker.

### LlmBreaker

`failures` is `_failures`; `age` is `time.monotonic() - _opened_at`, counted up to
one second past the timeout, where the code stops telling ages apart. A request
`r` is `idle`, `ready` (an attempt is due after `wait[r]` seconds of back-off) or
`calling`.

| action | code |
|---|---|
| `StartRequest` | `route_traffic` reaches `_call_llm` |
| `Launch` | `is_open` is false, moving to half-open on the way, and `acompletion` is issued |
| `Reject` | `is_open` is true: the 503, which tenacity retries |
| `CallSucceeds`, `CallFails` | the await ends; the result is recorded; tenacity retries or gives up |
| `CallMalformed` | a response without choices: success is recorded, then the failure |
| `Tick` | a second |

`is_open` is split into `IsOpen`, its value, and `PassBreaker`, its effect, since a
guard has none. `_opened_at = 0.0` is taken as long ago: `time.monotonic()` of a
freshly booted host may be below the timeout, but `_opened_at` is only read after
a failure has set it.

`LlmBreakerHistory` adds `streak` (failures in a row), `counted` (those of them since the last
malformed answer, which the breaker takes for a success and a failure), `quiet` (seconds
since the last failure) and `probes` (calls issued after the timeout and before a result).

### TokenBucket

Tokens are counted in 1/`Window` of a token, so that the code's
`max_tpm / 60.0` a second is the integer `MaxTpm`, and time in whole seconds where
the code has a float. `Sample` is `dispatch` up to the `await`, with the clock
read into `call[r].at`; `Admit` and `Deny` are the script, atomic in Redis;
`Bypass` is a call that fails (fail-open); a call that succeeded but whose reply
was lost is an `Admit`. `expireAt` is the key's expiry, `Lose` a Redis that comes
back without it. `MaxLag` bounds the time from the clock to the script, all replicas'
clocks included; without it nothing could be promised. It may not exceed `Window`
(60 s in the code): beyond, an expired bucket could be recreated by a
script that carries a time before the expiry.

`TokenBucketHistory` adds an observer that starts over at any time (`Observe`), so a
bound on what it counts is a bound on every interval: `spent`, `regress` (seconds by
which `last_update` was set back), `lost` buckets, and `lastPass`.

`IdealBucket` is what the limiter is meant to be: one level per user, refilled every
second, without stamps, expiry or absent buckets. The refinement mapping is
`level[u] = Refilled(u, now)`, what the stored bucket would hold if a script ran now. A
script that runs late computes its refill from an earlier clock and stores that clock, so
later scripts refill those seconds again: in the ideal bucket a charge may be short by a
`slip` of at most `MaxTpm * MaxLag`. An expiry is a stutter, since the bucket had had the
time to fill; a lost bucket is a step of its own.

### KeyCache

One action per Redis or Postgres call. `lookup[r]` is the next call of request `r`,
`task[a]` of admin call `a`. `life[k]` is the time to `expires_at`, `cache[k]` the
TTL left of the Redis entry (0: absent, `Forever`: no TTL), `snapshot[k]` what the
last RDB save holds. The columns of a row that no guard reads are left out, and so
is the role. `Faults` says which failures may happen: `redis_error` and
`postgres_error` let a call fail, before or after its effect; `redis_crash` restores
the snapshot. `stall[r]` is the time from Postgres' answer to the cache write, at most
`MaxStall`: the code sets no limit, and the bound on staleness is stated in terms of
it.

`KeyCacheHistory` adds `stale[k]`, the age of the key's death, and `excuse[k]`, the
failures that may leave a dead key in the cache for longer: a delete that was lost,
a registration that came after the key's end or outlives it, a restored snapshot. They
excuse a dead key from the bound (`StalenessBounded`), but from leaving the cache in the end
(`DeadKeysSettle`) only one that was created without a lifetime, whose entry has no TTL.

### QuantTask

Celery is external; its part is modelled from how the worker configures it
(`task_acks_late`, `worker_prefetch_multiplier=1`, `result_expires`, `--pool=solo`)
and from how the code calls it (`delay`, `self.retry`, `AsyncResult`, `revoke`).
`log` holds every delivery of a message with its retry number and whether it is queued,
taken by a worker, held by one although Redis has lost it, or acknowledged; `phase[w]` is
how far worker `w` is with the one it holds. Publishing a retry (`Retry`), storing RETRY (`NoteRetry`) and acknowledging
(`Acknowledge`) are three steps with a possible `Crash` between any two.
`cancel_task` is two steps, `CheckCancel` (read the state) and `Revoke` (broadcast);
a solo worker looks at the broadcast only between two tasks (`HearRevoke`), so
`terminate=True` interrupts nothing. `RetryLost`, `ResultLost` and `AckLost` are calls that
the broker or the backend does not take; `Expire` is the result's end of life.

Broker and backend are two databases of one Redis (`core/config.py:23-24`) with one RDB file
(`docker-compose.yml:9`). `SaveSnapshot` keeps in `saved` the stored states and which messages
were queued and which taken; `RedisCrash` puts both databases back to it, while workers go on
with what they have. What was acknowledged since is queued again, with the retry number that
it had (`Reloaded`); what was queued at the save and is with a worker by now is delivered a
second time (`Again`); what the snapshot lacks is gone, or held by a worker whose
acknowledgement will find nothing; a verdict stored since is undone, one that expired since
comes back. A revocation that is on its way may be lost with the rest.

The countdown of a retry (30 s or more) appears as `Ripe`: it outlasts the store and the
acknowledgement of the attempt that published it, unless that worker crashed.
Restarted workers learn revocations only from idle ones.

`QuantTaskHistory` counts attempts, crashes before (`reruns`) and after (`relapses`)
a retry was published, and the messages that restarts of Redis brought back (`restored`).
`known` are the tasks that the snapshot has, `lost` those whose message or verdict a fault
took: the outcome or the retry did not reach Redis, or Redis restarted from a snapshot without
the task or when a worker had ended an attempt and not acknowledged it (the acknowledgement then
removes the message although its outcome is gone).

### FinanceGraph

Money is in half-cents per share, since quotes are whole cents and mid-points
half-cents; the factor 100 of a contract scales everything alike. A chain maps each
strike to its mid-point, 0 where there is no liquid quote. Floating-point rounding
(`round(x, 2)`, `round(x, 3)`) is a choice among the nearest values, ties going
either way. Market data are any chains and any trend: how the trend follows from
moving averages, and which expiry is picked, changes nothing downstream. A failed fetch
and a missing expiry both lead to `NoMarket` or to a chain without liquid strikes.
One action per node, and two for the conditional edge.

`FinanceGraphProperties` defines what a position pays at expiry (`Payoff`) and when
prices are free of arbitrage (`ArbitrageFree`, convexity in the strike).

### DashboardPoller

A query is named after the task it may dispatch. `live` is the set of intervals that were
not cleared, `current` the one whose handle `pollingInterval` holds; `asks[f]` and
`saw[f]` are a status fetch in flight and the state in its answer; `status`, `result`,
`text` and `error` say which panels are visible and whose. Outside of the page, the state that
the gateway reports of a task may change at any time and back (`TaskChanges`: no verdict is
final for the page), and so may whether it admits the page's requests (`AdmissionChanges`): a
refusal is an answer without a task state. `RunQuery`, `Processing` with
`Completed` and `Rejected`, `Tick`, and the five ends of a fetch are the stretches of
`runQuery` and `pollTask` between two awaits. The history needs no module of its own: the
properties speak of the page's state.

### Metrics

`db` holds the keys `metrics:*`, `saved` what the last snapshot has of them; a bucket of the
series is visible until `until[m]`. `stage[r]` is the next round trip of request `r`,
`clock[r]` the minute that it read for it, `view[r]` what a summary has read so far.

| action | code |
|---|---|
| `Start` | a route is entered: a chat query, a summary, or one that counts nothing |
| `RecordIntent`, `CountDispatch` | `record_intent`, and the counter of dispatched tasks, which swallow failures |
| `Respond`, `Record`, `RecordFails` | `call_next` returns; `_record` reads the clock and runs its pipeline, or fails |
| `ReadCounters`, `ReadSeries`, `ReadRecent`, `ReadTasks` | the four round trips of `get_metrics` |
| `Raise` | an exception passes the middleware, which then records nothing |
| `Tick`, `SaveSnapshot`, `RedisCrash` | a minute; Redis saves, or restarts from what it saved |

A redis-py pipeline is a transaction (MULTI/EXEC) unless told otherwise, so `Record` is one
step. `torn` are the summaries during which Redis was restarted, `unpaired` counts the failures
that may leave a dispatched task without its intent. Latency, user and path of an entry are
left out.

### RequestPipeline

`stage[r]` is the middleware that makes the next call of request `r`, `route[r]` its handler
and `step[r]` the handler's next call. `cred[r]` is what it presents, `user[r]` is
`request.state.user_id`, `charged[r]` the users whose buckets have paid, one for each time, and
`missed[r]` which of the two calls that decide about `r`, for its row and to the limiter, raised
for `r` itself. A call is
two steps, `Connect` and the action that takes its result, and holds a connection of its
pool (`used`) in between. A handler is the sequence of its calls, each with the store it
goes to and what the handler does when it returns or raises (`Calls`): goes on, answers, or
lets the exception pass.

| action | code |
|---|---|
| `Enter`, `NoToken` | `RequestIDMiddleware`, and `AuthMiddleware.dispatch` up to its first call |
| `CheckRedis`, `CheckPostgres`, `Rehydrate` | `_resolve_user` and the look-ups it calls |
| `Limit` | `RateLimitMiddleware`: charged, refused, or let through when its call raises |
| `HandlerCall`, `HandlerReturns` | the handlers of all routes, one call at a time |
| `RecordMetrics` | `MetricsMiddleware` after the handler |

The pool of Redis raises when it is empty (`Over`), the pool of Postgres makes its caller
wait: `Connect` is then not enabled. `starved` says whether a request ever found the pool of Redis empty,
`crowded` says whether more requests were ever inside than it has connections. CORS only
adds headers, save for a preflight, which ends at the 401 of a request without a token.

### Routing

`Compare` is one turn of the loop in `classify_intent`, `Decide` the threshold and the rounding,
`ExtractTicker` the two regular expressions and the stop words: `DollarMatch` and `Candidate` are
the places of the first word that each of them finds. A query is its similarity with
each anchor and its words, each with or without a `$`.

## Runs

| run | module | result | what it asks |
|---|---|---|---|
| `Breaker` | MCLlmBreaker | holds | the counter, the clock, shedding, overshoot, recovery, every request answered |
| `BreakerOneProbe` | MCLlmBreaker | violated | "one probe is allowed through" |
| `Bucket` | MCTokenBucket | holds | the budget of any interval; no early refusal; that it implements `IdealBucket` |
| `KeyCache` | MCKeyCache | holds | how long a dead key is served; that it ends |
| `KeyNegativeTtl` | MCKeyCache | violated | that an expired key is at least not served for ever |
| `QuantTask` | MCQuantTask | holds | nothing forgotten, copies and attempts bounded, no verdict overwritten, every task settles |
| `FinanceGraph` | MCFinanceGraph | holds | the reported loss, the accepted risk, what widening does, the end |
| `Metrics` | MCMetrics | holds | that counters, series and list agree; that a summary is not short |
| `Dashboard` | MCDashboardPoller | holds | one interval, an honest spinner, polls and spinners that end |
| `DashboardPolls` | MCDashboardPoller | violated | "the client gets a task ID immediately and polls for completion" |
| `Routing` | MCRouting | holds | the route against its definition, the ticker against its preference |
| `Pipeline` | MCRequestPipeline | holds | failing closed, who is charged, when pools run out, every request answered |

### Bounds

- **Breaker**: three overlapping requests, threshold 3, timeout 2 s, two attempts. A
  trip needs as many failures as there are requests, so calls may be in flight when
  it happens and late results arrive in every order; three callers may meet at a
  half-open breaker. Two attempts show both a retry and its end. The back-off
  (2 s) is as long as the timeout, so a retry may find the breaker open or half-open.
  Seconds saturate one past the timeout; `failures` needs no bound, since
  `OvershootBounded` holds. 75 thousand states.
- **Bucket**: one user, since buckets share nothing; two overlapping requests; costs
  below, at and above what one second refills and what can be afforded; a window of 3 s,
  a lag of 1 s, one lost bucket. The horizon of 8 s (`Horizon`) outlives the expiry of
  6 s, so that buckets expire and come back. 690 thousand states.
- **KeyCache**: one key, since keys share only the moment of a crash, with two
  requests and two admin calls under every failure. Lifetimes: none, negative, and 4 s,
  one more than the rehydration TTL of 3 s; a request stalls up to 2 s. So an entry may
  outlive its key and a registration may come too late. No clock: what is left of each
  lifetime counts down. 30 thousand states.
- **QuantTask**: one task, since tasks share only workers; two workers, which is what
  a task and its copy need to run at once; one call of `cancel_task` (`MaxCalls`), which
  may overlap everything else; two faults of any kind (`MaxFaults`), so that Redis may restart
  twice from one snapshot (`MaxSaves`), or once with a crash before or after it; one retry, so
  that there is an attempt that is the last and one that is not. Tasks and calls come to an end,
  so deadlock is not checked. States are told apart without the snapshot once no fault is left to
  read it (`MCView`): no later step, and no property, depends on it. 984 thousand states.
- **FinanceGraph**: all chains over four put and three call strikes with four
  mid-points, in each trend. The call strikes are not a target width apart and any strike
  may be illiquid, so a leg's width meets the target, overshoots it, or there is no leg;
  credits are off by a half-cent; three attempts, as in the code. A run of the graph ends, so
  deadlock is not checked. 405 thousand states.
- **Dashboard**: two queries, in every order of their answers, and two status fetches in flight
  (`Fetches`; a browser allows six per host), so that fetches of the same or of different
  tasks overtake each other. 78 thousand states.
- **Metrics**: three requests of any kind, so that a summary meets two writers and the list
  of two entries has to drop one; four minutes with a window of two and an expiry after
  three, so that buckets leave the window and expire; one failing call or restart
  (`MaxFaults`), a lag of one minute. Each request comes once and then the system stops, so
  deadlock is not checked. 2.3 million states.
- **Pipeline**: two requests of any route and credential, in production and in development,
  with one connection to each store, so that either finds the pool of Redis empty and waits for
  that of Postgres; two failing calls (`MaxFaults`), which is what the two look-ups of one key
  take. Requests end, so deadlock is not checked: that nobody waits for ever is
  `EveryRequestAnswered`. 613 thousand states.
- **Routing**: three routes, one with two anchors, similarities below zero, just below the
  threshold, at it and above it; all queries of up to three words over two tickers, a stop word
  and prose. A run ends with its answer, so deadlock is not checked. 815 thousand states.

Symmetry is used only in runs without liveness.

Each passing property also has a mutant: a plausible mistake in one definition of
the code's model (named `..._<fault>` and commented `fault:` beside the definition it
replaces), with which TLC finds that property violated. They are in `PROJECT.json`.

## Fairness

- `HFairSpec` of the breaker: time passes (`HTick`), a due attempt is resumed by
  the event loop (`HTry`), a call ends (`HComplete`) because of the 30 s timeout. No
  client has to send anything; weak fairness is enough, as each of these stays
  enabled until it happens.
- `HFairSpec` of the keys: time passes, and handlers finish their calls, each of which
  succeeds or fails. Nobody has to send, create, revoke, save or crash.
- `HFairSpec` of the tasks: a worker that can work does, since the analysis makes
  bounded calls (and `RunEnds` shows that the graph ends), and Docker restarts a stopped
  worker (`restart: unless-stopped`). Redis need not save. Faults are finite because they are bounded.
- `FairSpec` of the dashboard: intervals fire, a fetch is answered or the browser gives it
  up, callbacks run. No user has to send a query, no task to come to a verdict or to keep it,
  and the gateway need not admit a request: `PollEnds` and `SpinnerEnds` promise an end only
  while it goes on reporting one (`SeesEnd`).
- `FairSpec` of the graph: a worker that is not stopped continues, and calls of the
  market-data library return.
- `Spec` of the pipeline: a request inside makes its next call and takes its result. The event
  loop resumes every task whose call is over. A call to Postgres ends because of
  `command_timeout=60`, one to Celery or the LLM because of their own time limits. The client
  of Redis has no timeout of its own (`core/redis_pool.py:11`): that a call to a Redis that is
  gone raises, rather than hangs, is an assumption about the network. Weak fairness of the
  request as a whole is enough for a waiter of the pool of Postgres: with one waiter or more, a
  connection that is returned stays free until one takes it, and requests are finitely many.

Metrics and Routing promise nothing that must eventually happen, and assume no fairness.

## Proofs

All theorems are about the specification (with history variables where there are any), for any
constants that satisfy the `ASSUME`s of the modules (natural numbers in their ranges,
a finite set of requests, a lag of at most the window), which TLC also evaluates on every run.

| module | theorem | says |
|---|---|---|
| LlmBreaker_proofs | `TypeCorrect` | `[]HistoryTypeOK` |
| | `CounterCorrect` | `[]CountsConsecutiveFailures` |
| | `ClockCorrect` | `[]ClockFollowsLastFailure` |
| | `ShedsLoad` | `ShedsAfterTrip`, an action property |
| | `Overshoot` | `[]OvershootBounded` |
| TokenBucket_proofs | `TypeCorrect` | `[]HistoryTypeOK` |
| | `RateBoundedWithLag` | `[]RateBoundWithLag` |
| | `RateBounded` | `[]RateBound`, if `MaxLag = 0` and `MaxLosses = 0` |
| | `BucketRefines` | `ImplementsIdeal`: a bucket refilled every second |
| | `NeverRefusedEarly` | `RefusedOnlyWhenSpent`, an action property |
| KeyCache_proofs | `TypeCorrect` | `[]HistoryTypeOK` |
| | `StaleKeysBounded` | `[]StalenessBounded` |
| QuantTask_proofs | `TypeCorrect` | `[]HistoryTypeOK` |
| | `NothingForgotten` | `[]NeverForgotten` |
| | `CopiesCounted` | `[]CopiesBounded` |
| | `AttemptsCounted` | `[]AttemptsBounded` |
| | `VerdictsStand` | `VerdictStands`, an action property |
| FinanceGraph_proofs | `TypeCorrect` | `[]TypeOK` |
| | `PayoffCorrect` | `[]PayoffBounded` |
| | `RiskAccepted` | `[]AcceptedRisk` |
| | `WideningFutile` | `WideningNeverSafer`, an action property |
| | `RunBounded` | the safety half of `RunEnds`: `RunAdvances`, an action property, and `[]NodesReturn` |
| DashboardPoller_proofs | `TypeCorrect` | `[]TypeOK` |
| | `SinglePoll` | `[]OnePoll` |
| | `SpinnerCorrect` | `[]SpinnerHonest` |
| RequestPipeline_proofs | `TypeCorrect` | `[]TypeOK` |
| | `AuthenticationCorrect` | `[]FailsClosed` |
| | `ChargesCorrect` | `[]ChargedToOwner` |
| | `PoolCorrect` | `[]PoolSuffices` |
| | `EveryStepCounts` | half of `EveryRequestAnswered`: `RequestsAdvance`, an action property |
| | `WaitingEnds` | the other half: `[]WaitsForCalls` |
| RoutingMetrics_proofs | `MetricsTypes` | `[]TypeOK` |
| | `CountersCorrect` | `[]CountersAgree` |
| | `SummaryCorrect` | `[]SummaryCovers` |
| | `ClassificationCorrect` | `[]ClassifiesBest` |
| | `TickerCorrect` | `[]TickerPreferred` |

The inductive invariants:

- **Breaker**: `BreakerInv` is types, counter and clock, and `HalfOpenHasProbes`: after an
  uninterrupted streak of that length a counter below the threshold means the breaker is half-open and calls are under way.
  Without it the counter's claim says nothing about which calls may be issued, and
  `ShedsAfterTrip` does not follow. `OvershootBounded` is inductive with the types: a
  failure takes a call out of flight for each unit it adds, and no call is issued at the
  threshold.
- **Bucket**: `BucketInv` says that a pending script is at most `MaxLag` old, that a bucket
  that is not full outlives its last update by two windows (so a key that expired would
  have been full, also in the view of a late script), and that an existing bucket was
  stamped by the last admitted request. `MeterInv` is the accounting: what was spent
  plus what is left at the last update fits in a full bucket per loss and the refill so far. It is
  stronger than the bound, which counts the refill up to now. The refinement needs the first
  of these only: an expired bucket was full in the ideal one.
- **KeyCache**: `CacheInv` adds that a request about to rehydrate a dead key has been
  stalling at least since the key died (`StaleInv`), whence the grace of a
  rehydration TTL and a stall, and that while a key is valid neither its entry nor its
  saved entry outlives it by more than a rehydration (`FitInv`), which a restart may bring back.
- **Tasks**: each theorem has an invariant of its own over `QueueTyped`, which is types and
  `JobsApart`: no two workers hold the same message, and what is marked as with a worker is with
  one. Lemmas say once what each kind of step does to the sets of queued, running and taken
  messages; for a restart of Redis, that the messages it queues (`Fresh`) are no more than those
  it brings back (`FreshFacts`, an injection).
  `KeptInv` says that a task has a message still to be attempted or a verdict, and `SavedInv` the
  same of the snapshot, for the tasks that it knows; they need
  `RetryInv`: a published retry stays queued until its predecessor's RETRY is stored, for
  otherwise that store could hide the retry's verdict (this is where the countdown counts).
  `CopiesInv` counts live messages. `BudgetInv` adds to the attempts made those
  that the live messages stand for, as rows of a table: a queued message of retry `n`
  has `MaxRetries + 1 - n` rows, one less once a worker has taken it, and a retry takes over the rows that
  its predecessor leaves. `SettledInv` says that a task with a verdict is calm, with nothing
  queued or running, short of a crash or a message that came back, and so of a verdict in the
  snapshot, which a restart would restore; that rests on `SoleInv`: of such a task the
  published retry is the only message of its task still to be attempted.
- **Graph**: `GraphInv` says that at each node the analysis is one that the builders
  return for this market at the width of the last attempt and the score is one of its scores. The
  rest is about the builders: `PutLegFacts` and `CallLegFacts` (the legs' order
  and width), `SoundPays` (piecewise payoffs), `ConvexShares`, `WiderPut` and
  `WiderCall` (a convex price gives a smaller credit per dollar of width, hence a larger share at risk).
- **Dashboard**: `PageInv` is types and the two properties, which are inductive together.
- **Pipeline**: `PipeInv` says for each request what authentication (`StampInv`) and the limiter
  (`ChargeInv`) have made of it by the stage that it has reached, a refusal or a free pass only
  where `missed` has the call of this very request that raised, and that a call under way is
  one that it makes there (`CallInv`); for the pools, that the connections in use are as many
  as the requests that hold one (`UsedInv`, a cardinality) and that a crowd was noticed
  (`CrowdInv`). An empty pool of Redis then has as many holders, all inside, besides the one that found it
  empty.
- **Metrics**: `Inv` has a `Tally` of what is in Redis and of what is saved, so that a restart
  restores one: the list and the sum of the buckets go with the totals, and a bucket that counts
  anything lives for at least `RpmTtl` after its minute. `ClockInv` bounds how late a request may be,
  so that, with `RpmTtl >= Window + MaxLag`, no bucket of its window has expired. `ViewInv` says of a
  summary that no restart tore, at each round trip, that what it has read lies between its total and
  the total in Redis; and `PairInv` holds for the saved counters too.
- **Routing**: `RoutingInv` says that after each turn of the loop `best` is the first of the most
  similar routes seen so far, if any is similar at all, and that what is decided follows from it.

Sums and maxima are over sets of any finite size, which takes induction over data. The induction
theorems of the library have an operator as a parameter, which the provers cannot instantiate; the
lemmas `LeastNumber` and `MinimalSet` of `RoutingMetrics_proofs` replace them by a minimal
counterexample, an element of a set of sets. From them follows that the recursive function behind
`MapThenSumSet` exists and that `Max` and `SelectInSeq` choose what there is.

Of liveness the safety half is proved where it is short: that each step leaves less to do
(`StepsLeft`, a number of steps) and that there is always something to wait for. For the graph and the
pipeline what is left to fairness is then only that a step that can be taken is taken.

Model-checked only: liveness (`EveryRequestAnswered` of the breaker and of the pipeline,
`BreakerRecovers`, `DeadKeysSettle`, `EveryTaskSettles`, `RunEnds`, `PollEnds`, `SpinnerEnds`), as
fairness means ENABLED, which the prover does not handle. Every invariant and every action
property of the passing runs is a theorem.

## Where code and documents differ

Shown by a violation run:

- *One probe.* Half-open is stored as `failure_threshold - 1` failures, which every
  later caller takes for closed (`main.py:67`; the comments at 49-50 and 66 say one probe).
- *Negative `ttl_days`.* The row has expired at once, but the cache entry is permanent
  (`admin.py:115`, `auth.py:155`). A bug rather than a comment.
- *Polling for completion.* A late answer of an earlier task's status fetch clears the later
  task's interval (`index.html:397,401,406`, against `README.md:383`): the later result never
  appears. Also a bug: the callback should clear its own handle.

Shown by a passing run, whose property says what the code does where the documents say otherwise:

- *Consecutive failures.* A success is recorded before `response.choices[0]` raises (`main.py:281-286`):
  a malformed answer makes the breaker forget the failures before it, and malformed answers in a
  row never open it, against `main.py:46,259`. `CountsConsecutiveFailures` therefore speaks of the
  failures since the last malformed answer.
- *Safer spreads.* A wider spread never has a smaller share of loss when prices are free of arbitrage,
  against "for a safer risk profile" (`finance_graph.py:114`), "for a safer spread" (`:171`) and
  `README.md:389`, and the earlier, less risky spread is thrown away (`:130`). Checked and proved as
  `WideningNeverSafer`.
- *The threshold.* A similarity equal to the threshold is accepted, against "exceeds the threshold"
  (`semantic_router.py:56,71`), and the score returned is not "the raw cosine similarity of the winning
  anchor" (`:55`): it is rounded, so that one just below the threshold may be reported as a confidence
  of 0.5 with the fallback. `ClassifiesBest` says both.
- *Polling with a dead key.* The poll does not look at the status of the answer (`index.html:393-404`; `runQuery`
  does, in line 353): with a revoked key a settled task is polled for ever, and the spinner turns. `PollEnds` and
  `SpinnerEnds` speak of tasks whose end is reported. A bug too.

Met on the way, and visible in the models, without a run of their own:

- a request that read the row before the revocation may cache the key after the delete
  (`auth.py:136`), so that the next request is not "immediately rejected" (`admin.py:179`). Proved: it is
  served for no longer than the rehydration TTL and the request's stall;
- a 401, a 429 and an exception that no handler catches are never counted, as they do not pass the
  metrics middleware, whose docstring says "total handled requests" and "4xx / 5xx responses"
  (`middlewares/metrics.py:24-25`);
- a summary shows counters of completed and failed tasks that nothing writes (`routers/metrics.py`), and, as
  the counter of dispatched tasks is read last, may show more of them than `financial_quant` queries;
- buckets of the series live for 2 hours, "enough for a 24-h chart" (`middlewares/metrics.py:15`);
- the log context's user is not "refreshed by metrics middleware" (`request_id.py:30-31`), only by the
  chat route (`main.py:180`), and the id is not "always" echoed (`request_id.py:36`): not on an exception;
- requests to public paths are charged to one bucket, that of the user "anonymous";
- a stop word written with a `$` is a ticker (`$AI`);
- the script is atomic (`rate_limiter.py:15`), but the time it stores was read before the await
  and may lie before `last_update` (`rate_limiter.py:39,74`): the same seconds are refilled twice, which
  is the `regress` of `RateBoundWithLag`;
- `task_track_started` is not set (`celery_worker.py:19`), so a running task is reported as queued and
  `STARTED` (`routers/tasks.py:22-23`) never occurs;
- a cancelled task is polled for ever: `revoked` is neither `success` nor `failure` (`index.html:396,400`);
- a success of a call issued before the trip closes the open breaker (`main.py:72`);
- the 503 is an `Exception` and is retried, against the comment at `main.py:284`;
- the waits are 2 s, 2 s, not the documented 2, 4, 8 (`main.py:260`), three attempts having two waits;
- a full bucket and a minute's refill admit nearly twice `max_tpm` in one minute
  (`rate_limiter.py:34`, `README.md:219`); a cost above `max_tpm` is never admitted;
- a registration that comes after a revocation leaves an entry behind (`admin.py:119`), a
  Redis restart may bring one back (`docker-compose.yml:9`), and an entry may outlive
  `expires_at` by the rehydration TTL (`SECURITY.md:33`);
- a cancelled task that is already running is not interrupted under `--pool=solo`
  (`routers/tasks.py:67-68`); lost, expired and unknown tasks read as PENDING for ever;
- there are two recalculations, not the three of `README.md:389`;
- a failed fetch is swallowed, so Celery's retry never sees it and the task succeeds with strategy `none`;
- a condor's `max_loss` ignores the credit of its other side: it is an upper bound, not the worst case.

## What is not modelled

- **Log context and formatter**: two context variables, each set and read within the task of one
  request; nothing that they hold is read back by the program.
- **Closing the pools** at shutdown: uvicorn has stopped taking requests and waited for those under
  way by then, so that no call of the program meets a closed pool.
- **Configuration and deployment** are constants read at start; the RDB policy,
  restart policy and worker pool they set are modelled where they matter.
- **Within modelled components**: that the two deliveries of a message which a restart of Redis
  makes of one share a delivery tag, so that acknowledging the one may remove the other's entry
  of taken messages; the dashboard's periodic refresh,
  which only displays what it fetches, and layout; the model choice, prompts and answers; header syntax; what the
  admin secret and IP list compare (a request is denied or not); the text of a memory; the embedding
  model and the matching of regular expressions;
  break-evens, implied volatility and messages of an analysis, which nothing reads back; polling a
  task, which reads `status` and changes nothing. A gateway process that stops takes its breaker
  with it; the model is of one process's lifetime. A client that disconnects, whose handler may then be
  cancelled at an `await`, is not modelled: a call always ends with a result.
- **Clock jumps** of the hosts are outside `MaxLag`.
