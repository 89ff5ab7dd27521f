--------------------------- MODULE RequestPipeline ---------------------------
(***************************************************************************)
(* A request on its way through the gateway: the middlewares in the order  *)
(* of main.py (request id, authentication, rate limit, metrics), then the  *)
(* handler of its route, and the two connection pools that all of them     *)
(* share.                                                                  *)
(*                                                                         *)
(* The pool of Redis (core/redis_pool.py) raises at once when every        *)
(* connection is in use; the pool of Postgres (core/db_session.py) makes   *)
(* the caller wait.  A call is two steps, so that it holds its connection  *)
(* while others run: Connect, and the step that takes its result.          *)
(*                                                                         *)
(* What the calls do to Redis and Postgres is in KeyCache, TokenBucket,    *)
(* QuantTask and Metrics; here a call succeeds or raises, and the answer   *)
(* of the limiter is any.                                                  *)
(***************************************************************************)
EXTENDS Integers, Sequences, FiniteSets

CONSTANTS
    Requests,
    Keys,       \* keys with a valid row in api_keys
    Owner,      \* Owner[k]: the user_id of that row
    DevKey,     \* settings.DEV_API_KEY
    DevUser,    \* "dev-user"
    BadKey,     \* a key that nobody issued
    NoKey,      \* no Authorization header, or one that is no Bearer
    Anonymous,  \* "anonymous", the user of a request that Auth has not stamped
    RedisMax,   \* max_connections (100)
    PgMax,      \* max_size (10)
    MaxFaults   \* bound: failing calls

Users == {Owner[k] : k \in Keys} \union {DevUser}

\* No account has the name of the default; the credentials are different.
ASSUME KeysAssumption ==
    /\ Keys \intersect {DevKey, BadKey, NoKey} = {}
    /\ Cardinality({DevKey, BadKey, NoKey}) = 3
    /\ Anonymous \notin Users
ASSUME PoolAssumption == RedisMax \in Nat \ {0} /\ PgMax \in Nat \ {0}
ASSUME BoundsAssumption == IsFiniteSet(Requests) /\ MaxFaults \in Nat

VARIABLES
    production, \* settings.ENV, fixed at startup
    stage,      \* stage[r]: the next call of r is made by this middleware
    route,      \* route[r]: the handler, once the router has found it
    cred,       \* cred[r]: what r presents, NoKey on a public path
    user,       \* user[r]: request.state.user_id, or its default
    step,       \* step[r]: the next call of the handler of r
    calling,    \* requests with a call under way
    used,       \* used[s]: connections of pool s in use
    charged,    \* charged[r]: the users whose buckets have paid for r, one for each time
    missed,     \* missed[r]: which of the two calls in Decisive raised for r
    starved,    \* a request found no free connection to Redis
    crowded,    \* more than RedisMax requests were inside at once
    faults      \* number of faults so far

requestVars == <<stage, route, cred, user, step, charged>>
poolVars    == <<calling, used>>
historyVars == <<missed, starved, crowded>>
vars == <<production, stage, route, cred, user, step, calling, used,
          charged, missed, starved, crowded, faults>>

Stores      == {"redis", "pg", "outside"}
Credentials == Keys \union {DevKey, BadKey, NoKey}
Serving     == {"cache", "row", "warm", "limit", "handle", "record"}
Stages      == Serving \union {"new", "refused", "answered"}

----------------------------------------------------------------------------
(* The handlers: their calls in order, what they may do when a call returns *)
(* and when it raises.  Celery and the LLM have no pool here.               *)

Call(store, ok, failed) == [store |-> store, ok |-> ok, failed |-> failed]

Swallowed(store) == Call(store, {"next"}, {"next"})
Raising(store)   == Call(store, {"next"}, {"raise"})

\* route_traffic: the intent is counted, the task published and counted.
QuantCalls == <<Swallowed("redis"), Raising("outside"), Swallowed("redis")>>

\* HermesMemoryInjector: any failure is a profile that is not there.
InjectMemory == Swallowed("pg")

\* route_traffic: the intent is counted, the profile injected, the LLM called.
\* The open circuit is an HTTPException.
LlmCalls ==
    <<Swallowed("redis"), InjectMemory, Call("outside", {"next"}, {"answer", "raise"})>>

\* get_task_status and cancel_task ask Celery; 409.
TaskCalls == <<Call("outside", {"next", "answer"}, {"raise"}), Raising("outside")>>

\* get_metrics
SummaryCalls == <<Raising("redis"), Raising("redis"), Raising("redis"), Raising("redis")>>

\* create_api_key; a PostgresError is an HTTPException.
CreateCalls == <<Call("pg", {"next"}, {"answer", "raise"}), Raising("redis")>>

\* list_keys
ListCalls == <<Raising("pg")>>

\* revoke_api_key; 404.
RevokeCalls == <<Call("pg", {"next", "answer"}, {"raise"}), Swallowed("redis")>>

HealthCalls == <<Swallowed("redis"), Swallowed("pg")>>

Calls == [quant  |-> QuantCalls,  llm  |-> LlmCalls,  tasks  |-> TaskCalls,
          create |-> CreateCalls, list |-> ListCalls, revoke |-> RevokeCalls,
          health |-> HealthCalls, page |-> <<>>,      summary |-> SummaryCalls]

Routes == DOMAIN Calls

\* _PUBLIC_PATHS and _SKIP_PATHS, with "/static": the same paths.
Public == {"health", "page"}

\* Bodies are validated (422), and _require_admin denies (403).
Checked == {"quant", "llm", "create", "list", "revoke"}

----------------------------------------------------------------------------
(* Connections.                                                            *)

Inside == {r \in Requests : stage[r] \in Serving}

Fault == faults < MaxFaults /\ faults' = faults + 1

Working(r) == stage[r] = "handle" /\ step[r] <= Len(Calls[route[r]])

ThisCall(r) == Calls[route[r]][step[r]]

\* The pool that the next call of r needs.
Store(r) ==
    IF stage[r] = "handle" THEN ThisCall(r).store
    ELSE IF stage[r] = "row" THEN "pg" ELSE "redis"

AboutToCall(r) == r \notin calling /\ (Working(r) \/ stage[r] \in Serving \ {"handle"})

Free_OffByOne(s) == CASE s = "redis" -> used[s] <= RedisMax   \* fault: <= for <
                      [] s = "pg"    -> used[s] <= PgMax
                      [] OTHER       -> TRUE

Free(s) == CASE s = "redis" -> used[s] < RedisMax
             [] s = "pg"    -> used[s] < PgMax
             [] OTHER       -> TRUE

\* get_connection of redis.asyncio, acquire of asyncpg.
Connect(r) ==
    /\ AboutToCall(r)
    /\ Free(Store(r))
    /\ calling' = calling \union {r}
    /\ used' = [used EXCEPT ![Store(r)] = @ + 1]
    /\ UNCHANGED <<production, requestVars, historyVars, faults>>

Release_OnlyOk(r, ok) ==   \* fault: acquire without a finally
    /\ calling' = calling \ {r}
    /\ used' = [used EXCEPT ![Store(r)] = IF ok THEN @ - 1 ELSE @]

\* The connection goes back to its pool, whatever the call did.
Release(r, ok) ==
    /\ calling' = calling \ {r}
    /\ used' = [used EXCEPT ![Store(r)] = @ - 1]

\* The call of r is over: it returned, it raised, or it found the pool of Redis
\* empty, which raises a RedisError as an outage does.
Over(r, ok) ==
    \/ /\ r \in calling
       /\ Release(r, ok)
       /\ IF ok THEN UNCHANGED faults ELSE Fault
       /\ UNCHANGED starved
    \/ /\ AboutToCall(r) /\ Store(r) = "redis" /\ ~Free("redis")
       /\ ~ok
       /\ starved' = TRUE
       /\ UNCHANGED <<poolVars, faults>>

\* The look-up of a key in Postgres, and the limiter's call.
Decisive == {"row", "limit"}

\* What is remembered of a call of r, until r is answered.
Note(r, ok) ==
    missed' = [missed EXCEPT ![r] =
                  IF stage'[r] = "answered" THEN {}
                  ELSE IF ok \/ stage[r] \notin Decisive THEN @ ELSE @ \union {stage[r]}]

----------------------------------------------------------------------------
(* The middlewares.                                                        *)

\* The next call is made by middleware s.
Pass(r, s) ==
    stage' = [stage EXCEPT ![r] = s] /\ UNCHANGED <<route, cred, user, step, charged>>

\* AuthMiddleware stamps the request.
Stamp(r, u, s) ==
    /\ user'  = [user EXCEPT ![r] = u]
    /\ stage' = [stage EXCEPT ![r] = s]
    /\ UNCHANGED <<route, cred, step, charged>>

\* 401.
Refuse(r) == Pass(r, "refused")

\* Any other answer; the locals of the request go with it.
Answer(r) ==
    /\ stage'   = [stage EXCEPT ![r] = "answered"]
    /\ route'   = [route EXCEPT ![r] = "page"]
    /\ cred'    = [cred EXCEPT ![r] = NoKey]
    /\ user'    = [user EXCEPT ![r] = Anonymous]
    /\ step'    = [step EXCEPT ![r] = 1]
    /\ charged' = [charged EXCEPT ![r] = <<>>]

\* RequestIDMiddleware, and AuthMiddleware up to its first call: a public path
\* goes to the limiter, whatever credential comes with it.
Enter(r) ==
    /\ stage[r] = "new"
    /\ \E c \in Credentials :
          /\ cred'  = [cred EXCEPT ![r] = c]
          /\ stage' = [stage EXCEPT ![r] = IF c = NoKey THEN "limit" ELSE "cache"]
    /\ crowded' = (crowded \/ Cardinality(Inside) >= RedisMax)
    /\ UNCHANGED <<production, route, user, step, charged, poolVars, missed, starved, faults>>

\* Without a bearer token no call is made.
NoToken(r) ==
    /\ stage[r] = "new"
    /\ Refuse(r)
    /\ UNCHANGED <<production, poolVars, historyVars, faults>>

\* An entry may have expired, or never been written; a RedisError is a miss.
CheckRedis(r) ==
    /\ stage[r] = "cache"
    /\ \E ok \in BOOLEAN :
          /\ Over(r, ok)
          /\ \/ ok /\ cred[r] \in Keys /\ Stamp(r, Owner[cred[r]], "limit")
             \/ Pass(r, "row")
          /\ Note(r, ok)
    /\ UNCHANGED <<production, crowded>>

\* The last link of _resolve_user.
TryDevKey(r) ==
    IF cred[r] = DevKey /\ ~production THEN Stamp(r, DevUser, "limit") ELSE Refuse(r)

CheckPostgres_Open(r) ==   \* fault: a lookup that fails lets the request in
    /\ stage[r] = "row"
    /\ \E ok \in BOOLEAN :
          /\ Over(r, ok)
          /\ IF ~ok THEN Stamp(r, DevUser, "limit")
             ELSE IF cred[r] \in Keys THEN Stamp(r, Owner[cred[r]], "warm") ELSE TryDevKey(r)
          /\ Note(r, ok)
    /\ UNCHANGED <<production, crowded>>

\* An exception is a key that is not there.
CheckPostgres(r) ==
    /\ stage[r] = "row"
    /\ \E ok \in BOOLEAN :
          /\ Over(r, ok)
          /\ IF ok /\ cred[r] \in Keys THEN Stamp(r, Owner[cred[r]], "warm")
             ELSE TryDevKey(r)
          /\ Note(r, ok)
    /\ UNCHANGED <<production, crowded>>

\* A RedisError is swallowed.
Rehydrate(r) ==
    /\ stage[r] = "warm"
    /\ \E ok \in BOOLEAN : Over(r, ok) /\ Pass(r, "limit") /\ Note(r, ok)
    /\ UNCHANGED <<production, crowded>>

\* The user whose bucket the limiter charges.
Payer(r) == user[r]

\* The router finds the handler of the path.
Dispatch(r) ==
    /\ stage' = [stage EXCEPT ![r] = "handle"]
    /\ \E p \in Routes :
          /\ (p \in Public) = (cred[r] = NoKey)
          /\ route' = [route EXCEPT ![r] = p]
    /\ UNCHANGED <<cred, user, step>>

Limit_Retried(r) ==   \* fault: a call that raised, whose script may have run, is made again
    /\ stage[r] = "limit"
    /\ \E ok \in BOOLEAN :
          /\ Over(r, ok)
          /\ \/ /\ IF ok THEN Dispatch(r) ELSE UNCHANGED <<stage, route, cred, user, step>>
                /\ charged' = [charged EXCEPT ![r] = Append(@, Payer(r))]
             \/ Answer(r) /\ ok
          /\ Note(r, ok)
    /\ UNCHANGED <<production, crowded>>

\* RateLimitMiddleware: the script charges or refuses; when its call raises the
\* request goes on, and may have been charged.
Limit(r) ==
    /\ stage[r] = "limit"
    /\ \E ok \in BOOLEAN :
          /\ Over(r, ok)
          /\ \/ /\ Dispatch(r) /\ r \in calling
                /\ charged' = [charged EXCEPT ![r] = Append(@, Payer(r))]
             \/ Dispatch(r) /\ ~ok /\ UNCHANGED charged
             \/ Answer(r) /\ ok   \* 429
          /\ Note(r, ok)
    /\ UNCHANGED <<production, crowded>>

----------------------------------------------------------------------------
(* The handler, and MetricsMiddleware after it.                            *)

\* A response passes MetricsMiddleware, which ignores the public paths.
Respond(r) ==
    IF route[r] \in Public THEN Answer(r)
    ELSE /\ stage' = [stage EXCEPT ![r] = "record"]
         /\ route' = [route EXCEPT ![r] = "page"]
         /\ step'  = [step EXCEPT ![r] = 1]
         /\ UNCHANGED <<cred, user, charged>>

\* An exception that the handler does not catch passes all middlewares.
HandlerCall(r) ==
    /\ Working(r)
    /\ \E ok \in BOOLEAN :
          /\ Over(r, ok)
          /\ \E then \in IF ok THEN ThisCall(r).ok ELSE ThisCall(r).failed :
                \/ /\ then = "next"
                   /\ step' = [step EXCEPT ![r] = @ + 1]
                   /\ UNCHANGED <<stage, route, cred, user, charged>>
                \/ then = "answer" /\ Respond(r)
                \/ then = "raise" /\ Answer(r)
          /\ Note(r, ok)
    /\ UNCHANGED <<production, crowded>>

\* The handler returns, or it is not called.
HandlerReturns(r) ==
    /\ stage[r] = "handle" /\ r \notin calling
    /\ Working(r) => step[r] = 1 /\ route[r] \in Checked
    /\ Respond(r)
    /\ Note(r, TRUE)
    /\ UNCHANGED <<production, poolVars, starved, crowded, faults>>

\* _record; an exception is swallowed.
RecordMetrics(r) ==
    /\ stage[r] = "record"
    /\ \E ok \in BOOLEAN : Over(r, ok) /\ Answer(r) /\ Note(r, ok)
    /\ UNCHANGED <<production, crowded>>

----------------------------------------------------------------------------
Init ==
    /\ production \in BOOLEAN
    /\ stage   = [r \in Requests |-> "new"]
    /\ route   = [r \in Requests |-> "page"]
    /\ cred    = [r \in Requests |-> NoKey]
    /\ user    = [r \in Requests |-> Anonymous]
    /\ step    = [r \in Requests |-> 1]
    /\ calling = {}
    /\ used    = [s \in Stores |-> 0]
    /\ charged = [r \in Requests |-> <<>>]
    /\ missed  = [r \in Requests |-> {}]
    /\ starved = FALSE
    /\ crowded = FALSE
    /\ faults  = 0

\* What the event loop and the answers of the stores do for a request inside.
Proceed(r) ==
    \/ Connect(r)
    \/ CheckRedis(r) \/ CheckPostgres(r) \/ Rehydrate(r) \/ Limit(r)
    \/ HandlerCall(r) \/ HandlerReturns(r) \/ RecordMetrics(r)

Next == \E r \in Requests : Enter(r) \/ NoToken(r) \/ Proceed(r)

\* The event loop resumes a task whose call is over, and every call ends: Postgres
\* has a command_timeout, and a call to a Redis that is gone raises.
Fairness == \A r \in Requests : WF_vars(Proceed(r))

Spec == Init /\ [][Next]_vars /\ Fairness

----------------------------------------------------------------------------
(* What the pipeline promises.                                             *)

TypeOK ==
    /\ production \in BOOLEAN /\ starved \in BOOLEAN /\ crowded \in BOOLEAN
    /\ stage \in [Requests -> Stages]
    /\ route \in [Requests -> Routes]
    /\ cred \in [Requests -> Credentials]
    /\ user \in [Requests -> Users \union {Anonymous}]
    /\ step \in [Requests -> 1 .. 5]
    /\ calling \subseteq Requests
    /\ used \in [Stores -> Nat]
    /\ used["redis"] <= RedisMax /\ used["pg"] <= PgMax
    /\ charged \in [Requests -> Seq(Users \union {Anonymous})]
    /\ missed \in [Requests -> SUBSET Decisive]
    /\ faults \in 0 .. MaxFaults

\* Whom a credential stands for.
Identity(c) ==
    IF c \in Keys THEN Owner[c]
    ELSE IF c = DevKey /\ ~production THEN DevUser ELSE Anonymous

\* Whichever store fails, is full or has forgotten, the handler of a protected
\* route sees the owner of the key that was presented, and nobody else; and a key
\* that is good is refused only when the request's own look-up in Postgres raised,
\* which knows every key: neither what Redis does nor the failures that other
\* requests meet turn it away.
FailsClosed ==
    \A r \in Requests :
        /\ stage[r] \in {"limit", "handle", "record"} /\ cred[r] # NoKey =>
              user[r] = Identity(cred[r]) /\ user[r] # Anonymous
        /\ stage[r] = "refused" => Identity(cred[r]) = Anonymous \/ "row" \in missed[r]

\* A request is charged at most once, to the user it was authenticated as, or to
\* the bucket that all requests to public paths share; and it is served without
\* having been charged only when the limiter's own call for it raised or, see
\* PoolSuffices, found no connection to Redis.
ChargedToOwner ==
    \A r \in Requests :
        /\ charged[r] \in {<<>>, <<Identity(cred[r])>>}
        /\ stage[r] \in {"handle", "record"} /\ charged[r] = <<>> => "limit" \in missed[r]

\* Redis connections run out, and the limiter with them is bypassed, only when
\* more requests were inside at once than the pool has connections: a request
\* never holds two, and no path through the handlers keeps one.
PoolSuffices == starved => crowded

\* Every request is answered: nobody waits for ever for a connection to Postgres.
EveryRequestAnswered ==
    \A r \in Requests : stage[r] \in Serving ~> stage[r] \notin Serving
=============================================================================
