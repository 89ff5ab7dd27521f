------------------------------ MODULE KeyCache ------------------------------
(***************************************************************************)
(* API keys: the table api_keys in Postgres, the cache apikey:<hash> in    *)
(* Redis, the authentication of requests (src/api/middlewares/auth.py) and *)
(* the admin routes that create and revoke keys (src/routers/admin.py).    *)
(*                                                                         *)
(* Each call to Redis or Postgres is one step; between the calls of one    *)
(* handler the handlers of other requests and admins take theirs.  A call  *)
(* may fail without effect, and a write may take effect although its       *)
(* caller sees a failure.  A gateway that stops between two calls behaves  *)
(* like one whose next call fails.                                         *)
(*                                                                         *)
(* Time is counted in seconds.  What is left of a lifetime is a number     *)
(* that Tick counts down, or Forever; an absent cache entry has 0 left.    *)
(***************************************************************************)
EXTENDS Integers

CONSTANTS
    Keys,          \* API keys that may be created
    Requests,      \* authenticated requests that may overlap
    Admins,        \* admin calls that may overlap
    Lifetimes,     \* ttl_days of create_api_key: 0 stands for None and 0
    RehydrateTtl,  \* _REDIS_REHYDRATE_TTL
    MaxStall,      \* the longest time from Postgres' answer to the cache write
    Forever,       \* an unlimited lifetime
    Faults         \* which of the failures below may happen

ASSUME LifetimesAssumption == Lifetimes \subseteq Int
ASSUME TtlAssumption       == RehydrateTtl \in Nat \ {0}
ASSUME StallAssumption     == MaxStall \in Nat
ASSUME ForeverAssumption   == Forever \notin Int
ASSUME FaultsAssumption    ==
    Faults \subseteq {"redis_error", "postgres_error", "redis_crash"}

VARIABLES
    row,       \* row[k]: "absent", "active", or "revoked" (the column revoked)
    life,      \* life[k]: time to expires_at
    cache,     \* cache[k]: time the Redis entry has left
    snapshot,  \* snapshot[k]: the same for the last RDB snapshot
    issued,    \* keys whose creation was answered: their raw key is in use
    lookup,    \* lookup[r]: "idle", "postgres", "rehydrate": the next call of r
    key,       \* key[r]: the key that r presents
    stall,     \* stall[r]: seconds since Postgres answered r
    task,      \* task[a]: "idle", "register", "delete": the next call of a
    target,    \* target[a]: the key that a creates or revokes
    ttl        \* ttl[k]: ttl_seconds of the handler that created k

storeVars == <<row, life, cache, snapshot, issued, ttl>>
authVars  == <<lookup, key, stall>>
adminVars == <<task, target>>
vars      == <<row, life, cache, snapshot, issued, lookup, key, stall,
               task, target, ttl>>

----------------------------------------------------------------------------
Lasts(t) == t = Forever \/ t # 0

\* The WHERE clause of _check_postgres.
Valid(k) == row[k] = "active" /\ Lasts(life[k])

CacheHit(k) == Lasts(cache[k])

SetEntry(k, t) == cache' = [cache EXCEPT ![k] = t]

----------------------------------------------------------------------------
(* Authentication of a request.                                            *)

\* _check_redis finds an entry: the request is let through at once.
RedisHit(r) ==
    /\ lookup[r] = "idle"
    /\ \E k \in issued :
          /\ CacheHit(k)
          /\ key' = [key EXCEPT ![r] = k]
    /\ UNCHANGED <<storeVars, adminVars, lookup, stall>>

\* No entry, or RedisError: Postgres is asked next.
RedisMiss(r) ==
    /\ lookup[r] = "idle"
    /\ \E k \in issued :
          /\ ~CacheHit(k) \/ "redis_error" \in Faults
          /\ key' = [key EXCEPT ![r] = k]
    /\ lookup' = [lookup EXCEPT ![r] = "postgres"]
    /\ UNCHANGED <<storeVars, adminVars, stall>>

PostgresAccepts_Revoked(r) ==   \* fault: the query forgets revoked = false
    /\ lookup[r] = "postgres"
    /\ row[key[r]] # "absent" /\ Lasts(life[key[r]])
    /\ lookup' = [lookup EXCEPT ![r] = "rehydrate"]
    /\ stall'  = [stall EXCEPT ![r] = 0]
    /\ UNCHANGED <<storeVars, adminVars, key>>

PostgresAccepts(r) ==
    /\ lookup[r] = "postgres"
    /\ Valid(key[r])
    /\ lookup' = [lookup EXCEPT ![r] = "rehydrate"]
    /\ stall'  = [stall EXCEPT ![r] = 0]
    /\ UNCHANGED <<storeVars, adminVars, key>>

\* No valid row, or the query failed: 401.
PostgresRefuses(r) ==
    /\ lookup[r] = "postgres"
    /\ ~Valid(key[r]) \/ "postgres_error" \in Faults
    /\ lookup' = [lookup EXCEPT ![r] = "idle"]
    /\ UNCHANGED <<storeVars, adminVars, key, stall>>

EndLookup(r) ==
    /\ lookup[r] = "rehydrate"
    /\ lookup' = [lookup EXCEPT ![r] = "idle"]
    /\ stall'  = [stall EXCEPT ![r] = 0]
    /\ UNCHANGED <<row, life, snapshot, issued, ttl, adminVars, key>>

Rehydrate_Permanent(r) ==   \* fault: SET for SETEX
    EndLookup(r) /\ SetEntry(key[r], Forever)

\* _rehydrate_redis; the request is let through.
Rehydrate(r) == EndLookup(r) /\ SetEntry(key[r], RehydrateTtl)

\* RedisError is swallowed; the request is let through.
RehydrateFails(r) ==
    /\ "redis_error" \in Faults
    /\ EndLookup(r)
    /\ UNCHANGED cache

----------------------------------------------------------------------------
(* Creating a key.                                                         *)

\* expires_at of a new row: none if ttl_days is None or 0, in the past if it is
\* negative.
NewLife(t) == IF t = 0 THEN Forever ELSE IF t < 0 THEN 0 ELSE t

\* register_api_key: SETEX for a positive TTL, SET otherwise.
NewEntry(t) == IF t > 0 THEN t ELSE Forever

\* _store_key_in_db.
InsertRow(a) ==
    /\ task[a] = "idle"
    /\ \E k \in Keys, t \in Lifetimes :
          /\ row[k] = "absent"
          /\ row'    = [row EXCEPT ![k] = "active"]
          /\ life'   = [life EXCEPT ![k] = NewLife(t)]
          /\ ttl'    = [ttl EXCEPT ![k] = t]
          /\ target' = [target EXCEPT ![a] = k]
    /\ \/ task' = [task EXCEPT ![a] = "register"]
       \/ "postgres_error" \in Faults /\ UNCHANGED task
    /\ UNCHANGED <<cache, snapshot, issued, authVars>>

\* register_api_key; unless the reply is lost, the raw key is returned.
Register(a) ==
    /\ task[a] = "register"
    /\ SetEntry(target[a], NewEntry(ttl[target[a]]))
    /\ \/ issued' = issued \union {target[a]}
       \/ "redis_error" \in Faults /\ UNCHANGED issued
    /\ task' = [task EXCEPT ![a] = "idle"]
    /\ UNCHANGED <<row, life, snapshot, ttl, target, authVars>>

\* RedisError is not caught: the admin gets 500 and nobody learns the raw key.
RegisterFails(a) ==
    /\ "redis_error" \in Faults
    /\ task[a] = "register"
    /\ task' = [task EXCEPT ![a] = "idle"]
    /\ UNCHANGED <<storeVars, target, authVars>>

----------------------------------------------------------------------------
(* Revoking a key.                                                         *)

\* UPDATE ... AND revoked = false changes one row.  If its reply is lost the
\* handler ends with 500, and a second attempt will find no row to change.
UpdateRow(a) ==
    /\ task[a] = "idle"
    /\ \E k \in Keys :
          /\ row[k] = "active"
          /\ row'    = [row EXCEPT ![k] = "revoked"]
          /\ target' = [target EXCEPT ![a] = k]
    /\ \/ task' = [task EXCEPT ![a] = "delete"]
       \/ "postgres_error" \in Faults /\ UNCHANGED task
    /\ UNCHANGED <<life, cache, snapshot, issued, ttl, authVars>>

DeleteEntry(a) ==
    /\ task[a] = "delete"
    /\ SetEntry(target[a], 0)
    /\ task' = [task EXCEPT ![a] = "idle"]
    /\ UNCHANGED <<row, life, snapshot, issued, ttl, target, authVars>>

\* The exception is swallowed: the admin is told that the key is revoked.
DeleteFails(a) ==
    /\ "redis_error" \in Faults
    /\ task[a] = "delete"
    /\ task' = [task EXCEPT ![a] = "idle"]
    /\ UNCHANGED <<storeVars, target, authVars>>

----------------------------------------------------------------------------
(* Redis and time.                                                         *)

\* redis-server --save 60 1.
SaveSnapshot ==
    /\ "redis_crash" \in Faults
    /\ snapshot' = cache
    /\ UNCHANGED <<row, life, cache, issued, ttl, authVars, adminVars>>

\* Redis stops without saving and restarts from its last snapshot.
RedisCrash ==
    /\ "redis_crash" \in Faults
    /\ cache' = snapshot
    /\ UNCHANGED <<row, life, snapshot, issued, ttl, authVars, adminVars>>

Older_Past(t) == IF t = Forever THEN t ELSE t - 1   \* fault: counts past 0

Older(t) == IF t = Forever \/ t = 0 THEN t ELSE t - 1

Tick ==
    /\ \A r \in Requests : lookup[r] = "rehydrate" => stall[r] < MaxStall
    /\ life'     = [k \in Keys |-> Older(life[k])]
    /\ cache'    = [k \in Keys |-> Older(cache[k])]
    /\ snapshot' = [k \in Keys |-> Older(snapshot[k])]
    /\ stall'    = [r \in Requests |->
                       IF lookup[r] = "rehydrate" THEN stall[r] + 1 ELSE 0]
    /\ UNCHANGED <<row, issued, ttl, lookup, key, adminVars>>

Init ==
    /\ row      = [k \in Keys |-> "absent"]
    /\ life     = [k \in Keys |-> 0]
    /\ cache    = [k \in Keys |-> 0]
    /\ snapshot = [k \in Keys |-> 0]
    /\ issued   = {}
    /\ lookup   = [r \in Requests |-> "idle"]
    /\ key      \in [Requests -> Keys]
    /\ stall    = [r \in Requests |-> 0]
    /\ task     = [a \in Admins |-> "idle"]
    /\ target   \in [Admins -> Keys]
    /\ ttl      = [k \in Keys |-> 0]

Authenticate(r) ==
    \/ RedisHit(r)
    \/ RedisMiss(r)
    \/ PostgresAccepts(r)
    \/ PostgresRefuses(r)
    \/ Rehydrate(r)
    \/ RehydrateFails(r)

Administer(a) ==
    \/ InsertRow(a)
    \/ Register(a)
    \/ RegisterFails(a)
    \/ UpdateRow(a)
    \/ DeleteEntry(a)
    \/ DeleteFails(a)

Next ==
    \/ \E r \in Requests : Authenticate(r)
    \/ \E a \in Admins : Administer(a)
    \/ SaveSnapshot
    \/ RedisCrash
    \/ Tick

Spec == Init /\ [][Next]_vars
=============================================================================
