---------------------------- MODULE TokenBucket ----------------------------
(***************************************************************************)
(* The token-bucket rate limiter (src/api/middlewares/rate_limiter.py).    *)
(*                                                                         *)
(* A request reads the gateway's clock and then awaits a Lua script, which *)
(* Redis runs as one step.  Between the two, other requests of any gateway *)
(* replica read their clocks and run the script: the script of a request   *)
(* may find a bucket stamped later than the time it carries.               *)
(*                                                                         *)
(* The code refills max_tpm / 60.0 tokens a second.  Here tokens are       *)
(* counted in 1/Window of a token, so that the refill and the cost of a    *)
(* request are integers: a full bucket is MaxTpm * Window and one second   *)
(* refills MaxTpm.                                                         *)
(***************************************************************************)
EXTENDS Integers

CONSTANTS
    Users,      \* user ids, one bucket each (redis_key)
    Requests,   \* requests that may overlap, on any replica
    Costs,      \* estimated costs in tokens: 10 for GET, max(50, bytes // 4) else
    MaxTpm,     \* max_tpm
    Window,     \* the 60 of max_tpm / 60.0, seconds
    MaxLag,     \* the longest time between reading a clock and the script, seconds
    Horizon,    \* bound: the clock stops here
    MaxLosses,  \* bound: how often Redis may lose a bucket
    NoCall      \* stands for no script call

ASSUME TpmAssumption    == MaxTpm \in Nat \ {0}
ASSUME WindowAssumption == Window \in Nat \ {0}
ASSUME CostsAssumption  == Costs \subseteq Nat
\* The expiry of an idle bucket relies on a slack of one window.
ASSUME LagAssumption    == MaxLag \in Nat /\ MaxLag <= Window
ASSUME BoundsAssumption == Horizon \in Nat /\ MaxLosses \in Nat
\* A script call: the bucket's user, the cost, and the time it carries.
Calls == [user : Users, cost : Costs, at : Nat]
ASSUME NoCallAssumption == NoCall \notin Calls

VARIABLES
    now,        \* time in seconds
    tokens,     \* tokens[u]: hash field "tokens"
    last,       \* last[u]: hash field "last_update"
    expireAt,   \* expireAt[u]: when Redis drops the key; the key exists before it
    call,       \* call[r]: the script call that request r awaits, or NoCall
    losses      \* number of buckets lost so far

bucketVars == <<tokens, last, expireAt>>
vars       == <<now, tokens, last, expireAt, call, losses>>

Capacity == MaxTpm * Window
Charge(c) == c * Window

Smaller(a, b) == IF a < b THEN a ELSE b
Larger(a, b)  == IF a > b THEN a ELSE b

----------------------------------------------------------------------------
Exists(u) == now < expireAt[u]

Refilled_Uncapped(u, s) ==   \* fault: the bucket overflows
    IF Exists(u)
      THEN tokens[u] + MaxTpm * Larger(0, s - last[u])
      ELSE Capacity

\* current_tokens after the refill, for a script that carries time s.
Refilled(u, s) ==
    IF Exists(u)
      THEN Smaller(Capacity, tokens[u] + MaxTpm * Larger(0, s - last[u]))
      ELSE Capacity

IdleTtl_Halved == Window \div 2   \* fault: / 2 for * 2

\* EXPIRE key ceil(max_tokens / refill_rate) * 2.
IdleTtl == 2 * Window

\* dispatch reads the user, estimates the cost and reads the clock.
Sample(r) ==
    /\ call[r] = NoCall
    /\ \E u \in Users, c \in Costs :
          call' = [call EXCEPT ![r] = [user |-> u, cost |-> c, at |-> now]]
    /\ UNCHANGED <<now, bucketVars, losses>>

\* The await of r ends.
Finish(r) ==
    /\ call[r] # NoCall
    /\ call' = [call EXCEPT ![r] = NoCall]
    /\ UNCHANGED <<now, losses>>

Affordable(r) == Refilled(call[r].user, call[r].at) >= Charge(call[r].cost)

Write(u, t, s) ==
    /\ tokens'   = [tokens EXCEPT ![u] = t]
    /\ last'     = [last EXCEPT ![u] = s]
    /\ expireAt' = [expireAt EXCEPT ![u] = now + IdleTtl]

\* The script answers 1.  If its reply is lost, the request has been charged
\* and passes all the same.
Admit(r) ==
    /\ Finish(r)
    /\ Affordable(r)
    /\ LET u == call[r].user
       IN  Write(u, Refilled(u, call[r].at) - Charge(call[r].cost), call[r].at)

Deny_Stamped(r) ==   \* fault: a refused request restarts the refill
    /\ Finish(r)
    /\ ~Affordable(r)
    /\ LET u == call[r].user IN Write(u, tokens[u], call[r].at)

\* The script answers 0 and has written nothing; the client gets 429.
Deny(r) ==
    /\ Finish(r)
    /\ ~Affordable(r)
    /\ UNCHANGED bucketVars

\* RedisError: the limiter fails open.  The request passes uncharged.
Bypass(r) ==
    /\ Finish(r)
    /\ UNCHANGED bucketVars

\* Redis restarts without the bucket.  An absent bucket is a full one.
Lose(u) ==
    /\ Exists(u)
    /\ losses < MaxLosses
    /\ losses'   = losses + 1
    /\ tokens'   = [tokens EXCEPT ![u] = Capacity]
    /\ expireAt' = [expireAt EXCEPT ![u] = 0]
    /\ UNCHANGED <<now, last, call>>

\* One second passes; no script is delayed beyond MaxLag.
Tick ==
    /\ now < Horizon
    /\ \A r \in Requests : call[r] # NoCall => now - call[r].at < MaxLag
    /\ now' = now + 1
    /\ UNCHANGED <<bucketVars, call, losses>>

Init ==
    /\ now      = 0
    /\ tokens   = [u \in Users |-> Capacity]
    /\ last     = [u \in Users |-> 0]
    /\ expireAt = [u \in Users |-> 0]
    /\ call     = [r \in Requests |-> NoCall]
    /\ losses   = 0

Next ==
    \/ \E r \in Requests : Sample(r) \/ Admit(r) \/ Deny(r) \/ Bypass(r)
    \/ \E u \in Users : Lose(u)
    \/ Tick

Spec == Init /\ [][Next]_vars
=============================================================================
