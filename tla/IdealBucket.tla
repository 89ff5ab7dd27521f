----------------------------- MODULE IdealBucket -----------------------------
(***************************************************************************)
(* The token bucket that RateLimitMiddleware is meant to be: one level per *)
(* user, filled every second up to a full bucket.  It has no time stamps,  *)
(* no expiry and no absent buckets.                                        *)
(*                                                                         *)
(* What a script computes from a late clock shows as a slip: a request may *)
(* be charged less than its cost by what MaxLag seconds refill.            *)
(***************************************************************************)
EXTENDS Integers

CONSTANTS Users, Costs, MaxTpm, Window, MaxLag   \* as in TokenBucket

VARIABLES
    level,   \* level[u]: what the bucket of u holds, in 1/Window of a token
    losses   \* number of buckets that the store has forgotten

vars == <<level, losses>>

Full == MaxTpm * Window

Init ==
    /\ level  = [u \in Users |-> Full]
    /\ losses = 0

Refill ==
    /\ level' = [u \in Users |->
                    IF level[u] + MaxTpm < Full THEN level[u] + MaxTpm ELSE Full]
    /\ UNCHANGED losses

Charge(u) ==
    \E c \in Costs, slip \in 0 .. MaxTpm * MaxLag :
        /\ c * Window <= level[u]
        /\ level[u] - c * Window + slip <= Full
        /\ level' = [level EXCEPT ![u] = @ - c * Window + slip]
        /\ UNCHANGED losses

\* A forgotten bucket comes back full.
Lose(u) ==
    /\ level'  = [level EXCEPT ![u] = Full]
    /\ losses' = losses + 1

Next == Refill \/ \E u \in Users : Charge(u) \/ Lose(u)

Spec == Init /\ [][Next]_vars
=============================================================================
