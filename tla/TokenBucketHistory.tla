------------------------- MODULE TokenBucketHistory -------------------------
(***************************************************************************)
(* TokenBucket with an observer per user: from a moment it chooses, it     *)
(* adds up what the limiter lets through.  The observer may start over at  *)
(* any time, so what holds of it holds of every interval.                  *)
(***************************************************************************)
EXTENDS TokenBucket

VARIABLES
    opened,    \* opened[u]: when the observer of u started
    spent,     \* spent[u]: tokens charged since, in 1/Window of a token
    regress,   \* regress[u]: seconds by which last_update was set back since
    lost,      \* lost[u]: buckets of u lost since
    lastPass   \* lastPass[u]: time carried by the last admitted request of u,
               \* -Window before the first

historyVars == <<opened, spent, regress, lost, lastPass>>
allVars     == <<now, tokens, last, expireAt, call, losses,
                 opened, spent, regress, lost, lastPass>>

HInit ==
    /\ Init
    /\ opened   = [u \in Users |-> 0]
    /\ spent    = [u \in Users |-> 0]
    /\ regress  = [u \in Users |-> 0]
    /\ lost     = [u \in Users |-> 0]
    /\ lastPass = [u \in Users |-> -Window]

HAdmit(r) ==
    /\ Admit(r)
    /\ LET u == call[r].user
           s == call[r].at
       IN  /\ spent'    = [spent EXCEPT ![u] = spent[u] + Charge(call[r].cost)]
           /\ regress'  = [regress EXCEPT ![u] = regress[u] + Larger(0, last[u] - s)]
           /\ lastPass' = [lastPass EXCEPT ![u] = s]
    /\ UNCHANGED <<opened, lost>>

HDeny(r) == Deny(r) /\ UNCHANGED historyVars

HLose(u) ==
    /\ Lose(u)
    /\ lost' = [lost EXCEPT ![u] = lost[u] + 1]
    /\ UNCHANGED <<opened, spent, regress, lastPass>>

\* The observer of u starts over.
Observe(u) ==
    /\ opened'  = [opened EXCEPT ![u] = now]
    /\ spent'   = [spent EXCEPT ![u] = 0]
    /\ regress' = [regress EXCEPT ![u] = 0]
    /\ lost'    = [lost EXCEPT ![u] = 0]
    /\ UNCHANGED <<vars, lastPass>>

HNext ==
    \/ \E r \in Requests :
          \/ (Sample(r) \/ Bypass(r)) /\ UNCHANGED historyVars
          \/ HAdmit(r)
          \/ HDeny(r)
    \/ \E u \in Users : HLose(u) \/ Observe(u)
    \/ Tick /\ UNCHANGED historyVars

HSpec == HInit /\ [][HNext]_allVars

----------------------------------------------------------------------------
(* What the limiter promises.                                              *)

HistoryTypeOK ==
    /\ now      \in 0 .. Horizon
    /\ tokens   \in [Users -> 0 .. Capacity]
    /\ last     \in [Users -> 0 .. now]
    /\ expireAt \in [Users -> Nat]
    /\ call     \in [Requests -> Calls \union {NoCall}]
    /\ losses   \in 0 .. MaxLosses
    /\ opened   \in [Users -> 0 .. now]
    /\ spent    \in [Users -> Nat]
    /\ regress  \in [Users -> Nat]
    /\ lost     \in [Users -> Nat]
    /\ lastPass \in [Users -> Int]

\* Over every interval, whatever the order in which delayed scripts run, a
\* user is charged at most a full bucket and the refill of the interval.  A
\* delayed script adds its lag, setting last_update back adds the seconds set
\* back, and a lost bucket adds a full one.  That expired buckets reappear
\* full adds nothing.
RateBoundWithLag ==
    \A u \in Users :
        spent[u] <= (1 + lost[u]) * Capacity
                    + MaxTpm * (now - opened[u] + MaxLag + regress[u])

\* A request is refused only while the bucket has not had the time to refill
\* its cost since the last admitted request: refused requests, late scripts of
\* other requests and expiry never cost a user anything.
RefusedOnlyWhenSpent ==
    [][\A r \in Requests :
          HDeny(r) /\ call[r].cost <= MaxTpm =>
             MaxTpm * (call[r].at - lastPass[call[r].user])
                < Charge(call[r].cost)]_allVars

\* What the bucket of u would hold if it were refilled now.
Ideal == INSTANCE IdealBucket WITH level <- [u \in Users |-> Refilled(u, now)]

\* Expiry, refills that wait for the next request, and stamps that go backwards
\* do not show: but for a slip per late script, what a user may spend changes as
\* in a bucket that is refilled every second and lives for ever.
ImplementsIdeal == Ideal!Spec

\* The same without late scripts and lost buckets: at most a full bucket and the
\* refill of the interval.
RateBound ==
    \A u \in Users : spent[u] <= Capacity + MaxTpm * (now - opened[u])
=============================================================================
