------------------------- MODULE TokenBucket_proofs -------------------------
(***************************************************************************)
(* Proofs about the rate limiter, for all users, requests, costs, rates,   *)
(* windows and lags that the assumptions of TokenBucket allow.             *)
(***************************************************************************)
EXTENDS TokenBucketHistory, TLAPS

\* A pending script carries a time that is at most MaxLag old.
LagInv ==
    \A r \in Requests :
        call[r] # NoCall => call[r].at <= now /\ now - call[r].at <= MaxLag

\* A bucket that is not full outlives its last update by two windows.
IdleInv ==
    \A u \in Users : tokens[u] = Capacity \/ expireAt[u] >= last[u] + 2 * Window

\* The earliest time a script run in the observed interval may carry.
Start(u) == opened[u] - MaxLag

\* The tokens of u's bucket at that time, or at its last update if later.
Level(u) ==
    IF last[u] < Start(u)
      THEN Smaller(Capacity, tokens[u] + MaxTpm * (Start(u) - last[u]))
      ELSE tokens[u]

\* What has been spent and what is left fit in a full bucket per loss and the
\* refill up to the last update.
MeterInv ==
    \A u \in Users :
        spent[u] + Level(u)
           <= (1 + lost[u]) * Capacity
              + MaxTpm * (Larger(last[u], Start(u)) - Start(u) + regress[u])

\* An existing bucket was stamped by the last admitted request.
StampInv == \A u \in Users : Exists(u) => last[u] = lastPass[u]

\* Each user's losses are among all losses, and last_update is only set back
\* by delayed scripts.
FaultInv ==
    \A u \in Users : /\ lost[u] <= losses
                     /\ MaxLag = 0 => regress[u] = 0

BucketInv ==
    /\ HistoryTypeOK
    /\ LagInv
    /\ IdleInv
    /\ StampInv
    /\ FaultInv

----------------------------------------------------------------------------
(* Arithmetic.                                                             *)

\* Multiplication distributes, stated for the terms below.
LEMMA Distributes ==
    \A m, a, b \in Int : m * (a + b) = m * a + m * b /\ m * (a - b) = m * a - m * b
  OBVIOUS

\* Multiplying by a rate preserves order.
LEMMA Monotone == \A m \in Nat : \A a, b \in Int : a <= b => m * a <= m * b
<1> SUFFICES ASSUME NEW m \in Nat, NEW a \in Int, NEW b \in Int, a <= b
             PROVE  m * a <= m * b
    OBVIOUS
<1>1. m * (b - a) \in Nat
    OBVIOUS
<1>2. m * (b - a) = m * b - m * a
    BY Distributes
<1> QED
    BY <1>1, <1>2

\* A full bucket is a natural number of tokens.
LEMMA CapacityNat == Capacity \in Nat
  BY TpmAssumption, WindowAssumption DEF Capacity

\* So is what a request is charged.
LEMMA ChargeNat == \A c \in Costs : Charge(c) \in Nat
  BY CostsAssumption, WindowAssumption DEF Charge

\* The refill never overflows the bucket and never takes tokens back.
LEMMA RefillBounds ==
    ASSUME HistoryTypeOK, NEW u \in Users, NEW s \in Nat
    PROVE  /\ Refilled(u, s) \in 0 .. Capacity
           /\ Refilled(u, s) >= tokens[u]
<1>1. tokens[u] \in 0 .. Capacity /\ last[u] \in Int
    BY DEF HistoryTypeOK
<1>2. MaxTpm * Larger(0, s - last[u]) \in Nat
    BY <1>1, TpmAssumption DEF Larger
<1> QED
    BY <1>1, <1>2, CapacityNat DEF Refilled, Smaller

----------------------------------------------------------------------------
(* Typing and the simple invariants.                                       *)

\* What an admitted script call does, in terms of its user and its time.
LEMMA AdmitEffect ==
    ASSUME BucketInv, NEW r \in Requests, Admit(r)
    PROVE  /\ call[r] \in Calls
           /\ call[r].user \in Users
           /\ call[r].at \in Nat
           /\ call[r].at <= now
           /\ now - call[r].at <= MaxLag
           /\ Charge(call[r].cost) \in Nat
           /\ Refilled(call[r].user, call[r].at) >= Charge(call[r].cost)
           /\ call' = [call EXCEPT ![r] = NoCall]
           /\ tokens' = [tokens EXCEPT ![call[r].user] =
                 Refilled(call[r].user, call[r].at) - Charge(call[r].cost)]
           /\ last' = [last EXCEPT ![call[r].user] = call[r].at]
           /\ expireAt' = [expireAt EXCEPT ![call[r].user] = now + 2 * Window]
           /\ now' = now
           /\ losses' = losses
<1>1. call[r] \in Calls /\ call[r] # NoCall
    BY DEF Admit, Finish, BucketInv, HistoryTypeOK
<1>2. call[r].cost \in Costs
    BY <1>1 DEF Calls
<1> QED
    BY <1>1, <1>2, ChargeNat
       DEF Calls, Admit, Finish, Affordable, Write, IdleTtl, BucketInv, LagInv

\* Buckets that do not exist yet satisfy the invariant.
LEMMA InitBucketInv == HInit => BucketInv
  BY CapacityNat, WindowAssumption, BoundsAssumption, LagAssumption
     DEF HInit, Init, BucketInv, HistoryTypeOK, LagInv, IdleInv, StampInv,
         FaultInv, Exists

\* A request that reads its clock is given the current time.
LEMMA SampleStep ==
    ASSUME BucketInv, NEW r \in Requests, Sample(r), UNCHANGED historyVars
    PROVE  BucketInv'
<1> PICK u \in Users, c \in Costs :
            call' = [call EXCEPT ![r] = [user |-> u, cost |-> c, at |-> now]]
    BY DEF Sample
<1> DEFINE new == [user |-> u, cost |-> c, at |-> now]
<1>1. /\ UNCHANGED <<now, tokens, last, expireAt, losses>>
      /\ UNCHANGED <<opened, spent, regress, lost, lastPass>>
    BY DEF Sample, bucketVars, historyVars
<1>2. new \in Calls
    BY DEF BucketInv, HistoryTypeOK, Calls
<1>3. HistoryTypeOK'
    BY <1>1, <1>2 DEF BucketInv, HistoryTypeOK
<1>4. LagInv'
    BY <1>1, LagAssumption DEF BucketInv, LagInv, HistoryTypeOK
<1>5. IdleInv' /\ StampInv' /\ FaultInv'
    BY <1>1 DEF BucketInv, IdleInv, StampInv, FaultInv, Exists
<1> QED
    BY <1>3, <1>4, <1>5 DEF BucketInv

\* An admitted script keeps the bucket in range, stamped and unexpired.
LEMMA AdmitStep ==
    ASSUME BucketInv, NEW r \in Requests, HAdmit(r) PROVE BucketInv'
<1> DEFINE u == call[r].user
           s == call[r].at
<1> USE AdmitEffect
<1>1. Admit(r)
    BY DEF HAdmit
<1>2. /\ spent'    = [spent EXCEPT ![u] = spent[u] + Charge(call[r].cost)]
      /\ regress'  = [regress EXCEPT ![u] = regress[u] + Larger(0, last[u] - s)]
      /\ lastPass' = [lastPass EXCEPT ![u] = s]
      /\ UNCHANGED <<opened, lost>>
    BY DEF HAdmit
<1>3. u \in Users /\ s \in Nat /\ s <= now
    BY <1>1
<1>4. Refilled(u, s) \in 0 .. Capacity
    BY <1>3, RefillBounds DEF BucketInv
<1>5. last[u] \in Int /\ Larger(0, last[u] - s) \in Nat
    BY <1>3 DEF BucketInv, HistoryTypeOK, Larger
<1>6. tokens' \in [Users -> 0 .. Capacity] /\ last' \in [Users -> 0 .. now]
    BY <1>1, <1>3, <1>4, CapacityNat DEF BucketInv, HistoryTypeOK
<1>7. expireAt' \in [Users -> Nat] /\ call' \in [Requests -> Calls \union {NoCall}]
    BY <1>1, <1>3, WindowAssumption DEF BucketInv, HistoryTypeOK
<1>8. HistoryTypeOK'
    BY <1>1, <1>2, <1>3, <1>5, <1>6, <1>7 DEF BucketInv, HistoryTypeOK
<1>9. LagInv'
    BY <1>1 DEF BucketInv, LagInv, HistoryTypeOK
<1>10. IdleInv'
    BY <1>1, <1>3, WindowAssumption DEF BucketInv, IdleInv, HistoryTypeOK
<1>11. StampInv'
    BY <1>1, <1>2, <1>3 DEF BucketInv, StampInv, Exists, HistoryTypeOK
<1>12. FaultInv'
  <2>1. MaxLag = 0 => Larger(0, last[u] - s) = 0
      BY <1>1, <1>3 DEF BucketInv, HistoryTypeOK, Larger
  <2> QED
      BY <1>1, <1>2, <1>3, <2>1 DEF BucketInv, FaultInv, HistoryTypeOK
<1> QED
    BY <1>8, <1>9, <1>10, <1>11, <1>12 DEF BucketInv

\* Every step of requests, Redis, observer and clock preserves the invariant.
LEMMA BucketInvStep == BucketInv /\ [HNext]_allVars => BucketInv'
<1> SUFFICES ASSUME BucketInv, [HNext]_allVars PROVE BucketInv'
    OBVIOUS
<1>1. ASSUME NEW r \in Requests, (Deny(r) \/ Bypass(r)), UNCHANGED historyVars
      PROVE  BucketInv'
    BY <1>1 DEF Deny, Bypass, Finish, bucketVars, historyVars, BucketInv,
       HistoryTypeOK, LagInv, IdleInv, StampInv, FaultInv, Exists
<1>2. ASSUME NEW u \in Users, HLose(u) PROVE BucketInv'
  <2>1. tokens' = [tokens EXCEPT ![u] = Capacity] /\ tokens' \in [Users -> 0 .. Capacity]
      BY <1>2, CapacityNat DEF HLose, Lose, BucketInv, HistoryTypeOK
  <2>2. HistoryTypeOK'
      BY <1>2, <2>1, BoundsAssumption DEF HLose, Lose, BucketInv, HistoryTypeOK
  <2>3. LagInv' /\ IdleInv'
      BY <1>2, <2>1 DEF HLose, Lose, BucketInv, HistoryTypeOK, LagInv, IdleInv
  <2>4. StampInv' /\ FaultInv'
      BY <1>2 DEF HLose, Lose, BucketInv, HistoryTypeOK, StampInv, FaultInv, Exists
  <2> QED
      BY <2>2, <2>3, <2>4 DEF BucketInv
<1>3. ASSUME NEW u \in Users, Observe(u) PROVE BucketInv'
    BY <1>3 DEF Observe, vars, BucketInv, HistoryTypeOK, LagInv, IdleInv,
       StampInv, FaultInv, Exists
<1>4. ASSUME Tick, UNCHANGED historyVars PROVE BucketInv'
  <2>1. LagInv'
    <3>1. now' = now + 1 /\ call' = call
        BY <1>4 DEF Tick
    <3>2. ASSUME NEW r \in Requests, call[r] # NoCall
          PROVE  call[r].at <= now' /\ now' - call[r].at <= MaxLag
      <4>1. call[r].at \in Nat /\ now \in Nat
          BY <3>2 DEF BucketInv, HistoryTypeOK, Calls
      <4>2. now - call[r].at < MaxLag /\ call[r].at <= now
          BY <1>4, <3>2 DEF Tick, BucketInv, LagInv
      <4> QED
          BY <3>1, <4>1, <4>2, LagAssumption
    <3> QED
        BY <3>1, <3>2, Zenon DEF LagInv
  <2>2. HistoryTypeOK'
      BY <1>4, BoundsAssumption
         DEF Tick, bucketVars, historyVars, BucketInv, HistoryTypeOK
  <2>3. IdleInv' /\ FaultInv'
      BY <1>4 DEF Tick, bucketVars, historyVars, BucketInv, IdleInv, FaultInv
  <2>4. StampInv'
      BY <1>4 DEF Tick, bucketVars, historyVars, BucketInv, StampInv, Exists,
         HistoryTypeOK
  <2> QED
      BY <2>1, <2>2, <2>3, <2>4 DEF BucketInv
<1>5. CASE UNCHANGED allVars
    BY <1>5 DEF allVars, BucketInv, HistoryTypeOK, LagInv, IdleInv, StampInv,
       FaultInv, Exists
<1> QED
    BY <1>1, <1>2, <1>3, <1>4, <1>5, SampleStep, AdmitStep DEF HNext, HDeny

\* The invariant holds in every reachable state.
LEMMA BucketInvariance == HSpec => []BucketInv
  BY InitBucketInv, BucketInvStep, PTL DEF HSpec

\* Buckets, script calls and the observer keep their types; in particular a
\* bucket never holds more than its capacity or less than nothing.
THEOREM TypeCorrect == HSpec => []HistoryTypeOK
<1>1. BucketInv => HistoryTypeOK
    BY DEF BucketInv
<1> QED
    BY <1>1, BucketInvariance, PTL

----------------------------------------------------------------------------
(* The meter.                                                              *)

\* A script that carries time s finds at most what the bucket held at the start
\* of the interval (or at its last update) and the refill since, where seconds
\* by which it sets last_update back are refilled twice.  That holds for an
\* expired bucket too: it would have been full.
LEMMA RefillMetered ==
    ASSUME BucketInv, NEW u \in Users, NEW s \in Nat,
           s >= Start(u), now - s <= MaxLag
    PROVE  Refilled(u, s) + MaxTpm * Larger(last[u], Start(u))
              <= Level(u) + MaxTpm * (s + Larger(0, last[u] - s))
<1> DEFINE t == tokens[u]
           l == last[u]
           a == Start(u)
<1>1. /\ t \in Int /\ 0 <= t /\ t <= Capacity
      /\ l \in Int /\ a \in Int /\ now \in Int /\ MaxTpm \in Nat
      /\ Capacity \in Int /\ Window \in Int
    BY CapacityNat, TpmAssumption, WindowAssumption, LagAssumption
       DEF BucketInv, HistoryTypeOK, Start
<1>2. Level(u) = IF l < a THEN Smaller(Capacity, t + MaxTpm * (a - l)) ELSE t
    BY DEF Level
<1>3. /\ MaxTpm * (a - l) = MaxTpm * a - MaxTpm * l
      /\ MaxTpm * (s - l) = MaxTpm * s - MaxTpm * l
      /\ MaxTpm * (s + (l - s)) = MaxTpm * l
      /\ MaxTpm * 0 = 0
      /\ MaxTpm * a \in Int /\ MaxTpm * l \in Int /\ MaxTpm * s \in Int
    BY <1>1, Distributes
<1>4. /\ MaxTpm * a <= MaxTpm * s
      /\ l <= s => MaxTpm * l <= MaxTpm * s
      /\ s <= l => MaxTpm * s <= MaxTpm * l
    BY <1>1, Monotone
<1> HIDE DEF t, l, a
<1> DEFINE gain == MaxTpm * (s + Larger(0, l - s))
<1>5. gain = IF s < l THEN MaxTpm * l ELSE MaxTpm * s
  <2>1. CASE s < l
    <3>1. Larger(0, l - s) = l - s
        BY <1>1, <2>1 DEF Larger
    <3> QED
        BY <1>3, <2>1, <3>1
  <2>2. CASE ~(s < l)
    <3>1. Larger(0, l - s) = 0
        BY <1>1, <2>2 DEF Larger
    <3> QED
        BY <2>2, <3>1
  <2> QED
      BY <2>1, <2>2
<1> HIDE DEF gain
<1>6. CASE Exists(u)
  <2>1. Refilled(u, s) = Smaller(Capacity, t + MaxTpm * Larger(0, s - l))
      BY <1>6 DEF Refilled, t, l
  <2>2. CASE s < l
    <3>1. Larger(0, s - l) = 0 /\ Larger(l, a) = l /\ Level(u) = t
        BY <1>1, <1>2, <2>2 DEF Larger, a
    <3>2. Refilled(u, s) <= t
        BY <1>1, <1>3, <2>1, <3>1 DEF Smaller
    <3> QED
        BY <1>1, <1>3, <1>5, <2>2, <3>1, <3>2,
           RefillBounds DEF BucketInv, a, l, gain
  <2>3. CASE ~(s < l) /\ a <= l
    <3>1. Larger(0, s - l) = s - l /\ Larger(l, a) = l /\ Level(u) = t
        BY <1>1, <1>2, <2>3 DEF Larger
    <3>2. Refilled(u, s) <= t + MaxTpm * s - MaxTpm * l
        BY <1>1, <1>3, <2>1, <3>1 DEF Smaller
    <3> QED
        BY <1>1, <1>3, <1>5, <2>3, <3>1, <3>2,
           RefillBounds DEF BucketInv, a, l, gain
  <2>4. CASE ~(s < l) /\ l < a
    <3>1. Larger(0, s - l) = s - l /\ Larger(l, a) = a
        BY <1>1, <2>4 DEF Larger
    <3>2. Refilled(u, s) = Smaller(Capacity, t + MaxTpm * s - MaxTpm * l)
        BY <1>1, <1>3, <2>1, <3>1
    <3>3. Level(u) = Smaller(Capacity, t + MaxTpm * a - MaxTpm * l)
        BY <1>1, <1>2, <1>3, <2>4
    <3>4. Refilled(u, s) + MaxTpm * a <= Level(u) + MaxTpm * s
        BY <1>1, <1>3, <1>4, <3>2, <3>3 DEF Smaller
    <3> QED
        BY <1>5, <2>4, <3>1, <3>4 DEF a, l, gain
  <2> QED
      BY <1>1, <2>2, <2>3, <2>4
<1>7. CASE ~Exists(u)
  <2>1. Refilled(u, s) = Capacity
      BY <1>7 DEF Refilled
  <2>2. t = Capacity \/ Capacity <= t + MaxTpm * s - MaxTpm * l
    <3>1. SUFFICES ASSUME t # Capacity
                   PROVE  Capacity <= t + MaxTpm * s - MaxTpm * l
        OBVIOUS
    <3>2. expireAt[u] \in Nat /\ expireAt[u] <= now /\ expireAt[u] >= l + 2 * Window
        BY <1>7, <3>1, <1>1 DEF BucketInv, HistoryTypeOK, IdleInv, Exists, t, l
    <3>3. Window <= s - l
        BY <1>1, <3>2, LagAssumption
    <3>4. MaxTpm * Window <= MaxTpm * (s - l)
        BY <1>1, <3>3, Monotone
    <3> QED
        BY <1>1, <1>3, <3>4 DEF Capacity
  <2>3. CASE a <= l
    <3>1. Larger(l, a) = l /\ Level(u) = t
        BY <1>1, <1>2, <2>3 DEF Larger
    <3>2. Capacity + MaxTpm * l <= t + gain
        BY <1>1, <1>3, <1>4, <1>5, <2>2
    <3> QED
        BY <2>1, <3>1, <3>2 DEF a, l, gain
  <2>4. CASE l < a
    <3>1. Larger(l, a) = a /\ gain = MaxTpm * s
        BY <1>1, <1>5, <2>4 DEF Larger, a
    <3>2. Level(u) = Smaller(Capacity, t + MaxTpm * a - MaxTpm * l)
        BY <1>1, <1>2, <1>3, <2>4
    <3>3. MaxTpm * l <= MaxTpm * a
        BY <1>1, <2>4, Monotone
    <3>4. Capacity + MaxTpm * a <= Level(u) + MaxTpm * s
        BY <1>1, <1>3, <1>4, <2>2, <3>2, <3>3 DEF Smaller
    <3> QED
        BY <2>1, <3>1, <3>4 DEF a, l, gain
  <2> QED
      BY <1>1, <2>3, <2>4
<1> QED
    BY <1>6, <1>7

\* The level is between nothing and a full bucket.
LEMMA LevelBounds == BucketInv => \A u \in Users : Level(u) \in 0 .. Capacity
<1> SUFFICES ASSUME BucketInv, NEW u \in Users PROVE Level(u) \in 0 .. Capacity
    OBVIOUS
<1>1. /\ tokens[u] \in 0 .. Capacity
      /\ last[u] \in Int /\ Start(u) \in Int
    BY LagAssumption DEF BucketInv, HistoryTypeOK, Start
<1>2. last[u] < Start(u) => MaxTpm * (Start(u) - last[u]) \in Nat
    BY <1>1, TpmAssumption
<1> QED
    BY <1>1, <1>2, CapacityNat DEF Level, Smaller

\* MeterInv for one user.
Metered(u) ==
    spent[u] + Level(u)
       <= (1 + lost[u]) * Capacity
          + MaxTpm * (Larger(last[u], Start(u)) - Start(u) + regress[u])

\* The same bound after the next step.
LEMMA LevelBoundsNext == (BucketInv => \A u \in Users : Level(u) \in 0 .. Capacity)'
  BY LevelBounds, PTL

\* An admitted script charges no more than its refill allows.
LEMMA AdmitMeter ==
    ASSUME BucketInv, NEW r \in Requests, HAdmit(r),
           NEW u \in Users, u = call[r].user, Metered(u)
    PROVE  Metered(u)'
<1> DEFINE s == call[r].at
           c == Charge(call[r].cost)
           base == (1 + lost[u]) * Capacity
<1>1. Admit(r)
    BY DEF HAdmit
<1>2. /\ u \in Users /\ s \in Nat /\ s <= now /\ now - s <= MaxLag /\ c \in Nat
      /\ tokens'[u] = Refilled(u, s) - c
      /\ last'[u] = s
      /\ now' = now
    BY <1>1, AdmitEffect DEF BucketInv, HistoryTypeOK
<1>3. /\ spent'[u] = spent[u] + c
      /\ regress'[u] = regress[u] + Larger(0, last[u] - s)
      /\ opened'[u] = opened[u] /\ lost'[u] = lost[u]
    BY <1>2 DEF HAdmit, BucketInv, HistoryTypeOK
<1>4. /\ last[u] \in Int /\ regress[u] \in Int /\ spent[u] \in Int
      /\ Start(u) \in Int /\ MaxTpm \in Int /\ lost[u] \in Int /\ Capacity \in Int
      /\ base \in Int
      /\ Larger(0, last[u] - s) \in Int /\ Larger(last[u], Start(u)) \in Int
    BY <1>2, CapacityNat, TpmAssumption, LagAssumption
       DEF BucketInv, HistoryTypeOK, Start, Larger
<1>5. s >= Start(u) /\ Start(u)' = Start(u)
    BY <1>2, <1>3, LagAssumption DEF BucketInv, HistoryTypeOK, Start
<1>6. Refilled(u, s) + MaxTpm * Larger(last[u], Start(u))
         <= Level(u) + MaxTpm * (s + Larger(0, last[u] - s))
    BY <1>2, <1>5, RefillMetered
<1>7. Level(u)' = Refilled(u, s) - c
    BY <1>2, <1>4, <1>5 DEF Level
<1>8. Level(u) \in Int /\ Refilled(u, s) \in Int
    BY <1>2, LevelBounds, RefillBounds DEF BucketInv
<1>9. Larger(last'[u], Start(u)') = s
    BY <1>2, <1>4, <1>5 DEF Larger
<1> DEFINE S == Start(u)
           L == Larger(last[u], Start(u))
           G == Larger(0, last[u] - s)
           R == regress[u]
<1>10. /\ MaxTpm * (L - S + R) = MaxTpm * L - MaxTpm * S + MaxTpm * R
       /\ MaxTpm * (s + G) = MaxTpm * s + MaxTpm * G
       /\ MaxTpm * (s - S + (R + G))
             = MaxTpm * s - MaxTpm * S + MaxTpm * R + MaxTpm * G
       /\ MaxTpm * L \in Int /\ MaxTpm * S \in Int /\ MaxTpm * R \in Int
       /\ MaxTpm * s \in Int /\ MaxTpm * G \in Int
    BY <1>2, <1>4
<1>11. spent[u] + Level(u) <= base + MaxTpm * (L - S + R)
    BY DEF Metered
<1> HIDE DEF S, L, G, R, base
<1>12. spent[u] + c + (Refilled(u, s) - c) <= base + MaxTpm * (s - S + (R + G))
    BY <1>2, <1>4, <1>6, <1>8, <1>10, <1>11 DEF L, G
<1> QED
    BY <1>3, <1>5, <1>7, <1>9, <1>12 DEF Metered, S, L, G, R, base

\* Nothing is spent at first and the bucket is full.
LEMMA InitMeter == HInit => MeterInv
<1> SUFFICES ASSUME HInit, NEW u \in Users PROVE Metered(u)
    BY DEF MeterInv, Metered
<1>1. BucketInv
    BY InitBucketInv
<1>2. last[u] = 0 /\ Start(u) = -MaxLag /\ lost[u] = 0 /\ regress[u] = 0 /\ spent[u] = 0
    BY LagAssumption DEF HInit, Init, Start
<1>3. Larger(last[u], Start(u)) - Start(u) + regress[u] = MaxLag
    BY <1>2, LagAssumption DEF Larger
<1>4. MaxTpm * MaxLag \in Nat
    BY TpmAssumption, LagAssumption
<1> QED
    BY <1>1, <1>2, <1>3, <1>4, LevelBounds, CapacityNat DEF Metered

\* Every step preserves the meter: only an admitted script spends, and a lost
\* bucket is paid for by its allowance.
LEMMA MeterStep == BucketInv /\ MeterInv /\ [HNext]_allVars => MeterInv'
<1> SUFFICES ASSUME BucketInv, MeterInv, [HNext]_allVars, NEW u \in Users
             PROVE  Metered(u)'
    BY DEF MeterInv, Metered
<1>0. Metered(u)
    BY DEF MeterInv, Metered
<1>1. ASSUME UNCHANGED <<tokens[u], last[u], opened[u], spent[u], regress[u], lost[u]>>
      PROVE  Metered(u)'
    BY <1>0, <1>1 DEF Metered, Level, Start
<1>2. ASSUME NEW r \in Requests, HAdmit(r) PROVE Metered(u)'
  <2>1. CASE u = call[r].user
      BY <1>0, <1>2, <2>1, AdmitMeter
  <2>2. CASE u # call[r].user
    <3>1. /\ Admit(r) /\ UNCHANGED <<opened, lost>>
          /\ spent'[u] = spent[u] /\ regress'[u] = regress[u]
        BY <1>2, <2>2 DEF HAdmit, BucketInv, HistoryTypeOK
    <3>2. tokens'[u] = tokens[u] /\ last'[u] = last[u]
        BY <2>2, <3>1, AdmitEffect DEF BucketInv, HistoryTypeOK
    <3> QED
        BY <1>1, <3>1, <3>2
  <2> QED
      BY <2>1, <2>2
<1>3. ASSUME NEW r \in Requests,
             Sample(r) \/ Bypass(r) \/ Deny(r), UNCHANGED historyVars
      PROVE  Metered(u)'
    BY <1>1, <1>3 DEF Sample, Bypass, Deny, bucketVars, historyVars
<1>4. ASSUME NEW v \in Users, HLose(v) PROVE Metered(u)'
  <2>1. CASE u = v
    <3>1. /\ tokens'[u] = Capacity /\ last'[u] = last[u] /\ opened'[u] = opened[u]
          /\ spent'[u] = spent[u] /\ regress'[u] = regress[u]
          /\ lost'[u] = lost[u] + 1
        BY <1>4, <2>1 DEF HLose, Lose, BucketInv, HistoryTypeOK
    <3>2. Start(u)' = Start(u)
        BY <3>1 DEF Start
    <3>3. BucketInv'
        BY BucketInvStep
    <3>4. Level(u)' <= Capacity /\ Level(u)' \in Int /\ Level(u) \in Nat
        BY <3>3, LevelBounds, LevelBoundsNext, CapacityNat DEF Capacity
    <3>5. /\ lost[u] \in Int /\ spent[u] \in Int /\ Capacity \in Int
          /\ (1 + (lost[u] + 1)) * Capacity = (1 + lost[u]) * Capacity + Capacity
          /\ (1 + lost[u]) * Capacity \in Int
        BY CapacityNat DEF BucketInv, HistoryTypeOK
    <3> DEFINE refill == MaxTpm * (Larger(last[u], Start(u)) - Start(u) + regress[u])
    <3>6. refill \in Int
        BY TpmAssumption, LagAssumption DEF BucketInv, HistoryTypeOK, Start, Larger
    <3>7. refill' = refill
        BY <3>1, <3>2
    <3>8. spent[u] + Level(u) <= (1 + lost[u]) * Capacity + refill
        BY <1>0 DEF Metered
    <3> HIDE DEF refill
    <3>9. spent[u] + Level(u)' <= (1 + (lost[u] + 1)) * Capacity + refill
        BY <3>4, <3>5, <3>6, <3>8
    <3> QED
        BY <3>1, <3>7, <3>9 DEF Metered, refill
  <2>2. CASE u # v
      BY <1>1, <1>4, <2>2 DEF HLose, Lose, BucketInv, HistoryTypeOK
  <2> QED
      BY <2>1, <2>2
<1>5. ASSUME NEW v \in Users, Observe(v) PROVE Metered(u)'
  <2>1. CASE u = v
    <3>1. /\ spent'[u] = 0 /\ regress'[u] = 0 /\ lost'[u] = 0
          /\ opened'[u] = now /\ last'[u] = last[u]
        BY <1>5, <2>1 DEF Observe, vars, BucketInv, HistoryTypeOK
    <3>2. BucketInv'
        BY BucketInvStep
    <3>3. Level(u)' \in 0 .. Capacity
        BY <3>2, LevelBoundsNext DEF Capacity
    <3>4. Start(u)' \in Int /\ last[u] \in Int
        BY <3>1, LagAssumption DEF BucketInv, HistoryTypeOK, Start
    <3>5. Larger(last[u], Start(u)') - Start(u)' + 0 \in Nat
        BY <3>4 DEF Larger
    <3>6. MaxTpm * (Larger(last[u], Start(u)') - Start(u)' + 0) \in Nat
        BY <3>5, TpmAssumption
    <3> QED
        BY <3>1, <3>3, <3>6, CapacityNat DEF Metered
  <2>2. CASE u # v
      BY <1>1, <1>5, <2>2 DEF Observe, vars, BucketInv, HistoryTypeOK
  <2> QED
      BY <2>1, <2>2
<1>6. CASE Tick /\ UNCHANGED historyVars
    BY <1>1, <1>6 DEF Tick, bucketVars, historyVars
<1>7. CASE UNCHANGED allVars
    BY <1>1, <1>7 DEF allVars
<1> QED
    BY <1>2, <1>3, <1>4, <1>5, <1>6, <1>7 DEF HNext, HDeny

\* The meter holds in every reachable state.
LEMMA MeterInvariance == HSpec => []MeterInv
  BY BucketInvariance, InitMeter, MeterStep, PTL DEF HSpec

\* The meter yields the bounds on what is spent.
LEMMA MeterBounds ==
    ASSUME BucketInv, MeterInv, NEW u \in Users
    PROVE  spent[u] <= (1 + lost[u]) * Capacity
                       + MaxTpm * (now - opened[u] + MaxLag + regress[u])
<1> DEFINE base    == (1 + lost[u]) * Capacity
           seen    == Larger(last[u], Start(u)) - Start(u) + regress[u]
           elapsed == now - opened[u] + MaxLag + regress[u]
<1>1. /\ last[u] \in Int /\ last[u] <= now /\ now \in Int /\ regress[u] \in Int
      /\ opened[u] \in Int /\ opened[u] <= now /\ spent[u] \in Int /\ lost[u] \in Int
    BY DEF BucketInv, HistoryTypeOK
<1>2. seen \in Int /\ elapsed \in Int /\ seen <= elapsed
    BY <1>1, LagAssumption DEF Start, Larger
<1>3. MaxTpm * seen <= MaxTpm * elapsed
    BY <1>2, Monotone, TpmAssumption
<1>4. spent[u] + Level(u) <= base + MaxTpm * seen
    BY DEF MeterInv
<1>5. /\ base \in Int /\ MaxTpm * seen \in Int /\ MaxTpm * elapsed \in Int
      /\ Level(u) \in Nat
    BY <1>1, <1>2, CapacityNat, TpmAssumption, LevelBounds
<1> HIDE DEF base, seen, elapsed
<1>6. spent[u] <= base + MaxTpm * elapsed
    BY <1>1, <1>3, <1>4, <1>5
<1> QED
    BY <1>6 DEF base, elapsed

\* The budget of a user over any interval, for scripts that run in any order.
THEOREM RateBoundedWithLag == HSpec => []RateBoundWithLag
<1>1. BucketInv /\ MeterInv => RateBoundWithLag
    BY MeterBounds DEF RateBoundWithLag
<1> QED
    BY <1>1, BucketInvariance, MeterInvariance, PTL

\* Without delayed scripts and lost buckets the limiter is an exact token
\* bucket, although it drops idle buckets and recreates them full.
THEOREM RateBounded ==
    ASSUME MaxLag = 0, MaxLosses = 0 PROVE HSpec => []RateBound
<1>1. BucketInv /\ MeterInv => RateBound
  <2> SUFFICES ASSUME BucketInv, MeterInv, NEW u \in Users
               PROVE  spent[u] <= Capacity + MaxTpm * (now - opened[u])
      BY DEF RateBound
  <2>1. lost[u] = 0 /\ regress[u] = 0
      BY DEF BucketInv, HistoryTypeOK, FaultInv
  <2>2. spent[u] <= (1 + 0) * Capacity + MaxTpm * (now - opened[u] + 0 + 0)
      BY <2>1, MeterBounds
  <2>3. /\ now - opened[u] + 0 + 0 = now - opened[u]
        /\ (1 + 0) * Capacity = Capacity
      BY CapacityNat DEF BucketInv, HistoryTypeOK
  <2> QED
      BY <2>2, <2>3
<1> QED
    BY <1>1, BucketInvariance, MeterInvariance, PTL

\* The limiter never takes from a user more than what it admitted.
THEOREM NeverRefusedEarly == HSpec => RefusedOnlyWhenSpent
<1> DEFINE Fair == \A r \in Requests :
               HDeny(r) /\ call[r].cost <= MaxTpm =>
                  MaxTpm * (call[r].at - lastPass[call[r].user]) < Charge(call[r].cost)
<1>1. BucketInv => Fair
  <2> SUFFICES ASSUME BucketInv, NEW r \in Requests, HDeny(r), call[r].cost <= MaxTpm
               PROVE  MaxTpm * (call[r].at - lastPass[call[r].user])
                         < Charge(call[r].cost)
      OBVIOUS
  <2> DEFINE u == call[r].user
             s == call[r].at
             c == call[r].cost
             gap == s - last[u]
  <2>1. call[r] \in Calls
      BY DEF HDeny, Deny, Finish, BucketInv, HistoryTypeOK
  <2>2. u \in Users /\ s \in Nat /\ c \in Nat
      BY <2>1, CostsAssumption DEF Calls
  <2>3. Refilled(u, s) < Charge(c)
    <3>1. ~(Refilled(u, s) >= Charge(c))
        BY DEF HDeny, Deny, Affordable
    <3>2. Refilled(u, s) \in Int /\ Charge(c) \in Int
        BY <2>2, RefillBounds, WindowAssumption DEF BucketInv, Charge
    <3> QED
        BY <3>1, <3>2
  <2>4. Charge(c) <= Capacity
    <3>1. Window * c <= Window * MaxTpm
        BY <2>2, Monotone, WindowAssumption, TpmAssumption
    <3> QED
        BY <2>2, <3>1, WindowAssumption, TpmAssumption DEF Charge, Capacity
  <2>5. Exists(u)
    <3>1. ~Exists(u) => Refilled(u, s) = Capacity
        BY DEF Refilled
    <3> QED
        BY <2>2, <2>3, <2>4, <3>1, CapacityNat, WindowAssumption DEF Charge
  <2>6. last[u] = lastPass[u] /\ tokens[u] \in Nat /\ gap \in Int
      BY <2>2, <2>5 DEF BucketInv, HistoryTypeOK, StampInv
  <2>7. /\ MaxTpm * gap <= MaxTpm * Larger(0, gap)
        /\ MaxTpm * gap \in Int
        /\ MaxTpm * Larger(0, gap) \in Int
        /\ Capacity \in Int /\ Charge(c) \in Int
    <3>1. Larger(0, gap) \in Int /\ gap <= Larger(0, gap)
        BY <2>6 DEF Larger
    <3> QED
        BY <2>2, <2>6, <3>1, Monotone, TpmAssumption, CapacityNat, WindowAssumption
           DEF Charge
  <2>8. Refilled(u, s) = Smaller(Capacity, tokens[u] + MaxTpm * Larger(0, gap))
      BY <2>5 DEF Refilled
  <2> HIDE DEF gap
  <2>9. MaxTpm * gap < Charge(c)
      BY <2>3, <2>4, <2>6, <2>7, <2>8 DEF Smaller
  <2> QED
      BY <2>6, <2>9 DEF gap
<1> QED
    BY <1>1, BucketInvariance, PTL DEF RefusedOnlyWhenSpent
----------------------------------------------------------------------------
(* The ideal bucket.                                                       *)

\* What the mapping gives a user.
Now(u) == Refilled(u, now)

\* A script that is late by some seconds misses at most their refill.
LEMMA LateRefill ==
    ASSUME BucketInv, NEW u \in Users, NEW s \in Nat, s <= now
    PROVE  /\ Refilled(u, s) \in 0 .. Capacity /\ Now(u) \in 0 .. Capacity
           /\ Refilled(u, s) <= Now(u)
           /\ Now(u) <= Refilled(u, s) + MaxTpm * (now - s)
<1> DEFINE early == Larger(0, s - last[u])
           late  == Larger(0, now - last[u])
<1>1. now \in Nat /\ last[u] \in Int /\ tokens[u] \in Int /\ Capacity \in Int
    BY CapacityNat DEF BucketInv, HistoryTypeOK
<1>2. early \in Nat /\ late \in Nat /\ early <= late /\ late <= early + (now - s)
    BY <1>1 DEF Larger
<1>3. /\ MaxTpm * early <= MaxTpm * late
      /\ MaxTpm * late <= MaxTpm * (early + (now - s))
      /\ MaxTpm * (early + (now - s)) = MaxTpm * early + MaxTpm * (now - s)
      /\ MaxTpm * early \in Int /\ MaxTpm * late \in Int
      /\ MaxTpm * (now - s) \in Nat
    BY <1>1, <1>2, Monotone, Distributes, TpmAssumption
<1>4. Refilled(u, s) \in 0 .. Capacity /\ Now(u) \in 0 .. Capacity
    BY <1>1, RefillBounds DEF BucketInv, Now
<1>5. CASE Exists(u)
  <2>1. /\ Refilled(u, s) = Smaller(Capacity, tokens[u] + MaxTpm * early)
        /\ Now(u) = Smaller(Capacity, tokens[u] + MaxTpm * late)
      BY <1>5 DEF Refilled, Now
  <2> HIDE DEF early, late
  <2> QED
      BY <1>1, <1>3, <1>4, <2>1 DEF Smaller
<1>6. CASE ~Exists(u)
    BY <1>1, <1>3, <1>4, <1>6 DEF Refilled, Now
<1> QED
    BY <1>4, <1>5, <1>6

\* An admitted script charges the ideal bucket, but for a slip.
LEMMA AdmitCharges ==
    ASSUME BucketInv, NEW r \in Requests, Admit(r),
           NEW u \in Users, u = call[r].user
    PROVE  Ideal!Charge(u)
<1> DEFINE s == call[r].at
           c == Charge(call[r].cost)
           held == Refilled(u, s)
           rest == held - c + MaxTpm * (now - s)
           slip == Now(u)' - (Now(u) - c)
<1>1. /\ call[r].cost \in Costs /\ s \in Nat /\ s <= now /\ now - s <= MaxLag
      /\ c \in Nat /\ c <= held /\ now \in Nat /\ now' = now /\ losses' = losses
      /\ tokens' = [tokens EXCEPT ![u] = held - c]
      /\ last' = [last EXCEPT ![u] = s]
      /\ expireAt' = [expireAt EXCEPT ![u] = now + 2 * Window]
    BY AdmitEffect DEF Calls, BucketInv, HistoryTypeOK
<1>2. held \in 0 .. Capacity /\ Now(u) \in 0 .. Capacity /\ held <= Now(u)
      /\ Now(u) <= held + MaxTpm * (now - s)
    BY <1>1, LateRefill
<1>3. MaxTpm * (now - s) \in Nat /\ MaxTpm * (now - s) <= MaxTpm * MaxLag
      /\ MaxTpm * MaxLag \in Nat /\ Capacity \in Nat
    BY <1>1, Monotone, TpmAssumption, LagAssumption, CapacityNat
<1>4. /\ tokens'[u] = held - c /\ last'[u] = s /\ expireAt'[u] > now
      /\ \A v \in Users : v # u =>
            /\ tokens'[v] = tokens[v] /\ last'[v] = last[v]
            /\ expireAt'[v] = expireAt[v]
    BY <1>1, WindowAssumption DEF BucketInv, HistoryTypeOK
<1>5. Now(u)' = Smaller(Capacity, rest)
  <2>1. Exists(u)'
      BY <1>1, <1>4 DEF Exists
  <2>2. Larger(0, now - s) = now - s
      BY <1>1 DEF Larger
  <2> QED
      BY <1>1, <1>4, <2>1, <2>2 DEF Now, Refilled
<1>6. \A v \in Users : v # u => Now(v)' = Now(v)
    BY <1>1, <1>4 DEF Now, Refilled, Exists
<1> HIDE DEF held
<1>7. slip \in 0 .. MaxTpm * MaxLag /\ c <= Now(u)
      /\ Now(u) - c + slip = Now(u)' /\ Now(u)' <= Capacity
    BY <1>1, <1>2, <1>3, <1>5 DEF Smaller
<1>8. [v \in Users |-> Refilled(v, now)]'
         = [[v \in Users |-> Refilled(v, now)] EXCEPT ![u] = @ - c + slip]
    BY <1>6, <1>7 DEF Now
<1> HIDE DEF slip
<1>9. c = call[r].cost * Window /\ Capacity = MaxTpm * Window
    BY DEF Charge, Capacity
<1>10. [v \in Users |-> Refilled(v, now)][u] = Now(u)
    BY DEF Now
<1> QED
    BY <1>1, <1>7, <1>8, <1>9, <1>10 DEF Ideal!Charge, Ideal!Full

\* A second refills the ideal bucket, also when the real one expires.
LEMMA TickRefills == ASSUME BucketInv, Tick PROVE Ideal!Refill
<1>1. now \in Nat /\ now' = now + 1 /\ UNCHANGED <<tokens, last, expireAt, losses>>
    BY DEF Tick, bucketVars, BucketInv, HistoryTypeOK
<1>2. ASSUME NEW u \in Users
      PROVE  Now(u)' = IF Now(u) + MaxTpm < Capacity THEN Now(u) + MaxTpm ELSE Capacity
  <2> DEFINE t == tokens[u]
             l == last[u]
             gained == MaxTpm * (now - l)
  <2>1. /\ t \in 0 .. Capacity /\ l \in 0 .. now /\ expireAt[u] \in Nat
        /\ Capacity \in Nat /\ MaxTpm \in Nat
      BY CapacityNat, TpmAssumption DEF BucketInv, HistoryTypeOK
  <2>2. /\ Larger(0, now - l) = now - l /\ Larger(0, now + 1 - l) = now + 1 - l
        /\ MaxTpm * (now + 1 - l) = gained + MaxTpm
        /\ gained \in Nat
    <3>1. now + 1 - l = (now - l) + 1
        BY <1>1, <2>1
    <3>2. MaxTpm * ((now - l) + 1) = MaxTpm * (now - l) + MaxTpm * 1
        BY <1>1, <2>1, Distributes
    <3> QED
        BY <1>1, <2>1, <3>1, <3>2 DEF Larger
  <2>3. Now(u) = IF Exists(u) THEN Smaller(Capacity, t + gained) ELSE Capacity
      BY <2>2 DEF Now, Refilled
  <2>4. Now(u)' = IF Exists(u)' THEN Smaller(Capacity, t + (gained + MaxTpm)) ELSE Capacity
    <3>1. Now(u)' = IF Exists(u)' THEN Smaller(Capacity, t + MaxTpm * Larger(0, now + 1 - l))
                    ELSE Capacity
        BY <1>1, <2>1, WindowAssumption
           DEF Now, Refilled, Smaller, Larger, Exists, Capacity
    <3> QED
        BY <2>2, <3>1
  <2>5. Exists(u)' => Exists(u)
      BY <1>1, <2>1 DEF Exists
  <2>6. Exists(u) /\ ~Exists(u)' => t = Capacity \/ gained >= Capacity
    <3>1. SUFFICES ASSUME ~Exists(u)', t # Capacity PROVE gained >= Capacity
        OBVIOUS
    <3>2. expireAt[u] <= now + 1 /\ expireAt[u] >= l + 2 * Window
        BY <1>1, <2>1, <3>1 DEF Exists, BucketInv, IdleInv
    <3>3. now - l >= Window
        BY <1>1, <2>1, <3>2, WindowAssumption
    <3>4. MaxTpm * Window <= MaxTpm * (now - l)
        BY <1>1, <2>1, <3>3, Monotone, WindowAssumption
    <3> QED
        BY <3>4 DEF Capacity
  <2>7. gained \in Nat
      BY <2>2
  <2> HIDE DEF gained, t
  <2> QED
      BY <2>1, <2>3, <2>4, <2>5, <2>6, <2>7 DEF Smaller
<1> QED
    BY <1>1, <1>2 DEF Ideal!Refill, Ideal!Full, Capacity, Now

\* The limiter implements the ideal bucket: what a user may spend changes only as it
\* does in a bucket that is refilled every second, charged, and lost with the store.
THEOREM BucketRefines == HSpec => ImplementsIdeal
<1>1. HInit => Ideal!Init
  <2> SUFFICES ASSUME HInit PROVE Ideal!Init
      OBVIOUS
  <2>1. \A u \in Users : ~Exists(u)
    <3>1. now = 0 /\ expireAt = [u \in Users |-> 0] /\ expireAt \in [Users -> Nat]
        BY DEF HInit, Init
    <3>2. ASSUME NEW u \in Users PROVE ~(now < expireAt[u])
        BY <3>1
    <3> QED
        BY <3>2 DEF Exists
  <2>2. \A u \in Users : Refilled(u, now) = Capacity
      BY <2>1 DEF Refilled
  <2> QED
      BY <2>2 DEF HInit, Init, Ideal!Init, Ideal!Full, Capacity
<1>2. BucketInv /\ [HNext]_allVars => [Ideal!Next]_(Ideal!vars)
  <2> SUFFICES ASSUME BucketInv, [HNext]_allVars
               PROVE  [Ideal!Next]_(Ideal!vars)
      OBVIOUS
  <2>1. ASSUME UNCHANGED <<now, tokens, last, expireAt, losses>>
        PROVE  UNCHANGED Ideal!vars
      BY <2>1 DEF Ideal!vars, Refilled, Exists
  <2>2. ASSUME NEW r \in Requests, HAdmit(r) PROVE Ideal!Next
      BY <2>2, AdmitCharges, AdmitEffect DEF HAdmit, Ideal!Next
  <2>3. ASSUME NEW u \in Users, HLose(u) PROVE Ideal!Next
    <3>1. /\ losses' = losses + 1 /\ now' = now /\ ~Exists(u)'
          /\ \A v \in Users : v # u => tokens'[v] = tokens[v] /\ last'[v] = last[v]
                                       /\ expireAt'[v] = expireAt[v]
        BY <2>3 DEF HLose, Lose, Exists, BucketInv, HistoryTypeOK
    <3>2. Refilled(u, now)' = Capacity
        BY <3>1 DEF Refilled
    <3>3. \A v \in Users : v # u => Refilled(v, now)' = Refilled(v, now)
        BY <3>1 DEF Refilled, Exists
    <3>4. [v \in Users |-> Refilled(v, now)]'
             = [[v \in Users |-> Refilled(v, now)] EXCEPT ![u] = Capacity]
        BY <3>2, <3>3
    <3> QED
        BY <3>1, <3>4 DEF Ideal!Next, Ideal!Lose, Ideal!Full, Capacity
  <2>4. ASSUME NEW r \in Requests, Sample(r) \/ Bypass(r) \/ HDeny(r)
        PROVE  UNCHANGED Ideal!vars
      BY <2>1, <2>4 DEF Sample, Bypass, HDeny, Deny, Finish, bucketVars
  <2>5. ASSUME NEW u \in Users, Observe(u) PROVE UNCHANGED Ideal!vars
      BY <2>1, <2>5 DEF Observe, vars
  <2>6. CASE Tick
      BY <2>6, TickRefills DEF Ideal!Next
  <2>7. CASE UNCHANGED allVars
      BY <2>1, <2>7 DEF allVars
  <2> QED
      BY <2>2, <2>3, <2>4, <2>5, <2>6, <2>7 DEF HNext
<1> QED
    BY <1>1, <1>2, BucketInvariance, PTL DEF HSpec, ImplementsIdeal, Ideal!Spec
=============================================================================
