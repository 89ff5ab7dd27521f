----------------------- MODULE RequestPipeline_proofs -----------------------
(***************************************************************************)
(* Proofs about the request pipeline, for any requests, keys, pool sizes   *)
(* and number of faults.                                                   *)
(***************************************************************************)
EXTENDS RequestPipeline, FiniteSetTheorems, TLAPS

\* The requests that hold a connection of pool s.
Holders(s) == {r \in calling : Store(r) = s}

\* Every connection in use is held by one request, and each holds at most one.
UsedInv == \A s \in Stores : used[s] = Cardinality(Holders(s))

\* More requests than the pool of Redis has connections were noticed.
CrowdInv == Cardinality(Inside) > RedisMax => crowded

\* What authentication has made of request r.
StampInv(r) ==
    /\ stage[r] \in {"new", "cache", "row"} => user[r] = Anonymous
    /\ stage[r] = "new" => cred[r] = NoKey
    /\ stage[r] \in {"cache", "row", "warm"} => cred[r] # NoKey
    /\ stage[r] \in {"warm", "limit", "handle", "record"} =>
          user[r] = Identity(cred[r]) /\ (cred[r] # NoKey => user[r] # Anonymous)
    /\ stage[r] = "refused" => Identity(cred[r]) = Anonymous \/ "row" \in missed[r]

\* What the limiter has made of it.
ChargeInv(r) ==
    /\ charged[r] # <<>> => stage[r] \in {"handle", "record"} /\ charged[r] = <<Identity(cred[r])>>
    /\ stage[r] \in {"handle", "record"} /\ charged[r] = <<>> => "limit" \in missed[r]

\* A request with a call under way is where it makes one.
CallInv(r) ==
    r \in calling => stage[r] \in Serving /\ (stage[r] = "handle" => Working(r))

RequestInv(r) == StampInv(r) /\ ChargeInv(r) /\ CallInv(r)

PipeInv ==
    /\ TypeOK
    /\ UsedInv
    /\ CrowdInv
    /\ PoolSuffices
    /\ \A r \in Requests : RequestInv(r)

----------------------------------------------------------------------------
(* The handlers.                                                           *)

\* No handler makes more than four calls, each to a store.
LEMMA CallFacts ==
    \A p \in Routes : /\ Len(Calls[p]) \in 0 .. 4
                      /\ \A i \in 1 .. 4 : i <= Len(Calls[p]) => Calls[p][i].store \in Stores
<1> USE DEF Call, Swallowed, Raising, Stores
<1>1. /\ Len(QuantCalls) = 3 /\ \A i \in 1 .. 3 : QuantCalls[i].store \in Stores
      /\ Len(LlmCalls) = 3   /\ \A i \in 1 .. 3 : LlmCalls[i].store \in Stores
    BY DEF QuantCalls, LlmCalls, InjectMemory
<1>2. /\ Len(TaskCalls) = 2    /\ \A i \in 1 .. 2 : TaskCalls[i].store \in Stores
      /\ Len(SummaryCalls) = 4 /\ \A i \in 1 .. 4 : SummaryCalls[i].store \in Stores
    BY DEF TaskCalls, SummaryCalls
<1>3. /\ Len(CreateCalls) = 2 /\ \A i \in 1 .. 2 : CreateCalls[i].store \in Stores
      /\ Len(ListCalls) = 1   /\ \A i \in 1 .. 1 : ListCalls[i].store \in Stores
    BY DEF CreateCalls, ListCalls
<1>4. /\ Len(RevokeCalls) = 2 /\ \A i \in 1 .. 2 : RevokeCalls[i].store \in Stores
      /\ Len(HealthCalls) = 2 /\ \A i \in 1 .. 2 : HealthCalls[i].store \in Stores
      /\ Len(<<>>) = 0
    BY DEF RevokeCalls, HealthCalls
<1> QED
    BY <1>1, <1>2, <1>3, <1>4 DEF Routes, Calls

\* Every call goes to a store.
LEMMA StoreType ==
    ASSUME TypeOK, NEW r \in Requests, stage[r] = "handle" => Working(r)
    PROVE  Store(r) \in Stores
<1>1. CASE stage[r] = "handle"
  <2>1. /\ step[r] \in 1 .. 5 /\ route[r] \in Routes /\ step[r] <= Len(Calls[route[r]])
        /\ Len(Calls[route[r]]) \in 0 .. 4
      BY <1>1, CallFacts DEF TypeOK, Working
  <2> QED
      BY <1>1, <2>1, CallFacts DEF Store, ThisCall
<1>2. CASE stage[r] # "handle"
    BY <1>2 DEF Store, Stores
<1> QED
    BY <1>1, <1>2

\* Nobody is the default user but a request without a credential that counts.
LEMMA Identities ==
    /\ Identity(NoKey) = Anonymous
    /\ \A k \in Keys : Identity(k) = Owner[k] /\ Owner[k] # Anonymous /\ k # NoKey
    /\ ~production => Identity(DevKey) = DevUser
    /\ DevUser # Anonymous /\ DevKey # NoKey
    /\ \A c \in Credentials :
          c \notin Keys /\ ~(c = DevKey /\ ~production) => Identity(c) = Anonymous
<1>1. DevKey # NoKey
  <2>1. SUFFICES ASSUME DevKey = NoKey PROVE FALSE
      OBVIOUS
  <2>2. {DevKey, BadKey, NoKey} = {DevKey, BadKey}
      BY <2>1
  <2>3. IsFiniteSet({}) /\ Cardinality({}) = 0
      BY FS_EmptySet
  <2>4. IsFiniteSet({} \union {DevKey}) /\ Cardinality({} \union {DevKey}) = 1
      BY <2>3, FS_AddElement
  <2>5. Cardinality(({} \union {DevKey}) \union {BadKey}) \in {1, 2}
      BY <2>4, FS_AddElement
  <2>6. ({} \union {DevKey}) \union {BadKey} = {DevKey, BadKey}
      OBVIOUS
  <2> QED
      BY <2>2, <2>5, <2>6, KeysAssumption
<1> QED
    BY <1>1, KeysAssumption DEF Identity, Users

----------------------------------------------------------------------------
(* Steps of one request, as the others see them.                           *)

\* Only r moves.
Frame(r) ==
    \A q \in Requests \ {r} :
        /\ stage'[q] = stage[q] /\ route'[q] = route[q] /\ cred'[q] = cred[q]
        /\ user'[q] = user[q] /\ step'[q] = step[q] /\ charged'[q] = charged[q]

\* Nothing that the others rely on is taken back.
Onward(r) ==
    /\ Frame(r)
    /\ production' = production
    /\ calling' \ {r} = calling \ {r}
    /\ \A q \in Requests \ {r} : missed'[q] = missed[q]

\* The invariant of the other requests is kept.
LEMMA OthersKept ==
    ASSUME PipeInv, NEW r \in Requests, Onward(r), RequestInv(r)'
    PROVE  \A q \in Requests : RequestInv(q)'
<1> SUFFICES ASSUME NEW q \in Requests, q # r PROVE RequestInv(q)'
    OBVIOUS
<1>1. /\ stage'[q] = stage[q] /\ route'[q] = route[q] /\ cred'[q] = cred[q]
      /\ user'[q] = user[q] /\ step'[q] = step[q] /\ charged'[q] = charged[q]
      /\ (q \in calling' <=> q \in calling) /\ missed'[q] = missed[q]
      /\ production' = production
    BY DEF Onward, Frame
<1>2. RequestInv(q)
    BY DEF PipeInv
<1>3. StampInv(q)'
    BY <1>1, <1>2 DEF RequestInv, StampInv, Identity
<1>4. ChargeInv(q)'
    BY <1>1, <1>2 DEF RequestInv, ChargeInv, Identity
<1>5. CallInv(q)'
    BY <1>1, <1>2 DEF RequestInv, CallInv, Working
<1> QED
    BY <1>3, <1>4, <1>5 DEF RequestInv

\* The stores of the others are the same.
LEMMA StoreKept ==
    ASSUME NEW r \in Requests, Frame(r), NEW q \in Requests, q # r
    PROVE  Store(q)' = Store(q)
  BY DEF Frame, Store, ThisCall

\* Finite sets of requests.
LEMMA Finite ==
    ASSUME PipeInv
    PROVE  /\ IsFiniteSet(Inside) /\ Cardinality(Inside) \in Nat
           /\ IsFiniteSet(calling)
           /\ \A s : IsFiniteSet(Holders(s)) /\ Cardinality(Holders(s)) \in Nat
<1>1. calling \subseteq Requests /\ Inside \subseteq Requests
    BY DEF PipeInv, TypeOK, Inside
<1>2. IsFiniteSet(Inside) /\ IsFiniteSet(calling)
    BY <1>1, BoundsAssumption, FS_Subset
<1>3. \A s : Holders(s) \subseteq calling
    BY DEF Holders
<1>4. \A s : IsFiniteSet(Holders(s))
    BY <1>2, <1>3, FS_Subset
<1> QED
    BY <1>2, <1>4, FS_CardinalityType

\* A request that takes a connection is counted.
LEMMA CountConnect == ASSUME PipeInv, NEW r \in Requests, Connect(r) PROVE UsedInv'
<1>1. /\ calling' = calling \union {r} /\ r \notin calling
      /\ used' = [used EXCEPT ![Store(r)] = @ + 1]
      /\ UNCHANGED <<stage, route, step>>
    BY DEF Connect, AboutToCall, requestVars
<1>2. Store(r) \in Stores
    BY StoreType DEF Connect, AboutToCall, Working, PipeInv, Serving
<1>3. \A q : Store(q)' = Store(q)
    BY <1>1 DEF Store, ThisCall
<1> SUFFICES ASSUME NEW s \in Stores PROVE used'[s] = Cardinality(Holders(s)')
    BY DEF UsedInv
<1>4. used[s] = Cardinality(Holders(s)) /\ IsFiniteSet(Holders(s))
    BY Finite DEF PipeInv, UsedInv
<1>5. CASE s = Store(r)
  <2>1. Holders(s)' = Holders(s) \union {r} /\ r \notin Holders(s)
      BY <1>1, <1>3, <1>5 DEF Holders
  <2>2. used'[s] = used[s] + 1
      BY <1>1, <1>2, <1>5 DEF PipeInv, TypeOK
  <2> QED
      BY <1>4, <2>1, <2>2, FS_AddElement
<1>6. CASE s # Store(r)
  <2>1. Holders(s)' = Holders(s)
      BY <1>1, <1>3, <1>6 DEF Holders
  <2> QED
      BY <1>1, <1>4, <1>6, <2>1 DEF PipeInv, TypeOK
<1> QED
    BY <1>5, <1>6

\* So is one whose call is over; if there was no connection for it, the request is
\* one too many.
LEMMA OverEffect ==
    ASSUME PipeInv, NEW r \in Requests, NEW ok \in BOOLEAN, Over(r, ok), Frame(r),
           crowded' = crowded
    PROVE  /\ UsedInv'
           /\ calling' = calling \ {r}
           /\ used' \in [Stores -> Nat] /\ used'["redis"] <= RedisMax /\ used'["pg"] <= PgMax
           /\ starved' \in BOOLEAN /\ PoolSuffices'
           /\ faults' \in 0 .. MaxFaults
           /\ stage[r] \in Serving
<1>0. TypeOK /\ CallInv(r) /\ UsedInv /\ PoolSuffices
    BY DEF PipeInv, RequestInv
<1>1. CASE r \in calling /\ Release(r, ok) /\ (IF ok THEN UNCHANGED faults ELSE Fault)
           /\ UNCHANGED starved
  <2>1. calling' = calling \ {r} /\ used' = [used EXCEPT ![Store(r)] = @ - 1]
      BY <1>1 DEF Release
  <2>2. Store(r) \in Stores /\ stage[r] \in Serving
      BY <1>0, <1>1, StoreType DEF CallInv
  <2>3. ASSUME NEW s \in Stores
        PROVE  used'[s] = Cardinality(Holders(s)') /\ used'[s] \in Nat /\ used'[s] <= used[s]
    <3>1. used[s] = Cardinality(Holders(s)) /\ IsFiniteSet(Holders(s)) /\ used[s] \in Nat
        BY <1>0, Finite DEF UsedInv
    <3>2. \A q \in calling \ {r} : Store(q)' = Store(q)
        BY <1>0, StoreKept DEF TypeOK
    <3>3. CASE s = Store(r)
      <4>1. Holders(s)' = Holders(s) \ {r} /\ r \in Holders(s)
          BY <1>1, <2>1, <3>2, <3>3 DEF Holders
      <4>2. used'[s] = used[s] - 1
          BY <1>0, <2>1, <2>2, <3>3 DEF TypeOK
      <4>3. IsFiniteSet(Holders(s)') /\ Cardinality(Holders(s)') = Cardinality(Holders(s)) - 1
          BY <3>1, <4>1, FS_RemoveElement
      <4>4. Cardinality(Holders(s)') \in Nat
          BY <4>3, FS_CardinalityType
      <4> QED
          BY <3>1, <4>2, <4>3, <4>4
    <3>4. CASE s # Store(r)
      <4>1. Holders(s)' = Holders(s)
          BY <2>1, <3>2, <3>4 DEF Holders
      <4> QED
          BY <1>0, <2>1, <3>1, <3>4, <4>1 DEF TypeOK
    <3> QED
        BY <3>3, <3>4
  <2>4. used' \in [Stores -> Nat] /\ used'["redis"] <= used["redis"] /\ used'["pg"] <= used["pg"]
      BY <1>0, <2>1, <2>3 DEF TypeOK, Stores
  <2>5. used'["redis"] <= RedisMax /\ used'["pg"] <= PgMax
      BY <1>0, <2>4, PoolAssumption DEF TypeOK, Stores
  <2>6. UsedInv'
      BY <2>3 DEF UsedInv
  <2>7. faults' \in 0 .. MaxFaults
      BY <1>0, <1>1, BoundsAssumption DEF Fault, TypeOK
  <2>8. starved' \in BOOLEAN /\ PoolSuffices'
      BY <1>0, <1>1 DEF TypeOK, PoolSuffices
  <2> QED
      BY <2>1, <2>2, <2>4, <2>5, <2>6, <2>7, <2>8
<1>2. CASE AboutToCall(r) /\ Store(r) = "redis" /\ ~Free("redis") /\ ~ok
           /\ starved' = TRUE /\ UNCHANGED <<poolVars, faults>>
  <2>1. r \notin calling /\ stage[r] \in Serving /\ calling' = calling /\ used' = used
        /\ faults' = faults
      BY <1>2 DEF AboutToCall, poolVars, Working, Serving
  <2>2. \A q \in calling : Store(q)' = Store(q)
      BY <1>0, <2>1, StoreKept DEF TypeOK
  <2>3. \A s : Holders(s)' = Holders(s)
      BY <2>1, <2>2 DEF Holders
  <2>4. UsedInv'
      BY <1>0, <2>1, <2>3 DEF UsedInv
  <2>5. crowded
    <3>1. Cardinality(Holders("redis")) >= RedisMax
        BY <1>0, <1>2, PoolAssumption DEF Free, UsedInv, Stores, TypeOK
    <3>2. r \notin Holders("redis") /\ Holders("redis") \union {r} \subseteq Inside
        BY <1>0, <2>1 DEF Holders, Inside, PipeInv, RequestInv, CallInv, TypeOK
    <3>3. /\ IsFiniteSet(Holders("redis")) /\ Cardinality(Holders("redis")) \in Nat
          /\ IsFiniteSet(Inside) /\ Cardinality(Inside) \in Nat
        BY Finite
    <3>4. Cardinality(Holders("redis") \union {r}) = Cardinality(Holders("redis")) + 1
        BY <3>2, <3>3, FS_AddElement
    <3>5. Cardinality(Holders("redis") \union {r}) <= Cardinality(Inside)
        BY <3>2, <3>3, FS_Subset
    <3> QED
        BY <3>1, <3>3, <3>4, <3>5, PoolAssumption DEF PipeInv, CrowdInv
  <2>6. PoolSuffices'
      BY <2>5 DEF PoolSuffices
  <2> QED
      BY <1>0, <1>2, <2>1, <2>4, <2>6 DEF TypeOK
<1> QED
    BY <1>1, <1>2 DEF Over

\* The types of what a request keeps.
RequestTypes ==
    /\ stage \in [Requests -> Stages]
    /\ route \in [Requests -> Routes]
    /\ cred \in [Requests -> Credentials]
    /\ user \in [Requests -> Users \union {Anonymous}]
    /\ step \in [Requests -> 1 .. 5]
    /\ charged \in [Requests -> Seq(Users \union {Anonymous})]

\* What is remembered of the call.
LEMMA NoteEffect ==
    ASSUME TypeOK, RequestTypes', NEW r \in Requests, NEW ok \in BOOLEAN, Note(r, ok)
    PROVE  /\ missed' \in [Requests -> SUBSET Decisive]
           /\ \A q \in Requests \ {r} : missed'[q] = missed[q]
           /\ stage'[r] # "answered" =>
                 /\ missed[r] \subseteq missed'[r]
                 /\ ~ok /\ stage[r] \in Decisive => stage[r] \in missed'[r]
  BY DEF Note, TypeOK, RequestTypes, Decisive

LEMMA PassEffect ==
    ASSUME RequestTypes, NEW r \in Requests, NEW s \in Stages, Pass(r, s)
    PROVE  /\ Frame(r) /\ RequestTypes' /\ stage'[r] = s
           /\ cred'[r] = cred[r] /\ user'[r] = user[r] /\ charged'[r] = charged[r]
  BY DEF Pass, Frame, RequestTypes

LEMMA StampEffect ==
    ASSUME RequestTypes, NEW r \in Requests, NEW s \in Stages, NEW u \in Users, Stamp(r, u, s)
    PROVE  /\ Frame(r) /\ RequestTypes' /\ stage'[r] = s
           /\ cred'[r] = cred[r] /\ user'[r] = u /\ charged'[r] = charged[r]
  BY DEF Stamp, Frame, RequestTypes

LEMMA AnswerEffect ==
    ASSUME RequestTypes, NEW r \in Requests, Answer(r)
    PROVE  /\ Frame(r) /\ RequestTypes' /\ stage'[r] = "answered"
           /\ cred'[r] = NoKey /\ user'[r] = Anonymous /\ charged'[r] = <<>>
<1>1. "answered" \in Stages /\ "page" \in Routes /\ NoKey \in Credentials /\ 1 \in 1 .. 5
    BY DEF Stages, Routes, Calls, Credentials
<1> QED
    BY <1>1 DEF Answer, Frame, RequestTypes

\* No step but Enter makes the gateway more crowded.
LEMMA CrowdKept ==
    ASSUME PipeInv, NEW r \in Requests, Frame(r), crowded' = crowded,
           stage[r] \in Serving \/ stage'[r] \notin Serving
    PROVE  CrowdInv'
<1>1. Inside' \subseteq Inside
    BY DEF Inside, Frame
<1>2. IsFiniteSet(Inside) /\ Cardinality(Inside) \in Nat
    BY Finite
<1>3. Cardinality(Inside') <= Cardinality(Inside) /\ Cardinality(Inside') \in Nat
    BY <1>1, <1>2, FS_Subset, FS_CardinalityType
<1> QED
    BY <1>2, <1>3, PoolAssumption DEF PipeInv, CrowdInv

\* What is left to show of a step that ends a call.
LEMMA OverKeeps ==
    ASSUME PipeInv, NEW r \in Requests, NEW ok \in BOOLEAN, Over(r, ok), Frame(r),
           Note(r, ok), production' = production, crowded' = crowded,
           RequestTypes', StampInv(r)', ChargeInv(r)'
    PROVE  PipeInv'
<1> USE OverEffect
<1>1. /\ UsedInv' /\ calling' = calling \ {r} /\ PoolSuffices'
      /\ faults' \in 0 .. MaxFaults /\ stage[r] \in Serving
    OBVIOUS
<1>2. CrowdInv'
    BY <1>1, CrowdKept
<1>3. /\ missed' \in [Requests -> SUBSET Decisive]
      /\ \A q \in Requests \ {r} : missed'[q] = missed[q]
    BY NoteEffect DEF PipeInv
<1>4. TypeOK'
  <2>1. /\ used' \in [Stores -> Nat] /\ used'["redis"] <= RedisMax /\ used'["pg"] <= PgMax
        /\ starved' \in BOOLEAN
      OBVIOUS
  <2> QED
      BY <1>1, <1>3, <2>1 DEF PipeInv, TypeOK, RequestTypes
<1>5. RequestInv(r)'
    BY <1>1 DEF RequestInv, CallInv
<1>6. Onward(r)
    BY <1>1, <1>3 DEF Onward
<1>7. \A q \in Requests : RequestInv(q)'
    BY <1>5, <1>6, OthersKept
<1> QED
    BY <1>1, <1>2, <1>4, <1>7 DEF PipeInv

----------------------------------------------------------------------------
(* The steps.                                                              *)

\* What every step starts from.
LEMMA Given ==
    ASSUME PipeInv, NEW r \in Requests
    PROVE  RequestTypes /\ StampInv(r) /\ ChargeInv(r) /\ CallInv(r) /\ TypeOK
  BY DEF PipeInv, TypeOK, RequestTypes, RequestInv

\* The identity that a credential stands for does not change.
LEMMA SameIdentity == ASSUME production' = production PROVE \A c : Identity(c)' = Identity(c)
  BY DEF Identity

LEMMA ConnectStep == ASSUME PipeInv, NEW r \in Requests, Connect(r) PROVE PipeInv'
<1>1. /\ calling' = calling \union {r} /\ r \notin calling
      /\ used' = [used EXCEPT ![Store(r)] = @ + 1]
      /\ UNCHANGED <<production, stage, route, cred, user, step, charged, missed, starved,
                     crowded, faults>>
      /\ stage[r] \in Serving /\ (stage[r] = "handle" => Working(r)) /\ Free(Store(r))
    BY DEF Connect, AboutToCall, requestVars, historyVars, Working, Serving
<1>2. Store(r) \in Stores
    BY <1>1, StoreType DEF PipeInv
<1>3. UsedInv'
    BY CountConnect
<1>4. TypeOK'
  <2>1. /\ used' \in [Stores -> Nat]
        /\ \A s \in Stores : used'[s] = IF s = Store(r) THEN used[s] + 1 ELSE used[s]
      BY <1>1, <1>2 DEF PipeInv, TypeOK
  <2>2. used'["redis"] <= RedisMax /\ used'["pg"] <= PgMax
      BY <1>1, <1>2, <2>1, PoolAssumption DEF Free, PipeInv, TypeOK, Stores
  <2> QED
      BY <1>1, <2>1, <2>2 DEF PipeInv, TypeOK
<1>5. CrowdInv' /\ PoolSuffices'
    BY <1>1 DEF PipeInv, CrowdInv, Inside, PoolSuffices
<1>6. \A q \in Requests : RequestInv(q)'
    BY <1>1 DEF PipeInv, RequestInv, StampInv, ChargeInv, CallInv, Identity, Working
<1> QED
    BY <1>3, <1>4, <1>5, <1>6 DEF PipeInv

LEMMA EnterStep ==
    ASSUME PipeInv, NEW r \in Requests, Enter(r) \/ NoToken(r) PROVE PipeInv'
<1>0. RequestTypes /\ StampInv(r) /\ ChargeInv(r) /\ CallInv(r) /\ TypeOK
    BY Given
<1>1. stage[r] = "new" /\ r \notin calling /\ cred[r] = NoKey /\ user[r] = Anonymous
      /\ charged[r] = <<>>
    BY <1>0 DEF Enter, NoToken, StampInv, ChargeInv, CallInv, Serving
<1>2. UNCHANGED <<production, calling, used, missed, starved, faults>>
    BY DEF Enter, NoToken, poolVars, historyVars
<1>3. /\ Frame(r) /\ RequestTypes' /\ user'[r] = Anonymous /\ charged'[r] = <<>>
      /\ \/ stage'[r] = "refused" /\ cred'[r] = NoKey
         \/ stage'[r] = "limit" /\ cred'[r] = NoKey
         \/ stage'[r] = "cache" /\ cred'[r] # NoKey
  <2>1. CASE NoToken(r)
      BY <1>0, <1>1, <2>1, PassEffect DEF NoToken, Refuse, Stages
  <2>2. CASE Enter(r)
      BY <1>0, <1>1, <2>2 DEF Enter, Frame, RequestTypes, Stages, Serving
  <2> QED
      BY <2>1, <2>2
<1>4. RequestInv(r)'
    BY <1>1, <1>2, <1>3, Identities, SameIdentity DEF RequestInv, StampInv, ChargeInv, CallInv
<1>5. \A q \in Requests : RequestInv(q)'
    BY <1>2, <1>3, <1>4, OthersKept DEF Onward
<1>6. UsedInv'
  <2>1. \A q \in calling : Store(q)' = Store(q)
      BY <1>0, <1>1, <1>3, StoreKept DEF TypeOK
  <2>2. \A s : Holders(s)' = Holders(s)
      BY <1>2, <2>1 DEF Holders
  <2> QED
      BY <1>2, <2>2 DEF PipeInv, UsedInv
<1>7. CrowdInv' /\ crowded' \in BOOLEAN /\ (crowded => crowded')
  <2>1. CASE NoToken(r)
    <3>1. crowded' = crowded /\ stage'[r] \notin Serving
        BY <1>0, <2>1, PassEffect DEF NoToken, historyVars, Refuse, Stages, Serving
    <3> QED
        BY <1>0, <1>3, <3>1, CrowdKept DEF TypeOK
  <2>2. CASE Enter(r)
    <3>1. crowded' = (crowded \/ Cardinality(Inside) >= RedisMax)
        BY <2>2 DEF Enter
    <3>2. Inside' \subseteq Inside \union {r}
        BY <1>3 DEF Inside, Frame
    <3>3. IsFiniteSet(Inside) /\ Cardinality(Inside) \in Nat
        BY Finite
    <3>4. /\ IsFiniteSet(Inside \union {r})
          /\ Cardinality(Inside \union {r}) \in Nat
          /\ Cardinality(Inside \union {r}) <= Cardinality(Inside) + 1
      <4>1. r \notin Inside
          BY <1>1 DEF Inside, Serving
      <4>2. /\ IsFiniteSet(Inside \union {r})
            /\ Cardinality(Inside \union {r}) = Cardinality(Inside) + 1
          BY <3>3, <4>1, FS_AddElement
      <4> QED
          BY <3>3, <4>2
    <3>5. Cardinality(Inside') <= Cardinality(Inside \union {r}) /\ Cardinality(Inside') \in Nat
        BY <3>2, <3>4, FS_Subset, FS_CardinalityType
    <3>6. Cardinality(Inside') > RedisMax => Cardinality(Inside) >= RedisMax
        BY <3>3, <3>4, <3>5, PoolAssumption
    <3>7. CrowdInv'
        BY <3>1, <3>6, Zenon DEF CrowdInv
    <3>8. crowded' \in BOOLEAN /\ (crowded => crowded')
        BY <1>0, <3>1 DEF TypeOK
    <3> QED
        BY <3>7, <3>8
  <2> QED
      BY <2>1, <2>2
<1>8. TypeOK' /\ PoolSuffices'
    BY <1>0, <1>2, <1>3, <1>7 DEF TypeOK, RequestTypes, PoolSuffices, PipeInv
<1> QED
    BY <1>5, <1>6, <1>7, <1>8 DEF PipeInv

LEMMA AuthStep ==
    ASSUME PipeInv, NEW r \in Requests, CheckRedis(r) \/ CheckPostgres(r) \/ Rehydrate(r)
    PROVE  PipeInv'
<1>0. RequestTypes /\ StampInv(r) /\ ChargeInv(r) /\ TypeOK /\ cred[r] \in Credentials
    BY Given DEF RequestTypes
<1>1. production' = production /\ crowded' = crowded
    BY DEF CheckRedis, CheckPostgres, Rehydrate
<1>2. /\ charged[r] = <<>> /\ cred[r] # NoKey
      /\ stage[r] = "warm" => user[r] = Identity(cred[r]) /\ user[r] # Anonymous
      /\ stage[r] \in {"cache", "row"} => user[r] = Anonymous
    BY <1>0 DEF CheckRedis, CheckPostgres, Rehydrate, StampInv, ChargeInv
<1>3. DevUser \in Users /\ \A k \in Keys : Owner[k] \in Users
    BY DEF Users
<1> USE Identities, SameIdentity, PassEffect, StampEffect DEF Stages, Serving
<1>4. CASE CheckRedis(r)
  <2>1. PICK ok \in BOOLEAN :
            /\ Over(r, ok)
            /\ \/ ok /\ cred[r] \in Keys /\ Stamp(r, Owner[cred[r]], "limit")
               \/ Pass(r, "row")
            /\ Note(r, ok)
      BY <1>4 DEF CheckRedis
  <2>2. /\ Frame(r) /\ RequestTypes' /\ cred'[r] = cred[r] /\ charged'[r] = <<>>
        /\ \/ stage'[r] = "limit" /\ user'[r] = Identity(cred[r]) /\ user'[r] # Anonymous
           \/ stage'[r] = "row" /\ user'[r] = Anonymous
      BY <1>0, <1>2, <1>3, <1>4, <2>1 DEF CheckRedis
  <2>3. StampInv(r)' /\ ChargeInv(r)'
      BY <1>1, <1>2, <2>2 DEF StampInv, ChargeInv
  <2> QED
      BY <1>1, <2>1, <2>2, <2>3, OverKeeps
<1>5. CASE CheckPostgres(r)
  <2>1. PICK ok \in BOOLEAN :
            /\ Over(r, ok)
            /\ IF ok /\ cred[r] \in Keys THEN Stamp(r, Owner[cred[r]], "warm") ELSE TryDevKey(r)
            /\ Note(r, ok)
      BY <1>5 DEF CheckPostgres
  <2>2. /\ Frame(r) /\ RequestTypes' /\ cred'[r] = cred[r] /\ charged'[r] = <<>>
        /\ \/ stage'[r] \in {"warm", "limit"} /\ user'[r] = Identity(cred[r]) /\ user'[r] # Anonymous
           \/ stage'[r] = "refused" /\ (ok => Identity(cred[r]) = Anonymous)
    <3>1. CASE ok /\ cred[r] \in Keys
        BY <1>0, <1>2, <1>3, <2>1, <3>1
    <3>2. CASE ~(ok /\ cred[r] \in Keys) /\ cred[r] = DevKey /\ ~production
        BY <1>0, <1>2, <1>3, <2>1, <3>2 DEF TryDevKey
    <3>3. CASE ~(ok /\ cred[r] \in Keys) /\ ~(cred[r] = DevKey /\ ~production)
        BY <1>0, <1>2, <2>1, <3>3 DEF TryDevKey, Refuse
    <3> QED
        BY <3>1, <3>2, <3>3
  <2>3. stage'[r] = "refused" /\ ~ok => "row" \in missed'[r]
      BY <1>0, <1>5, <2>1, <2>2, NoteEffect DEF CheckPostgres, Decisive
  <2>4. StampInv(r)' /\ ChargeInv(r)'
      BY <1>1, <1>2, <2>2, <2>3 DEF StampInv, ChargeInv
  <2> QED
      BY <1>1, <2>1, <2>2, <2>4, OverKeeps
<1>6. CASE Rehydrate(r)
  <2>1. PICK ok \in BOOLEAN : Over(r, ok) /\ Pass(r, "limit") /\ Note(r, ok)
      BY <1>6 DEF Rehydrate
  <2>2. /\ Frame(r) /\ RequestTypes' /\ cred'[r] = cred[r] /\ charged'[r] = <<>>
        /\ stage'[r] = "limit" /\ user'[r] = Identity(cred[r]) /\ user'[r] # Anonymous
      BY <1>0, <1>2, <1>6, <2>1 DEF Rehydrate
  <2>3. StampInv(r)' /\ ChargeInv(r)'
      BY <1>1, <1>2, <2>2 DEF StampInv, ChargeInv
  <2> QED
      BY <1>1, <2>1, <2>2, <2>3, OverKeeps
<1> QED
    BY <1>4, <1>5, <1>6

\* A request that leaves with an answer keeps nothing.
LEMMA Leaves ==
    ASSUME PipeInv, NEW r \in Requests, Answer(r)
    PROVE  Frame(r) /\ RequestTypes' /\ StampInv(r)' /\ ChargeInv(r)'
           /\ stage'[r] \notin Serving
<1>1. /\ Frame(r) /\ RequestTypes' /\ stage'[r] = "answered"
      /\ cred'[r] = NoKey /\ user'[r] = Anonymous /\ charged'[r] = <<>>
    BY Given, AnswerEffect
<1> QED
    BY <1>1 DEF StampInv, ChargeInv, Serving

LEMMA LimitStep == ASSUME PipeInv, NEW r \in Requests, Limit(r) PROVE PipeInv'
<1>0. RequestTypes /\ StampInv(r) /\ ChargeInv(r) /\ TypeOK
    BY Given
<1>1. production' = production /\ crowded' = crowded /\ stage[r] = "limit"
    BY DEF Limit
<1>2. /\ charged[r] = <<>> /\ user[r] = Identity(cred[r])
      /\ cred[r] # NoKey => user[r] # Anonymous
    BY <1>0, <1>1 DEF StampInv, ChargeInv
<1>3. PICK ok \in BOOLEAN :
          /\ Over(r, ok)
          /\ \/ /\ Dispatch(r) /\ r \in calling
                /\ charged' = [charged EXCEPT ![r] = Append(@, Payer(r))]
             \/ Dispatch(r) /\ ~ok /\ UNCHANGED charged
             \/ Answer(r) /\ ok
          /\ Note(r, ok)
    BY DEF Limit
<1>4. CASE Answer(r)
    BY <1>1, <1>3, <1>4, Leaves, OverKeeps
<1>5. CASE Dispatch(r)
  <2>1. /\ stage' = [stage EXCEPT ![r] = "handle"]
        /\ \E p \in Routes : route' = [route EXCEPT ![r] = p]
        /\ UNCHANGED <<cred, user, step>>
      BY <1>5 DEF Dispatch
  <2>2. \/ charged' = [charged EXCEPT ![r] = <<Identity(cred[r])>>]
        \/ charged' = charged /\ ~ok
    <3>1. stage'[r] = "handle"
        BY <1>0, <2>1 DEF RequestTypes
    <3>2. ~Answer(r)
        BY <1>0, <3>1, AnswerEffect
    <3>3. Append(charged[r], Payer(r)) = <<Identity(cred[r])>>
        BY <1>2 DEF Payer
    <3> QED
        BY <1>3, <3>2, <3>3
  <2>3. Frame(r) /\ RequestTypes' /\ stage'[r] = "handle"
        /\ cred'[r] = cred[r] /\ user'[r] = user[r]
        /\ (charged'[r] = <<Identity(cred[r])>> \/ (charged'[r] = <<>> /\ ~ok))
    <3>1. "handle" \in Stages /\ <<Identity(cred[r])>> \in Seq(Users \union {Anonymous})
      <4>1. Identity(cred[r]) \in Users \union {Anonymous}
          BY <1>0, <1>2 DEF RequestTypes
      <4>2. <<Identity(cred[r])>> \in Seq(Users \union {Anonymous})
          BY <4>1
      <4> QED
          BY <4>2 DEF Stages, Serving
    <3>2. stage' \in [Requests -> Stages] /\ route' \in [Requests -> Routes]
        BY <1>0, <2>1, <3>1 DEF RequestTypes
    <3>3. charged' \in [Requests -> Seq(Users \union {Anonymous})]
        BY <1>0, <2>2, <3>1 DEF RequestTypes
    <3>4. RequestTypes'
        BY <1>0, <2>1, <3>2, <3>3 DEF RequestTypes
    <3>5. Frame(r)
        BY <1>0, <2>1, <2>2 DEF Frame, RequestTypes
    <3>6. stage'[r] = "handle" /\ cred'[r] = cred[r] /\ user'[r] = user[r]
        BY <1>0, <2>1 DEF RequestTypes
    <3>7. charged'[r] = <<Identity(cred[r])>> \/ (charged'[r] = <<>> /\ ~ok)
      <4>1. CASE charged' = [charged EXCEPT ![r] = <<Identity(cred[r])>>]
          BY <1>0, <4>1 DEF RequestTypes
      <4>2. CASE charged' = charged /\ ~ok
          BY <1>2, <4>2
      <4> QED
          BY <2>2, <4>1, <4>2
    <3> QED
        BY <3>4, <3>5, <3>6, <3>7
  <2>4. ~ok => "limit" \in missed'[r]
      BY <1>0, <1>1, <1>3, <2>3, NoteEffect DEF Decisive
  <2>5. StampInv(r)' /\ ChargeInv(r)'
      BY <1>1, <1>2, <2>3, <2>4, SameIdentity DEF StampInv, ChargeInv
  <2> QED
      BY <1>1, <1>3, <2>3, <2>5, OverKeeps
<1> QED
    BY <1>3, <1>4, <1>5

\* A handler that responds, or goes on to its next call, keeps what it was given.
LEMMA Responds ==
    ASSUME PipeInv, NEW r \in Requests, stage[r] = "handle", production' = production,
           NEW ok \in BOOLEAN, Note(r, ok),
           \/ Respond(r)
           \/ /\ Working(r) /\ step' = [step EXCEPT ![r] = @ + 1]
              /\ UNCHANGED <<stage, route, cred, user, charged>>
           \/ Answer(r)
    PROVE  Frame(r) /\ RequestTypes' /\ StampInv(r)' /\ ChargeInv(r)'
<1>0. RequestTypes /\ StampInv(r) /\ ChargeInv(r) /\ TypeOK
    BY Given
<1>1. CASE Answer(r)
    BY <1>1, Leaves
<1>2. CASE Respond(r) /\ ~Answer(r)
  <2>1. /\ stage' = [stage EXCEPT ![r] = "record"] /\ route' = [route EXCEPT ![r] = "page"]
        /\ step' = [step EXCEPT ![r] = 1] /\ UNCHANGED <<cred, user, charged>>
      BY <1>2 DEF Respond
  <2>2. "record" \in Stages /\ "page" \in Routes /\ 1 \in 1 .. 5
      BY DEF Stages, Serving, Routes, Calls
  <2>3. Frame(r) /\ RequestTypes' /\ stage'[r] = "record"
      BY <1>0, <2>1, <2>2 DEF Frame, RequestTypes
  <2>4. missed[r] \subseteq missed'[r]
      BY <1>0, <2>3, NoteEffect
  <2>5. charged'[r] = charged[r] /\ cred'[r] = cred[r] /\ user'[r] = user[r]
      BY <2>1
  <2> QED
      BY <1>0, <2>3, <2>4, <2>5, SameIdentity DEF StampInv, ChargeInv
<1>3. CASE /\ Working(r) /\ step' = [step EXCEPT ![r] = @ + 1]
           /\ UNCHANGED <<stage, route, cred, user, charged>>
  <2>1. step[r] + 1 \in 1 .. 5
    <3>1. step[r] \in 1 .. 5 /\ step[r] <= Len(Calls[route[r]]) /\ route[r] \in Routes
        BY <1>0, <1>3 DEF Working, RequestTypes
    <3>2. Len(Calls[route[r]]) \in 0 .. 4
        BY <3>1, CallFacts
    <3>3. \A i \in 1 .. 5, n \in 0 .. 4 : i <= n => i + 1 \in 1 .. 5
        OBVIOUS
    <3> QED
        BY <3>1, <3>2, <3>3, Zenon
  <2>2. Frame(r) /\ RequestTypes'
      BY <1>0, <1>3, <2>1 DEF Frame, RequestTypes
  <2>3. missed[r] \subseteq missed'[r]
      BY <1>0, <1>3, <2>2, NoteEffect
  <2> QED
      BY <1>0, <1>3, <2>2, <2>3, SameIdentity DEF StampInv, ChargeInv
<1> QED
    BY <1>1, <1>2, <1>3

LEMMA HandlerStep ==
    ASSUME PipeInv, NEW r \in Requests, HandlerCall(r) \/ RecordMetrics(r) PROVE PipeInv'
<1>1. production' = production /\ crowded' = crowded
    BY DEF HandlerCall, RecordMetrics
<1>2. CASE RecordMetrics(r)
  <2>1. Answer(r) /\ \E ok \in BOOLEAN : Over(r, ok) /\ Note(r, ok)
      BY <1>2 DEF RecordMetrics
  <2> QED
      BY <1>1, <2>1, Leaves, OverKeeps
<1>3. CASE HandlerCall(r)
  <2>1. PICK ok \in BOOLEAN :
            /\ Over(r, ok)
            /\ \/ Respond(r)
               \/ /\ Working(r) /\ step' = [step EXCEPT ![r] = @ + 1]
                  /\ UNCHANGED <<stage, route, cred, user, charged>>
               \/ Answer(r)
            /\ Note(r, ok)
      BY <1>3 DEF HandlerCall
  <2>2. stage[r] = "handle"
      BY <1>3 DEF HandlerCall, Working
  <2>3. Frame(r) /\ RequestTypes' /\ StampInv(r)' /\ ChargeInv(r)'
      BY <1>1, <2>1, <2>2, Responds
  <2> QED
      BY <1>1, <2>1, <2>3, OverKeeps
<1> QED
    BY <1>2, <1>3

LEMMA ReturnStep == ASSUME PipeInv, NEW r \in Requests, HandlerReturns(r) PROVE PipeInv'
<1>0. TypeOK
    BY Given
<1>1. /\ stage[r] = "handle" /\ r \notin calling /\ Respond(r) /\ Note(r, TRUE)
      /\ UNCHANGED <<production, calling, used, starved, crowded, faults>>
    BY DEF HandlerReturns, poolVars
<1>2. Frame(r) /\ RequestTypes' /\ StampInv(r)' /\ ChargeInv(r)'
    BY <1>0, <1>1, Responds DEF TypeOK
<1>3. /\ missed' \in [Requests -> SUBSET Decisive]
      /\ \A q \in Requests \ {r} : missed'[q] = missed[q]
  <2>1. TRUE \in BOOLEAN
      OBVIOUS
  <2> QED
      BY <1>0, <1>1, <1>2, <2>1, NoteEffect
<1>4. \A q \in Requests : RequestInv(q)'
    BY <1>0, <1>1, <1>2, <1>3, OthersKept DEF Onward, TypeOK, RequestInv, CallInv
<1>5. UsedInv'
  <2>1. \A q \in calling : Store(q)' = Store(q)
      BY <1>0, <1>1, <1>2, StoreKept DEF TypeOK
  <2>2. \A s : Holders(s)' = Holders(s)
      BY <1>1, <2>1 DEF Holders
  <2> QED
      BY <1>1, <2>2 DEF PipeInv, UsedInv
<1>6. CrowdInv'
    BY <1>1, <1>2, CrowdKept DEF Serving
<1>7. TypeOK' /\ PoolSuffices'
    BY <1>0, <1>1, <1>2, <1>3 DEF TypeOK, RequestTypes, PoolSuffices, PipeInv
<1> QED
    BY <1>4, <1>5, <1>6, <1>7 DEF PipeInv

----------------------------------------------------------------------------
\* A gateway without requests satisfies the invariant.
LEMMA InitPipe == Init => PipeInv
<1> SUFFICES ASSUME Init PROVE PipeInv
    OBVIOUS
<1>1. "new" \in Stages /\ "page" \in Routes /\ NoKey \in Credentials
    BY DEF Stages, Routes, Calls, Credentials
<1>2. TypeOK
  <2>1. /\ stage \in [Requests -> Stages] /\ route \in [Requests -> Routes]
        /\ cred \in [Requests -> Credentials] /\ user \in [Requests -> Users \union {Anonymous}]
        /\ step \in [Requests -> 1 .. 5]
        /\ charged \in [Requests -> Seq(Users \union {Anonymous})]
        /\ missed \in [Requests -> SUBSET Decisive]
      BY <1>1 DEF Init
  <2>2. used \in [Stores -> Nat] /\ used["redis"] <= RedisMax /\ used["pg"] <= PgMax
      BY PoolAssumption DEF Init, Stores
  <2>3. /\ production \in BOOLEAN /\ starved \in BOOLEAN /\ crowded \in BOOLEAN
        /\ calling \subseteq Requests
      BY Zenon DEF Init
  <2>4. faults \in 0 .. MaxFaults
      BY BoundsAssumption DEF Init
  <2> QED
      BY <2>1, <2>2, <2>3, <2>4, Zenon DEF TypeOK
<1>3. UsedInv
  <2>1. \A s : Holders(s) = {}
      BY DEF Init, Holders
  <2> QED
      BY <2>1, FS_EmptySet DEF Init, UsedInv
<1>4. CrowdInv /\ PoolSuffices
  <2>1. Inside = {}
      BY DEF Init, Inside, Serving
  <2>2. Cardinality(Inside) = 0
      BY <2>1, FS_EmptySet
  <2> QED
      BY <2>2, PoolAssumption DEF Init, CrowdInv, PoolSuffices
<1>5. \A r \in Requests : RequestInv(r)
    BY DEF Init, RequestInv, StampInv, ChargeInv, CallInv
<1> QED
    BY <1>2, <1>3, <1>4, <1>5 DEF PipeInv

\* Every step preserves it.
LEMMA PipeStep == PipeInv /\ [Next]_vars => PipeInv'
<1> SUFFICES ASSUME PipeInv, [Next]_vars PROVE PipeInv'
    OBVIOUS
<1>1. CASE UNCHANGED vars
  <2>1. TypeOK' /\ CrowdInv' /\ PoolSuffices'
      BY <1>1 DEF vars, PipeInv, TypeOK, CrowdInv, PoolSuffices, Inside
  <2>2. UsedInv'
      BY <1>1 DEF vars, PipeInv, UsedInv, Holders, Store, ThisCall
  <2>3. \A r \in Requests : RequestInv(r)'
      BY <1>1 DEF vars, PipeInv, RequestInv, StampInv, ChargeInv, CallInv, Identity, Working
  <2> QED
      BY <2>1, <2>2, <2>3 DEF PipeInv
<1>2. CASE Next
    BY <1>2, ConnectStep, EnterStep, AuthStep, LimitStep, HandlerStep, ReturnStep
       DEF Next, Proceed
<1> QED
    BY <1>1, <1>2

LEMMA PipeInvariance == Spec => []PipeInv
  BY InitPipe, PipeStep, PTL DEF Spec

\* Requests keep their types, and no pool hands out more connections than it has.
THEOREM TypeCorrect == Spec => []TypeOK
<1>1. PipeInv => TypeOK
    BY DEF PipeInv
<1> QED
    BY <1>1, PipeInvariance, PTL

\* A protected handler serves the owner of the key presented, whatever fails, and a
\* good key is refused only when the look-up of this request in Postgres raised.
THEOREM AuthenticationCorrect == Spec => []FailsClosed
<1>1. PipeInv => FailsClosed
    BY DEF PipeInv, RequestInv, StampInv, FailsClosed
<1> QED
    BY <1>1, PipeInvariance, PTL

\* The owner pays, once, and a request is served free only when the limiter's own call
\* for it raised.
THEOREM ChargesCorrect == Spec => []ChargedToOwner
<1>1. PipeInv => ChargedToOwner
    BY DEF PipeInv, RequestInv, ChargeInv, ChargedToOwner
<1> QED
    BY <1>1, PipeInvariance, PTL

\* The pool of Redis suffices for as many requests as it has connections, for pools of
\* any size: no request holds two, and every path gives its connection back.
THEOREM PoolCorrect == Spec => []PoolSuffices
<1>1. PipeInv => PoolSuffices
    BY DEF PipeInv
<1> QED
    BY <1>1, PipeInvariance, PTL

(***************************************************************************)
(* The safety half of EveryRequestAnswered: what is left to do only gets   *)
(* less, and nobody waits for anybody but a call that is under way.        *)
(***************************************************************************)

\* The calls that are still to come for a request at its stage, at most, and the
\* turns that do not need one: entering, and returning from the handler.
Place == [new |-> 11, cache |-> 10, row |-> 9, warm |-> 8, limit |-> 7, handle |-> 6,
          record |-> 1, refused |-> 0, answered |-> 0]

Ahead(r) == Place[stage[r]] - (IF stage[r] = "handle" THEN step[r] - 1 ELSE 0)

\* A call is two steps.
StepsLeft(r) == IF r \in calling THEN 2 * Ahead(r) - 1 ELSE 2 * Ahead(r)

\* A step brings one request nearer to its answer, and leaves the others where they are.
RequestsAdvance ==
    [][\E r \in Requests :
          /\ StepsLeft(r)' < StepsLeft(r)
          /\ \A q \in Requests \ {r} : StepsLeft(q)' = StepsLeft(q)]_vars

\* A request inside has a call under way, or its handler returns, or it finds a
\* connection, or else another request's call, which waits for nobody, holds the
\* connection that it needs.  Only the pool of Postgres makes it wait for that one.
WaitsForCalls ==
    \A r \in Requests : stage[r] \in Serving =>
        \/ r \in calling
        \/ stage[r] = "handle" /\ ~Working(r)
        \/ AboutToCall(r) /\ Free(Store(r))
        \/ AboutToCall(r) /\ Store(r) = "redis"
        \/ AboutToCall(r) /\ Store(r) = "pg" /\ \E q \in calling : Store(q) = "pg"

LEMMA AheadType ==
    ASSUME PipeInv, NEW r \in Requests
    PROVE  /\ Ahead(r) \in 0 .. 11 /\ StepsLeft(r) \in 0 .. 22
           /\ stage[r] \in Serving => Ahead(r) > 0
           /\ r \in calling => Ahead(r) > 0
<1>1. stage[r] \in Stages /\ step[r] \in 1 .. 5 /\ CallInv(r)
    BY DEF PipeInv, TypeOK, RequestInv
<1>2. Ahead(r) \in 0 .. 11 /\ (stage[r] \in Serving => Ahead(r) > 0)
    BY <1>1 DEF Ahead, Place, Stages, Serving
<1>3. r \in calling => Ahead(r) > 0
    BY <1>1, <1>2 DEF CallInv
<1> QED
    BY <1>2, <1>3 DEF StepsLeft

\* The others have as much left as before.
LEMMA OthersAhead ==
    ASSUME NEW r \in Requests, Frame(r), calling' \ {r} = calling \ {r},
           NEW q \in Requests \ {r}
    PROVE  StepsLeft(q)' = StepsLeft(q)
<1>1. stage'[q] = stage[q] /\ step'[q] = step[q] /\ (q \in calling' <=> q \in calling)
    BY DEF Frame
<1>2. Ahead(q)' = Ahead(q)
    BY <1>1 DEF Ahead
<1> QED
    BY <1>1, <1>2 DEF StepsLeft

\* A call that is over is one less ahead.
LEMMA OverAdvances ==
    ASSUME PipeInv, PipeInv', NEW r \in Requests, calling' = calling \ {r},
           Ahead(r)' < Ahead(r)
    PROVE  StepsLeft(r)' < StepsLeft(r)
<1>1. Ahead(r) \in 0 .. 11 /\ Ahead(r)' \in 0 .. 11
  <2>1. Ahead(r) \in 0 .. 11
      BY AheadType
  <2>2. (Ahead(r) \in 0 .. 11)'
      BY AheadType, PTL
  <2> QED
      BY <2>1, <2>2
<1>2. StepsLeft(r)' = 2 * Ahead(r)'
    BY DEF StepsLeft
<1> QED
    BY <1>1, <1>2 DEF StepsLeft

\* What Over does to the set of calls, and to no other request.
LEMMA OverEnds ==
    ASSUME NEW r \in Requests, NEW ok \in BOOLEAN, Over(r, ok)
    PROVE  calling' = calling \ {r}
  BY DEF Over, Release, AboutToCall, poolVars

\* A middleware that passes a request on, stamps or refuses it sends it ahead.
LEMMA MiddlewareAhead ==
    ASSUME PipeInv, NEW r \in Requests,
           CheckRedis(r) \/ CheckPostgres(r) \/ Rehydrate(r) \/ Limit(r)
    PROVE  Frame(r) /\ Ahead(r)' < Ahead(r)
<1>0. RequestTypes
    BY Given
<1>1. /\ stage \in [Requests -> Stages] /\ step \in [Requests -> 1 .. 5]
      /\ stage[r] \in Stages /\ step[r] \in 1 .. 5
    BY <1>0 DEF RequestTypes
<1>2. CASE CheckRedis(r)
  <2>1. stage[r] = "cache" /\ stage'[r] \in {"limit", "row"}
      BY <1>1, <1>2 DEF CheckRedis, Stamp, Pass
  <2>2. Frame(r)
      BY <1>0, <1>2 DEF CheckRedis, Stamp, Pass, Frame, RequestTypes
  <2> QED
      BY <2>1, <2>2 DEF Ahead, Place
<1>3. CASE CheckPostgres(r)
  <2>1. stage[r] = "row" /\ stage'[r] \in {"warm", "limit", "refused"}
      BY <1>1, <1>3 DEF CheckPostgres, TryDevKey, Stamp, Refuse, Pass
  <2>2. Frame(r)
      BY <1>0, <1>3 DEF CheckPostgres, TryDevKey, Stamp, Refuse, Pass, Frame, RequestTypes
  <2> QED
      BY <2>1, <2>2 DEF Ahead, Place
<1>4. CASE Rehydrate(r)
    BY <1>1, <1>4 DEF Rehydrate, Pass, Frame, Ahead, Place
<1>5. CASE Limit(r)
  <2>1. stage[r] = "limit"
      BY <1>5 DEF Limit
  <2>2. CASE Dispatch(r) /\ charged' \in {charged, [charged EXCEPT ![r] = Append(@, Payer(r))]}
    <3>1. Frame(r) /\ stage'[r] = "handle" /\ step'[r] = step[r]
        BY <1>0, <2>2 DEF Dispatch, Frame, RequestTypes
    <3> QED
        BY <1>1, <2>1, <3>1 DEF Ahead, Place
  <2>3. CASE Answer(r)
    <3>1. Frame(r) /\ stage'[r] = "answered"
        BY <1>1, <2>3 DEF Answer, Frame
    <3> QED
        BY <2>1, <3>1 DEF Ahead, Place
  <2> QED
      BY <1>5, <2>2, <2>3 DEF Limit
<1> QED
    BY <1>2, <1>3, <1>4, <1>5

\* So does a handler that makes its next call, responds or raises.
LEMMA HandlerAhead ==
    ASSUME PipeInv, NEW r \in Requests, HandlerCall(r) \/ HandlerReturns(r) \/ RecordMetrics(r)
    PROVE  Frame(r) /\ Ahead(r)' < Ahead(r)
<1>0. RequestTypes
    BY Given
<1>1. /\ stage \in [Requests -> Stages] /\ step \in [Requests -> 1 .. 5]
      /\ stage[r] \in Stages /\ step[r] \in 1 .. 5
    BY <1>0 DEF RequestTypes
<1>2. /\ stage[r] \in {"handle", "record"}
      /\ stage[r] = "record" => Answer(r)
      /\ \/ Answer(r)
         \/ Respond(r)
         \/ step' = [step EXCEPT ![r] = @ + 1] /\ UNCHANGED <<stage, route, cred, user, charged>>
    BY DEF HandlerCall, Working, HandlerReturns, RecordMetrics
<1>3. CASE Answer(r)
  <2>1. Frame(r) /\ stage'[r] = "answered"
      BY <1>1, <1>3 DEF Answer, Frame
  <2> QED
      BY <1>1, <1>2, <2>1 DEF Ahead, Place
<1>4. CASE Respond(r) /\ ~Answer(r)
  <2>1. Frame(r) /\ stage'[r] = "record" /\ stage[r] = "handle"
      BY <1>0, <1>2, <1>4 DEF Respond, Frame, RequestTypes
  <2> QED
      BY <1>1, <2>1 DEF Ahead, Place
<1>5. CASE /\ ~Answer(r) /\ step' = [step EXCEPT ![r] = @ + 1]
           /\ UNCHANGED <<stage, route, cred, user, charged>>
  <2>1. Frame(r) /\ stage'[r] = stage[r] /\ step'[r] = step[r] + 1 /\ stage[r] = "handle"
      BY <1>1, <1>2, <1>5 DEF Frame
  <2> QED
      BY <1>1, <2>1 DEF Ahead, Place
<1> QED
    BY <1>2, <1>3, <1>4, <1>5

\* Whatever request r does, less is left of it.
LEMMA StepAdvances ==
    ASSUME PipeInv, PipeInv', NEW r \in Requests, Enter(r) \/ NoToken(r) \/ Proceed(r)
    PROVE  /\ StepsLeft(r)' < StepsLeft(r)
           /\ \A q \in Requests \ {r} : StepsLeft(q)' = StepsLeft(q)
<1>1. /\ stage \in [Requests -> Stages] /\ step \in [Requests -> 1 .. 5]
      /\ stage[r] \in Stages /\ step[r] \in 1 .. 5
      /\ CallInv(r)
    BY DEF PipeInv, TypeOK, RequestInv
<1>2. CASE Enter(r) \/ NoToken(r)
  <2>1. /\ stage[r] = "new" /\ calling' = calling /\ r \notin calling
        /\ stage'[r] \in {"limit", "cache", "refused"}
      BY <1>1, <1>2 DEF Enter, NoToken, Refuse, Pass, poolVars, CallInv, Serving
  <2>2. Frame(r)
      BY <1>2, Given DEF Enter, NoToken, Refuse, Pass, Frame, RequestTypes
  <2>3. Ahead(r)' < Ahead(r)
      BY <2>1 DEF Ahead, Place
  <2> QED
      BY <2>1, <2>2, <2>3, OverAdvances, OthersAhead
<1>3. CASE Connect(r)
  <2>1. /\ calling' = calling \union {r} /\ r \notin calling /\ UNCHANGED <<stage, step>>
        /\ Frame(r)
      BY <1>3 DEF Connect, AboutToCall, requestVars, Frame
  <2>2. Ahead(r)' = Ahead(r) /\ Ahead(r) \in 0 .. 11
      BY <2>1, AheadType DEF Ahead, Place
  <2>3. StepsLeft(r)' < StepsLeft(r)
      BY <2>1, <2>2 DEF StepsLeft
  <2> QED
      BY <2>1, <2>3, OthersAhead
<1>4. CASE CheckRedis(r) \/ CheckPostgres(r) \/ Rehydrate(r) \/ Limit(r)
  <2>1. calling' = calling \ {r}
      BY <1>4, OverEnds DEF CheckRedis, CheckPostgres, Rehydrate, Limit
  <2> QED
      BY <1>4, <2>1, MiddlewareAhead, OverAdvances, OthersAhead
<1>5. CASE HandlerCall(r) \/ HandlerReturns(r) \/ RecordMetrics(r)
  <2>1. calling' = calling \ {r}
      BY <1>5, OverEnds DEF HandlerCall, HandlerReturns, RecordMetrics, poolVars
  <2> QED
      BY <1>5, <2>1, HandlerAhead, OverAdvances, OthersAhead
<1> QED
    BY <1>2, <1>3, <1>4, <1>5 DEF Proceed

\* Every step of the gateway brings one request nearer to its answer, and a request has at
\* most 22 steps: no handler, failure or shortage of connections sends one back.
THEOREM EveryStepCounts ==
    Spec => /\ [](\A r \in Requests : StepsLeft(r) \in 0 .. 22)
            /\ RequestsAdvance
<1>1. PipeInv => \A r \in Requests : StepsLeft(r) \in 0 .. 22
    BY AheadType
<1>2. PipeInv /\ PipeInv' /\ [Next]_vars
         => [\E r \in Requests :
                /\ StepsLeft(r)' < StepsLeft(r)
                /\ \A q \in Requests \ {r} : StepsLeft(q)' = StepsLeft(q)]_vars
    BY StepAdvances DEF Next
<1> QED
    BY <1>1, <1>2, PipeInvariance, PTL DEF Spec, RequestsAdvance

\* Nobody waits for ever for want of a connection that is not in use, for pools of any
\* size: a request that waits for Postgres waits for a call that is under way there.
THEOREM WaitingEnds == Spec => []WaitsForCalls
<1>1. PipeInv => WaitsForCalls
  <2> SUFFICES ASSUME PipeInv, NEW r \in Requests, stage[r] \in Serving, r \notin calling,
                      ~(stage[r] = "handle" /\ ~Working(r)), ~Free(Store(r)),
                      Store(r) # "redis"
               PROVE  AboutToCall(r) /\ Store(r) = "pg" /\ \E q \in calling : Store(q) = "pg"
      BY DEF WaitsForCalls, AboutToCall
  <2>1. AboutToCall(r)
      BY DEF AboutToCall
  <2>2. Store(r) = "pg" /\ used["pg"] >= PgMax
    <3>1. Store(r) = "pg"
        BY DEF Free
    <3>2. used["pg"] \in Nat /\ ~(used["pg"] < PgMax)
        BY <3>1 DEF Free, PipeInv, TypeOK, Stores
    <3> QED
        BY <3>1, <3>2, PoolAssumption
  <2>3. Cardinality(Holders("pg")) > 0
      BY <2>2, PoolAssumption DEF PipeInv, TypeOK, UsedInv, Stores
  <2>4. Holders("pg") # {}
      BY <2>3, FS_EmptySet
  <2> QED
      BY <2>1, <2>2, <2>4 DEF Holders
<1> QED
    BY <1>1, PipeInvariance, PTL
=============================================================================
