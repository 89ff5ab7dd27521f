-------------------------- MODULE KeyCache_proofs --------------------------
(***************************************************************************)
(* Proofs about the key cache, for all keys, requests, admins, lifetimes,  *)
(* TTLs, stalls and failures that the assumptions of KeyCache allow.       *)
(***************************************************************************)
EXTENDS KeyCacheHistory, TLAPS

\* A key that does not exist has left no trace.
AbsentInv ==
    \A k \in Keys : row[k] = "absent" => cache[k] = 0 /\ snapshot[k] = 0

\* Only existing keys are registered or rehydrated.
TargetInv ==
    /\ \A a \in Admins : task[a] = "register" => row[target[a]] # "absent"
    /\ \A r \in Requests : lookup[r] = "rehydrate" => row[key[r]] # "absent"

\* The age of a key's death is counted from its end, and a request that is
\* about to rehydrate a dead key was answered before that.
StaleInv ==
    /\ \A k \in Keys : row[k] = "absent" \/ Valid(k) => stale[k] = 0
    /\ \A r \in Requests : lookup[r] = "rehydrate" => stale[key[r]] <= stall[r]

\* Entry t does not outlive the row of k by more than a rehydration.
Fits(k, t) ==
    life[k] = Forever \/ (t # Forever /\ (t <= life[k] \/ t <= RehydrateTtl))

\* While a key is valid, so it is for its entry and for its saved entry.
FitInv ==
    \A k \in Keys :
        Valid(k) /\ excuse[k] = {} => Fits(k, cache[k]) /\ Fits(k, snapshot[k])

CacheInv ==
    /\ HistoryTypeOK
    /\ AbsentInv
    /\ TargetInv
    /\ StaleInv
    /\ FitInv
    /\ StalenessBounded

----------------------------------------------------------------------------
(* Lifetimes.                                                              *)

\* Counting down keeps a lifetime a lifetime, and never revives it.
LEMMA OlderFacts ==
    \A t \in Lifespans :
        /\ Older(t) \in Lifespans
        /\ t = Forever => Older(t) = Forever
        /\ t # Forever => /\ t \in Nat
                          /\ Older(t) \in Nat
                          /\ Older(t) # Forever
                          /\ Older(t) = IF t = 0 THEN 0 ELSE t - 1
        /\ Lasts(Older(t)) => Lasts(t)
  BY ForeverAssumption DEF Lifespans, Older, Lasts

\* A new row and a new entry have a lifetime.
LEMMA NewLifeTyped ==
    \A t \in Int : NewLife(t) \in Lifespans /\ NewEntry(t) \in Lifespans
  BY DEF NewLife, NewEntry, Lifespans

----------------------------------------------------------------------------
(* Types.                                                                  *)

\* Before any key exists nothing can be stale.
LEMMA InitCacheInv == HInit => CacheInv
  BY ForeverAssumption, TtlAssumption, StallAssumption
     DEF HInit, Init, CacheInv, HistoryTypeOK, AbsentInv, TargetInv, StaleInv,
         FitInv, StalenessBounded, Valid, Dead, Lifespans, StaleCap, Grace

\* Each call of a handler, crash and second keeps every variable in its type.
LEMMA StepTyped == HistoryTypeOK /\ [HNext]_allVars => HistoryTypeOK'
<1> SUFFICES ASSUME HistoryTypeOK, [HNext]_allVars PROVE HistoryTypeOK'
    OBVIOUS
<1> USE DEF HistoryTypeOK
<1>1. ASSUME NEW r \in Requests, Authenticate(r), UNCHANGED historyVars
      PROVE  HistoryTypeOK'
  <2> USE <1>1 DEF historyVars, storeVars, adminVars
  <2>1. CASE RedisHit(r)
      BY <2>1 DEF RedisHit
  <2>2. CASE RedisMiss(r)
      BY <2>2 DEF RedisMiss
  <2>3. CASE PostgresAccepts(r)
      BY <2>3, StallAssumption DEF PostgresAccepts
  <2>4. CASE PostgresRefuses(r)
      BY <2>4 DEF PostgresRefuses
  <2>5. CASE Rehydrate(r)
    <3>1. RehydrateTtl \in Lifespans /\ 0 \in 0 .. MaxStall
        BY TtlAssumption, StallAssumption DEF Lifespans
    <3> QED
        BY <2>5, <3>1 DEF Rehydrate, EndLookup, SetEntry
  <2>6. CASE RehydrateFails(r)
      BY <2>6, StallAssumption DEF RehydrateFails, EndLookup
  <2> QED
      BY <2>1, <2>2, <2>3, <2>4, <2>5, <2>6 DEF Authenticate
<1>2. ASSUME NEW a \in Admins, InsertRow(a), UNCHANGED historyVars
      PROVE  HistoryTypeOK'
  <2> PICK k \in Keys, t \in Lifetimes :
         /\ row'    = [row EXCEPT ![k] = "active"]
         /\ life'   = [life EXCEPT ![k] = NewLife(t)]
         /\ ttl'    = [ttl EXCEPT ![k] = t]
         /\ target' = [target EXCEPT ![a] = k]
      BY <1>2 DEF InsertRow
  <2>1. t \in Int /\ NewLife(t) \in Lifespans
      BY LifetimesAssumption, NewLifeTyped
  <2>2. task' \in [Admins -> {"idle", "register", "delete"}]
      BY <1>2 DEF InsertRow
  <2> QED
      BY <1>2, <2>1, <2>2 DEF InsertRow, historyVars, authVars
<1>3. ASSUME NEW a \in Admins, HRegister(a) PROVE HistoryTypeOK'
  <2>1. NewEntry(ttl[target[a]]) \in Lifespans
      BY NewLifeTyped
  <2>2. cache' \in [Keys -> Lifespans] /\ issued' \subseteq Keys
      BY <1>3, <2>1 DEF HRegister, Register, SetEntry
  <2>3. excuse' \in [Keys -> SUBSET Excuses]
      BY <1>3 DEF HRegister, Blame, Excuses
  <2> QED
      BY <1>3, <2>2, <2>3 DEF HRegister, Register, authVars
<1>4. ASSUME NEW a \in Admins, RegisterFails(a) \/ DeleteEntry(a), UNCHANGED historyVars
      PROVE  HistoryTypeOK'
    BY <1>4 DEF RegisterFails, DeleteEntry, SetEntry, Lifespans, historyVars,
       storeVars, authVars
<1>5. ASSUME NEW a \in Admins, HUpdateRow(a) PROVE HistoryTypeOK'
  <2> PICK k \in Keys :
         row' = [row EXCEPT ![k] = "revoked"] /\ target' = [target EXCEPT ![a] = k]
      BY <1>5 DEF HUpdateRow, UpdateRow
  <2>1. task' \in [Admins -> {"idle", "register", "delete"}]
      BY <1>5 DEF HUpdateRow, UpdateRow
  <2>2. excuse' \in [Keys -> SUBSET Excuses]
      BY <1>5 DEF HUpdateRow, Blame, Excuses
  <2> QED
      BY <1>5, <2>1, <2>2 DEF HUpdateRow, UpdateRow, authVars
<1>6. ASSUME NEW a \in Admins, HDeleteFails(a) PROVE HistoryTypeOK'
    BY <1>6 DEF HDeleteFails, DeleteFails, Blame, Excuses, storeVars, authVars
<1>7. ASSUME SaveSnapshot, UNCHANGED historyVars PROVE HistoryTypeOK'
    BY <1>7 DEF SaveSnapshot, historyVars, authVars, adminVars
<1>8. ASSUME HRedisCrash PROVE HistoryTypeOK'
    BY <1>8 DEF HRedisCrash, RedisCrash, Excuses, authVars, adminVars
<1>9. ASSUME HTick PROVE HistoryTypeOK'
  <2>1. /\ life' \in [Keys -> Lifespans]
        /\ cache' \in [Keys -> Lifespans]
        /\ snapshot' \in [Keys -> Lifespans]
      BY <1>9, OlderFacts DEF HTick, Tick
  <2>2. stall' \in [Requests -> 0 .. MaxStall]
      BY <1>9, StallAssumption DEF HTick, Tick
  <2>3. stale' \in [Keys -> 0 .. StaleCap]
      BY <1>9, TtlAssumption, StallAssumption DEF HTick, StaleCap, Grace
  <2> QED
      BY <1>9, <2>1, <2>2, <2>3 DEF HTick, Tick, adminVars
<1>10. CASE UNCHANGED allVars
    BY <1>10 DEF allVars
<1> QED
    BY <1>1, <1>2, <1>3, <1>4, <1>5, <1>6, <1>7, <1>8, <1>9, <1>10 DEF HNext

\* Every key and request keeps its type; no lifetime is ever negative.
THEOREM TypeCorrect == HSpec => []HistoryTypeOK
<1>1. HInit => HistoryTypeOK
    BY InitCacheInv DEF CacheInv
<1> QED
    BY <1>1, StepTyped, PTL DEF HSpec

----------------------------------------------------------------------------
(* The inductive step, by kind of action.                                  *)

\* Authentication touches the cache only to rehydrate, with a short lifetime.
LEMMA AuthenticateStep ==
    ASSUME CacheInv, CacheInv => HistoryTypeOK',
           NEW r \in Requests, Authenticate(r), UNCHANGED historyVars
    PROVE  CacheInv'
<1> USE DEF historyVars, storeVars, adminVars
<1>0. HistoryTypeOK'
    OBVIOUS
<1>1. /\ UNCHANGED <<row, life, snapshot, issued, ttl, task, target, stale, excuse>>
    BY DEF Authenticate, RedisHit, RedisMiss, PostgresAccepts, PostgresRefuses,
       Rehydrate, RehydrateFails, EndLookup
<1>2. CASE UNCHANGED cache
  <2>1. AbsentInv' /\ FitInv' /\ StalenessBounded'
      BY <1>1, <1>2 DEF CacheInv, AbsentInv, FitInv, Fits, StalenessBounded, Valid,
         Dead, BeingDeleted, WithinGrace
  <2>2. ASSUME NEW q \in Requests, lookup'[q] = "rehydrate"
        PROVE  row[key'[q]] # "absent" /\ stale[key'[q]] <= stall'[q]
    <3>1. CASE lookup[q] = "rehydrate" /\ key'[q] = key[q] /\ stall'[q] = stall[q]
        BY <3>1 DEF CacheInv, TargetInv, StaleInv
    <3>2. CASE q = r /\ PostgresAccepts(r)
      <4>1. Valid(key[r]) /\ key'[r] = key[r] /\ stall'[r] = 0
          BY <3>2 DEF PostgresAccepts, CacheInv, HistoryTypeOK
      <4>2. stale[key[r]] = 0
          BY <4>1 DEF CacheInv, HistoryTypeOK, StaleInv
      <4> QED
          BY <3>2, <4>1, <4>2 DEF Valid
    <3> QED
        BY <2>2, <3>1, <3>2 DEF Authenticate, RedisHit, RedisMiss, PostgresAccepts,
           PostgresRefuses, Rehydrate, RehydrateFails, EndLookup, CacheInv,
           HistoryTypeOK
  <2>3. TargetInv' /\ StaleInv'
      BY <1>1, <2>2 DEF CacheInv, TargetInv, StaleInv, Valid
  <2> QED
      BY <1>0, <2>1, <2>3 DEF CacheInv
<1>3. CASE Rehydrate(r)
  <2> DEFINE k == key[r]
  <2>1. /\ k \in Keys
        /\ cache' = [cache EXCEPT ![k] = RehydrateTtl]
        /\ row[k] # "absent"
        /\ stale[k] <= stall[r] /\ stall[r] \in 0 .. MaxStall /\ stale[k] \in Nat
      BY <1>3 DEF Rehydrate, EndLookup, SetEntry, CacheInv, HistoryTypeOK,
         TargetInv, StaleInv
  <2>2. AbsentInv'
      BY <1>1, <2>1 DEF CacheInv, AbsentInv, HistoryTypeOK
  <2>3. TargetInv' /\ StaleInv'
      BY <1>1, <1>3 DEF Rehydrate, EndLookup, CacheInv, HistoryTypeOK, TargetInv,
         StaleInv, Valid
  <2>4. RehydrateTtl # Forever /\ RehydrateTtl <= RehydrateTtl
      BY TtlAssumption, ForeverAssumption
  <2>5. ASSUME NEW j \in Keys, Valid(j)', excuse'[j] = {}
        PROVE  Fits(j, cache[j])' /\ Fits(j, snapshot[j])'
    <3>1. Fits(j, cache[j]) /\ Fits(j, snapshot[j])
        BY <1>1, <2>5 DEF CacheInv, FitInv, Valid
    <3>2. Fits(j, RehydrateTtl)
        BY <2>4 DEF Fits
    <3>3. cache'[j] = cache[j] \/ cache'[j] = RehydrateTtl
        BY <2>1 DEF CacheInv, HistoryTypeOK
    <3> QED
        BY <1>1, <3>1, <3>2, <3>3 DEF Fits
  <2>6. WithinGrace(k, RehydrateTtl)
    <3>1. stale[k] + RehydrateTtl <= Grace
        BY <2>1, TtlAssumption, StallAssumption DEF Grace
    <3> QED
        BY <2>4, <3>1 DEF WithinGrace
  <2>7. StalenessBounded'
      BY <1>1, <2>1, <2>6 DEF CacheInv, HistoryTypeOK, StalenessBounded, Dead, Valid,
         BeingDeleted, WithinGrace
  <2> QED
      BY <1>0, <2>2, <2>3, <2>5, <2>7 DEF CacheInv, FitInv
<1> QED
    BY <1>2, <1>3 DEF Authenticate, RedisHit, RedisMiss, PostgresAccepts,
       PostgresRefuses, RehydrateFails

\* A new key has no entry yet.
LEMMA InsertStep ==
    ASSUME CacheInv, CacheInv => HistoryTypeOK',
           NEW a \in Admins, InsertRow(a), UNCHANGED historyVars
    PROVE  CacheInv'
<1> PICK k \in Keys, t \in Lifetimes :
        /\ row[k] = "absent"
        /\ row'    = [row EXCEPT ![k] = "active"]
        /\ life'   = [life EXCEPT ![k] = NewLife(t)]
        /\ target' = [target EXCEPT ![a] = k]
    BY DEF InsertRow
<1>0. HistoryTypeOK'
    OBVIOUS
<1>1. /\ UNCHANGED <<cache, snapshot, issued, lookup, key, stall, stale, excuse>>
      /\ task[a] = "idle"
      /\ task' = [task EXCEPT ![a] = "register"] \/ task' = task
    BY DEF InsertRow, authVars, historyVars
<1>2. cache[k] = 0 /\ snapshot[k] = 0 /\ stale[k] = 0
    BY DEF CacheInv, AbsentInv, StaleInv
<1>3. AbsentInv' /\ TargetInv' /\ StaleInv'
    BY <1>1, <1>2 DEF CacheInv, HistoryTypeOK, AbsentInv, TargetInv, StaleInv, Valid
<1>4. FitInv'
  <2>1. 0 # Forever /\ 0 <= RehydrateTtl
      BY TtlAssumption, ForeverAssumption
  <2> SUFFICES ASSUME NEW j \in Keys, Valid(j)', excuse'[j] = {}
               PROVE  Fits(j, cache[j])' /\ Fits(j, snapshot[j])'
      BY DEF FitInv
  <2>2. CASE j = k
      BY <1>1, <1>2, <2>1, <2>2 DEF Fits
  <2>3. CASE j # k
      BY <1>1, <2>3 DEF CacheInv, HistoryTypeOK, FitInv, Fits, Valid
  <2> QED
      BY <2>2, <2>3
<1>5. StalenessBounded'
  <2> SUFFICES ASSUME NEW j \in Keys, Dead(j)', ~BeingDeleted(j)', excuse'[j] = {}
               PROVE  WithinGrace(j, cache[j])'
      BY DEF StalenessBounded
  <2>1. CASE j = k
      BY <1>1, <1>2, <2>1 DEF WithinGrace
  <2>2. CASE j # k
    <3>1. ~BeingDeleted(j)
        BY <1>1 DEF BeingDeleted, CacheInv, HistoryTypeOK
    <3>2. Dead(j)
        BY <1>1, <2>2 DEF Dead, Valid, CacheInv, HistoryTypeOK
    <3> QED
        BY <1>1, <3>1, <3>2 DEF CacheInv, StalenessBounded, WithinGrace
  <2> QED
      BY <2>1, <2>2
<1> QED
    BY <1>0, <1>3, <1>4, <1>5 DEF CacheInv

\* A registration either respects the end of the key or is noted as late.
LEMMA RegisterStep ==
    ASSUME CacheInv, CacheInv => HistoryTypeOK', NEW a \in Admins, HRegister(a)
    PROVE  CacheInv'
<1> DEFINE k == target[a]
           e == NewEntry(ttl[target[a]])
<1>0. HistoryTypeOK' /\ k \in Keys
    BY DEF CacheInv, HistoryTypeOK
<1>1. /\ cache' = [cache EXCEPT ![k] = e]
      /\ task[a] = "register"
      /\ task' = [task EXCEPT ![a] = "idle"]
      /\ UNCHANGED <<row, life, snapshot, target, lookup, key, stall, stale>>
      /\ IF Covered(k, e) THEN excuse' = excuse
         ELSE excuse' = [excuse EXCEPT ![k] = excuse[k] \union {"late_register"}]
    BY DEF HRegister, Register, SetEntry, Blame, authVars
<1>2. row[k] # "absent"
    BY <1>1 DEF CacheInv, TargetInv
<1>3. AbsentInv' /\ TargetInv' /\ StaleInv'
    BY <1>0, <1>1, <1>2 DEF CacheInv, HistoryTypeOK, AbsentInv, TargetInv, StaleInv,
       Valid
<1>4. ASSUME NEW j \in Keys, excuse'[j] = {}
      PROVE  excuse[j] = {} /\ (j = k => Covered(k, e))
  <2>1. excuse \in [Keys -> SUBSET Excuses]
      BY DEF CacheInv, HistoryTypeOK
  <2>2. CASE Covered(k, e)
      BY <1>1, <1>4, <2>2
  <2>3. CASE ~Covered(k, e)
    <3>1. excuse' = [excuse EXCEPT ![k] = excuse[k] \union {"late_register"}]
        BY <1>1, <2>3
    <3>2. excuse'[k] = excuse[k] \union {"late_register"}
        BY <1>0, <2>1, <3>1
    <3>3. j # k
        BY <1>4, <3>2
    <3> QED
        BY <1>0, <1>4, <2>1, <3>1, <3>3
  <2> QED
      BY <2>2, <2>3
<1>5. FitInv'
  <2> SUFFICES ASSUME NEW j \in Keys, Valid(j)', excuse'[j] = {}
               PROVE  Fits(j, cache[j])' /\ Fits(j, snapshot[j])'
      BY DEF FitInv
  <2>1. Fits(j, cache[j]) /\ Fits(j, snapshot[j])
      BY <1>1, <1>4 DEF CacheInv, FitInv, Valid
  <2>2. CASE j = k
    <3>1. Fits(k, e)
        BY <1>4, <2>2 DEF Covered, Fits
    <3>2. cache'[k] = e
        BY <1>0, <1>1 DEF CacheInv, HistoryTypeOK
    <3> QED
        BY <1>1, <2>1, <2>2, <3>1, <3>2 DEF Fits
  <2>3. CASE j # k
      BY <1>1, <2>1, <2>3 DEF CacheInv, HistoryTypeOK, Fits
  <2> QED
      BY <2>2, <2>3
<1>6. StalenessBounded'
  <2> SUFFICES ASSUME NEW j \in Keys, Dead(j)', ~BeingDeleted(j)', excuse'[j] = {}
               PROVE  WithinGrace(j, cache[j])'
      BY DEF StalenessBounded
  <2>1. Dead(j) /\ ~BeingDeleted(j) /\ excuse[j] = {}
      BY <1>1, <1>4 DEF Dead, Valid, BeingDeleted, CacheInv, HistoryTypeOK
  <2>2. j # k
      BY <1>4, <2>1 DEF Covered, Dead
  <2> QED
      BY <1>1, <2>1, <2>2
         DEF CacheInv, HistoryTypeOK, StalenessBounded, WithinGrace
<1> QED
    BY <1>0, <1>3, <1>5, <1>6 DEF CacheInv

\* A revocation is followed by a delete, or noted.
LEMMA UpdateStep ==
    ASSUME CacheInv, CacheInv => HistoryTypeOK', NEW a \in Admins, HUpdateRow(a)
    PROVE  CacheInv'
<1> PICK k \in Keys :
        /\ row[k] = "active"
        /\ row'    = [row EXCEPT ![k] = "revoked"]
        /\ target' = [target EXCEPT ![a] = k]
    BY DEF HUpdateRow, UpdateRow
<1>0. HistoryTypeOK'
    OBVIOUS
<1>1. /\ UNCHANGED <<life, cache, snapshot, issued, lookup, key, stall, stale>>
      /\ task[a] = "idle"
      /\ task' = [task EXCEPT ![a] = "delete"] \/ task' = task
      /\ target'[a] = k
      /\ IF task'[a] = "delete" THEN excuse' = excuse
         ELSE excuse' = [excuse EXCEPT ![k] = excuse[k] \union {"delete_lost"}]
    BY DEF HUpdateRow, UpdateRow, Blame, authVars, CacheInv, HistoryTypeOK
<1>2. \A j \in Keys : excuse'[j] = {} => excuse[j] = {}
    BY <1>1 DEF CacheInv, HistoryTypeOK
<1>3. AbsentInv' /\ TargetInv' /\ StaleInv'
    BY <1>1 DEF CacheInv, HistoryTypeOK, AbsentInv, TargetInv, StaleInv, Valid
<1>4. FitInv'
    BY <1>1, <1>2 DEF CacheInv, HistoryTypeOK, FitInv, Fits, Valid
<1>5. StalenessBounded'
  <2> SUFFICES ASSUME NEW j \in Keys, Dead(j)', ~BeingDeleted(j)', excuse'[j] = {}
               PROVE  WithinGrace(j, cache[j])'
      BY DEF StalenessBounded
  <2>1. CASE j = k
    <3>1. ASSUME task'[a] # "delete" PROVE FALSE
      <4>1. excuse' = [excuse EXCEPT ![k] = excuse[k] \union {"delete_lost"}]
          BY <1>1, <3>1
      <4>2. excuse'[k] = excuse[k] \union {"delete_lost"}
          BY <4>1 DEF CacheInv, HistoryTypeOK
      <4> QED
          BY <2>1, <4>2
    <3> QED
        BY <1>1, <2>1, <3>1 DEF BeingDeleted
  <2>2. CASE j # k
    <3>1. ~BeingDeleted(j)
        BY <1>1 DEF BeingDeleted, CacheInv, HistoryTypeOK
    <3>2. Dead(j)
        BY <1>1, <2>2 DEF Dead, Valid, CacheInv, HistoryTypeOK
    <3> QED
        BY <1>1, <1>2, <3>1, <3>2 DEF CacheInv, StalenessBounded, WithinGrace
  <2> QED
      BY <2>1, <2>2
<1> QED
    BY <1>0, <1>3, <1>4, <1>5 DEF CacheInv

\* Ending a handler, with or without its call, hides nothing from the invariant:
\* a delete empties the entry, a failed one is noted.
LEMMA EndStep ==
    ASSUME CacheInv, CacheInv => HistoryTypeOK', NEW a \in Admins,
           \/ (RegisterFails(a) \/ DeleteEntry(a)) /\ UNCHANGED historyVars
           \/ HDeleteFails(a)
    PROVE  CacheInv'
<1> DEFINE k == target[a]
<1>0. HistoryTypeOK' /\ k \in Keys
    BY DEF CacheInv, HistoryTypeOK
<1>1. /\ task[a] \in {"register", "delete"}
      /\ task' = [task EXCEPT ![a] = "idle"]
      /\ UNCHANGED <<row, life, snapshot, target, lookup, key, stall, stale>>
      /\ cache' = cache \/ cache' = [cache EXCEPT ![k] = 0]
      /\ excuse' = excuse \/ excuse' = [excuse EXCEPT ![k] = excuse[k] \union {"delete_lost"}]
      /\ task[a] = "delete" => \/ cache' = [cache EXCEPT ![k] = 0]
                               \/ excuse' = [excuse EXCEPT ![k] = excuse[k] \union {"delete_lost"}]
    BY DEF RegisterFails, DeleteEntry, HDeleteFails, DeleteFails, SetEntry, Blame,
       storeVars, authVars, historyVars
<1>2. \A j \in Keys : /\ excuse'[j] = {} => excuse[j] = {}
                      /\ cache'[j] = cache[j] \/ cache'[j] = 0
    BY <1>0, <1>1 DEF CacheInv, HistoryTypeOK
<1>3. AbsentInv' /\ TargetInv' /\ StaleInv'
    BY <1>1, <1>2 DEF CacheInv, HistoryTypeOK, AbsentInv, TargetInv, StaleInv, Valid
<1>4. FitInv'
  <2>1. 0 # Forever /\ 0 <= RehydrateTtl
      BY TtlAssumption, ForeverAssumption
  <2> QED
      BY <1>1, <1>2, <2>1 DEF CacheInv, FitInv, Fits, Valid
<1>5. StalenessBounded'
  <2> SUFFICES ASSUME NEW j \in Keys, Dead(j)', ~BeingDeleted(j)', excuse'[j] = {}
               PROVE  WithinGrace(j, cache[j])'
      BY DEF StalenessBounded
  <2>1. Dead(j) /\ excuse[j] = {}
      BY <1>1, <1>2 DEF Dead, Valid
  <2>2. CASE cache'[j] = 0
      BY <2>2 DEF WithinGrace
  <2>3. CASE cache'[j] # 0
    <3>1. ~(task[a] = "delete" /\ j = k)
      <4> SUFFICES ASSUME task[a] = "delete", j = k PROVE FALSE
          OBVIOUS
      <4>1. cache' # [cache EXCEPT ![k] = 0]
          BY <1>0, <2>3 DEF CacheInv, HistoryTypeOK
      <4>2. excuse' = [excuse EXCEPT ![k] = excuse[k] \union {"delete_lost"}]
          BY <1>1, <4>1
      <4>3. excuse'[k] = excuse[k] \union {"delete_lost"}
          BY <1>0, <4>2 DEF CacheInv, HistoryTypeOK
      <4> QED
          BY <4>3
    <3>2. ~BeingDeleted(j)
        BY <1>1, <3>1 DEF BeingDeleted, CacheInv, HistoryTypeOK
    <3>3. WithinGrace(j, cache[j]) /\ cache'[j] = cache[j]
        BY <1>2, <2>1, <2>3, <3>2 DEF CacheInv, StalenessBounded
    <3> QED
        BY <1>1, <3>3 DEF WithinGrace
  <2> QED
      BY <2>2, <2>3
<1> QED
    BY <1>0, <1>3, <1>4, <1>5 DEF CacheInv

\* A crash revives only entries that fit a valid key; others are noted.
LEMMA CrashStep ==
    ASSUME CacheInv, CacheInv => HistoryTypeOK', HRedisCrash
    PROVE  CacheInv'
<1>0. HistoryTypeOK'
    OBVIOUS
<1>1. /\ cache' = snapshot
      /\ UNCHANGED <<row, life, snapshot, target, task, lookup, key, stall, stale>>
      /\ excuse' = [k \in Keys |->
                       IF Dead(k) /\ Lasts(snapshot[k])
                         THEN excuse[k] \union {"rollback"} ELSE excuse[k]]
    BY DEF HRedisCrash, RedisCrash, authVars, adminVars
<1>2. AbsentInv' /\ TargetInv' /\ StaleInv'
    BY <1>1 DEF CacheInv, AbsentInv, TargetInv, StaleInv, Valid
<1>3. ASSUME NEW j \in Keys, excuse'[j] = {}
      PROVE  excuse[j] = {} /\ (Dead(j) => snapshot[j] = 0)
  <2>1. CASE Dead(j) /\ Lasts(snapshot[j])
    <3>1. excuse'[j] = excuse[j] \union {"rollback"}
        BY <1>1, <2>1
    <3> QED
        BY <1>3, <3>1
  <2>2. CASE ~(Dead(j) /\ Lasts(snapshot[j]))
      BY <1>1, <1>3, <2>2 DEF Lasts
  <2> QED
      BY <2>1, <2>2
<1>4. FitInv'
    BY <1>1, <1>3 DEF CacheInv, FitInv, Fits, Valid
<1>5. StalenessBounded'
    BY <1>1, <1>3 DEF StalenessBounded, Dead, Valid, WithinGrace
<1> QED
    BY <1>0, <1>2, <1>4, <1>5 DEF CacheInv

\* One second later an entry has one second less to outlive its key.
LEMMA TickStep ==
    ASSUME CacheInv, CacheInv => HistoryTypeOK', HTick
    PROVE  CacheInv'
<1> USE TtlAssumption, StallAssumption, ForeverAssumption
<1>0. HistoryTypeOK'
    OBVIOUS
<1>1. /\ UNCHANGED <<row, target, task, lookup, key, excuse>>
      /\ \A k \in Keys : /\ life'[k] = Older(life[k])
                         /\ cache'[k] = Older(cache[k])
                         /\ snapshot'[k] = Older(snapshot[k])
                         /\ life[k] \in Lifespans
                         /\ cache[k] \in Lifespans
                         /\ snapshot[k] \in Lifespans
                         /\ stale[k] \in 0 .. StaleCap
                         /\ stale'[k] =
                              IF row[k] = "absent" \/ (row[k] = "active" /\ Lasts(life'[k]))
                                THEN 0
                              ELSE IF stale[k] < StaleCap THEN stale[k] + 1
                              ELSE StaleCap
      /\ \A r \in Requests : lookup[r] = "rehydrate" => stall'[r] = stall[r] + 1
    BY DEF HTick, Tick, adminVars, CacheInv, HistoryTypeOK
<1>2. AbsentInv'
    BY <1>1 DEF CacheInv, AbsentInv, Older
<1>3. \A k \in Keys : Valid(k)' => Valid(k)
    BY <1>1, OlderFacts DEF Valid
<1>4. TargetInv'
    BY <1>1 DEF CacheInv, TargetInv
<1>5. StaleInv'
  <2>1. \A k \in Keys : (row[k] = "absent" \/ Valid(k))' => stale'[k] = 0
      BY <1>1 DEF Valid
  <2>2. \A k \in Keys : stale'[k] \in Int /\ stale'[k] <= stale[k] + 1
      BY <1>1 DEF StaleCap, Grace
  <2>3. ASSUME NEW r \in Requests, lookup'[r] = "rehydrate"
        PROVE  stale'[key'[r]] <= stall'[r]
    <3>1. stale[key[r]] <= stall[r] /\ stall[r] \in Int /\ stall'[r] = stall[r] + 1
        BY <1>1, <2>3 DEF CacheInv, StaleInv, HistoryTypeOK
    <3>2. key[r] \in Keys /\ key' = key /\ stale[key[r]] \in Int
        BY <1>1 DEF CacheInv, HistoryTypeOK
    <3> QED
        BY <2>2, <3>1, <3>2
  <2> QED
      BY <1>1, <2>1, <2>3 DEF StaleInv
<1>6. FitInv'
  <2>1. ASSUME NEW k \in Keys, Valid(k)', NEW t \in Lifespans, Fits(k, t)
        PROVE  life'[k] = Forever \/ (Older(t) # Forever /\ (Older(t) <= life'[k] \/ Older(t) <= RehydrateTtl))
    <3>1. life[k] \in Lifespans /\ life'[k] = Older(life[k])
        BY <1>1
    <3>2. CASE life[k] = Forever
        BY <3>1, <3>2, OlderFacts
    <3>3. CASE life[k] # Forever
      <4>1. t # Forever /\ (t <= life[k] \/ t <= RehydrateTtl)
          BY <2>1, <3>3 DEF Fits
      <4>2. t \in Nat /\ Older(t) \in Nat /\ Older(t) # Forever
            /\ Older(t) = IF t = 0 THEN 0 ELSE t - 1
          BY <4>1, OlderFacts
      <4>3. life[k] \in Nat /\ life'[k] \in Nat
            /\ life'[k] = IF life[k] = 0 THEN 0 ELSE life[k] - 1
          BY <3>1, <3>3, OlderFacts
      <4> QED
          BY <4>1, <4>2, <4>3
    <3> QED
        BY <3>2, <3>3
  <2>2. ASSUME NEW k \in Keys, Valid(k)', excuse'[k] = {}
        PROVE  Fits(k, cache[k])' /\ Fits(k, snapshot[k])'
    <3>1. Fits(k, cache[k]) /\ Fits(k, snapshot[k])
        BY <1>1, <1>3, <2>2 DEF CacheInv, FitInv
    <3> QED
        BY <1>1, <2>1, <2>2, <3>1 DEF Fits
  <2> QED
      BY <2>2 DEF FitInv
<1>7. StalenessBounded'
  <2> SUFFICES ASSUME NEW k \in Keys, Dead(k)', ~BeingDeleted(k)', excuse'[k] = {}
               PROVE  WithinGrace(k, cache[k])'
      BY DEF StalenessBounded
  <2> DEFINE t == cache[k]
  <2>1. ~BeingDeleted(k) /\ excuse[k] = {} /\ row[k] # "absent"
      BY <1>1 DEF BeingDeleted, Dead
  <2>2. t \in Lifespans /\ cache'[k] = Older(t)
      BY <1>1
  <2>3. CASE Dead(k)
    <3>1. WithinGrace(k, t)
        BY <2>1, <2>3 DEF CacheInv, StalenessBounded
    <3>2. CASE t = 0
        BY <2>2, <3>2 DEF Older, WithinGrace
    <3>3. CASE t # 0
      <4>1. t # Forever /\ stale[k] + t <= Grace
          BY <3>1, <3>3 DEF WithinGrace
      <4>2. t \in Nat /\ Older(t) = t - 1 /\ Older(t) # Forever
          BY <2>2, <3>3, <4>1, OlderFacts
      <4>3. stale'[k] <= stale[k] + 1 /\ stale[k] \in Int /\ stale'[k] \in Int
          BY <1>1 DEF StaleCap, Grace
      <4>4. stale'[k] + (t - 1) <= Grace
          BY <3>3, <4>1, <4>2, <4>3 DEF Grace
      <4> QED
          BY <2>2, <4>2, <4>4 DEF WithinGrace
    <3> QED
        BY <3>2, <3>3
  <2>4. CASE ~Dead(k)
    <3>1. Valid(k) /\ row[k] = "active" /\ ~Lasts(life'[k])
        BY <1>1, <2>1, <2>4 DEF Dead, Valid
    <3>2. Fits(k, t) /\ stale[k] = 0
        BY <2>1, <3>1 DEF CacheInv, FitInv, StaleInv
    <3>3. life[k] # Forever /\ life[k] \in Nat /\ life[k] = 1
      <4>1. life'[k] = Older(life[k]) /\ life[k] \in Lifespans
          BY <1>1
      <4>2. life[k] # Forever /\ life'[k] = 0
          BY <3>1, <4>1, OlderFacts DEF Lasts
      <4>3. life[k] # 0
          BY <3>1, <4>2 DEF Valid, Lasts
      <4>4. life[k] \in Nat /\ 0 = IF life[k] = 0 THEN 0 ELSE life[k] - 1
          BY <4>1, <4>2, OlderFacts
      <4> QED
          BY <4>2, <4>3, <4>4
    <3>4. t # Forever /\ (t <= 1 \/ t <= RehydrateTtl)
        BY <3>2, <3>3 DEF Fits
    <3>5. t \in Nat /\ Older(t) # Forever /\ Older(t) = IF t = 0 THEN 0 ELSE t - 1
        BY <2>2, <3>4, OlderFacts
    <3>6. stale'[k] = 1
        BY <1>1, <2>1, <3>1, <3>2 DEF StaleCap, Grace
    <3>7. Older(t) = 0 \/ stale'[k] + Older(t) <= Grace
        BY <3>4, <3>5, <3>6 DEF Grace
    <3> QED
        BY <2>2, <3>5, <3>7 DEF WithinGrace
  <2> QED
      BY <2>3, <2>4
<1> QED
    BY <1>0, <1>2, <1>4, <1>5, <1>6, <1>7 DEF CacheInv

----------------------------------------------------------------------------
(* The invariant.                                                          *)

\* Every step of requests, admins, Redis and the clock preserves the invariant.
LEMMA CacheStep == CacheInv /\ [HNext]_allVars => CacheInv'
<1> SUFFICES ASSUME CacheInv, [HNext]_allVars PROVE CacheInv'
    OBVIOUS
<1>0. HistoryTypeOK'
    BY StepTyped DEF CacheInv
<1>1. CASE \E r \in Requests : Authenticate(r) /\ UNCHANGED historyVars
    BY <1>0, <1>1, AuthenticateStep
<1>2. CASE \E a \in Admins : InsertRow(a) /\ UNCHANGED historyVars
    BY <1>0, <1>2, InsertStep
<1>3. CASE \E a \in Admins : HRegister(a)
    BY <1>0, <1>3, RegisterStep
<1>4. CASE \E a \in Admins : HUpdateRow(a)
    BY <1>0, <1>4, UpdateStep
<1>5. CASE \E a \in Admins :
              \/ (RegisterFails(a) \/ DeleteEntry(a)) /\ UNCHANGED historyVars
              \/ HDeleteFails(a)
    BY <1>0, <1>5, EndStep
<1>6. CASE SaveSnapshot /\ UNCHANGED historyVars
  <2>1. /\ snapshot' = cache
        /\ UNCHANGED <<row, life, cache, target, task, lookup, key, stall, stale, excuse>>
      BY <1>6 DEF SaveSnapshot, authVars, adminVars, historyVars
  <2> QED
      BY <1>0, <2>1 DEF CacheInv, AbsentInv, TargetInv, StaleInv, FitInv, Fits, Valid,
         StalenessBounded, Dead, BeingDeleted, WithinGrace
<1>7. CASE HRedisCrash
    BY <1>0, <1>7, CrashStep
<1>8. CASE HTick
    BY <1>0, <1>8, TickStep
<1>9. CASE UNCHANGED allVars
    BY <1>0, <1>9 DEF allVars, CacheInv, AbsentInv, TargetInv, StaleInv, FitInv, Fits,
       Valid, StalenessBounded, Dead, BeingDeleted, WithinGrace
<1> QED
    BY <1>1, <1>2, <1>3, <1>4, <1>5, <1>6, <1>7, <1>8, <1>9 DEF HNext

\* A key that was revoked or has expired is served for at most the rehydration
\* TTL and one stall, for any number of racing requests and admins.
THEOREM StaleKeysBounded == HSpec => []StalenessBounded
<1>1. CacheInv => StalenessBounded
    BY DEF CacheInv
<1> QED
    BY <1>1, InitCacheInv, CacheStep, PTL DEF HSpec
=============================================================================
