--------------------------- MODULE KeyCacheHistory ---------------------------
(***************************************************************************)
(* KeyCache with an observer that dates the end of each key and notes the  *)
(* failures after which the cache may keep it.                             *)
(***************************************************************************)
EXTENDS KeyCache

VARIABLES
    stale,   \* stale[k]: seconds since the key stopped being valid, up to StaleCap
    excuse   \* excuse[k]: what may have left a dead key in the cache for longer

historyVars == <<stale, excuse>>
allVars     == <<row, life, cache, snapshot, issued, lookup, key, stall,
                 task, target, ttl, stale, excuse>>

Excuses == {"delete_lost", "late_register", "rollback"}

\* The longest that an entry may serve a key that is no longer valid.
Grace    == RehydrateTtl + MaxStall
StaleCap == Grace + 1

Dead(k) == row[k] # "absent" /\ ~Valid(k)

\* An entry of lifetime t does not outlive the row.
Covered(k, t) ==
    /\ Valid(k)
    /\ life[k] = Forever \/ (t # Forever /\ t <= life[k])

Blame(k, why) == excuse' = [excuse EXCEPT ![k] = excuse[k] \union {why}]

HInit == Init /\ stale = [k \in Keys |-> 0] /\ excuse = [k \in Keys |-> {}]

HRegister(a) ==
    /\ Register(a)
    /\ IF Covered(target[a], NewEntry(ttl[target[a]]))
         THEN UNCHANGED excuse
         ELSE Blame(target[a], "late_register")
    /\ UNCHANGED stale

\* An update whose reply is lost is never followed by a delete.
HUpdateRow(a) ==
    /\ UpdateRow(a)
    /\ IF task'[a] = "delete" THEN UNCHANGED excuse
                              ELSE Blame(target'[a], "delete_lost")
    /\ UNCHANGED stale

HDeleteFails(a) ==
    /\ DeleteFails(a)
    /\ Blame(target[a], "delete_lost")
    /\ UNCHANGED stale

HRedisCrash ==
    /\ RedisCrash
    /\ excuse' = [k \in Keys |->
                    IF Dead(k) /\ Lasts(snapshot[k])
                      THEN excuse[k] \union {"rollback"} ELSE excuse[k]]
    /\ UNCHANGED stale

\* Seconds count from the one in which the key dies.
HTick ==
    /\ Tick
    /\ stale' = [k \in Keys |->
                   IF row[k] = "absent" \/ (row[k] = "active" /\ Lasts(life'[k])) THEN 0
                   ELSE IF stale[k] < StaleCap THEN stale[k] + 1
                   ELSE StaleCap]
    /\ UNCHANGED excuse

HNext ==
    \/ \E r \in Requests : Authenticate(r) /\ UNCHANGED historyVars
    \/ \E a \in Admins :
          \/ (InsertRow(a) \/ RegisterFails(a) \/ DeleteEntry(a))
                /\ UNCHANGED historyVars
          \/ HRegister(a)
          \/ HUpdateRow(a)
          \/ HDeleteFails(a)
    \/ SaveSnapshot /\ UNCHANGED historyVars
    \/ HRedisCrash
    \/ HTick

HSpec == HInit /\ [][HNext]_allVars

\* Every handler finishes its calls and time passes.  Nothing obliges clients
\* to send requests, admins to create or revoke, or Redis to save or crash.
HFairSpec ==
    /\ HSpec
    /\ WF_allVars(HTick)
    /\ \A r \in Requests :
          /\ WF_allVars((PostgresAccepts(r) \/ PostgresRefuses(r)) /\ UNCHANGED historyVars)
          /\ WF_allVars((Rehydrate(r) \/ RehydrateFails(r)) /\ UNCHANGED historyVars)
    /\ \A a \in Admins :
          /\ WF_allVars(HRegister(a) \/ (RegisterFails(a) /\ UNCHANGED historyVars))
          /\ WF_allVars(HDeleteFails(a) \/ (DeleteEntry(a) /\ UNCHANGED historyVars))

----------------------------------------------------------------------------
(* What the cache owes the table.                                          *)

Lifespans == Nat \union {Forever}

HistoryTypeOK ==
    /\ row      \in [Keys -> {"absent", "active", "revoked"}]
    /\ life     \in [Keys -> Lifespans]
    /\ cache    \in [Keys -> Lifespans]
    /\ snapshot \in [Keys -> Lifespans]
    /\ issued   \subseteq Keys
    /\ lookup   \in [Requests -> {"idle", "postgres", "rehydrate"}]
    /\ key      \in [Requests -> Keys]
    /\ stall    \in [Requests -> 0 .. MaxStall]
    /\ task     \in [Admins -> {"idle", "register", "delete"}]
    /\ target   \in [Admins -> Keys]
    /\ ttl      \in [Keys -> Int]
    /\ stale    \in [Keys -> 0 .. StaleCap]
    /\ excuse   \in [Keys -> SUBSET Excuses]

BeingDeleted(k) == \E a \in Admins : task[a] = "delete" /\ target[a] = k

\* An entry that can only serve its key for Grace seconds after its death.
WithinGrace(k, t) == t = 0 \/ (t # Forever /\ stale[k] + t <= Grace)

\* A key that was revoked or has expired is served from the cache for at most
\* the rehydration TTL and the stall of one request, unless its entry is just
\* being deleted, or a lost delete, a registration that came too late or a
\* restored snapshot accounts for it.
StalenessBounded ==
    \A k \in Keys :
        Dead(k) /\ ~BeingDeleted(k) /\ excuse[k] = {} => WithinGrace(k, cache[k])

\* A dead key leaves the cache for good: requests that race with its end do not
\* keep it alive by rehydrating it in turns.  A key created with a lifetime does
\* so whatever fails, whenever it is registered and whatever a restart restores;
\* only that of a key without one may stay, and only after those failures.
DeadKeysSettle ==
    \A k \in Keys :
        Dead(k) ~> [](cache[k] = 0 \/ (excuse[k] # {} /\ ttl[k] <= 0))

----------------------------------------------------------------------------
(* What comments and documents say and the code does not do.               *)

\* An expired key is at least not served for ever.
ExpiredNotPermanent ==
    \A k \in Keys : row[k] = "active" /\ ~Valid(k) => cache[k] # Forever
=============================================================================
