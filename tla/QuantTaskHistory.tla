-------------------------- MODULE QuantTaskHistory --------------------------
(***************************************************************************)
(* QuantTask with an observer that counts attempts, crashes and messages   *)
(* that come back, and notes which tasks a fault may have left without a   *)
(* verdict.                                                                *)
(***************************************************************************)
EXTENDS QuantTask, FiniteSets

VARIABLES
    attempts,  \* attempts[t]: times that a worker called the analysis of t
    reruns,    \* reruns[t]: crashes before the verdict on an attempt was acknowledged
    relapses,  \* relapses[t]: crashes between publishing a retry of t and
               \* acknowledging the message it replaces
    restored,  \* restored[t]: messages of t that a restart of Redis brought back
    lost,      \* tasks of which a message or a verdict was lost
    expired,   \* tasks whose stored state has expired
    known      \* tasks that were dispatched before the last snapshot

historyVars == <<attempts, reruns, relapses, restored, lost, expired, known>>
allVars == <<status, log, phase, job, mailbox, revoked, cancel, calls, faults, saves,
             saved, attempts, reruns, relapses, restored, lost, expired, known>>

Count(f, t) == [f EXCEPT ![t] = f[t] + 1]

HInit ==
    /\ Init
    /\ attempts = [t \in Tasks |-> 0]
    /\ reruns   = [t \in Tasks |-> 0]
    /\ relapses = [t \in Tasks |-> 0]
    /\ restored = [t \in Tasks |-> 0]
    /\ lost     = {}
    /\ expired  = {}
    /\ known    = {}

HPickUp(w) ==
    /\ PickUp(w)
    /\ attempts' = Count(attempts, log[job'[w]].task)
    /\ UNCHANGED <<reruns, relapses, restored, lost, expired, known>>

\* An acknowledgement that is lost counts as a crash just before it.
HCrash(w) ==
    /\ Crash(w) \/ AckLost(w)
    /\ reruns'   = IF phase[w] \in {"run", "done"}
                     THEN Count(reruns, TaskOf(w)) ELSE reruns
    /\ relapses' = IF phase[w] \in {"published", "retried"}
                     THEN Count(relapses, TaskOf(w)) ELSE relapses
    /\ UNCHANGED <<attempts, restored, lost, expired, known>>

Lose(t) ==
    /\ lost' = lost \union {t}
    /\ UNCHANGED <<attempts, reruns, relapses, restored, expired, known>>

HExpire(t) ==
    /\ Expire(t)
    /\ expired' = expired \union {t}
    /\ UNCHANGED <<attempts, reruns, relapses, restored, lost, known>>

HSaveSnapshot ==
    /\ SaveSnapshot
    /\ known' = {t \in Tasks : Sent(t)}
    /\ UNCHANGED <<attempts, reruns, relapses, restored, lost, expired>>

\* The messages of t that a restart brings back: they are queued again.
Back(t) ==
    {m \in saved.queued \union saved.taken :
        /\ log[m].task = t
        /\ IF WithWorker(m) THEN m \in saved.queued ELSE log[m].state # "queued"}

\* Lost are tasks that the snapshot does not know, and those whose attempt is
\* over but not yet acknowledged: their outcome is gone and their message about
\* to be.
HRedisCrash ==
    /\ RedisCrash
    /\ restored' = [t \in Tasks |-> restored[t] + Cardinality(Back(t))]
    /\ lost' = lost \union {t \in Tasks : Sent(t) /\ t \notin known}
                   \union {TaskOf(w) : w \in {v \in Workers :
                               phase[v] \in {"published", "retried", "done"}}}
    /\ UNCHANGED <<attempts, reruns, relapses, expired, known>>

HWork(w) ==
    \/ HPickUp(w)
    \/ /\ Discard(w) \/ Succeed(w) \/ Retry(w) \/ NoteRetry(w) \/ Fail(w)
          \/ Acknowledge(w)
       /\ UNCHANGED historyVars

HFaults ==
    \/ \E w \in Workers :
          \/ RetryLost(w) /\ Lose(TaskOf(w))
          \/ /\ ResultLost(w)
             /\ IF phase[w] = "run" THEN Lose(TaskOf(w)) ELSE UNCHANGED historyVars
          \/ HCrash(w)
    \/ HRedisCrash

HNext ==
    \/ \E t \in Tasks :
          \/ Dispatch(t) /\ UNCHANGED historyVars
          \/ HExpire(t)
    \/ \E c \in Cancels : (CheckCancel(c) \/ Revoke(c)) /\ UNCHANGED historyVars
    \/ \E w \in Workers :
          \/ HWork(w)
          \/ (HearRevoke(w) \/ Restart(w)) /\ UNCHANGED historyVars
    \/ HSaveSnapshot
    \/ HFaults

HSpec == HInit /\ [][HNext]_allVars

\* An analysis ends, a worker takes messages while there are any, and Docker
\* restarts a stopped one (restart: unless-stopped).  Nothing obliges clients
\* to dispatch or cancel, results to expire, Redis to save, or faults to happen.
HFairSpec ==
    /\ HSpec
    /\ \A w \in Workers :
          /\ WF_allVars(HWork(w))
          /\ WF_allVars(Restart(w) /\ UNCHANGED historyVars)

----------------------------------------------------------------------------
(* What the queue promises.                                                *)

\* Types; and a worker holds a message, which is then marked as taken or held,
\* exactly while it works on one.
HistoryTypeOK ==
    /\ status   \in [Tasks -> Stored]
    /\ log      \in Seq(Messages)
    /\ phase    \in [Workers -> {"down", "idle", "run", "published", "retried", "done"}]
    /\ job      \in [Workers -> 0 .. Len(log)]
    /\ mailbox  \in [Workers -> SUBSET Tasks]
    /\ revoked  \in [Workers -> SUBSET Tasks]
    /\ cancel   \in [Cancels -> Tasks \union {NoTask}]
    /\ calls    \in 0 .. MaxCalls
    /\ faults   \in 0 .. MaxFaults
    /\ saves    \in 0 .. MaxSaves
    /\ saved    \in [status : [Tasks -> Stored], queued : SUBSET DOMAIN log,
                    taken : SUBSET DOMAIN log]
    /\ attempts \in [Tasks -> Nat]
    /\ reruns   \in [Tasks -> Nat]
    /\ relapses \in [Tasks -> Nat]
    /\ restored \in [Tasks -> Nat]
    /\ lost     \subseteq Tasks
    /\ expired  \subseteq Tasks
    /\ known    \subseteq Tasks
    /\ \A w \in Workers : (job[w] = 0) <=> (phase[w] \in {"down", "idle"})
    /\ \A w \in Workers : job[w] # 0 => WithWorker(job[w])

\* Redis has a message of t.
InFlight(t) ==
    \E m \in DOMAIN log : log[m].task = t /\ log[m].state \in {"queued", "taken"}

\* Late acknowledgement: a dispatched task of which no message or verdict was
\* lost is in flight or has a verdict, whatever crashes when.  A task that the
\* snapshot knows survives a restart of Redis too.
NeverForgotten ==
    \A t \in Tasks \ (lost \union expired) :
        Sent(t) => InFlight(t) \/ status[t] \in Terminal

\* The messages of t that still call for an attempt: the queued ones, and those
\* of workers that have not published a retry in their place.
Live(t) ==
    {m \in DOMAIN log :
        /\ log[m].task = t
        /\ \/ log[m].state = "queued"
           \/ \E w \in Workers : job[w] = m /\ phase[w] \in {"run", "done"}}

\* The copies of t there may be: each may use up all of its retries.
Copies(t) == 1 + relapses[t] + restored[t]

\* A task multiplies only when a worker crashes between publishing a retry and
\* acknowledging, or when a restart of Redis brings messages back: otherwise it
\* never runs twice at the same time.
CopiesBounded == \A t \in Tasks : Cardinality(Live(t)) <= Copies(t)

\* max_retries: an analysis is attempted 1 + MaxRetries times, and again for
\* each copy and each attempt that a crash cut short.
AttemptsBounded ==
    \A t \in Tasks : attempts[t] <= (1 + MaxRetries) * Copies(t) + reruns[t]

\* Workers never overwrite the verdict that get_task_status reports: it expires,
\* or a restart of Redis undoes it.  For a SUCCESS that is always so, for the
\* others unless a crash or a restart made a worker take the task once more.
VerdictStands ==
    [][\A t \in Tasks :
          /\ status[t] \in Terminal
          /\ status[t] = "SUCCESS" \/ reruns[t] + relapses[t] + restored[t] = 0
          => status'[t] \in {status[t], "PENDING"} \/ RedisCrash]_allVars

\* A task that no fault robs of a message or a verdict comes to a verdict,
\* crashes, retries and cancellations notwithstanding.
EveryTaskSettles ==
    \A t \in Tasks : Sent(t) ~> (status[t] \in Terminal \/ t \in lost \union expired)
=============================================================================
