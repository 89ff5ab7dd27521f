----------------------------- MODULE QuantTask -----------------------------
(***************************************************************************)
(* Quant analysis tasks: their dispatch (src/main.py), the Celery worker   *)
(* that runs them (src/workers/celery_worker.py) and the route that polls  *)
(* and cancels them (src/routers/tasks.py).                                *)
(*                                                                         *)
(* Celery's part is modelled as the code configures it: messages are       *)
(* acknowledged late, a worker runs one task at a time in its main thread  *)
(* (--pool=solo) and looks at control messages only between two tasks, and *)
(* a result is never stored over a SUCCESS.  Each call to the broker or    *)
(* to the result backend is one step, and a worker may crash before any of *)
(* them.  Redis redelivers what a crashed worker had not acknowledged.     *)
(*                                                                         *)
(* The broker (database 0) and the result backend (database 1) are one     *)
(* Redis with one snapshot on disk: when it restarts, both are what they   *)
(* were at the last save, whatever workers have done since.                *)
(***************************************************************************)
EXTENDS Integers, Sequences

CONSTANTS
    Tasks,       \* dispatched analyses, by task id
    Workers,     \* replicas of celery_worker
    Cancels,     \* calls of cancel_task that may overlap
    MaxCalls,    \* bound: calls of cancel_task
    MaxRetries,  \* max_retries of self.retry
    MaxFaults,   \* bound: crashes of workers, restarts of Redis, failing calls
    MaxSaves,    \* bound: snapshots that Redis saves
    NoTask       \* stands for no task

ASSUME RetriesAssumption == MaxRetries \in Nat
ASSUME BoundsAssumption  == {MaxCalls, MaxFaults, MaxSaves} \subseteq Nat
ASSUME NoTaskAssumption  == NoTask \notin Tasks

VARIABLES
    status,   \* status[t]: state in the result backend, "PENDING" if none is stored
    log,      \* every delivery of a message: its task, its request.retries and
              \* whether it is "queued", "taken" by a worker, "held" by one although
              \* Redis has lost it, or "acked"
    phase,    \* phase[w]: "down", "idle", or how far w is with its message:
              \* "run", "published" (the retry), "retried" (RETRY stored), "done"
    job,      \* job[w]: index in log of that message, or 0
    mailbox,  \* mailbox[w]: revocations sent to w that it has not looked at
    revoked,  \* revoked[w]: task ids that w knows to be revoked
    cancel,   \* cancel[c]: task that c has found cancellable, or NoTask
    calls,    \* number of calls of cancel_task so far
    faults,   \* number of faults so far
    saves,    \* number of snapshots so far
    saved     \* the last one: status, and which of log were queued and taken

workerVars == <<phase, job>>
saveVars   == <<saves, saved>>
revokeVars == <<mailbox, revoked, cancel, calls>>
vars       == <<status, log, phase, job, mailbox, revoked, cancel, calls,
                faults, saves, saved>>

Stored   == {"PENDING", "RETRY", "SUCCESS", "FAILURE", "REVOKED"}
Terminal == {"SUCCESS", "FAILURE", "REVOKED"}
Messages == [task : Tasks, tries : 0 .. MaxRetries,
             state : {"queued", "taken", "held", "acked"}]

----------------------------------------------------------------------------
(* The broker and the result backend.                                      *)

Message(t, n) == [task |-> t, tries |-> n, state |-> "queued"]

Mark(m, state) == log' = [log EXCEPT ![m].state = state]

Sent(t) == \E m \in DOMAIN log : log[m].task = t

\* The message and the task that w works on.
Current(w) == log[job[w]]
TaskOf(w)  == Current(w).task

Store(t, s) ==
    status' = [status EXCEPT ![t] = IF status[t] = "SUCCESS" THEN "SUCCESS" ELSE s]

Fault == faults < MaxFaults /\ faults' = faults + 1

----------------------------------------------------------------------------
(* The gateway.                                                            *)

Dispatch_Twice(t) ==   \* fault: publishing is repeated under the same id
    /\ ~Sent(t)
    /\ log' = log \o <<Message(t, 0), Message(t, 0)>>
    /\ UNCHANGED <<status, workerVars, revokeVars, faults, saveVars>>

\* route_traffic: execute_financial_agent.delay(...).
Dispatch(t) ==
    /\ ~Sent(t)
    /\ log' = Append(log, Message(t, 0))
    /\ UNCHANGED <<status, workerVars, revokeVars, faults, saveVars>>

\* cancel_task reads the state; a terminal one is answered with 409.
CheckCancel(c) ==
    /\ cancel[c] = NoTask
    /\ calls < MaxCalls
    /\ calls' = calls + 1
    /\ \E t \in Tasks :
          /\ Sent(t)
          /\ status[t] \notin Terminal
          /\ cancel' = [cancel EXCEPT ![c] = t]
    /\ UNCHANGED <<status, log, workerVars, mailbox, revoked, faults, saveVars>>

\* result.revoke: broadcast to the workers that are up.
Revoke(c) ==
    /\ cancel[c] # NoTask
    /\ mailbox' = [w \in Workers |-> IF phase[w] = "down" THEN mailbox[w]
                                     ELSE mailbox[w] \union {cancel[c]}]
    /\ cancel'  = [cancel EXCEPT ![c] = NoTask]
    /\ UNCHANGED <<status, log, workerVars, revoked, calls, faults, saveVars>>

----------------------------------------------------------------------------
(* A worker.                                                               *)

\* Between two tasks w looks at its control messages.
HearRevoke(w) ==
    /\ phase[w] = "idle"
    /\ mailbox[w] # {}
    /\ revoked' = [revoked EXCEPT ![w] = revoked[w] \union mailbox[w]]
    /\ mailbox' = [mailbox EXCEPT ![w] = {}]
    /\ UNCHANGED <<status, log, workerVars, cancel, calls, faults, saveVars>>

\* The countdown of a retry (30 s at least) outlasts the rest of the attempt
\* that published it.
Ripe(m) ==
    \A w \in Workers :
        phase[w] = "published" /\ TaskOf(w) = log[m].task =>
            log[m].tries # Current(w).tries + 1

Take(w, m, p) ==
    /\ phase[w] = "idle"
    /\ log[m].state = "queued"
    /\ Ripe(m)
    /\ Mark(m, "taken")
    /\ phase' = [phase EXCEPT ![w] = p]
    /\ job'   = [job EXCEPT ![w] = m]
    /\ UNCHANGED <<revokeVars, faults, saveVars>>

\* The worker calls execute_financial_agent.
PickUp(w) ==
    \E m \in DOMAIN log :
        /\ log[m].task \notin revoked[w]
        /\ Take(w, m, "run")
        /\ UNCHANGED status

Discard_Silent(w) ==   \* fault: a task that is not run has no verdict
    \E m \in DOMAIN log :
        /\ log[m].task \in revoked[w]
        /\ Take(w, m, "done")
        /\ UNCHANGED status

\* The task is known to be revoked: it is not run.
Discard(w) ==
    \E m \in DOMAIN log :
        /\ log[m].task \in revoked[w]
        /\ Take(w, m, "done")
        /\ Store(log[m].task, "REVOKED")

Proceed(w, from, to) ==
    /\ phase[w] = from
    /\ phase' = [phase EXCEPT ![w] = to]
    /\ UNCHANGED <<job, revokeVars, faults, saveVars>>

\* The analysis returns.
Succeed(w) ==
    /\ Proceed(w, "run", "done")
    /\ Store(TaskOf(w), "SUCCESS")
    /\ UNCHANGED log

Retry_Endless(w) ==   \* fault: the retry does not count
    /\ phase[w] = "run"
    /\ Proceed(w, "run", "published")
    /\ log' = Append(log, Message(TaskOf(w), Current(w).tries))
    /\ UNCHANGED status

Retry_FailFirst(w) ==   \* fault: the failure is stored before the retry
    /\ phase[w] = "run" /\ Current(w).tries < MaxRetries
    /\ Proceed(w, "run", "published")
    /\ log' = Append(log, Message(TaskOf(w), Current(w).tries + 1))
    /\ Store(TaskOf(w), "FAILURE")

\* The analysis raises and retries are left: self.retry publishes a message of
\* the same task.
Retry(w) ==
    /\ phase[w] = "run" /\ Current(w).tries < MaxRetries
    /\ Proceed(w, "run", "published")
    /\ log' = Append(log, Message(TaskOf(w), Current(w).tries + 1))
    /\ UNCHANGED status

\* Retry, which self.retry raises, is stored.
NoteRetry(w) ==
    /\ Proceed(w, "published", "retried")
    /\ Store(TaskOf(w), "RETRY")
    /\ UNCHANGED log

\* The last retry raises: self.retry re-raises the exception.
Fail(w) ==
    /\ phase[w] = "run" /\ Current(w).tries = MaxRetries
    /\ Proceed(w, "run", "done")
    /\ Store(TaskOf(w), "FAILURE")
    /\ UNCHANGED log

\* task_acks_late.
Acknowledge(w) ==
    /\ phase[w] \in {"retried", "done"}
    /\ Mark(job[w], "acked")
    /\ phase' = [phase EXCEPT ![w] = "idle"]
    /\ job'   = [job EXCEPT ![w] = 0]
    /\ UNCHANGED <<status, revokeVars, faults, saveVars>>

----------------------------------------------------------------------------
(* Faults.                                                                 *)

\* Redis delivers the message of w again, if it still has it.
Redeliver(w) == Mark(job[w], IF Current(w).state = "taken" THEN "queued" ELSE "acked")

\* Redis does not take the acknowledgement: Celery logs that and goes on.
AckLost(w) ==
    /\ Fault
    /\ phase[w] \in {"retried", "done"}
    /\ Redeliver(w)
    /\ phase' = [phase EXCEPT ![w] = "idle"]
    /\ job'   = [job EXCEPT ![w] = 0]
    /\ UNCHANGED <<status, revokeVars, saveVars>>

\* The broker does not take the retry: Celery drops the message.
RetryLost(w) ==
    /\ Fault
    /\ phase[w] = "run" /\ Current(w).tries < MaxRetries
    /\ Mark(job[w], "acked")
    /\ phase' = [phase EXCEPT ![w] = "idle"]
    /\ job'   = [job EXCEPT ![w] = 0]
    /\ UNCHANGED <<status, revokeVars, saveVars>>

\* The backend does not take the outcome: Celery acknowledges all the same.
ResultLost(w) ==
    /\ Fault
    /\ phase[w] \in {"run", "published"}
    /\ phase' = [phase EXCEPT ![w] = IF phase[w] = "run" THEN "done" ELSE "retried"]
    /\ UNCHANGED <<status, log, job, revokeVars, saveVars>>

Crash_EarlyAck(w) ==   \* fault: without task_acks_late
    /\ Fault
    /\ phase[w] # "down"
    /\ IF job[w] = 0 THEN UNCHANGED log ELSE Mark(job[w], "acked")
    /\ phase'   = [phase EXCEPT ![w] = "down"]
    /\ job'     = [job EXCEPT ![w] = 0]
    /\ mailbox' = [mailbox EXCEPT ![w] = {}]
    /\ revoked' = [revoked EXCEPT ![w] = {}]
    /\ UNCHANGED <<status, cancel, calls, saveVars>>

Crash_KeepsJob(w) ==   \* fault: the restarted worker still holds its message
    /\ Fault
    /\ phase[w] # "down"
    /\ IF job[w] = 0 THEN UNCHANGED log ELSE Redeliver(w)
    /\ phase'   = [phase EXCEPT ![w] = "down"]
    /\ mailbox' = [mailbox EXCEPT ![w] = {}]
    /\ revoked' = [revoked EXCEPT ![w] = {}]
    /\ UNCHANGED <<status, cancel, calls, job, saveVars>>

\* The worker stops.  It forgets its revocations; its message is redelivered.
Crash(w) ==
    /\ Fault
    /\ phase[w] # "down"
    /\ IF job[w] = 0 THEN UNCHANGED log ELSE Redeliver(w)
    /\ phase'   = [phase EXCEPT ![w] = "down"]
    /\ job'     = [job EXCEPT ![w] = 0]
    /\ mailbox' = [mailbox EXCEPT ![w] = {}]
    /\ revoked' = [revoked EXCEPT ![w] = {}]
    /\ UNCHANGED <<status, cancel, calls, saveVars>>

\* restart: unless-stopped.  A starting worker asks the others for their
\* revocations; those that are running a task do not answer.
Restart(w) ==
    /\ phase[w] = "down"
    /\ phase'   = [phase EXCEPT ![w] = "idle"]
    /\ revoked' = [revoked EXCEPT ![w] =
                     UNION {revoked[v] : v \in {u \in Workers : phase[u] = "idle"}}]
    /\ UNCHANGED <<status, log, job, mailbox, cancel, calls, faults, saveVars>>

\* --save 60 1.  A snapshot that no restart will read is left out.
SaveSnapshot ==
    /\ saves < MaxSaves /\ faults < MaxFaults
    /\ saves' = saves + 1
    /\ saved' = [status |-> status,
                 queued |-> {m \in DOMAIN log : log[m].state = "queued"},
                 taken  |-> {m \in DOMAIN log : log[m].state = "taken"}]
    /\ UNCHANGED <<status, log, workerVars, revokeVars, faults>>

WithWorker(m) == log[m].state \in {"taken", "held"}

\* Message m after a restart.  What a worker had taken before the save is known by
\* its delivery tag and can still be acknowledged.  To the model a message that
\* the snapshot lacks is as gone as an acknowledged one.
Reloaded(m) ==
    [log[m] EXCEPT !.state =
        IF WithWorker(m)
        THEN IF m \in saved.taken THEN "taken" ELSE "held"
        ELSE IF m \in saved.queued \union saved.taken THEN "queued" ELSE "acked"]

\* A second delivery of m, which was queued at the save and taken since.
Again(m) ==
    [log[m] EXCEPT !.state =
        IF WithWorker(m) /\ m \in saved.queued THEN "queued" ELSE "acked"]

\* Redis restarts from its last snapshot.  Workers go on with what they have;
\* control messages on their way to them may be gone.
RedisCrash ==
    /\ Fault
    /\ status' = saved.status
    /\ log' = [m \in DOMAIN log |-> Reloaded(m)] \o [m \in DOMAIN log |-> Again(m)]
    /\ mailbox' \in {mailbox, [w \in Workers |-> {}]}
    /\ UNCHANGED <<workerVars, revoked, cancel, calls, saveVars>>

\* result_expires: a day after the last message of t is gone.  No message waits
\* for as long as a day.
Expire(t) ==
    /\ status[t] # "PENDING"
    /\ \A m \in DOMAIN log : log[m].task = t => log[m].state = "acked"
    /\ status' = [status EXCEPT ![t] = "PENDING"]
    /\ UNCHANGED <<log, workerVars, revokeVars, faults, saveVars>>

----------------------------------------------------------------------------
Init ==
    /\ status  = [t \in Tasks |-> "PENDING"]
    /\ log     = <<>>
    /\ phase   = [w \in Workers |-> "idle"]
    /\ job     = [w \in Workers |-> 0]
    /\ mailbox = [w \in Workers |-> {}]
    /\ revoked = [w \in Workers |-> {}]
    /\ calls   = 0
    /\ cancel  = [c \in Cancels |-> NoTask]
    /\ faults  = 0
    /\ saves   = 0
    /\ saved   = [status |-> status, queued |-> {}, taken |-> {}]

Work(w) ==
    \/ PickUp(w) \/ Discard(w)
    \/ Succeed(w) \/ Retry(w) \/ NoteRetry(w) \/ Fail(w) \/ Acknowledge(w)

Next ==
    \/ \E t \in Tasks : Dispatch(t) \/ Expire(t)
    \/ \E c \in Cancels : CheckCancel(c) \/ Revoke(c)
    \/ \E w \in Workers :
          \/ HearRevoke(w) \/ Work(w)
          \/ RetryLost(w) \/ ResultLost(w) \/ AckLost(w) \/ Crash(w) \/ Restart(w)
    \/ SaveSnapshot \/ RedisCrash

Spec == Init /\ [][Next]_vars
=============================================================================
