--------------------------- MODULE QuantTask_proofs ---------------------------
(***************************************************************************)
(* Proofs about the task queue, for any tasks, workers, cancelling         *)
(* clients, number of retries, faults and snapshots.                      *)
(***************************************************************************)
EXTENDS QuantTaskHistory, FiniteSetTheorems, SequenceTheorems, TLAPS

\* What is marked as taken or held is with a worker, and with one only.
JobsApart ==
    /\ \A v, w \in Workers : job[v] = job[w] /\ job[v] # 0 => v = w
    /\ \A m \in DOMAIN log : WithWorker(m) => \E w \in Workers : job[w] = m

QueueTyped == HistoryTypeOK /\ JobsApart

----------------------------------------------------------------------------
(* The log.                                                                *)

\* A message changes its state; the others stay as they are.
LEMMA MarkFacts ==
    ASSUME log \in Seq(Messages), NEW m \in DOMAIN log,
           NEW s \in {"queued", "taken", "acked"}, Mark(m, s)
    PROVE  /\ log' \in Seq(Messages)
           /\ Len(log') = Len(log) /\ DOMAIN log' = DOMAIN log
           /\ DOMAIN log = 1 .. Len(log) /\ Len(log) \in Nat
           /\ \A k \in DOMAIN log : /\ log'[k].task = log[k].task
                                    /\ log'[k].tries = log[k].tries
                                    /\ k # m => log'[k] = log[k]
           /\ log'[m].state = s
<1>1. log' = [log EXCEPT ![m].state = s]
    BY DEF Mark
<1>2. DOMAIN log = 1 .. Len(log) /\ Len(log) \in Nat /\ log \in [1 .. Len(log) -> Messages]
    OBVIOUS
<1>3. log[m] \in Messages /\ [log[m] EXCEPT !.state = s] \in Messages
    BY <1>2 DEF Messages
<1>4. log' \in [1 .. Len(log) -> Messages]
    BY <1>1, <1>2, <1>3
<1>5. log' \in Seq(Messages) /\ Len(log') = Len(log) /\ DOMAIN log' = DOMAIN log
    BY <1>2, <1>4
<1>6. ASSUME NEW k \in DOMAIN log
      PROVE  log'[k].task = log[k].task /\ log'[k].tries = log[k].tries
             /\ (k # m => log'[k] = log[k])
  <2>1. CASE k = m
    <3>1. log'[k] = [log[k] EXCEPT !.state = s]
        BY <1>1, <1>2, <2>1
    <3> QED
        BY <1>3, <2>1, <3>1 DEF Messages
  <2>2. CASE k # m
      BY <1>1, <1>2, <2>2
  <2> QED
      BY <2>1, <2>2
<1>7. log'[m].state = s
  <2>1. log'[m] = [log[m] EXCEPT !.state = s]
      BY <1>1, <1>2
  <2> QED
      BY <1>3, <2>1 DEF Messages
<1> QED
    BY <1>2, <1>5, <1>6, <1>7

\* A message is added at the end.
LEMMA AppendFacts ==
    ASSUME log \in Seq(Messages), NEW t \in Tasks, NEW n \in 0 .. MaxRetries,
           log' = Append(log, Message(t, n))
    PROVE  /\ log' \in Seq(Messages)
           /\ Len(log') = Len(log) + 1 /\ Len(log) \in Nat
           /\ DOMAIN log = 1 .. Len(log) /\ DOMAIN log' = 1 .. (Len(log) + 1)
           /\ \A k \in DOMAIN log : log'[k] = log[k]
           /\ log'[Len(log) + 1] = [task |-> t, tries |-> n, state |-> "queued"]
           /\ log'[Len(log) + 1].state = "queued"
           /\ \A k \in DOMAIN log' \ DOMAIN log : k = Len(log) + 1
<1>1. Message(t, n) \in Messages /\ Message(t, n).state = "queued"
    BY DEF Message, Messages
<1>2. /\ log' \in Seq(Messages)
      /\ Len(log') = Len(log) + 1 /\ Len(log) \in Nat
      /\ DOMAIN log = 1 .. Len(log) /\ DOMAIN log' = 1 .. (Len(log) + 1)
      /\ \A k \in DOMAIN log : log'[k] = log[k]
      /\ log'[Len(log) + 1] = Message(t, n)
    BY <1>1
<1>3. \A k \in DOMAIN log' \ DOMAIN log : k = Len(log) + 1
    BY <1>2
<1> QED
    BY <1>1, <1>2, <1>3 DEF Message

LEMMA StateFacts ==
    ASSUME NEW e \in Messages, NEW s \in {"queued", "taken", "held", "acked"}
    PROVE  /\ [e EXCEPT !.state = s] \in Messages
           /\ [e EXCEPT !.state = s].task = e.task
           /\ [e EXCEPT !.state = s].tries = e.tries
           /\ [e EXCEPT !.state = s].state = s
  BY DEF Messages

\* A restart of Redis puts every message back to what the snapshot says, and adds
\* the second deliveries behind them.
LEMMA RedisFacts ==
    ASSUME log \in Seq(Messages), RedisCrash
    PROVE  /\ log' \in Seq(Messages)
           /\ Len(log') = Len(log) + Len(log) /\ Len(log) \in Nat
           /\ DOMAIN log = 1 .. Len(log) /\ DOMAIN log' = 1 .. (Len(log) + Len(log))
           /\ \A m \in DOMAIN log : log'[m] = Reloaded(m) /\ log'[Len(log) + m] = Again(m)
           /\ \A m \in DOMAIN log : /\ log'[m].task = log[m].task
                                    /\ log'[m].tries = log[m].tries
                                    /\ log'[Len(log) + m].task = log[m].task
                                    /\ log'[Len(log) + m].tries = log[m].tries
           /\ \A m \in DOMAIN log :
                 /\ log'[m].state = IF WithWorker(m)
                                    THEN IF m \in saved.taken THEN "taken" ELSE "held"
                                    ELSE IF m \in saved.queued \union saved.taken
                                         THEN "queued" ELSE "acked"
                 /\ log'[Len(log) + m].state = IF WithWorker(m) /\ m \in saved.queued
                                               THEN "queued" ELSE "acked"
<1> DEFINE front == [m \in DOMAIN log |-> Reloaded(m)]
           back  == [m \in DOMAIN log |-> Again(m)]
<1>1. /\ DOMAIN log = 1 .. Len(log) /\ Len(log) \in Nat
      /\ \A m \in DOMAIN log : log[m] \in Messages
    OBVIOUS
<1>2. ASSUME NEW m \in DOMAIN log
      PROVE  /\ Reloaded(m) \in Messages /\ Again(m) \in Messages
             /\ Reloaded(m).task = log[m].task /\ Reloaded(m).tries = log[m].tries
             /\ Again(m).task = log[m].task /\ Again(m).tries = log[m].tries
             /\ Reloaded(m).state = IF WithWorker(m)
                                    THEN IF m \in saved.taken THEN "taken" ELSE "held"
                                    ELSE IF m \in saved.queued \union saved.taken
                                         THEN "queued" ELSE "acked"
             /\ Again(m).state = IF WithWorker(m) /\ m \in saved.queued
                                 THEN "queued" ELSE "acked"
  <2>1. log[m] \in Messages
      BY <1>1
  <2>2. PICK r : r = IF WithWorker(m)
                     THEN IF m \in saved.taken THEN "taken" ELSE "held"
                     ELSE IF m \in saved.queued \union saved.taken
                          THEN "queued" ELSE "acked"
      OBVIOUS
  <2>3. PICK a : a = IF WithWorker(m) /\ m \in saved.queued THEN "queued" ELSE "acked"
      OBVIOUS
  <2>4. /\ Reloaded(m) = [log[m] EXCEPT !.state = r] /\ Again(m) = [log[m] EXCEPT !.state = a]
        /\ r \in {"queued", "taken", "held", "acked"} /\ a \in {"queued", "taken", "held", "acked"}
      BY <2>2, <2>3 DEF Reloaded, Again
  <2>5. Reloaded(m) \in Messages /\ Again(m) \in Messages
      BY <2>1, <2>4 DEF Messages
  <2>6. /\ Reloaded(m).task = log[m].task /\ Reloaded(m).tries = log[m].tries
        /\ Reloaded(m).state = r
      BY <2>1, <2>4, StateFacts
  <2>7. Again(m).task = log[m].task /\ Again(m).tries = log[m].tries /\ Again(m).state = a
      BY <2>1, <2>4, StateFacts
  <2> QED
      BY <2>2, <2>3, <2>5, <2>6, <2>7
<1>3. front \in Seq(Messages) /\ back \in Seq(Messages)
  <2>1. front \in [1 .. Len(log) -> Messages] /\ back \in [1 .. Len(log) -> Messages]
      BY <1>1, <1>2
  <2> QED
      BY <1>1, <2>1
<1>4. Len(front) = Len(log) /\ Len(back) = Len(log)
    BY <1>1
<1>5. log' = front \o back
    BY DEF RedisCrash
<1> HIDE DEF front, back
<1>6. /\ log' \in Seq(Messages) /\ Len(log') = Len(log) + Len(log)
      /\ \A i \in 1 .. Len(log) + Len(log) :
            log'[i] = IF i <= Len(log) THEN front[i] ELSE back[i - Len(log)]
  <2>1. /\ front \o back \in Seq(Messages) /\ Len(front \o back) = Len(front) + Len(back)
        /\ \A i \in 1 .. Len(front) + Len(back) :
              (front \o back)[i] = IF i <= Len(front) THEN front[i] ELSE back[i - Len(front)]
      BY <1>3, ConcatProperties
  <2> QED
      BY <1>4, <1>5, <2>1
<1>7. ASSUME NEW m \in DOMAIN log PROVE log'[m] = front[m] /\ log'[Len(log) + m] = back[m]
    BY <1>1, <1>6
<1>8. DOMAIN log' = 1 .. (Len(log) + Len(log))
    BY <1>6
<1>9. \A m \in DOMAIN log : log'[m] = Reloaded(m) /\ log'[Len(log) + m] = Again(m)
    BY <1>7 DEF front, back
<1> QED
    BY <1>1, <1>2, <1>6, <1>8, <1>9

----------------------------------------------------------------------------
(* Types.                                                                  *)

\* What a worker holds is a message of a task.
LEMMA JobFacts ==
    ASSUME QueueTyped, NEW w \in Workers, job[w] # 0
    PROVE  /\ job[w] \in DOMAIN log /\ Current(w) = log[job[w]] /\ Current(w) \in Messages
           /\ TaskOf(w) \in Tasks /\ Current(w).tries \in 0 .. MaxRetries
           /\ WithWorker(job[w])
<1>1. job[w] \in 0 .. Len(log) /\ log \in Seq(Messages) /\ WithWorker(job[w])
    BY DEF QueueTyped, HistoryTypeOK
<1>2. job[w] \in DOMAIN log
    BY <1>1
<1>3. Current(w) = log[job[w]] /\ Current(w) \in Messages
    BY <1>1, <1>2 DEF Current
<1>4. Current(w).task \in Tasks /\ Current(w).tries \in 0 .. MaxRetries
    BY <1>3 DEF Messages
<1> QED
    BY <1>1, <1>2, <1>3, <1>4 DEF TaskOf

\* Worker w gives up message job[w].
Leaves(w, s, p) ==
    /\ Mark(job[w], s)
    /\ phase' = [phase EXCEPT ![w] = p]
    /\ job'   = [job EXCEPT ![w] = 0]

\* Types of what every step of the queue may change.
LogTyped ==
    /\ log   \in Seq(Messages)
    /\ phase \in [Workers -> {"down", "idle", "run", "published", "retried", "done"}]
    /\ job   \in [Workers -> 0 .. Len(log)]
    /\ \A w \in Workers : (job[w] = 0) <=> (phase[w] \in {"down", "idle"})
    /\ \A w \in Workers : job[w] # 0 => WithWorker(job[w])
    /\ JobsApart

\* Every message is one of a task.
LEMMA LogFacts ==
    ASSUME LogTyped
    PROVE  /\ log \in Seq(Messages) /\ DOMAIN log = 1 .. Len(log) /\ Len(log) \in Nat
           /\ \A m \in DOMAIN log : /\ log[m].task \in Tasks
                                    /\ log[m].tries \in 0 .. MaxRetries
                                    /\ log[m].state \in {"queued", "taken", "held", "acked"}
<1>1. log \in Seq(Messages)
    BY DEF LogTyped
<1>2. DOMAIN log = 1 .. Len(log) /\ Len(log) \in Nat /\ \A m \in DOMAIN log : log[m] \in Messages
    BY <1>1
<1>3. \A e \in Messages : /\ e.task \in Tasks /\ e.tries \in 0 .. MaxRetries
                           /\ e.state \in {"queued", "taken", "held", "acked"}
    BY DEF Messages
<1> QED
    BY <1>1, <1>2, <1>3

LEMMA LeavesTyped ==
    ASSUME LogTyped, NEW w \in Workers, job[w] # 0, NEW s \in {"queued", "acked"},
           NEW p \in {"down", "idle"}, Leaves(w, s, p)
    PROVE  LogTyped'
<1>1. job[w] \in DOMAIN log /\ log \in Seq(Messages)
    BY DEF LogTyped
<1>2. /\ log' \in Seq(Messages) /\ Len(log') = Len(log) /\ DOMAIN log' = DOMAIN log
      /\ DOMAIN log = 1 .. Len(log) /\ Len(log) \in Nat
      /\ \A k \in DOMAIN log : k # job[w] => log'[k] = log[k]
      /\ log'[job[w]].state = s
    BY <1>1, MarkFacts DEF Leaves
<1>3. /\ phase' \in [Workers -> {"down", "idle", "run", "published", "retried", "done"}]
      /\ job' \in [Workers -> 0 .. Len(log)]
      /\ \A v \in Workers : v # w => phase'[v] = phase[v] /\ job'[v] = job[v]
      /\ phase'[w] = p /\ job'[w] = 0
    BY <1>2 DEF LogTyped, Leaves
<1>4. \A v \in Workers : v # w /\ job[v] # 0 => job[v] # job[w] /\ job[v] \in DOMAIN log
    BY <1>2 DEF LogTyped, JobsApart
<1>5. \A v \in Workers : job'[v] # 0 => WithWorker(job[v])'
    BY <1>2, <1>3, <1>4 DEF LogTyped, WithWorker
<1>6. JobsApart'
  <2>1. ASSUME NEW m \in DOMAIN log, WithWorker(m)' PROVE \E v \in Workers : job'[v] = m
    <3>1. m # job[w] /\ WithWorker(m)
        BY <1>2, <2>1 DEF WithWorker
    <3>2. PICK v \in Workers : job[v] = m
        BY <3>1 DEF LogTyped, JobsApart
    <3> QED
        BY <1>3, <3>1, <3>2
  <2>2. \A u, v \in Workers : job'[u] = job'[v] /\ job'[u] # 0 => u = v
      BY <1>3 DEF LogTyped, JobsApart
  <2> QED
      BY <1>2, <2>1, <2>2, Zenon DEF JobsApart
<1> QED
    BY <1>2, <1>3, <1>5, <1>6 DEF LogTyped

LEMMA TakeTyped ==
    ASSUME LogTyped, NEW w \in Workers, NEW m \in DOMAIN log, NEW p \in {"run", "done"},
           Take(w, m, p)
    PROVE  LogTyped'
<1>1. /\ log' \in Seq(Messages) /\ Len(log') = Len(log) /\ DOMAIN log' = DOMAIN log
      /\ DOMAIN log = 1 .. Len(log) /\ Len(log) \in Nat
      /\ \A k \in DOMAIN log : k # m => log'[k] = log[k]
      /\ log'[m].state = "taken"
    BY MarkFacts DEF Take, LogTyped
<1>2. /\ phase' \in [Workers -> {"down", "idle", "run", "published", "retried", "done"}]
      /\ job' \in [Workers -> 0 .. Len(log)]
      /\ \A v \in Workers : v # w => phase'[v] = phase[v] /\ job'[v] = job[v]
      /\ phase'[w] = p /\ job'[w] = m /\ m # 0
    BY <1>1 DEF LogTyped, Take
<1>3. \A v \in Workers : job[v] # m
    BY <1>1 DEF LogTyped, Take, WithWorker
<1>4. \A v \in Workers : job'[v] # 0 => WithWorker(job[v])'
  <2> SUFFICES ASSUME NEW v \in Workers, job'[v] # 0 PROVE WithWorker(job[v])'
      OBVIOUS
  <2>1. CASE v = w
      BY <1>1, <1>2, <2>1 DEF WithWorker
  <2>2. CASE v # w
    <3>1. job'[v] = job[v] /\ job[v] \in DOMAIN log /\ job[v] # m
        BY <1>1, <1>2, <1>3, <2>2 DEF LogTyped
    <3> QED
        BY <1>1, <3>1 DEF LogTyped, WithWorker
  <2> QED
      BY <2>1, <2>2
<1>5. JobsApart'
  <2>1. ASSUME NEW k \in DOMAIN log, WithWorker(k)' PROVE \E v \in Workers : job'[v] = k
    <3>1. CASE k = m
        BY <1>2, <3>1
    <3>2. CASE k # m
      <4>1. WithWorker(k)
          BY <1>1, <2>1, <3>2 DEF WithWorker
      <4>2. PICK v \in Workers : job[v] = k
          BY <4>1 DEF LogTyped, JobsApart
      <4>3. k # 0 /\ (job[w] = 0)
          BY <1>1, <1>2 DEF LogTyped, Take
      <4> QED
          BY <1>2, <4>2, <4>3
    <3> QED
        BY <3>1, <3>2
  <2> QED
      BY <1>1, <1>2, <1>3, <2>1 DEF LogTyped, JobsApart
<1> QED
    BY <1>1, <1>2, <1>4, <1>5 DEF LogTyped

\* Worker w goes on with its message.
LEMMA PhaseTyped ==
    ASSUME LogTyped, NEW w \in Workers, phase[w] \notin {"down", "idle"},
           NEW p \in {"published", "retried", "done"},
           phase' = [phase EXCEPT ![w] = p], UNCHANGED job,
           \/ log' = log
           \/ \E t \in Tasks, n \in 0 .. MaxRetries : log' = Append(log, Message(t, n))
    PROVE  LogTyped'
<1>1. /\ log' \in Seq(Messages) /\ Len(log) \in Nat /\ Len(log') \in Nat
      /\ Len(log') >= Len(log) /\ DOMAIN log = 1 .. Len(log)
      /\ \A k \in DOMAIN log : log'[k] = log[k]
      /\ \A k \in DOMAIN log' \ DOMAIN log : log'[k].state = "queued"
  <2>1. CASE log' = log
      BY <2>1 DEF LogTyped
  <2>2. CASE \E t \in Tasks, n \in 0 .. MaxRetries : log' = Append(log, Message(t, n))
    <3>1. PICK t \in Tasks, n \in 0 .. MaxRetries : log' = Append(log, Message(t, n))
        BY <2>2
    <3>2. log \in Seq(Messages)
        BY DEF LogTyped
    <3>3. /\ log' \in Seq(Messages) /\ Len(log) \in Nat /\ Len(log') = Len(log) + 1
          /\ DOMAIN log = 1 .. Len(log) /\ \A k \in DOMAIN log : log'[k] = log[k]
          /\ \A k \in DOMAIN log' \ DOMAIN log : k = Len(log) + 1
        BY <3>1, <3>2, AppendFacts
    <3>4. log'[Len(log) + 1].state = "queued"
        BY <3>1, <3>2, AppendFacts
    <3> QED
        BY <3>3, <3>4
  <2> QED
      BY <2>1, <2>2
<1>2. job' \in [Workers -> 0 .. Len(log')]
    BY <1>1 DEF LogTyped
<1>3. /\ phase' \in [Workers -> {"down", "idle", "run", "published", "retried", "done"}]
      /\ \A v \in Workers : (job'[v] = 0) <=> (phase'[v] \in {"down", "idle"})
    BY DEF LogTyped
<1>4. \A v \in Workers : job'[v] # 0 => WithWorker(job[v])'
    BY <1>1 DEF LogTyped, WithWorker
<1>5. JobsApart'
  <2>1. ASSUME NEW k \in DOMAIN log', WithWorker(k)' PROVE \E v \in Workers : job[v] = k
    <3>1. k \in DOMAIN log /\ WithWorker(k)
        BY <1>1, <2>1 DEF WithWorker
    <3> QED
        BY <3>1 DEF LogTyped, JobsApart
  <2> QED
      BY <2>1 DEF LogTyped, JobsApart
<1> QED
    BY <1>1, <1>2, <1>3, <1>4, <1>5 DEF LogTyped

\* Types of the rest of the state.
RestTyped ==
    /\ status   \in [Tasks -> Stored]
    /\ mailbox  \in [Workers -> SUBSET Tasks]
    /\ revoked  \in [Workers -> SUBSET Tasks]
    /\ cancel   \in [Cancels -> Tasks \union {NoTask}]
    /\ calls    \in 0 .. MaxCalls
    /\ faults   \in 0 .. MaxFaults
    /\ saves    \in 0 .. MaxSaves
    /\ saved    \in [status : [Tasks -> Stored], queued : SUBSET DOMAIN log,
                    taken : SUBSET DOMAIN log]
    /\ attempts \in [Tasks -> Nat]
    /\ reruns   \in [Tasks -> Nat]
    /\ relapses \in [Tasks -> Nat]
    /\ restored \in [Tasks -> Nat]
    /\ lost     \subseteq Tasks
    /\ expired  \subseteq Tasks
    /\ known    \subseteq Tasks

LEMMA TypedParts == QueueTyped <=> LogTyped /\ RestTyped
  BY DEF QueueTyped, HistoryTypeOK, LogTyped, RestTyped

\* The faults of a worker, and a restart of Redis, on the log.
LEMMA FaultTyped ==
    ASSUME LogTyped
    PROVE  /\ \A w \in Workers : Crash(w) \/ AckLost(w) => LogTyped'
           /\ RedisCrash => LogTyped'
<1>1. ASSUME NEW w \in Workers, Crash(w) PROVE LogTyped'
  <2>1. CASE job[w] = 0
    <3>1. log' = log /\ phase[w] = "idle"
          /\ phase' = [phase EXCEPT ![w] = "down"] /\ job' = [job EXCEPT ![w] = 0]
        BY <1>1, <2>1 DEF Crash, LogTyped
    <3> QED
        BY <2>1, <3>1 DEF LogTyped, JobsApart, WithWorker
  <2>2. CASE job[w] # 0
      BY <1>1, <2>2, LeavesTyped DEF Crash, Redeliver, Leaves
  <2> QED
      BY <2>1, <2>2
<1>2. ASSUME NEW w \in Workers, AckLost(w) PROVE LogTyped'
  <2>1. job[w] # 0
      BY <1>2 DEF AckLost, LogTyped
  <2> QED
      BY <1>2, <2>1, LeavesTyped DEF AckLost, Redeliver, Leaves
<1>3. ASSUME RedisCrash PROVE LogTyped'
  <2>1. /\ log' \in Seq(Messages)
        /\ Len(log') = Len(log) + Len(log) /\ Len(log) \in Nat
        /\ DOMAIN log = 1 .. Len(log) /\ DOMAIN log' = 1 .. (Len(log) + Len(log))
      BY <1>3, RedisFacts DEF LogTyped
  <2>2. phase' = phase /\ job' = job
      BY <1>3 DEF RedisCrash, workerVars
  <2>3. ASSUME NEW m \in DOMAIN log
        PROVE  /\ WithWorker(m)' <=> WithWorker(m)
               /\ log'[Len(log) + m].state \notin {"taken", "held"}
    <3>1. /\ log'[m].state = IF WithWorker(m)
                             THEN IF m \in saved.taken THEN "taken" ELSE "held"
                             ELSE IF m \in saved.queued \union saved.taken
                                  THEN "queued" ELSE "acked"
          /\ log'[Len(log) + m].state = IF WithWorker(m) /\ m \in saved.queued
                                        THEN "queued" ELSE "acked"
        BY <1>3, RedisFacts DEF LogTyped
    <3> QED
        BY <3>1 DEF WithWorker
  <2>4. \A k \in DOMAIN log' : k \in DOMAIN log \/ k - Len(log) \in DOMAIN log
      BY <2>1
  <2>5. ASSUME NEW k \in DOMAIN log', WithWorker(k)' PROVE k \in DOMAIN log /\ WithWorker(k)
    <3>1. CASE k \in DOMAIN log
        BY <2>3, <2>5, <3>1
    <3>2. CASE k \notin DOMAIN log
      <4>1. k - Len(log) \in DOMAIN log /\ Len(log) + (k - Len(log)) = k
          BY <2>1, <2>4, <3>2
      <4>2. log'[k].state \notin {"taken", "held"}
          BY <2>3, <4>1
      <4> QED
          BY <2>5, <4>2 DEF WithWorker
    <3> QED
        BY <3>1, <3>2
  <2>6. JobsApart'
      BY <2>2, <2>5 DEF LogTyped, JobsApart
  <2>7. \A w \in Workers : job'[w] # 0 => WithWorker(job[w])'
    <3> SUFFICES ASSUME NEW w \in Workers, job[w] # 0 PROVE log'[job[w]].state \in {"taken", "held"}
        BY <2>2 DEF WithWorker
    <3>1. job[w] \in DOMAIN log /\ WithWorker(job[w])
        BY <2>1 DEF LogTyped
    <3> QED
        BY <2>3, <3>1 DEF WithWorker
  <2>8. job' \in [Workers -> 0 .. Len(log')]
      BY <2>1, <2>2 DEF LogTyped
  <2> QED
      BY <2>1, <2>2, <2>6, <2>7, <2>8 DEF LogTyped
<1> QED
    BY <1>1, <1>2, <1>3

LEMMA LogStep == QueueTyped /\ [HNext]_allVars => LogTyped'
<1> SUFFICES ASSUME QueueTyped, [HNext]_allVars PROVE LogTyped'
    OBVIOUS
<1>0. LogTyped
    BY TypedParts
<1>1. ASSUME NEW t \in Tasks, Dispatch(t) PROVE LogTyped'
  <2>1. /\ log' = Append(log, Message(t, 0)) /\ phase' = phase /\ job' = job
        /\ log \in Seq(Messages) /\ 0 \in 0 .. MaxRetries
      BY <1>0, <1>1, RetriesAssumption DEF Dispatch, workerVars, LogTyped
  <2>2. /\ log' \in Seq(Messages) /\ Len(log) \in Nat /\ Len(log') = Len(log) + 1
        /\ DOMAIN log = 1 .. Len(log)
        /\ \A k \in DOMAIN log : log'[k] = log[k]
        /\ \A k \in DOMAIN log' \ DOMAIN log : k = Len(log) + 1
      BY <2>1, AppendFacts
  <2>n. log'[Len(log) + 1].state = "queued"
      BY <2>1, AppendFacts
  <2>3. job' \in [Workers -> 0 .. Len(log')]
      BY <1>0, <2>1, <2>2 DEF LogTyped
  <2>4. \A v \in Workers : job'[v] # 0 => WithWorker(job[v])'
      BY <1>0, <2>1, <2>2 DEF LogTyped, WithWorker
  <2>5. ASSUME NEW k \in DOMAIN log', WithWorker(k)' PROVE k \in DOMAIN log /\ WithWorker(k)
      BY <2>2, <2>n, <2>5 DEF WithWorker
  <2> QED
      BY <1>0, <2>1, <2>2, <2>3, <2>4, <2>5 DEF LogTyped, JobsApart
<1>2. ASSUME NEW w \in Workers, PickUp(w) \/ Discard(w) PROVE LogTyped'
  <2>1. \E m \in DOMAIN log, p \in {"run", "done"} : Take(w, m, p)
      BY <1>2 DEF PickUp, Discard
  <2> QED
      BY <1>0, <2>1, TakeTyped
<1>3. ASSUME NEW w \in Workers, Succeed(w) \/ Fail(w) \/ NoteRetry(w) \/ ResultLost(w)
      PROVE  LogTyped'
  <2>1. /\ phase[w] \notin {"down", "idle"} /\ log' = log /\ UNCHANGED job
        /\ \E p \in {"published", "retried", "done"} : phase' = [phase EXCEPT ![w] = p]
      BY <1>3 DEF Succeed, Fail, NoteRetry, ResultLost, Proceed
  <2> QED
      BY <1>0, <2>1, PhaseTyped
<1>4. ASSUME NEW w \in Workers, Retry(w) PROVE LogTyped'
  <2>1. job[w] # 0
      BY <1>0, <1>4 DEF LogTyped, Retry
  <2>2. /\ TaskOf(w) \in Tasks /\ Current(w).tries + 1 \in 0 .. MaxRetries
      BY <1>4, <2>1, JobFacts, RetriesAssumption DEF Retry
  <2>3. /\ phase[w] \notin {"down", "idle"} /\ UNCHANGED job
        /\ phase' = [phase EXCEPT ![w] = "published"]
        /\ log' = Append(log, Message(TaskOf(w), Current(w).tries + 1))
      BY <1>4 DEF Retry, Proceed
  <2> QED
      BY <1>0, <2>2, <2>3, PhaseTyped
<1>5. ASSUME NEW w \in Workers, Acknowledge(w) \/ RetryLost(w) PROVE LogTyped'
  <2>1. job[w] # 0 /\ Leaves(w, "acked", "idle")
      BY <1>0, <1>5 DEF LogTyped, Acknowledge, RetryLost, Leaves
  <2> QED
      BY <1>0, <2>1, LeavesTyped
<1>6. ASSUME NEW w \in Workers, Restart(w) PROVE LogTyped'
    BY <1>0, <1>6 DEF Restart, LogTyped, JobsApart, WithWorker
<1>7. CASE UNCHANGED <<log, phase, job>>
    BY <1>0, <1>7 DEF LogTyped, JobsApart, WithWorker
<1>8. \/ \E t \in Tasks : Dispatch(t)
      \/ \E w \in Workers :
            \/ PickUp(w) \/ Discard(w) \/ Succeed(w) \/ Fail(w) \/ NoteRetry(w)
            \/ ResultLost(w) \/ Retry(w) \/ Acknowledge(w) \/ RetryLost(w) \/ Restart(w)
            \/ Crash(w) \/ AckLost(w)
      \/ RedisCrash
      \/ UNCHANGED <<log, phase, job>>
    BY DEF HNext, HWork, HPickUp, HFaults, HCrash, HRedisCrash, HSaveSnapshot, SaveSnapshot,
           HExpire, Expire, CheckCancel, Revoke, HearRevoke, workerVars, allVars
<1> QED
    BY <1>0, <1>1, <1>2, <1>3, <1>4, <1>5, <1>6, <1>7, <1>8, FaultTyped

\* Finitely many messages can come back.
LEMMA BackFinite ==
    ASSUME LogTyped, RestTyped, NEW t
    PROVE  IsFiniteSet(Back(t)) /\ Cardinality(Back(t)) \in Nat
<1>1. Back(t) \subseteq 1 .. Len(log) /\ Len(log) \in Nat
  <2>1. saved.queued \subseteq DOMAIN log /\ saved.taken \subseteq DOMAIN log
      BY DEF RestTyped
  <2> QED
      BY <2>1, LogFacts DEF Back
<1>2. IsFiniteSet(1 .. Len(log))
    BY <1>1, FS_Interval
<1> QED
    BY <1>1, <1>2, FS_Subset, FS_CardinalityType

\* No step takes a message away.
LEMMA DomainGrows ==
    ASSUME QueueTyped, [HNext]_allVars
    PROVE  DOMAIN log \subseteq DOMAIN log'
<1>0. log \in Seq(Messages) /\ LogTyped
    BY TypedParts DEF LogTyped
<1>1. ASSUME NEW m, NEW s, Mark(m, s) PROVE DOMAIN log' = DOMAIN log
    BY <1>1 DEF Mark
<1>2. ASSUME NEW t \in Tasks, NEW n \in 0 .. MaxRetries, log' = Append(log, Message(t, n))
      PROVE  DOMAIN log \subseteq DOMAIN log'
  <2>1. /\ Len(log) \in Nat /\ DOMAIN log = 1 .. Len(log)
        /\ DOMAIN log' = 1 .. (Len(log) + 1)
      BY <1>0, <1>2, AppendFacts
  <2> QED
      BY <2>1
<1>3. ASSUME NEW t \in Tasks, Dispatch(t) PROVE DOMAIN log \subseteq DOMAIN log'
    BY <1>2, <1>3, RetriesAssumption DEF Dispatch
<1>4. ASSUME NEW w \in Workers, Retry(w) PROVE DOMAIN log \subseteq DOMAIN log'
  <2>1. /\ log' = Append(log, Message(TaskOf(w), Current(w).tries + 1))
        /\ job[w] # 0 /\ Current(w).tries < MaxRetries
      BY <1>0, <1>4 DEF Retry, LogTyped
  <2>2. TaskOf(w) \in Tasks /\ Current(w).tries + 1 \in 0 .. MaxRetries
      BY <2>1, JobFacts, RetriesAssumption
  <2> QED
      BY <1>2, <2>1, <2>2
<1>5. ASSUME RedisCrash PROVE DOMAIN log \subseteq DOMAIN log'
  <2>1. /\ Len(log) \in Nat /\ DOMAIN log = 1 .. Len(log)
        /\ DOMAIN log' = 1 .. (Len(log) + Len(log))
      BY <1>0, <1>5, RedisFacts
  <2> QED
      BY <2>1
<1>6. \/ log' = log \/ (\E m, s : Mark(m, s)) \/ RedisCrash
      \/ (\E t \in Tasks : Dispatch(t)) \/ (\E w \in Workers : Retry(w))
    BY DEF HNext, HWork, HPickUp, HFaults, HCrash, HRedisCrash, HSaveSnapshot, SaveSnapshot,
           HExpire, Expire, CheckCancel, Revoke, HearRevoke, Restart, allVars,
           PickUp, Discard, Take, Succeed, NoteRetry, Fail, Acknowledge, RetryLost,
           ResultLost, Crash, AckLost, Redeliver
<1> QED
    BY <1>1, <1>3, <1>4, <1>5, <1>6

LEMMA RestStep == QueueTyped /\ [HNext]_allVars => RestTyped'
<1> SUFFICES ASSUME QueueTyped, [HNext]_allVars PROVE RestTyped'
    OBVIOUS
<1>0. RestTyped /\ LogTyped
    BY TypedParts
<1>1. /\ mailbox' \in [Workers -> SUBSET Tasks]
      /\ revoked' \in [Workers -> SUBSET Tasks]
      /\ cancel' \in [Cancels -> Tasks \union {NoTask}]
  <2>1. CASE UNCHANGED revokeVars
      BY <1>0, <2>1 DEF revokeVars, RestTyped
  <2>2. CASE \E c \in Cancels : CheckCancel(c) \/ Revoke(c)
      BY <1>0, <2>2 DEF CheckCancel, Revoke, RestTyped
  <2>3. CASE \E w \in Workers : HearRevoke(w) \/ Restart(w) \/ Crash(w)
      BY <1>0, <2>3 DEF HearRevoke, Restart, Crash, RestTyped
  <2>4. CASE RedisCrash
      BY <1>0, <2>4 DEF RedisCrash, RestTyped
  <2>5. \/ UNCHANGED revokeVars
        \/ \E c \in Cancels : CheckCancel(c) \/ Revoke(c)
        \/ \E w \in Workers : HearRevoke(w) \/ Restart(w) \/ Crash(w)
        \/ RedisCrash
      BY DEF HNext, HWork, HPickUp, HFaults, HCrash, HRedisCrash, HSaveSnapshot,
             SaveSnapshot, HExpire, allVars, revokeVars,
             Dispatch, Expire, PickUp, Discard, Take, Succeed, Retry, NoteRetry, Fail,
             Proceed, Acknowledge, RetryLost, ResultLost, AckLost
  <2> QED
      BY <2>1, <2>2, <2>3, <2>4, <2>5
<1>2. faults' \in 0 .. MaxFaults /\ calls' \in 0 .. MaxCalls /\ saves' \in 0 .. MaxSaves
  <2>1. /\ faults' = faults \/ Fault
        /\ calls' = calls \/ (calls < MaxCalls /\ calls' = calls + 1)
        /\ saves' = saves \/ (saves < MaxSaves /\ saves' = saves + 1)
      BY DEF HNext, HWork, HPickUp, HFaults, HCrash, HRedisCrash, RedisCrash, HSaveSnapshot,
             SaveSnapshot, HExpire, allVars, saveVars, revokeVars,
             Dispatch, Expire, PickUp, Discard, Take, Succeed, Retry, NoteRetry, Fail,
             Proceed, Acknowledge, RetryLost, ResultLost, AckLost,
             CheckCancel, Revoke, HearRevoke, Restart, Crash
  <2>2. MaxCalls \in Nat /\ MaxFaults \in Nat /\ MaxSaves \in Nat
      BY BoundsAssumption
  <2> QED
      BY <1>0, <2>1, <2>2 DEF Fault, RestTyped
<1>3. status' \in [Tasks -> Stored]
  <2>1. \/ status' = status \/ status' = saved.status
        \/ \E t \in Tasks : status' = [status EXCEPT ![t] = "PENDING"]
        \/ \E t \in Tasks, s \in Stored : Store(t, s)
    <3>1. \A w \in Workers : Succeed(w) \/ NoteRetry(w) \/ Fail(w) => TaskOf(w) \in Tasks
        BY <1>0, JobFacts DEF Succeed, NoteRetry, Fail, Proceed, LogTyped
    <3>2. \A m \in DOMAIN log : log[m].task \in Tasks
        BY <1>0, LogFacts
    <3> QED
        BY <3>1, <3>2
           DEF HNext, HWork, HPickUp, HFaults, HCrash, HRedisCrash, RedisCrash,
             HSaveSnapshot, SaveSnapshot, HExpire, allVars, Stored,
             Dispatch, Expire, PickUp, Discard, Succeed, Retry, NoteRetry, Fail,
             Acknowledge, RetryLost, ResultLost, AckLost,
             CheckCancel, Revoke, HearRevoke, Restart, Crash
  <2> QED
      BY <1>0, <2>1 DEF RestTyped, Store, Stored
<1>s. saved' \in [status : [Tasks -> Stored], queued : SUBSET DOMAIN log',
                  taken : SUBSET DOMAIN log']
  <2>1. DOMAIN log \subseteq DOMAIN log'
      BY DomainGrows
  <2>2. saved' = saved \/ SaveSnapshot
      BY DEF HNext, HWork, HPickUp, HFaults, HCrash, HRedisCrash, RedisCrash, HSaveSnapshot,
             HExpire, allVars, saveVars,
             Dispatch, Expire, PickUp, Discard, Take, Succeed, Retry, NoteRetry, Fail,
             Proceed, Acknowledge, RetryLost, ResultLost, AckLost,
             CheckCancel, Revoke, HearRevoke, Restart, Crash
  <2>3. CASE saved' = saved
      BY <1>0, <2>1, <2>3 DEF RestTyped
  <2>4. CASE SaveSnapshot
      BY <1>0, <2>1, <2>4 DEF SaveSnapshot, RestTyped
  <2> QED
      BY <2>2, <2>3, <2>4
<1>4. /\ attempts' \in [Tasks -> Nat] /\ reruns' \in [Tasks -> Nat]
      /\ relapses' \in [Tasks -> Nat] /\ restored' \in [Tasks -> Nat]
      /\ lost' \subseteq Tasks /\ expired' \subseteq Tasks /\ known' \subseteq Tasks
  <2>1. CASE UNCHANGED historyVars
      BY <1>0, <2>1 DEF historyVars, RestTyped
  <2>2. CASE \E w \in Workers : HPickUp(w)
    <3>1. PICK w \in Workers, m \in DOMAIN log : HPickUp(w) /\ Take(w, m, "run")
        BY <2>2 DEF HPickUp, PickUp
    <3>2. job'[w] = m /\ log[m].task \in Tasks
      <4>1. log[m].task \in Tasks
          BY <1>0, LogFacts
      <4>2. job'[w] = m
          BY <1>0, <3>1 DEF Take, LogTyped
      <4> QED
          BY <4>1, <4>2
    <3> QED
        BY <1>0, <3>1, <3>2 DEF HPickUp, Count, RestTyped
  <2>3. CASE \E w \in Workers : HCrash(w)
    <3>1. PICK w \in Workers : HCrash(w)
        BY <2>3
    <3>2. phase[w] \in {"run", "done", "published", "retried"} => TaskOf(w) \in Tasks
        BY <1>0, JobFacts DEF LogTyped
    <3> QED
        BY <1>0, <3>1, <3>2 DEF HCrash, Count, RestTyped
  <2>4. CASE \E t \in Tasks : HExpire(t)
      BY <1>0, <2>4 DEF HExpire, RestTyped
  <2>5. CASE \E t \in Tasks : Lose(t)
      BY <1>0, <2>5 DEF Lose, RestTyped
  <2>6. CASE \E w \in Workers : phase[w] = "run" /\ Lose(TaskOf(w))
      BY <1>0, <2>5, <2>6, JobFacts DEF LogTyped
  <2>7. CASE HSaveSnapshot
      BY <1>0, <2>7 DEF HSaveSnapshot, RestTyped
  <2>8. CASE HRedisCrash
    <3>1. \A t \in Tasks : Cardinality(Back(t)) \in Nat
        BY <1>0, BackFinite
    <3>2. \A w \in Workers :
              phase[w] \in {"published", "retried", "done"} => TaskOf(w) \in Tasks
        BY <1>0, JobFacts DEF LogTyped
    <3> QED
        BY <1>0, <2>8, <3>1, <3>2 DEF HRedisCrash, RestTyped
  <2> QED
      BY <2>1, <2>2, <2>3, <2>4, <2>6, <2>7, <2>8
         DEF HNext, HWork, HFaults, RetryLost, ResultLost, allVars, historyVars
<1> QED
    BY <1>1, <1>2, <1>3, <1>s, <1>4 DEF RestTyped

LEMMA TypeInit == HInit => QueueTyped
<1> SUFFICES ASSUME HInit PROVE QueueTyped
    OBVIOUS
<1>1. LogTyped
  <2>1. log = <<>> /\ log \in Seq(Messages) /\ Len(log) = 0
      BY DEF HInit, Init
  <2> QED
      BY <2>1 DEF HInit, Init, LogTyped, JobsApart
<1>2. RestTyped
  <2>1. MaxCalls \in Nat /\ MaxFaults \in Nat /\ MaxSaves \in Nat
      BY BoundsAssumption
  <2>2. status \in [Tasks -> Stored]
      BY DEF HInit, Init, Stored
  <2>3. saved = [status |-> status, queued |-> {}, taken |-> {}]
      BY DEF HInit, Init
  <2>4. saved \in [status : [Tasks -> Stored], queued : SUBSET DOMAIN log,
                   taken : SUBSET DOMAIN log]
      BY <2>2, <2>3
  <2> QED
      BY <2>1, <2>2, <2>4 DEF HInit, Init, RestTyped
<1> QED
    BY <1>1, <1>2, TypedParts

LEMMA TypeStep == QueueTyped /\ [HNext]_allVars => QueueTyped'
<1> SUFFICES ASSUME QueueTyped, [HNext]_allVars PROVE QueueTyped'
    OBVIOUS
<1>1. LogTyped' /\ RestTyped'
    BY LogStep, RestStep
<1> QED
    BY <1>1 DEF QueueTyped, HistoryTypeOK, LogTyped, RestTyped

\* Types; and a worker holds a message, which is marked as taken or held, exactly
\* while it works on one: between Celery's late acknowledgement, redelivery after
\* a crash, the retries and restarts of Redis no delivery is ever in two hands.
THEOREM TypeCorrect == HSpec => []HistoryTypeOK
<1>1. QueueTyped => HistoryTypeOK
    BY DEF QueueTyped
<1> QED
    BY TypeInit, TypeStep, <1>1, PTL DEF HSpec

----------------------------------------------------------------------------
(* What the steps do to the messages.  Those that are queued, those that a *)
(* worker is running and Redis still has, and those that it is running or  *)
(* has come to an end of without a retry are the ones the invariants below *)
(* are about.                                                              *)

Queued  == {m \in DOMAIN log : log[m].state = "queued"}
Running == {m \in DOMAIN log :
              log[m].state = "taken" /\ \E w \in Workers : job[w] = m /\ phase[w] = "run"}
Working == {m \in DOMAIN log :
              \E w \in Workers : job[w] = m /\ phase[w] \in {"run", "done"}}

\* No message that a worker holds is queued.
LEMMA HeldFacts ==
    ASSUME LogTyped, NEW w \in Workers, job[w] # 0
    PROVE  /\ job[w] \in DOMAIN log /\ job[w] \notin Queued
           /\ (job[w] \in Running) <=> (phase[w] = "run" /\ Current(w).state = "taken")
           /\ (job[w] \in Working) <=> (phase[w] \in {"run", "done"})
<1>1. job[w] \in 0 .. Len(log) /\ DOMAIN log = 1 .. Len(log) /\ Len(log) \in Nat
    BY LogFacts DEF LogTyped
<1>2. job[w] \in DOMAIN log /\ log[job[w]].state \in {"taken", "held"}
    BY <1>1 DEF LogTyped, WithWorker
<1>3. \A v \in Workers : job[v] = job[w] => v = w
    BY DEF LogTyped, JobsApart
<1> QED
    BY <1>2, <1>3 DEF Queued, Running, Working, Current

\* What a task and a message are stays: only the state of a message changes.
Grows ==
    /\ DOMAIN log \subseteq DOMAIN log'
    /\ \A k \in DOMAIN log : log'[k].task = log[k].task /\ log'[k].tries = log[k].tries

LEMMA EffectTake ==
    ASSUME LogTyped, NEW w \in Workers, NEW m \in DOMAIN log, NEW p \in {"run", "done"},
           Take(w, m, p)
    PROVE  /\ Grows /\ m \in Queued /\ Queued' = Queued \ {m} /\ DOMAIN log' = DOMAIN log
           /\ Working' = Working \union {m}
           /\ Running' = IF p = "run" THEN Running \union {m} ELSE Running
           /\ \A v \in Workers : v # w => phase'[v] = phase[v] /\ job'[v] = job[v]
           /\ phase'[w] = p /\ job'[w] = m /\ phase[w] = "idle" /\ m # 0
<1>1. /\ DOMAIN log' = DOMAIN log /\ DOMAIN log = 1 .. Len(log)
      /\ \A k \in DOMAIN log : log'[k].task = log[k].task /\ log'[k].tries = log[k].tries
                               /\ (k # m => log'[k] = log[k])
      /\ log'[m].state = "taken"
    BY MarkFacts DEF Take, LogTyped
<1>2. /\ \A v \in Workers : v # w => phase'[v] = phase[v] /\ job'[v] = job[v]
      /\ phase'[w] = p /\ job'[w] = m /\ m # 0 /\ phase[w] = "idle"
      /\ log[m].state = "queued"
    BY <1>1 DEF LogTyped, Take
<1>3. Queued' = Queued \ {m} /\ m \in Queued
    BY <1>1, <1>2 DEF Queued
<1>4. Working' = Working \union {m}
    BY <1>1, <1>2 DEF Working
<1>5. Running' = IF p = "run" THEN Running \union {m} ELSE Running
  <2>1. ASSUME NEW k \in DOMAIN log, k # m PROVE k \in Running' <=> k \in Running
      BY <1>1, <1>2, <2>1 DEF Running
  <2>0. \A v \in Workers : job[v] # m
      BY <1>2 DEF LogTyped, WithWorker
  <2>2. m \notin Running /\ (m \in Running' <=> p = "run")
      BY <1>1, <1>2, <2>0 DEF Running
  <2>3. Running \subseteq DOMAIN log /\ Running' \subseteq DOMAIN log
      BY <1>1 DEF Running
  <2> QED
      BY <2>1, <2>2, <2>3
<1> QED
    BY <1>1, <1>2, <1>3, <1>4, <1>5 DEF Grows

LEMMA EffectLeave ==
    ASSUME LogTyped, NEW w \in Workers, job[w] # 0, NEW s \in {"queued", "acked"},
           NEW p \in {"down", "idle"}, Leaves(w, s, p)
    PROVE  /\ Grows /\ DOMAIN log' = DOMAIN log
           /\ Queued' = IF s = "queued" THEN Queued \union {job[w]} ELSE Queued
           /\ Running' = Running \ {job[w]} /\ Working' = Working \ {job[w]}
           /\ \A v \in Workers : v # w => phase'[v] = phase[v] /\ job'[v] = job[v]
           /\ phase'[w] = p
<1>1. job[w] \in DOMAIN log /\ log \in Seq(Messages) /\ job[w] \notin Queued
    BY HeldFacts DEF LogTyped
<1>2. /\ DOMAIN log' = DOMAIN log /\ DOMAIN log = 1 .. Len(log)
      /\ \A k \in DOMAIN log : log'[k].task = log[k].task /\ log'[k].tries = log[k].tries
                               /\ (k # job[w] => log'[k] = log[k])
      /\ log'[job[w]].state = s
    BY <1>1, MarkFacts DEF Leaves
<1>3. /\ \A v \in Workers : v # w => phase'[v] = phase[v] /\ job'[v] = job[v]
      /\ phase'[w] = p /\ job'[w] = 0
    BY DEF LogTyped, Leaves
<1>4. \A v \in Workers : v # w => job[v] # job[w]
    BY DEF LogTyped, JobsApart
<1>5. Queued' = IF s = "queued" THEN Queued \union {job[w]} ELSE Queued
    BY <1>1, <1>2 DEF Queued
<1>6. Running' = Running \ {job[w]}
    BY <1>1, <1>2, <1>3, <1>4 DEF Running
<1>7. Working' = Working \ {job[w]}
    BY <1>1, <1>2, <1>3, <1>4 DEF Working
<1> QED
    BY <1>2, <1>3, <1>5, <1>6, <1>7 DEF Grows

LEMMA EffectMove ==
    ASSUME LogTyped, NEW w \in Workers, NEW p \in {"retried", "done"},
           phase[w] = IF p = "done" THEN "run" ELSE "published",
           phase' = [phase EXCEPT ![w] = p], job' = job, log' = log
    PROVE  /\ Grows /\ Queued' = Queued /\ Working' = Working
           /\ Running' = IF p = "done" THEN Running \ {job[w]} ELSE Running
           /\ \A v \in Workers : v # w => phase'[v] = phase[v]
           /\ phase'[w] = p
<1>1. /\ \A v \in Workers : v # w => phase'[v] = phase[v]
      /\ phase'[w] = p
    BY DEF LogTyped
<1>2. \A v \in Workers : v # w => job[v] # job[w]
    BY DEF LogTyped, JobsApart
<1>3. Queued' = Queued
    BY DEF Queued
<1>4. Working' = Working
    BY <1>1 DEF Working
<1>5. Running' = IF p = "done" THEN Running \ {job[w]} ELSE Running
    BY <1>1, <1>2 DEF Running
<1> QED
    BY <1>1, <1>3, <1>4, <1>5 DEF Grows

\* A message of t with n tries behind it is published.
LEMMA EffectPublish ==
    ASSUME LogTyped, NEW t \in Tasks, NEW n \in 0 .. MaxRetries,
           log' = Append(log, Message(t, n)), job' = job
    PROVE  /\ Grows /\ Len(log) + 1 \in DOMAIN log' /\ Len(log) + 1 \notin DOMAIN log
           /\ DOMAIN log' = DOMAIN log \union {Len(log) + 1}
           /\ log'[Len(log) + 1].task = t /\ log'[Len(log) + 1].tries = n
           /\ Queued' = Queued \union {Len(log) + 1}
           /\ phase' = phase => Running' = Running /\ Working' = Working
           /\ \A w \in Workers :
                 phase[w] = "run" /\ phase' = [phase EXCEPT ![w] = "published"] =>
                    /\ Running' = Running \ {job[w]} /\ Working' = Working \ {job[w]}
                    /\ \A v \in Workers : v # w => phase'[v] = phase[v]
                    /\ phase'[w] = "published"
<1>1. /\ Len(log) \in Nat
      /\ DOMAIN log = 1 .. Len(log) /\ DOMAIN log' = 1 .. (Len(log) + 1)
      /\ \A k \in DOMAIN log : log'[k] = log[k]
      /\ log'[Len(log) + 1] = [task |-> t, tries |-> n, state |-> "queued"]
    BY AppendFacts DEF LogTyped
<1>2. DOMAIN log' = DOMAIN log \union {Len(log) + 1} /\ Len(log) + 1 \notin DOMAIN log
    BY <1>1
<1>3. Queued' = Queued \union {Len(log) + 1}
    BY <1>1, <1>2 DEF Queued
<1>4. \A v \in Workers : job[v] # Len(log) + 1
    BY <1>1 DEF LogTyped
<1>5. ASSUME phase' = phase PROVE Running' = Running /\ Working' = Working
    BY <1>1, <1>2, <1>4, <1>5 DEF Running, Working
<1>6. ASSUME NEW w \in Workers, phase[w] = "run",
             phase' = [phase EXCEPT ![w] = "published"]
      PROVE  /\ Running' = Running \ {job[w]} /\ Working' = Working \ {job[w]}
             /\ \A v \in Workers : v # w => phase'[v] = phase[v]
             /\ phase'[w] = "published"
  <2>1. /\ \A v \in Workers : v # w => phase'[v] = phase[v]
        /\ phase'[w] = "published"
      BY <1>6 DEF LogTyped
  <2>2. \A v \in Workers : v # w => job[v] # job[w]
      BY <1>6 DEF LogTyped, JobsApart
  <2>3. Running' = Running \ {job[w]}
      BY <1>1, <1>2, <1>4, <1>6, <2>1, <2>2 DEF Running
  <2>4. Working' = Working \ {job[w]}
      BY <1>2, <1>4, <1>6, <2>1, <2>2 DEF Working
  <2> QED
      BY <2>1, <2>3, <2>4
<1> QED
    BY <1>1, <1>2, <1>3, <1>5, <1>6 DEF Grows

\* The ways in which a worker gives up its message.
LEMMA LeaveCases ==
    ASSUME LogTyped, NEW w \in Workers,
           Acknowledge(w) \/ RetryLost(w) \/ (HCrash(w) /\ job[w] # 0)
    PROVE  /\ job[w] # 0
           /\ Acknowledge(w) \/ RetryLost(w) => Leaves(w, "acked", "idle")
           /\ \E s \in {"queued", "acked"}, p \in {"down", "idle"} : Leaves(w, s, p)
           /\ HCrash(w) /\ phase[w] = "run" /\ Current(w).state = "taken" =>
                 Leaves(w, "queued", "down")
<1>1. job[w] # 0
    BY DEF Acknowledge, RetryLost, LogTyped
<1>2. Acknowledge(w) \/ RetryLost(w) => Leaves(w, "acked", "idle")
    BY DEF Acknowledge, RetryLost, Leaves
<1>3. ASSUME HCrash(w)
      PROVE  \E p \in {"down", "idle"} :
                /\ Leaves(w, IF Current(w).state = "taken" THEN "queued" ELSE "acked", p)
                /\ phase[w] = "run" => p = "down"
    BY <1>1, <1>3 DEF HCrash, Crash, AckLost, Redeliver, Leaves
<1>4. CASE HCrash(w)
  <2>1. PICK p \in {"down", "idle"} :
            /\ Leaves(w, IF Current(w).state = "taken" THEN "queued" ELSE "acked", p)
            /\ phase[w] = "run" => p = "down"
      BY <1>3, <1>4
  <2>2. PICK s \in {"queued", "acked"} :
            s = IF Current(w).state = "taken" THEN "queued" ELSE "acked"
      OBVIOUS
  <2>3. Leaves(w, s, p)
      BY <2>1, <2>2
  <2> QED
      BY <1>1, <1>2, <2>1, <2>2, <2>3
<1>5. CASE ~HCrash(w)
    BY <1>1, <1>2, <1>5
<1> QED
    BY <1>4, <1>5

\* The messages of t that a restart of Redis puts into the queue.
Fresh(t) == {k \in Queued' \ Queued : log'[k].task = t}

LEMMA EffectRedis ==
    ASSUME LogTyped, RestTyped, RedisCrash
    PROVE  /\ Grows /\ Working' = Working /\ phase' = phase /\ job' = job
           /\ \A m \in saved.queued \union saved.taken :
                 \/ \E k \in Queued' : log'[k].task = log[m].task
                 \/ WithWorker(m) /\ m \in DOMAIN log' /\ log'[m].state = "taken"
           /\ \A k \in DOMAIN log' : \E m \in DOMAIN log : log'[k].task = log[m].task
<1>1. /\ log' \in Seq(Messages)
      /\ Len(log') = Len(log) + Len(log) /\ Len(log) \in Nat
      /\ DOMAIN log = 1 .. Len(log) /\ DOMAIN log' = 1 .. (Len(log) + Len(log))
      /\ \A m \in DOMAIN log : /\ log'[m].task = log[m].task
                               /\ log'[m].tries = log[m].tries
                               /\ log'[Len(log) + m].task = log[m].task
      /\ \A m \in DOMAIN log :
            /\ log'[m].state = IF WithWorker(m)
                               THEN IF m \in saved.taken THEN "taken" ELSE "held"
                               ELSE IF m \in saved.queued \union saved.taken
                                    THEN "queued" ELSE "acked"
            /\ log'[Len(log) + m].state = IF WithWorker(m) /\ m \in saved.queued
                                          THEN "queued" ELSE "acked"
    BY RedisFacts DEF LogTyped
<1>2. phase' = phase /\ job' = job
    BY DEF RedisCrash, workerVars
<1>3. DOMAIN log \subseteq DOMAIN log'
    BY <1>1
<1>4. Grows
    BY <1>1, <1>3 DEF Grows
<1>5. Working' = Working
  <2>1. \A w \in Workers : job[w] = 0 \/ job[w] \in DOMAIN log
      BY <1>1 DEF LogTyped
  <2>2. 0 \notin DOMAIN log'
      BY <1>1
  <2> QED
      BY <1>2, <1>3, <2>1, <2>2 DEF Working
<1>6. ASSUME NEW m \in saved.queued \union saved.taken
      PROVE  \/ \E k \in Queued' : log'[k].task = log[m].task
             \/ WithWorker(m) /\ m \in DOMAIN log' /\ log'[m].state = "taken"
  <2>1. m \in DOMAIN log /\ m \in DOMAIN log'
      BY <1>3 DEF RestTyped
  <2>2. CASE WithWorker(m) /\ m \in saved.taken
      BY <1>1, <2>1, <2>2
  <2>3. CASE WithWorker(m) /\ m \in saved.queued
    <3>1. Len(log) + m \in DOMAIN log' /\ log'[Len(log) + m].state = "queued"
        BY <1>1, <2>1, <2>3
    <3> QED
        BY <1>1, <2>1, <3>1 DEF Queued
  <2>4. CASE ~WithWorker(m)
      BY <1>1, <2>1, <2>4 DEF Queued
  <2> QED
      BY <2>2, <2>3, <2>4
<1>7. ASSUME NEW k \in DOMAIN log' PROVE \E m \in DOMAIN log : log'[k].task = log[m].task
  <2>1. CASE k \in DOMAIN log
      BY <1>1, <2>1
  <2>2. CASE k \notin DOMAIN log
    <3>1. k - Len(log) \in DOMAIN log /\ Len(log) + (k - Len(log)) = k
        BY <1>1, <2>2
    <3>2. log'[Len(log) + (k - Len(log))].task = log[k - Len(log)].task
        BY <1>1, <3>1
    <3> QED
        BY <3>1, <3>2
  <2> QED
      BY <2>1, <2>2
<1> QED
    BY <1>2, <1>4, <1>5, <1>6, <1>7

\* No more messages of t are put into the queue than the restart brings back.
LEMMA FreshFacts ==
    ASSUME LogTyped, RestTyped, RedisCrash, NEW t
    PROVE  /\ IsFiniteSet(Fresh(t)) /\ Cardinality(Fresh(t)) <= Cardinality(Back(t))
           /\ Cardinality(Fresh(t)) \in Nat /\ Cardinality(Back(t)) \in Nat
<1> DEFINE n == Len(log)
           f == [k \in Fresh(t) |-> IF k \in DOMAIN log THEN k ELSE k - n]
<1>1. /\ n \in Nat /\ DOMAIN log = 1 .. n /\ DOMAIN log' = 1 .. (n + n)
      /\ \A m \in DOMAIN log : /\ log'[m].task = log[m].task
                               /\ log'[n + m].task = log[m].task
      /\ \A m \in DOMAIN log :
            /\ log'[m].state = IF WithWorker(m)
                               THEN IF m \in saved.taken THEN "taken" ELSE "held"
                               ELSE IF m \in saved.queued \union saved.taken
                                    THEN "queued" ELSE "acked"
            /\ log'[n + m].state = IF WithWorker(m) /\ m \in saved.queued
                                   THEN "queued" ELSE "acked"
    BY RedisFacts DEF LogTyped
<1>2. ASSUME NEW k \in Fresh(t)
      PROVE  /\ f[k] \in Back(t)
             /\ k \in DOMAIN log => ~WithWorker(f[k]) /\ f[k] = k
             /\ k \notin DOMAIN log => WithWorker(f[k]) /\ f[k] = k - n /\ k \in Int
  <2>1. /\ k \in DOMAIN log' /\ log'[k].state = "queued" /\ k \notin Queued
        /\ log'[k].task = t
      BY DEF Fresh, Queued
  <2>2. CASE k \in DOMAIN log
    <3>1. ~WithWorker(k) /\ k \in saved.queued \union saved.taken /\ log[k].state # "queued"
        BY <1>1, <2>1, <2>2 DEF Queued
    <3>2. f[k] = k
        BY <2>2
    <3>3. log[k].task = t
        BY <1>1, <2>1, <2>2
    <3> QED
        BY <2>2, <3>1, <3>2, <3>3 DEF Back
  <2>3. CASE k \notin DOMAIN log
    <3>1. k - n \in DOMAIN log /\ n + (k - n) = k /\ k \in Int
        BY <1>1, <2>1, <2>3
    <3>2. log'[n + (k - n)].state = "queued" /\ log'[n + (k - n)].task = t
        BY <2>1, <3>1
    <3>3. WithWorker(k - n) /\ k - n \in saved.queued /\ log[k - n].task = t
        BY <1>1, <3>1, <3>2
    <3>4. f[k] = k - n
        BY <2>3
    <3> QED
        BY <2>3, <3>1, <3>3, <3>4 DEF Back
  <2> QED
      BY <2>2, <2>3
<1>3. f \in Injection(Fresh(t), Back(t))
  <2>1. f \in [Fresh(t) -> Back(t)]
      BY <1>2
  <2>2. ASSUME NEW j \in Fresh(t), NEW k \in Fresh(t), f[j] = f[k] PROVE j = k
    <3> HIDE DEF f
    <3> QED
        BY <1>1, <1>2, <2>2
  <2> QED
      BY <2>1, <2>2 DEF Injection, IsInjective
<1>4. IsFiniteSet(Back(t)) /\ Cardinality(Back(t)) \in Nat
    BY BackFinite
<1>5. IsFiniteSet(Fresh(t)) /\ Cardinality(Fresh(t)) <= Cardinality(Back(t))
    BY <1>3, <1>4, FS_Injection
<1> QED
    BY <1>4, <1>5, FS_CardinalityType

\* Steps that touch neither a message nor a verdict.
Quiet ==
    /\ UNCHANGED <<status, log, job, attempts, reruns, relapses, restored, lost, expired>>
    /\ \A w \in Workers : \/ phase'[w] = phase[w]
                          \/ phase[w] \in {"down", "idle"} /\ phase'[w] \in {"down", "idle"}

LEMMA EffectQuiet ==
    ASSUME LogTyped, Quiet
    PROVE  Grows /\ Queued' = Queued /\ Running' = Running /\ Working' = Working
<1>1. log' = log /\ job' = job
    BY DEF Quiet
<1>2. \A w \in Workers : /\ (phase'[w] = "run") <=> (phase[w] = "run")
                         /\ (phase'[w] \in {"run", "done"}) <=> (phase[w] \in {"run", "done"})
    BY DEF Quiet
<1> QED
    BY <1>1, <1>2 DEF Grows, Queued, Running, Working

LEMMA NextCases ==
    ASSUME QueueTyped, [HNext]_allVars
    PROVE  \/ \E t \in Tasks : Dispatch(t) /\ UNCHANGED historyVars
           \/ \E t \in Tasks : HExpire(t)
           \/ \E w \in Workers :
                 \/ HPickUp(w) \/ (HCrash(w) /\ job[w] # 0)
                 \/ /\ Discard(w) \/ Succeed(w) \/ Retry(w) \/ NoteRetry(w) \/ Fail(w)
                       \/ Acknowledge(w)
                    /\ UNCHANGED historyVars
                 \/ RetryLost(w) /\ Lose(TaskOf(w))
                 \/ ResultLost(w) /\ phase[w] = "run" /\ Lose(TaskOf(w))
                 \/ ResultLost(w) /\ phase[w] = "published" /\ UNCHANGED historyVars
           \/ HRedisCrash
           \/ Quiet
<1>0. LogTyped
    BY TypedParts
<1>1. ASSUME NEW w \in Workers, HCrash(w), job[w] = 0 PROVE Quiet
  <2>1. phase[w] = "idle" /\ log' = log /\ status' = status
        /\ phase' = [phase EXCEPT ![w] = "down"] /\ job' = [job EXCEPT ![w] = 0]
      BY <1>0, <1>1 DEF HCrash, Crash, AckLost, LogTyped
  <2>2. job' = job /\ \A v \in Workers : phase'[v] = IF v = w THEN "down" ELSE phase[v]
      BY <1>0, <1>1, <2>1 DEF LogTyped
  <2>3. UNCHANGED historyVars
      BY <1>1, <2>1 DEF HCrash, historyVars
  <2> QED
      BY <2>1, <2>2, <2>3 DEF Quiet, historyVars
<1>2. ASSUME NEW w \in Workers, Restart(w), UNCHANGED historyVars PROVE Quiet
  <2>1. \A v \in Workers : phase'[v] = IF v = w THEN "idle" ELSE phase[v]
      BY <1>0, <1>2 DEF Restart, LogTyped
  <2> QED
      BY <1>2, <2>1 DEF Restart, Quiet, historyVars
<1>3. ASSUME UNCHANGED <<status, log, phase, job, historyVars>> PROVE Quiet
    BY <1>3 DEF Quiet, historyVars
<1>s. ASSUME HSaveSnapshot PROVE Quiet
    BY <1>s DEF HSaveSnapshot, SaveSnapshot, workerVars, Quiet
<1>4. ASSUME NEW c \in Cancels, (CheckCancel(c) \/ Revoke(c)) /\ UNCHANGED historyVars
      PROVE  Quiet
    BY <1>3, <1>4 DEF CheckCancel, Revoke, workerVars
<1>5. ASSUME NEW w \in Workers, HearRevoke(w), UNCHANGED historyVars PROVE Quiet
    BY <1>3, <1>5 DEF HearRevoke, workerVars
<1>6. CASE UNCHANGED allVars
    BY <1>3, <1>6 DEF allVars, historyVars
<1>7. ASSUME NEW w \in Workers, ResultLost(w) PROVE phase[w] = "run" \/ phase[w] = "published"
    BY <1>7 DEF ResultLost
<1>8. CASE HFaults
    BY <1>1, <1>7, <1>8 DEF HFaults
<1>9. CASE HNext /\ ~HFaults
    BY <1>2, <1>s, <1>4, <1>5, <1>9 DEF HNext, HWork
<1> QED
    BY <1>6, <1>8, <1>9

\* What a message is stays.
LEMMA LogGrows ==
    ASSUME QueueTyped, [HNext]_allVars
    PROVE  Grows
<1>0. LogTyped
    BY TypedParts
<1>1. ASSUME NEW u \in Tasks, Dispatch(u) PROVE Grows
  <2>1. log' = Append(log, Message(u, 0)) /\ 0 \in 0 .. MaxRetries /\ job' = job
      BY <1>1, RetriesAssumption DEF Dispatch, workerVars
  <2> QED
      BY <1>0, <2>1, EffectPublish
<1>2. ASSUME NEW w \in Workers, Retry(w) PROVE Grows
  <2>1. /\ log' = Append(log, Message(TaskOf(w), Current(w).tries + 1)) /\ job' = job
        /\ job[w] # 0 /\ Current(w).tries < MaxRetries
      BY <1>0, <1>2 DEF Retry, Proceed, LogTyped
  <2>2. TaskOf(w) \in Tasks /\ Current(w).tries + 1 \in 0 .. MaxRetries
      BY <2>1, JobFacts, RetriesAssumption
  <2> QED
      BY <1>0, <2>1, <2>2, EffectPublish
<1>3. ASSUME NEW w \in Workers, PickUp(w) \/ Discard(w) PROVE Grows
    BY <1>0, <1>3, EffectTake DEF PickUp, Discard
<1>4. ASSUME NEW w \in Workers, Acknowledge(w) \/ RetryLost(w) \/ (HCrash(w) /\ job[w] # 0)
      PROVE  Grows
  <2>1. /\ job[w] # 0
        /\ \E s \in {"queued", "acked"}, p \in {"down", "idle"} : Leaves(w, s, p)
      BY <1>0, <1>4, LeaveCases
  <2> QED
      BY <1>0, <2>1, EffectLeave
<1>5. ASSUME RedisCrash PROVE Grows
    BY <1>0, <1>5, TypedParts, EffectRedis
<1>6. ASSUME log' = log PROVE Grows
    BY <1>6 DEF Grows
<1> QED
    BY NextCases, <1>1, <1>2, <1>3, <1>4, <1>5, <1>6
       DEF HPickUp, HRedisCrash, HExpire, Expire, Quiet, Succeed, Fail, NoteRetry, ResultLost

----------------------------------------------------------------------------
(* Nothing is forgotten.                                                   *)

\* A message that is yet to bring t to a verdict.
Pending(t) == \E m \in Queued \union Running : log[m].task = t

KeptInv(t) ==
    t \notin lost \union expired /\ Sent(t) => Pending(t) \/ status[t] \in Terminal

\* The same of the snapshot, for the tasks that it knows.
SavedInv(t) ==
    t \in known \ (lost \union expired) =>
        \/ \E m \in saved.queued \union saved.taken : log[m].task = t
        \/ saved.status[t] \in Terminal

\* The retry waits until RETRY was stored, so the store cannot hide its verdict.
RetryInv(w) ==
    phase[w] = "published" =>
        \/ TaskOf(w) \in lost
        \/ \E m \in Queued : /\ log[m].task = TaskOf(w)
                             /\ log[m].tries = Current(w).tries + 1

\* What was lost or has expired stays so.
LEMMA LossesGrow ==
    ASSUME QueueTyped, [HNext]_allVars
    PROVE  lost \subseteq lost' /\ expired \subseteq expired'
  BY NextCases DEF HExpire, HPickUp, HCrash, HRedisCrash, Lose, Quiet, historyVars

\* A step that neither takes t's last pending message nor its verdict.
LEMMA KeptStays ==
    ASSUME NEW t \in Tasks, KeptInv(t), Grows, t \notin lost \union expired, Sent(t),
           \A m \in Queued \union Running :
               log[m].task = t => (m \in Queued' \union Running' \/ status'[t] \in Terminal),
           status'[t] = status[t] \/ status'[t] \in Terminal
    PROVE  Pending(t)' \/ status'[t] \in Terminal
<1>1. CASE status[t] \in Terminal
    BY <1>1
<1>2. CASE Pending(t)
  <2>1. PICK m \in Queued \union Running : log[m].task = t
      BY <1>2 DEF Pending
  <2>2. log'[m].task = t
      BY <2>1 DEF Grows, Queued, Running
  <2> QED
      BY <2>1, <2>2 DEF Pending
<1> QED
    BY <1>1, <1>2 DEF KeptInv

\* A task has a message whenever it had one.
LEMMA SentBefore ==
    ASSUME Grows, DOMAIN log' = DOMAIN log, NEW t, Sent(t)'
    PROVE  Sent(t)
  BY DEF Grows, Sent

LEMMA KeptStep ==
    ASSUME QueueTyped, [HNext]_allVars, \A w \in Workers : RetryInv(w),
           NEW t \in Tasks, KeptInv(t), SavedInv(t)
    PROVE  KeptInv(t)'
<1> SUFFICES ASSUME t \notin lost' \union expired', Sent(t)'
             PROVE  Pending(t)' \/ status'[t] \in Terminal
    BY DEF KeptInv
<1>0. LogTyped /\ status \in [Tasks -> Stored] /\ t \notin lost \union expired
      /\ "SUCCESS" \in Terminal /\ "FAILURE" \in Terminal /\ "REVOKED" \in Terminal
    BY TypedParts, LossesGrow DEF RestTyped, Terminal
<1>1. ASSUME NEW u \in Tasks, Dispatch(u) PROVE Pending(t)' \/ status'[t] \in Terminal
  <2>1. log' = Append(log, Message(u, 0)) /\ job' = job /\ phase' = phase
        /\ status' = status /\ 0 \in 0 .. MaxRetries
      BY <1>1, RetriesAssumption DEF Dispatch, workerVars
  <2>2. /\ Grows /\ DOMAIN log' = DOMAIN log \union {Len(log) + 1}
        /\ log'[Len(log) + 1].task = u
        /\ Queued' = Queued \union {Len(log) + 1} /\ Running' = Running
      BY <1>0, <2>1, EffectPublish
  <2>3. CASE u = t
      BY <2>2, <2>3 DEF Pending
  <2>4. CASE u # t
    <3>1. Sent(t)
        BY <2>2, <2>4 DEF Sent, Grows
    <3> QED
        BY <1>0, <2>1, <2>2, <3>1, KeptStays
  <2> QED
      BY <2>3, <2>4
<1>2. ASSUME NEW w \in Workers, PickUp(w) PROVE Pending(t)' \/ status'[t] \in Terminal
  <2>1. PICK m \in DOMAIN log : Take(w, m, "run") /\ status' = status
      BY <1>2 DEF PickUp
  <2>2. /\ Grows /\ DOMAIN log' = DOMAIN log /\ Queued' = Queued \ {m}
        /\ Running' = Running \union {m}
      BY <1>0, <2>1, EffectTake
  <2> QED
      BY <1>0, <2>1, <2>2, SentBefore, KeptStays
<1>3. ASSUME NEW w \in Workers, Discard(w) PROVE Pending(t)' \/ status'[t] \in Terminal
  <2>1. PICK m \in DOMAIN log : Take(w, m, "done") /\ Store(log[m].task, "REVOKED")
      BY <1>3 DEF Discard
  <2>2. /\ Grows /\ DOMAIN log' = DOMAIN log /\ Queued' = Queued \ {m} /\ Running' = Running
      BY <1>0, <2>1, EffectTake
  <2>3. IF log[m].task = t THEN status'[t] \in Terminal ELSE status'[t] = status[t]
      BY <1>0, <2>1 DEF Store
  <2> QED
      BY <1>0, <2>2, <2>3, SentBefore, KeptStays
<1>4. ASSUME NEW w \in Workers, Succeed(w) \/ Fail(w)
      PROVE  Pending(t)' \/ status'[t] \in Terminal
  <2>1. /\ phase[w] = "run" /\ phase' = [phase EXCEPT ![w] = "done"] /\ job' = job /\ log' = log
        /\ Store(TaskOf(w), "SUCCESS") \/ Store(TaskOf(w), "FAILURE")
      BY <1>4 DEF Succeed, Fail, Proceed
  <2>2. Grows /\ Queued' = Queued /\ Running' = Running \ {job[w]}
      BY <1>0, <2>1, EffectMove
  <2>3. IF log[job[w]].task = t THEN status'[t] \in Terminal ELSE status'[t] = status[t]
      BY <1>0, <2>1 DEF Store, TaskOf, Current
  <2> QED
      BY <1>0, <2>1, <2>2, <2>3, SentBefore, KeptStays
<1>5. ASSUME NEW w \in Workers, Retry(w) PROVE Pending(t)' \/ status'[t] \in Terminal
  <2>1. /\ phase[w] = "run" /\ phase' = [phase EXCEPT ![w] = "published"] /\ job' = job
        /\ log' = Append(log, Message(TaskOf(w), Current(w).tries + 1)) /\ status' = status
        /\ job[w] # 0 /\ Current(w).tries < MaxRetries
      BY <1>0, <1>5 DEF Retry, Proceed, LogTyped
  <2>2. TaskOf(w) \in Tasks /\ Current(w).tries + 1 \in 0 .. MaxRetries
      BY <2>1, JobFacts, RetriesAssumption
  <2>3. /\ Grows /\ DOMAIN log' = DOMAIN log \union {Len(log) + 1}
        /\ log'[Len(log) + 1].task = TaskOf(w)
        /\ Queued' = Queued \union {Len(log) + 1} /\ Running' = Running \ {job[w]}
      BY <1>0, <2>1, <2>2, EffectPublish
  <2>4. CASE TaskOf(w) = t
      BY <2>3, <2>4 DEF Pending
  <2>5. CASE TaskOf(w) # t
    <3>1. Sent(t)
        BY <2>3, <2>5 DEF Sent, Grows
    <3> QED
        BY <1>0, <2>1, <2>3, <2>5, <3>1, KeptStays DEF TaskOf, Current
  <2> QED
      BY <2>4, <2>5
<1>6. ASSUME NEW w \in Workers, NoteRetry(w) PROVE Pending(t)' \/ status'[t] \in Terminal
  <2>1. /\ phase[w] = "published" /\ phase' = [phase EXCEPT ![w] = "retried"] /\ job' = job
        /\ log' = log /\ Store(TaskOf(w), "RETRY")
      BY <1>6 DEF NoteRetry, Proceed
  <2>2. Grows /\ Queued' = Queued /\ Running' = Running
      BY <1>0, <2>1, EffectMove
  <2>3. CASE TaskOf(w) = t
    <3>1. PICK m \in Queued : log[m].task = t
        BY <1>0, <2>1, <2>3 DEF RetryInv
    <3> QED
        BY <2>1, <2>2, <3>1 DEF Pending
  <2>4. CASE TaskOf(w) # t
    <3>1. status'[t] = status[t] /\ Sent(t)
        BY <1>0, <2>1, <2>4 DEF Store, Sent
    <3> QED
        BY <1>0, <2>2, <3>1, KeptStays
  <2> QED
      BY <2>3, <2>4
<1>7. ASSUME NEW w \in Workers,
             Acknowledge(w) \/ (RetryLost(w) /\ Lose(TaskOf(w))) \/ (HCrash(w) /\ job[w] # 0)
      PROVE  Pending(t)' \/ status'[t] \in Terminal
  <2>1. /\ job[w] # 0
        /\ \E s \in {"queued", "acked"}, p \in {"down", "idle"} : Leaves(w, s, p)
      BY <1>0, <1>7, LeaveCases
  <2>s. status' = status
      BY <1>7 DEF Acknowledge, RetryLost, HCrash, Crash, AckLost
  <2>2. /\ Grows /\ DOMAIN log' = DOMAIN log /\ Queued \subseteq Queued'
        /\ Running' = Running \ {job[w]}
      BY <1>0, <2>1, EffectLeave
  <2>3. ASSUME job[w] \in Running, log[job[w]].task = t PROVE job[w] \in Queued'
    <3>1. phase[w] = "run" /\ Current(w).state = "taken"
        BY <1>0, <2>1, <2>3, HeldFacts
    <3>2. ~Acknowledge(w)
        BY <3>1 DEF Acknowledge
    <3>3. ~Lose(TaskOf(w))
        BY <2>3 DEF Lose, TaskOf, Current
    <3>4. Leaves(w, "queued", "down")
        BY <1>0, <1>7, <3>1, <3>2, <3>3, LeaveCases
    <3> QED
        BY <1>0, <2>1, <3>4, EffectLeave
  <2> QED
      BY <1>0, <2>1, <2>s, <2>2, <2>3, SentBefore, KeptStays
<1>8. ASSUME NEW w \in Workers, ResultLost(w), phase[w] = "run", Lose(TaskOf(w))
      PROVE  Pending(t)' \/ status'[t] \in Terminal
  <2>1. phase' = [phase EXCEPT ![w] = "done"] /\ job' = job /\ log' = log /\ status' = status
      BY <1>8 DEF ResultLost
  <2>2. Grows /\ Queued' = Queued /\ Running' = Running \ {job[w]}
      BY <1>0, <1>8, <2>1, EffectMove
  <2>3. log[job[w]].task # t
      BY <1>8 DEF Lose, TaskOf, Current
  <2> QED
      BY <1>0, <2>1, <2>2, <2>3, SentBefore, KeptStays
<1>9. ASSUME NEW w \in Workers, ResultLost(w), phase[w] = "published"
      PROVE  Pending(t)' \/ status'[t] \in Terminal
  <2>1. phase' = [phase EXCEPT ![w] = "retried"] /\ job' = job /\ log' = log /\ status' = status
      BY <1>9 DEF ResultLost
  <2>2. Grows /\ Queued' = Queued /\ Running' = Running
      BY <1>0, <1>9, <2>1, EffectMove
  <2> QED
      BY <1>0, <2>1, <2>2, SentBefore, KeptStays
<1>10. CASE HRedisCrash
  <2>1. /\ RedisCrash /\ t \in known \ (lost \union expired)
        /\ \A w \in Workers :
              phase[w] \in {"published", "retried", "done"} => TaskOf(w) # t
    <3>1. RedisCrash /\ (Sent(t) => t \in known)
          /\ \A w \in Workers :
                phase[w] \in {"published", "retried", "done"} => TaskOf(w) # t
        BY <1>10 DEF HRedisCrash
    <3>2. Sent(t)
        BY <1>0, <3>1, TypedParts, EffectRedis DEF Sent
    <3> QED
        BY <1>0, <3>1, <3>2
  <2>2. CASE saved.status[t] \in Terminal
      BY <2>1, <2>2 DEF RedisCrash
  <2>3. CASE \E m \in saved.queued \union saved.taken : log[m].task = t
    <3>1. PICK m \in saved.queued \union saved.taken : log[m].task = t
        BY <2>3
    <3>2. CASE \E k \in Queued' : log'[k].task = t
        BY <3>2 DEF Pending
    <3>3. CASE WithWorker(m) /\ m \in DOMAIN log' /\ log'[m].state = "taken"
      <4>1. m \in DOMAIN log /\ log'[m].task = t
          BY <1>0, <2>1, <3>1, TypedParts, EffectRedis DEF RestTyped, Grows
      <4>2. PICK w \in Workers : job[w] = m
          BY <1>0, <3>3, <4>1 DEF LogTyped, JobsApart
      <4>3. TaskOf(w) = t /\ job[w] # 0
        <5>1. m # 0
            BY <1>0, <4>1, LogFacts
        <5> QED
            BY <3>1, <4>2, <5>1 DEF TaskOf, Current
      <4>4. phase[w] = "run"
          BY <1>0, <2>1, <4>3 DEF LogTyped
      <4>5. job'[w] = m /\ phase'[w] = "run"
          BY <1>0, <2>1, <4>2, <4>4, TypedParts, EffectRedis
      <4>6. m \in Running'
          BY <3>3, <4>5 DEF Running
      <4> QED
          BY <4>1, <4>6 DEF Pending
    <3> QED
        BY <1>0, <2>1, <3>1, <3>2, <3>3, TypedParts, EffectRedis
  <2> QED
      BY <2>1, <2>2, <2>3 DEF SavedInv
<1>11. ASSUME NEW u \in Tasks, HExpire(u) PROVE Pending(t)' \/ status'[t] \in Terminal
  <2>1. /\ log' = log /\ phase' = phase /\ job' = job /\ u # t
        /\ status'[t] = status[t]
      BY <1>0, <1>11 DEF HExpire, Expire, workerVars
  <2>2. Grows /\ Queued' = Queued /\ Running' = Running
      BY <2>1 DEF Grows, Queued, Running
  <2> QED
      BY <1>0, <2>1, <2>2, SentBefore, KeptStays
<1>12. CASE Quiet
  <2>1. Grows /\ Queued' = Queued /\ Running' = Running /\ log' = log /\ status' = status
      BY <1>0, <1>12, EffectQuiet DEF Quiet
  <2> QED
      BY <1>0, <2>1, SentBefore, KeptStays
<1> QED
    BY NextCases, <1>1, <1>2, <1>3, <1>4, <1>5, <1>6, <1>7, <1>8, <1>9, <1>10, <1>11, <1>12
       DEF HPickUp

\* A snapshot has what there is of a task when it is taken.
LEMMA SavedStep ==
    ASSUME QueueTyped, [HNext]_allVars, NEW t \in Tasks, KeptInv(t), SavedInv(t)
    PROVE  SavedInv(t)'
<1>0. LogTyped /\ RestTyped /\ lost \subseteq lost' /\ expired \subseteq expired'
    BY TypedParts, LossesGrow
<1>1. CASE HSaveSnapshot
  <2> SUFFICES ASSUME t \in known', t \notin lost \union expired
               PROVE  \/ \E m \in saved'.queued \union saved'.taken : log'[m].task = t
                      \/ saved'.status[t] \in Terminal
      BY <1>0 DEF SavedInv
  <2>1. /\ log' = log /\ saved'.status = status
        /\ saved'.queued = {m \in DOMAIN log : log[m].state = "queued"}
        /\ saved'.taken = {m \in DOMAIN log : log[m].state = "taken"}
      BY <1>1 DEF HSaveSnapshot, SaveSnapshot
  <2>2. Pending(t) \/ status[t] \in Terminal
      BY <1>1 DEF HSaveSnapshot, KeptInv
  <2> QED
      BY <2>1, <2>2 DEF Pending, Queued, Running
<1>2. CASE saved' = saved /\ known' = known
  <2>1. \A m \in saved.queued \union saved.taken : log'[m].task = log[m].task
    <3>1. Grows
        BY LogGrows
    <3> QED
        BY <1>0, <3>1 DEF RestTyped, Grows
  <2> QED
      BY <1>0, <1>2, <2>1 DEF SavedInv
<1>3. HSaveSnapshot \/ (saved' = saved /\ known' = known)
    BY DEF HNext, HWork, HPickUp, HFaults, HCrash, HRedisCrash, RedisCrash, HExpire, Lose,
           historyVars, allVars, saveVars,
           Dispatch, Expire, PickUp, Discard, Take, Succeed, Retry, NoteRetry, Fail,
           Proceed, Acknowledge, RetryLost, ResultLost, AckLost,
           CheckCancel, Revoke, HearRevoke, Restart, Crash
<1> QED
    BY <1>1, <1>2, <1>3

\* A step of others that leaves w's retry queued.
LEMMA RetryStays ==
    ASSUME QueueTyped, NEW w \in Workers, RetryInv(w), Grows, lost \subseteq lost',
           phase'[w] = phase[w], job'[w] = job[w],
           \A m \in Queued :
               /\ log[m].task = TaskOf(w)
               /\ log[m].tries = Current(w).tries + 1
               /\ phase[w] = "published"
               => m \in Queued' \/ log[m].task \in lost'
    PROVE  RetryInv(w)'
<1> SUFFICES ASSUME phase[w] = "published"
             PROVE  \/ TaskOf(w)' \in lost'
                    \/ \E m \in Queued' : /\ log'[m].task = TaskOf(w)'
                                          /\ log'[m].tries = Current(w)'.tries + 1
    BY DEF RetryInv
<1>1. TaskOf(w)' = TaskOf(w) /\ Current(w)'.tries = Current(w).tries
  <2>1. job[w] \in DOMAIN log
      BY TypedParts, HeldFacts DEF LogTyped
  <2> QED
      BY <2>1 DEF Grows, TaskOf, Current
<1>2. CASE TaskOf(w) \in lost
    BY <1>1, <1>2
<1>3. CASE \E m \in Queued : log[m].task = TaskOf(w) /\ log[m].tries = Current(w).tries + 1
  <2>1. PICK m \in Queued : log[m].task = TaskOf(w) /\ log[m].tries = Current(w).tries + 1
      BY <1>3
  <2>2. log'[m].task = TaskOf(w) /\ log'[m].tries = Current(w).tries + 1
      BY <2>1 DEF Grows, Queued
  <2> QED
      BY <1>1, <2>1, <2>2
<1> QED
    BY <1>2, <1>3 DEF RetryInv

LEMMA RetryStep ==
    ASSUME QueueTyped, [HNext]_allVars, NEW w \in Workers, RetryInv(w)
    PROVE  RetryInv(w)'
<1>0. LogTyped /\ lost \subseteq lost'
    BY TypedParts, LossesGrow
<1>1. ASSUME NEW u \in Tasks, Dispatch(u) PROVE RetryInv(w)'
  <2>1. log' = Append(log, Message(u, 0)) /\ job' = job /\ phase' = phase /\ 0 \in 0 .. MaxRetries
      BY <1>1, RetriesAssumption DEF Dispatch, workerVars
  <2>2. Grows /\ Queued' = Queued \union {Len(log) + 1}
      BY <1>0, <2>1, EffectPublish
  <2> QED
      BY <1>0, <2>1, <2>2, RetryStays
<1>2. ASSUME NEW v \in Workers, PickUp(v) \/ Discard(v) PROVE RetryInv(w)'
  <2>1. PICK m \in DOMAIN log, p \in {"run", "done"} : Take(v, m, p)
      BY <1>2 DEF PickUp, Discard
  <2>2. /\ Grows /\ Queued' = Queued \ {m} /\ phase'[v] # "published"
        /\ v # w => phase'[w] = phase[w] /\ job'[w] = job[w]
      BY <1>0, <2>1, EffectTake
  <2>3. CASE v = w
      BY <2>2, <2>3 DEF RetryInv
  <2>4. CASE v # w
    <3>1. ~(phase[w] = "published" /\ TaskOf(w) = log[m].task /\ log[m].tries = Current(w).tries + 1)
        BY <2>1 DEF Take, Ripe
    <3> QED
        BY <1>0, <2>2, <2>4, <3>1, RetryStays
  <2> QED
      BY <2>3, <2>4
<1>3. ASSUME NEW v \in Workers, NEW p \in {"retried", "done"},
             phase[v] = IF p = "done" THEN "run" ELSE "published",
             phase' = [phase EXCEPT ![v] = p], job' = job, log' = log
      PROVE  RetryInv(w)'
  <2>1. /\ Grows /\ Queued' = Queued /\ phase'[v] # "published"
        /\ v # w => phase'[w] = phase[w]
      BY <1>0, <1>3, EffectMove
  <2> QED
      BY <1>0, <1>3, <2>1, RetryStays DEF RetryInv
<1>4. ASSUME NEW v \in Workers,
             Succeed(v) \/ Fail(v) \/ NoteRetry(v) \/ ResultLost(v)
      PROVE  RetryInv(w)'
    BY <1>3, <1>4 DEF Succeed, Fail, NoteRetry, ResultLost, Proceed
<1>5. ASSUME NEW v \in Workers, Retry(v) PROVE RetryInv(w)'
  <2>1. /\ phase[v] = "run" /\ phase' = [phase EXCEPT ![v] = "published"] /\ job' = job
        /\ log' = Append(log, Message(TaskOf(v), Current(v).tries + 1))
        /\ job[v] # 0 /\ Current(v).tries < MaxRetries
      BY <1>0, <1>5 DEF Retry, Proceed, LogTyped
  <2>2. /\ TaskOf(v) \in Tasks /\ Current(v).tries + 1 \in 0 .. MaxRetries
        /\ job[v] \in DOMAIN log
      BY <2>1, JobFacts, RetriesAssumption
  <2>3. /\ Grows /\ log'[Len(log) + 1].task = TaskOf(v)
        /\ log'[Len(log) + 1].tries = Current(v).tries + 1
        /\ Queued' = Queued \union {Len(log) + 1}
        /\ v # w => phase'[w] = phase[w]
      BY <1>0, <2>1, <2>2, EffectPublish
  <2>4. CASE v = w
    <3>1. TaskOf(w)' = TaskOf(w) /\ Current(w)'.tries = Current(w).tries
        BY <2>1, <2>2, <2>3, <2>4 DEF Grows, TaskOf, Current
    <3> QED
        BY <2>3, <2>4, <3>1 DEF RetryInv
  <2>5. CASE v # w
      BY <1>0, <2>1, <2>3, <2>5, RetryStays
  <2> QED
      BY <2>4, <2>5
<1>6. ASSUME NEW v \in Workers, Acknowledge(v) \/ RetryLost(v) \/ (HCrash(v) /\ job[v] # 0)
      PROVE  RetryInv(w)'
  <2>1. /\ job[v] # 0
        /\ \E s \in {"queued", "acked"}, p \in {"down", "idle"} : Leaves(v, s, p)
      BY <1>0, <1>6, LeaveCases
  <2>2. /\ Grows /\ Queued \subseteq Queued' /\ phase'[v] # "published"
        /\ v # w => phase'[w] = phase[w] /\ job'[w] = job[w]
      BY <1>0, <2>1, EffectLeave
  <2> QED
      BY <1>0, <2>2, RetryStays DEF RetryInv
<1>7. CASE HRedisCrash
  <2> SUFFICES ASSUME phase'[w] = "published" PROVE TaskOf(w)' \in lost'
      BY DEF RetryInv
  <2>1. Grows /\ phase' = phase /\ job' = job
      BY <1>0, <1>7, TypedParts, EffectRedis DEF HRedisCrash
  <2>2. job[w] \in DOMAIN log
      BY <1>0, <2>1, HeldFacts DEF LogTyped
  <2>3. TaskOf(w)' = TaskOf(w)
      BY <2>1, <2>2 DEF Grows, TaskOf, Current
  <2>4. TaskOf(w) \in lost'
      BY <1>7, <2>1 DEF HRedisCrash
  <2> QED
      BY <2>3, <2>4
<1>8. ASSUME NEW u \in Tasks, HExpire(u) PROVE RetryInv(w)'
  <2>1. log' = log /\ phase' = phase /\ job' = job
      BY <1>8 DEF HExpire, Expire, workerVars
  <2>2. Grows /\ Queued' = Queued
      BY <2>1 DEF Grows, Queued
  <2> QED
      BY <1>0, <2>1, <2>2, RetryStays
<1>9. CASE Quiet
  <2>1. Grows /\ Queued' = Queued /\ job' = job
        /\ (phase'[w] = phase[w] \/ phase'[w] # "published")
      BY <1>0, <1>9, EffectQuiet DEF Quiet
  <2> QED
      BY <1>0, <2>1, RetryStays DEF RetryInv
<1> QED
    BY NextCases, <1>1, <1>2, <1>4, <1>5, <1>6, <1>7, <1>8, <1>9 DEF HPickUp

KeptAll ==
    /\ QueueTyped
    /\ \A t \in Tasks : KeptInv(t) /\ SavedInv(t)
    /\ \A w \in Workers : RetryInv(w)

\* Late acknowledgement: a dispatched task of which no fault took a message or a
\* verdict has a message in flight or a verdict in the result backend, however
\* attempts, retries, revocations, crashes and restarts of workers and of Redis
\* interleave.
THEOREM NothingForgotten == HSpec => []NeverForgotten
<1>1. HInit => KeptAll
  <2> SUFFICES ASSUME HInit PROVE KeptAll
      OBVIOUS
  <2>1. ASSUME NEW t \in Tasks PROVE KeptInv(t) /\ SavedInv(t)
    <3>1. DOMAIN log = {} /\ known = {}
        BY DEF HInit, Init
    <3>2. ~Sent(t)
        BY <3>1 DEF Sent
    <3> QED
        BY <3>1, <3>2 DEF KeptInv, SavedInv
  <2>2. \A w \in Workers : RetryInv(w)
      BY DEF HInit, Init, RetryInv
  <2> QED
      BY <2>1, <2>2, TypeInit DEF KeptAll
<1>2. KeptAll /\ [HNext]_allVars => KeptAll'
  <2> SUFFICES ASSUME KeptAll, [HNext]_allVars PROVE KeptAll'
      OBVIOUS
  <2>1. QueueTyped'
      BY TypeStep DEF KeptAll
  <2>2. ASSUME NEW t \in Tasks PROVE KeptInv(t)' /\ SavedInv(t)'
      BY KeptStep, SavedStep DEF KeptAll
  <2>3. ASSUME NEW w \in Workers PROVE RetryInv(w)'
      BY RetryStep DEF KeptAll
  <2> QED
      BY <2>1, <2>2, <2>3 DEF KeptAll
<1>3. KeptAll => NeverForgotten
  <2> SUFFICES ASSUME KeptAll, NEW t \in Tasks \ (lost \union expired), Sent(t), Pending(t)
               PROVE  InFlight(t)
      BY DEF KeptAll, KeptInv, NeverForgotten
  <2>1. PICK m \in Queued \union Running : log[m].task = t
      BY DEF Pending
  <2>2. m \in DOMAIN log /\ log[m].state \in {"queued", "taken"}
      BY <2>1 DEF Queued, Running
  <2> QED
      BY <2>1, <2>2 DEF InFlight
<1> QED
    BY <1>1, <1>2, <1>3, PTL DEF HSpec

----------------------------------------------------------------------------
(* How a task multiplies.                                                  *)

LEMMA LiveFacts ==
    ASSUME LogTyped, NEW t
    PROVE  /\ Live(t) = {m \in Queued \union Working : log[m].task = t}
           /\ Live(t)' = {m \in Queued' \union Working' : log'[m].task = t}
           /\ IsFiniteSet(Live(t)) /\ Cardinality(Live(t)) \in Nat
           /\ Queued \subseteq DOMAIN log /\ Working \subseteq DOMAIN log
<1>1. Live(t) = {m \in Queued \union Working : log[m].task = t}
    BY DEF Live, Queued, Working
<1>2. Live(t)' = {m \in Queued' \union Working' : log'[m].task = t}
    BY DEF Live, Queued, Working
<1>3. IsFiniteSet(Live(t))
  <2>1. Live(t) \subseteq 1 .. Len(log) /\ Len(log) \in Nat
      BY LogFacts DEF Live
  <2>2. IsFiniteSet(1 .. Len(log))
      BY <2>1, FS_Interval
  <2> QED
      BY <2>1, <2>2, FS_Subset
<1> QED
    BY <1>1, <1>2, <1>3, FS_CardinalityType DEF Queued, Working

CopiesInv(t) == Cardinality(Live(t)) <= Copies(t)

LEMMA CopiesShrink ==
    ASSUME QueueTyped, QueueTyped', NEW t \in Tasks, CopiesInv(t),
           Grows, relapses' = relapses /\ restored' = restored,
           \A m \in Queued' \union Working' :
               log'[m].task = t => m \in Queued \union Working
    PROVE  CopiesInv(t)'
<1>1. Live(t)' \subseteq Live(t)
    BY TypedParts, LiveFacts DEF Grows
<1>2. /\ Cardinality(Live(t)') <= Cardinality(Live(t))
      /\ Cardinality(Live(t)) \in Nat /\ Cardinality(Live(t)') \in Nat
    BY <1>1, TypedParts, LiveFacts, FS_Subset, FS_CardinalityType
<1>3. Copies(t) \in Nat /\ Copies(t)' = Copies(t)
    BY TypedParts DEF RestTyped, Copies
<1> QED
    BY <1>2, <1>3 DEF CopiesInv

LEMMA CopiesStep ==
    ASSUME QueueTyped, [HNext]_allVars, NEW t \in Tasks, CopiesInv(t)
    PROVE  CopiesInv(t)'
<1>0. /\ QueueTyped' /\ LogTyped
      /\ relapses \in [Tasks -> Nat] /\ restored \in [Tasks -> Nat]
    BY TypeStep, TypedParts DEF RestTyped
<1>1. ASSUME NEW u \in Tasks, Dispatch(u), UNCHANGED historyVars PROVE CopiesInv(t)'
  <2>1. /\ log' = Append(log, Message(u, 0)) /\ job' = job /\ phase' = phase
        /\ 0 \in 0 .. MaxRetries /\ ~Sent(u) /\ relapses' = relapses /\ restored' = restored
      BY <1>1, RetriesAssumption DEF Dispatch, workerVars, historyVars
  <2>2. /\ Grows /\ log'[Len(log) + 1].task = u
        /\ Queued' = Queued \union {Len(log) + 1} /\ Working' = Working
      BY <1>0, <2>1, EffectPublish
  <2>3. CASE u = t
    <3>1. Live(t)' \subseteq {Len(log) + 1}
        BY <1>0, <2>1, <2>2, <2>3, LiveFacts DEF Sent, Grows
    <3>2. IsFiniteSet({Len(log) + 1}) /\ Cardinality({Len(log) + 1}) = 1
        BY FS_Singleton
    <3>3. Cardinality(Live(t)') <= 1 /\ Cardinality(Live(t)') \in Nat
        BY <3>1, <3>2, FS_Subset, FS_CardinalityType
    <3> QED
        BY <1>0, <2>1, <3>3 DEF CopiesInv, Copies
  <2>4. CASE u # t
      BY <1>0, <2>1, <2>2, <2>4, CopiesShrink
  <2> QED
      BY <2>3, <2>4
<1>2. ASSUME NEW w \in Workers, PickUp(w) \/ Discard(w), relapses' = relapses /\ restored' = restored
      PROVE  CopiesInv(t)'
  <2>1. PICK m \in DOMAIN log, p \in {"run", "done"} : Take(w, m, p)
      BY <1>2 DEF PickUp, Discard
  <2>2. Grows /\ m \in Queued /\ Queued' = Queued \ {m} /\ Working' = Working \union {m}
      BY <1>0, <2>1, EffectTake
  <2> QED
      BY <1>0, <1>2, <2>2, CopiesShrink
<1>3. ASSUME NEW w \in Workers, relapses' = relapses /\ restored' = restored,
             Succeed(w) \/ Fail(w) \/ NoteRetry(w) \/ ResultLost(w)
      PROVE  CopiesInv(t)'
  <2>1. PICK p \in {"retried", "done"} :
            /\ phase[w] = IF p = "done" THEN "run" ELSE "published"
            /\ phase' = [phase EXCEPT ![w] = p] /\ job' = job /\ log' = log
      BY <1>3 DEF Succeed, Fail, NoteRetry, ResultLost, Proceed
  <2>2. Grows /\ Queued' = Queued /\ Working' = Working
      BY <1>0, <2>1, EffectMove
  <2> QED
      BY <1>0, <1>3, <2>2, CopiesShrink
<1>4. ASSUME NEW w \in Workers, Retry(w), relapses' = relapses /\ restored' = restored PROVE CopiesInv(t)'
  <2>1. /\ phase[w] = "run" /\ phase' = [phase EXCEPT ![w] = "published"] /\ job' = job
        /\ log' = Append(log, Message(TaskOf(w), Current(w).tries + 1))
        /\ job[w] # 0 /\ Current(w).tries < MaxRetries
      BY <1>0, <1>4 DEF Retry, Proceed, LogTyped
  <2>2. TaskOf(w) \in Tasks /\ Current(w).tries + 1 \in 0 .. MaxRetries
      BY <2>1, JobFacts, RetriesAssumption
  <2>3. /\ Grows /\ Len(log) + 1 \notin DOMAIN log /\ log'[Len(log) + 1].task = TaskOf(w)
        /\ Queued' = Queued \union {Len(log) + 1} /\ Working' = Working \ {job[w]}
      BY <1>0, <2>1, <2>2, EffectPublish
  <2>4. CASE TaskOf(w) = t
    <3>1. job[w] \in Working /\ job[w] \notin Queued /\ log[job[w]].task = t
        BY <1>0, <2>1, <2>4, HeldFacts DEF TaskOf, Current
    <3>2. job[w] \in Live(t)
        BY <1>0, <3>1, LiveFacts
    <3>3. Live(t)' = (Live(t) \ {job[w]}) \union {Len(log) + 1}
        BY <1>0, <2>3, <2>4, <3>1, LiveFacts DEF Grows
    <3>4. /\ IsFiniteSet(Live(t) \ {job[w]})
          /\ Cardinality(Live(t) \ {job[w]}) = Cardinality(Live(t)) - 1
          /\ Cardinality(Live(t)) \in Nat /\ Cardinality(Live(t) \ {job[w]}) \in Nat
        BY <1>0, <3>2, LiveFacts, FS_RemoveElement, FS_CardinalityType
    <3>5. Len(log) + 1 \notin Live(t) \ {job[w]}
        BY <1>0, <2>3, LiveFacts
    <3>6. Cardinality((Live(t) \ {job[w]}) \union {Len(log) + 1})
            = Cardinality(Live(t) \ {job[w]}) + 1
        BY <3>4, <3>5, FS_AddElement
    <3>7. Cardinality(Live(t)') = Cardinality(Live(t))
        BY <3>3, <3>4, <3>6
    <3> QED
        BY <1>4, <3>7 DEF CopiesInv, Copies
  <2>5. CASE TaskOf(w) # t
      BY <1>0, <1>4, <2>3, <2>5, CopiesShrink
  <2> QED
      BY <2>4, <2>5
<1>5. ASSUME NEW w \in Workers, Acknowledge(w) \/ RetryLost(w), relapses' = relapses /\ restored' = restored
      PROVE  CopiesInv(t)'
  <2>1. job[w] # 0 /\ Leaves(w, "acked", "idle")
      BY <1>0, <1>5, LeaveCases
  <2>2. Grows /\ Queued' = Queued /\ Working' = Working \ {job[w]}
      BY <1>0, <2>1, EffectLeave
  <2> QED
      BY <1>0, <1>5, <2>2, CopiesShrink
<1>6. ASSUME NEW w \in Workers, HCrash(w), job[w] # 0 PROVE CopiesInv(t)'
  <2>1. \E s \in {"queued", "acked"}, p \in {"down", "idle"} : Leaves(w, s, p)
      BY <1>0, <1>6, LeaveCases
  <2>2. /\ Grows /\ Queued' \subseteq Queued \union {job[w]}
        /\ Working' = Working \ {job[w]} /\ job[w] \in DOMAIN log
      BY <1>0, <1>6, <2>1, EffectLeave, HeldFacts
  <2>3. CASE phase[w] \in {"run", "done"}
    <3>1. relapses' = relapses /\ restored' = restored /\ job[w] \in Working
        BY <1>0, <1>6, <2>3, HeldFacts DEF HCrash
    <3> QED
        BY <1>0, <2>2, <3>1, CopiesShrink
  <2>4. CASE phase[w] \in {"published", "retried"}
    <3>1. /\ relapses' = Count(relapses, TaskOf(w)) /\ TaskOf(w) \in Tasks
          /\ restored' = restored
        BY <1>6, <2>4, JobFacts DEF HCrash
    <3>2. CASE TaskOf(w) = t
      <4>1. relapses'[t] = relapses[t] + 1 /\ restored'[t] = restored[t]
          BY <1>0, <3>1, <3>2 DEF Count
      <4>2. Live(t)' \subseteq Live(t) \union {job[w]}
          BY <1>0, <2>2, LiveFacts DEF Grows
      <4>3. /\ IsFiniteSet(Live(t)) /\ Cardinality(Live(t)) \in Nat
          BY <1>0, LiveFacts
      <4>4. /\ IsFiniteSet(Live(t) \union {job[w]})
            /\ Cardinality(Live(t) \union {job[w]}) <= Cardinality(Live(t)) + 1
            /\ Cardinality(Live(t) \union {job[w]}) \in Nat
        <5>1. /\ IsFiniteSet(Live(t) \union {job[w]})
              /\ \/ Cardinality(Live(t) \union {job[w]}) = Cardinality(Live(t)) + 1
                 \/ Cardinality(Live(t) \union {job[w]}) = Cardinality(Live(t))
            BY <4>3, FS_AddElement
        <5> QED
            BY <4>3, <5>1
      <4>5. /\ Cardinality(Live(t)') <= Cardinality(Live(t) \union {job[w]})
            /\ Cardinality(Live(t)') \in Nat
          BY <4>2, <4>4, FS_Subset, FS_CardinalityType
      <4>6. relapses[t] \in Nat /\ restored[t] \in Nat
          BY <1>0
      <4> QED
          BY <4>1, <4>3, <4>4, <4>5, <4>6 DEF CopiesInv, Copies
    <3>3. CASE TaskOf(w) # t
      <4>1. relapses'[t] = relapses[t] /\ restored'[t] = restored[t]
            /\ log[job[w]].task # t
          BY <1>0, <3>1, <3>3 DEF Count, TaskOf, Current
      <4>2. Live(t)' \subseteq Live(t)
          BY <1>0, <2>2, <4>1, LiveFacts DEF Grows
      <4>3. /\ Cardinality(Live(t)') <= Cardinality(Live(t))
            /\ Cardinality(Live(t)) \in Nat /\ Cardinality(Live(t)') \in Nat
          BY <1>0, <4>2, LiveFacts, FS_Subset, FS_CardinalityType
      <4> QED
          BY <1>0, <4>1, <4>3 DEF CopiesInv, Copies
    <3> QED
        BY <3>2, <3>3
  <2>5. phase[w] \in {"run", "done"} \/ phase[w] \in {"published", "retried"}
      BY <1>0, <1>6 DEF LogTyped
  <2> QED
      BY <2>3, <2>4, <2>5
<1>7. CASE HRedisCrash
  <2>1. /\ Grows /\ Working' = Working
        /\ relapses' = relapses /\ restored'[t] = restored[t] + Cardinality(Back(t))
      BY <1>0, <1>7, TypedParts, EffectRedis DEF HRedisCrash
  <2>2. /\ IsFiniteSet(Fresh(t)) /\ Cardinality(Fresh(t)) <= Cardinality(Back(t))
        /\ Cardinality(Fresh(t)) \in Nat /\ Cardinality(Back(t)) \in Nat
      BY <1>0, <1>7, TypedParts, FreshFacts DEF HRedisCrash
  <2>3. Live(t)' \subseteq Live(t) \union Fresh(t)
      BY <1>0, <2>1, LiveFacts DEF Grows, Fresh
  <2>4. /\ IsFiniteSet(Live(t)) /\ Cardinality(Live(t)) \in Nat
      BY <1>0, LiveFacts
  <2>5. /\ IsFiniteSet(Live(t) \union Fresh(t))
        /\ Cardinality(Live(t) \union Fresh(t)) <= Cardinality(Live(t)) + Cardinality(Fresh(t))
        /\ Cardinality(Live(t) \union Fresh(t)) \in Nat
    <3>1. /\ IsFiniteSet(Live(t) \union Fresh(t))
          /\ Cardinality(Live(t) \union Fresh(t))
               = Cardinality(Live(t)) + Cardinality(Fresh(t))
                   - Cardinality(Live(t) \intersect Fresh(t))
        BY <2>2, <2>4, FS_Union
    <3>2. Cardinality(Live(t) \intersect Fresh(t)) \in Nat
        BY <2>4, FS_Intersection, FS_CardinalityType
    <3> QED
        BY <2>2, <2>4, <3>1, <3>2, FS_CardinalityType
  <2>6. /\ Cardinality(Live(t)') <= Cardinality(Live(t) \union Fresh(t))
        /\ Cardinality(Live(t)') \in Nat
      BY <2>3, <2>5, FS_Subset, FS_CardinalityType
  <2>7. relapses[t] \in Nat /\ restored[t] \in Nat /\ relapses'[t] = relapses[t]
      BY <1>0, <2>1
  <2> QED
      BY <2>1, <2>2, <2>4, <2>5, <2>6, <2>7 DEF CopiesInv, Copies
<1>8. ASSUME NEW u \in Tasks, HExpire(u) PROVE CopiesInv(t)'
  <2>1. log' = log /\ phase' = phase /\ job' = job /\ relapses' = relapses /\ restored' = restored
      BY <1>8 DEF HExpire, Expire, workerVars
  <2>2. Grows /\ Queued' = Queued /\ Working' = Working
      BY <2>1 DEF Grows, Queued, Working
  <2> QED
      BY <1>0, <2>1, <2>2, CopiesShrink
<1>9. CASE Quiet
  <2>1. Grows /\ Queued' = Queued /\ Working' = Working /\ relapses' = relapses /\ restored' = restored
      BY <1>0, <1>9, EffectQuiet DEF Quiet, historyVars
  <2> QED
      BY <1>0, <2>1, CopiesShrink
<1> QED
    BY NextCases, <1>1, <1>2, <1>3, <1>4, <1>5, <1>6, <1>7, <1>8, <1>9
       DEF HPickUp, Lose, historyVars

\* A task multiplies only when a worker crashes between publishing a retry and
\* acknowledging the message it replaces, and when a restart of Redis brings back
\* a message: for any number of workers and faults, 1 + that many of its messages
\* are live at most.  With neither, an analysis never runs twice at the same time.
THEOREM CopiesCounted == HSpec => []CopiesBounded
<1> DEFINE Inv == QueueTyped /\ \A t \in Tasks : CopiesInv(t)
<1>1. HInit => Inv
  <2> SUFFICES ASSUME HInit, NEW t \in Tasks PROVE CopiesInv(t)
      BY TypeInit
  <2>1. Live(t) = {} /\ relapses[t] = 0 /\ restored[t] = 0
      BY DEF HInit, Init, Live
  <2> QED
      BY <2>1, FS_EmptySet DEF CopiesInv, Copies
<1>2. Inv /\ [HNext]_allVars => Inv'
  <2> SUFFICES ASSUME Inv, [HNext]_allVars PROVE Inv'
      OBVIOUS
  <2>1. QueueTyped'
      BY TypeStep
  <2>2. ASSUME NEW t \in Tasks PROVE CopiesInv(t)'
      BY CopiesStep
  <2> QED
      BY <2>1, <2>2
<1>3. Inv => CopiesBounded
    BY DEF CopiesBounded, CopiesInv
<1> QED
    BY <1>1, <1>2, <1>3, PTL DEF HSpec

----------------------------------------------------------------------------
(* How often a task is attempted.                                          *)

\* The attempts that message m stands for, with those of its retries.
Weight(m) ==
    IF m \in Queued THEN MaxRetries - log[m].tries + 1
    ELSE IF m \in Working THEN MaxRetries - log[m].tries ELSE 0

\* One row for each attempt that t has left.
Left(t) ==
    {p \in (DOMAIN log) \X (1 .. MaxRetries + 1) :
        log[p[1]].task = t /\ p[2] <= Weight(p[1])}

\* What was attempted and what is left fit in the budget of t.
BudgetInv(t) ==
    attempts[t] + Cardinality(Left(t))
        <= (1 + MaxRetries) * Copies(t) + reruns[t]

UnsentInv(t) == ~Sent(t) => attempts[t] = 0

\* n rows of message m.
Rows(m, n) == {m} \X (1 .. n)

LEMMA RowFacts ==
    ASSUME NEW m, NEW n \in Nat
    PROVE  IsFiniteSet(Rows(m, n)) /\ Cardinality(Rows(m, n)) = n
<1>1. IsFiniteSet({m}) /\ Cardinality({m}) = 1
    BY FS_Singleton
<1>2. IsFiniteSet(1 .. n) /\ Cardinality(1 .. n) = n
    BY FS_Interval
<1>3. /\ IsFiniteSet({m} \X (1 .. n))
      /\ Cardinality({m} \X (1 .. n)) = Cardinality({m}) * Cardinality(1 .. n)
    BY <1>1, <1>2, FS_Product
<1> QED
    BY <1>1, <1>2, <1>3 DEF Rows

\* What the weight of a message is; and so after any step.
WeightTyped ==
    \A m \in DOMAIN log :
        /\ Weight(m) \in 0 .. MaxRetries + 1 /\ log[m].tries \in 0 .. MaxRetries
        /\ m \in Queued => Weight(m) = MaxRetries - log[m].tries + 1
        /\ m \notin Queued /\ m \in Working => Weight(m) = MaxRetries - log[m].tries
        /\ m \notin Queued /\ m \notin Working => Weight(m) = 0

LEMMA WeightFacts == LogTyped => WeightTyped
<1> SUFFICES ASSUME LogTyped, NEW m \in DOMAIN log
             PROVE  /\ Weight(m) \in 0 .. MaxRetries + 1 /\ log[m].tries \in 0 .. MaxRetries
                    /\ m \in Queued => Weight(m) = MaxRetries - log[m].tries + 1
                    /\ m \notin Queued /\ m \in Working =>
                          Weight(m) = MaxRetries - log[m].tries
                    /\ m \notin Queued /\ m \notin Working => Weight(m) = 0
    BY DEF WeightTyped
<1>1. log[m].tries \in 0 .. MaxRetries
    BY LogFacts
<1> QED
    BY <1>1, RetriesAssumption DEF Weight

LEMMA WeightLater == LogTyped' => WeightTyped'
  BY WeightFacts, PTL

LEMMA LeftFacts ==
    ASSUME LogTyped, NEW t
    PROVE  IsFiniteSet(Left(t)) /\ Cardinality(Left(t)) \in Nat
<1>1. IsFiniteSet(DOMAIN log) /\ IsFiniteSet(1 .. MaxRetries + 1)
    BY LogFacts, RetriesAssumption, FS_Interval
<1>2. IsFiniteSet((DOMAIN log) \X (1 .. MaxRetries + 1))
    BY <1>1, FS_Product
<1>3. Left(t) \subseteq (DOMAIN log) \X (1 .. MaxRetries + 1)
    BY DEF Left
<1> QED
    BY <1>2, <1>3, FS_Subset, FS_CardinalityType

\* No attempt is made, and none is added to those that are left.
LEMMA LeftShrinks ==
    ASSUME LogTyped, LogTyped', NEW t \in Tasks, Grows,
           \A m \in DOMAIN log' :
               log'[m].task = t => m \in DOMAIN log /\ Weight(m)' <= Weight(m)
    PROVE  Left(t)' \subseteq Left(t) /\ Cardinality(Left(t)') <= Cardinality(Left(t))
<1>1. ASSUME NEW p \in Left(t)' PROVE p \in Left(t)
  <2>1. /\ p \in (DOMAIN log') \X (1 .. MaxRetries + 1)
        /\ log'[p[1]].task = t /\ p[2] <= Weight(p[1])'
      BY <1>1 DEF Left
  <2>2. p[1] \in DOMAIN log' /\ p[2] \in 1 .. MaxRetries + 1
      BY <2>1
  <2>3. p[1] \in DOMAIN log /\ Weight(p[1])' <= Weight(p[1]) /\ log[p[1]].task = t
      BY <2>1, <2>2 DEF Grows
  <2>4. Weight(p[1]) \in Int
      BY <2>3, WeightFacts DEF WeightTyped
  <2>5. Weight(p[1])' \in Int
      BY <2>2, WeightLater DEF WeightTyped
  <2>6. p[2] <= Weight(p[1])
      BY <2>1, <2>2, <2>3, <2>4, <2>5, RetriesAssumption
  <2> QED
      BY <2>1, <2>2, <2>3, <2>6 DEF Left
<1> QED
    BY <1>1, LeftFacts, FS_Subset

LEMMA WeightShrinks ==
    ASSUME LogTyped, LogTyped', Grows, NEW m \in DOMAIN log,
           m \in Queued' => m \in Queued,
           m \in Working' => m \in Queued \union Working
    PROVE  Weight(m)' <= Weight(m)
<1>1. m \in DOMAIN log' /\ log'[m].tries = log[m].tries
    BY DEF Grows
<1>2. /\ Weight(m) \in 0 .. MaxRetries + 1 /\ log[m].tries \in 0 .. MaxRetries
      /\ m \in Queued => Weight(m) = MaxRetries - log[m].tries + 1
      /\ m \notin Queued /\ m \in Working => Weight(m) = MaxRetries - log[m].tries
    BY WeightFacts DEF WeightTyped
<1>3. /\ m \in Queued' => Weight(m)' = MaxRetries - log[m].tries + 1
      /\ m \notin Queued' /\ m \in Working' => Weight(m)' = MaxRetries - log[m].tries
      /\ m \notin Queued' /\ m \notin Working' => Weight(m)' = 0
    BY <1>1, WeightLater DEF WeightTyped
<1> QED
    BY <1>2, <1>3, RetriesAssumption

LEMMA CopiesFacts ==
    ASSUME RestTyped, NEW t \in Tasks
    PROVE  /\ attempts[t] \in Nat /\ reruns[t] \in Nat
           /\ relapses[t] \in Nat /\ restored[t] \in Nat
           /\ Copies(t) \in Nat /\ (1 + MaxRetries) * Copies(t) \in Nat
  BY RetriesAssumption DEF RestTyped, Copies

\* A step that makes no attempt at t and redelivers no message of t.
LEMMA BudgetStays ==
    ASSUME QueueTyped, QueueTyped', NEW t \in Tasks, BudgetInv(t), Grows,
           attempts'[t] = attempts[t], reruns'[t] = reruns[t],
           relapses'[t] = relapses[t], restored'[t] = restored[t],
           \A m \in DOMAIN log' :
               log'[m].task = t =>
                   /\ m \in DOMAIN log
                   /\ m \in Queued' => m \in Queued
                   /\ m \in Working' => m \in Queued \union Working
    PROVE  BudgetInv(t)'
<1>0. LogTyped /\ LogTyped'
    BY TypedParts DEF QueueTyped, HistoryTypeOK, LogTyped
<1>1. ASSUME NEW m \in DOMAIN log', log'[m].task = t
      PROVE  m \in DOMAIN log /\ Weight(m)' <= Weight(m)
    BY <1>0, <1>1, WeightShrinks
<1>2. Left(t)' \subseteq Left(t) /\ Cardinality(Left(t)') <= Cardinality(Left(t))
    BY <1>0, <1>1, LeftShrinks
<1>3. IsFiniteSet(Left(t)) /\ Cardinality(Left(t)) \in Nat
    BY <1>0, LeftFacts
<1>4. Cardinality(Left(t)') \in Nat
    BY <1>2, <1>3, FS_Subset, FS_CardinalityType
<1>5. attempts[t] \in Nat /\ reruns[t] \in Nat /\ (1 + MaxRetries) * Copies(t) \in Nat
    BY <1>0, TypedParts, CopiesFacts
<1>6. Copies(t)' = Copies(t)
    BY DEF Copies
<1> QED
    BY <1>2, <1>3, <1>4, <1>5, <1>6 DEF BudgetInv

\* Taking a message takes one attempt from those that are left.
LEMMA BudgetPickUp ==
    ASSUME QueueTyped, QueueTyped', NEW w \in Workers, HPickUp(w),
           NEW t \in Tasks, BudgetInv(t)
    PROVE  BudgetInv(t)'
<1>0. LogTyped /\ LogTyped' /\ RestTyped
    BY TypedParts DEF QueueTyped, HistoryTypeOK, LogTyped
<1>1. PICK m \in DOMAIN log : Take(w, m, "run")
    BY DEF HPickUp, PickUp
<1>2. /\ Grows /\ m \in Queued /\ Queued' = Queued \ {m} /\ DOMAIN log' = DOMAIN log
      /\ Working' = Working \union {m} /\ job'[w] = m
    BY <1>0, <1>1, EffectTake
<1>3. /\ attempts' = Count(attempts, log[m].task) /\ reruns' = reruns
      /\ relapses' = relapses /\ restored' = restored
    BY <1>2 DEF HPickUp
<1>4. CASE log[m].task # t
  <2>1. attempts'[t] = attempts[t]
      BY <1>0, <1>3, <1>4 DEF Count, RestTyped
  <2> QED
      BY <1>2, <1>3, <1>4, <2>1, BudgetStays DEF Grows
<1>5. CASE log[m].task = t
  <2> DEFINE x == <<m, Weight(m)>>
  <2>1. /\ Weight(m) = MaxRetries - log[m].tries + 1
        /\ log[m].tries \in 0 .. MaxRetries /\ Weight(m) \in 1 .. MaxRetries + 1
      BY <1>0, <1>2, WeightFacts, RetriesAssumption DEF WeightTyped
  <2>2. x \in Left(t)
      BY <1>5, <2>1, RetriesAssumption DEF Left
  <2>3. Weight(m)' = Weight(m) - 1
    <3>1. m \in DOMAIN log' /\ m \notin Queued' /\ m \in Working' /\ log'[m].tries = log[m].tries
        BY <1>2 DEF Grows
    <3>2. Weight(m)' = MaxRetries - log'[m].tries
        BY <1>0, <3>1, WeightLater DEF WeightTyped
    <3> QED
        BY <2>1, <3>1, <3>2, RetriesAssumption
  <2>4. Left(t)' \subseteq Left(t)
    <3>1. ASSUME NEW k \in DOMAIN log' PROVE k \in DOMAIN log /\ Weight(k)' <= Weight(k)
        BY <1>0, <1>2, WeightShrinks
    <3> QED
        BY <1>0, <1>2, <3>1, LeftShrinks
  <2>5. x \notin Left(t)'
    <3>1. x \in Left(t)' => x[2] <= Weight(x[1])'
        BY DEF Left
    <3>2. x[1] = m /\ x[2] = Weight(m)
        OBVIOUS
    <3> QED
        BY <2>1, <2>3, <3>1, <3>2
  <2>6. Left(t)' \subseteq Left(t) \ {x}
      BY <2>4, <2>5
  <2>7. IsFiniteSet(Left(t)) /\ Cardinality(Left(t)) \in Nat
      BY <1>0, LeftFacts
  <2>8. IsFiniteSet(Left(t) \ {x}) /\ Cardinality(Left(t) \ {x}) = Cardinality(Left(t)) - 1
      BY <2>2, <2>7, FS_RemoveElement
  <2>9. Cardinality(Left(t)') <= Cardinality(Left(t) \ {x}) /\ Cardinality(Left(t)') \in Nat
      BY <2>6, <2>8, FS_Subset, FS_CardinalityType
  <2>10. /\ attempts[t] \in Nat /\ reruns[t] \in Nat /\ (1 + MaxRetries) * Copies(t) \in Nat
         /\ Copies(t)' = Copies(t)
      BY <1>0, <1>3, CopiesFacts DEF Copies
  <2>11. attempts'[t] = attempts[t] + 1
      BY <1>0, <1>3, <1>5 DEF Count, RestTyped
  <2> QED
      BY <1>3, <2>7, <2>8, <2>9, <2>10, <2>11 DEF BudgetInv
<1> QED
    BY <1>4, <1>5

\* A published retry stands for the attempts that its predecessor had left.
LEMMA BudgetRetry ==
    ASSUME QueueTyped, QueueTyped', NEW w \in Workers, Retry(w), UNCHANGED historyVars,
           NEW t \in Tasks, BudgetInv(t)
    PROVE  BudgetInv(t)'
<1>0. LogTyped /\ LogTyped' /\ RestTyped
    BY TypedParts DEF QueueTyped, HistoryTypeOK, LogTyped
<1>a. PICK old, new : old = job[w] /\ new = Len(log) + 1
    OBVIOUS
<1>1. /\ phase[w] = "run" /\ phase' = [phase EXCEPT ![w] = "published"] /\ job' = job
      /\ log' = Append(log, Message(TaskOf(w), Current(w).tries + 1))
      /\ old # 0 /\ Current(w).tries < MaxRetries
    BY <1>0, <1>a DEF Retry, Proceed, LogTyped
<1>2. /\ TaskOf(w) \in Tasks /\ Current(w).tries \in 0 .. MaxRetries
      /\ Current(w).tries + 1 \in 0 .. MaxRetries /\ log[old].tries = Current(w).tries
      /\ TaskOf(w) = log[old].task
    BY <1>a, <1>1, JobFacts, RetriesAssumption DEF TaskOf
<1>3. /\ Grows /\ new \notin DOMAIN log /\ DOMAIN log' = DOMAIN log \union {new}
      /\ log'[new].task = TaskOf(w) /\ log'[new].tries = Current(w).tries + 1
      /\ Queued' = Queued \union {new} /\ Working' = Working \ {old}
    BY <1>0, <1>a, <1>1, <1>2, EffectPublish
<1>4. old \in DOMAIN log /\ old \notin Queued /\ old \in Working /\ old # new
    BY <1>0, <1>a, <1>1, <1>3, HeldFacts
<1>5. attempts' = attempts /\ reruns' = reruns /\ relapses' = relapses /\ restored' = restored
    BY DEF historyVars
<1>6. CASE TaskOf(w) # t
    BY <1>3, <1>5, <1>6, BudgetStays
<1>7. CASE TaskOf(w) = t
  <2>1. Weight(old) = MaxRetries - Current(w).tries
      BY <1>0, <1>2, <1>4, WeightFacts DEF WeightTyped
  <2>2. Weight(new)' = MaxRetries - Current(w).tries
    <3>1. new \in DOMAIN log' /\ new \in Queued'
        BY <1>3
    <3>2. Weight(new)' = MaxRetries - log'[new].tries + 1
        BY <1>0, <3>1, WeightLater DEF WeightTyped
    <3> QED
        BY <1>2, <1>3, <3>2, RetriesAssumption
  <2>3. Weight(old)' = 0
    <3>1. old \in DOMAIN log' /\ old \notin Queued' /\ old \notin Working'
        BY <1>3, <1>4
    <3> QED
        BY <1>0, <3>1, WeightLater DEF WeightTyped
  <2>4. ASSUME NEW k \in DOMAIN log' \ {new} PROVE k \in DOMAIN log /\ Weight(k)' <= Weight(k)
      BY <1>0, <1>3, WeightShrinks
  <2> DEFINE f == [p \in Left(t)' |-> IF p[1] = new THEN <<old, p[2]>> ELSE p]
  <2>5. ASSUME NEW p \in Left(t)'
        PROVE  /\ p = <<p[1], p[2]>> /\ p[1] \in DOMAIN log' /\ p[2] \in 1 .. MaxRetries + 1
               /\ p[1] # old /\ f[p] \in Left(t)
    <3>1. /\ p \in (DOMAIN log') \X (1 .. MaxRetries + 1)
          /\ log'[p[1]].task = t /\ p[2] <= Weight(p[1])'
        BY <2>5 DEF Left
    <3>2. p = <<p[1], p[2]>> /\ p[1] \in DOMAIN log' /\ p[2] \in 1 .. MaxRetries + 1
        BY <3>1
    <3>3. p[1] # old
        BY <2>3, <3>1, <3>2
    <3>4. CASE p[1] = new
      <4>1. <<old, p[2]>> \in (DOMAIN log) \X (1 .. MaxRetries + 1)
          BY <1>4, <3>2
      <4>2. p[2] <= Weight(old)
          BY <2>1, <2>2, <3>1, <3>4
      <4>3. <<old, p[2]>> \in Left(t)
          BY <1>2, <1>7, <4>1, <4>2 DEF Left
      <4> QED
          BY <2>5, <3>2, <3>3, <3>4, <4>3
    <3>5. CASE p[1] # new
      <4>1. p[1] \in DOMAIN log /\ Weight(p[1])' <= Weight(p[1])
          BY <2>4, <3>2, <3>5
      <4>2. Weight(p[1]) \in Int /\ Weight(p[1])' \in Int
        <5>1. Weight(p[1]) \in Int
            BY <1>0, <4>1, WeightFacts DEF WeightTyped
        <5>2. Weight(p[1])' \in Int
            BY <1>0, <3>2, WeightLater DEF WeightTyped
        <5> QED
            BY <5>1, <5>2
      <4>3. p[2] <= Weight(p[1])
          BY <3>1, <3>2, <4>1, <4>2, RetriesAssumption
      <4>4. log[p[1]].task = t
          BY <1>3, <3>1, <4>1 DEF Grows
      <4>5. p \in Left(t)
          BY <3>2, <4>1, <4>3, <4>4 DEF Left
      <4> QED
          BY <2>5, <3>2, <3>3, <3>5, <4>5
    <3> QED
        BY <3>4, <3>5
  <2>6. f \in Injection(Left(t)', Left(t))
    <3>1. f \in [Left(t)' -> Left(t)]
        BY <2>5
    <3>2. ASSUME NEW p \in Left(t)', NEW q \in Left(t)', f[p] = f[q] PROVE p = q
      <4>1. /\ p = <<p[1], p[2]>> /\ q = <<q[1], q[2]>> /\ p[1] # old /\ q[1] # old
          BY <2>5
      <4>2. /\ f[p] = IF p[1] = new THEN <<old, p[2]>> ELSE p
            /\ f[q] = IF q[1] = new THEN <<old, q[2]>> ELSE q
          OBVIOUS
      <4> QED
          BY <3>2, <4>1, <4>2
    <3> QED
        BY <3>1, <3>2 DEF Injection, IsInjective
  <2>7. IsFiniteSet(Left(t)) /\ Cardinality(Left(t)) \in Nat
      BY <1>0, LeftFacts
  <2>8. IsFiniteSet(Left(t)') /\ Cardinality(Left(t)') <= Cardinality(Left(t))
      BY <2>6, <2>7, FS_Injection
  <2>9. Cardinality(Left(t)') \in Nat
      BY <2>8, FS_CardinalityType
  <2>10. /\ attempts[t] \in Nat /\ reruns[t] \in Nat /\ (1 + MaxRetries) * Copies(t) \in Nat
         /\ Copies(t)' = Copies(t)
      BY <1>0, <1>5, CopiesFacts DEF Copies
  <2> QED
      BY <1>5, <2>7, <2>8, <2>9, <2>10 DEF BudgetInv
<1> QED
    BY <1>6, <1>7

LEMMA LeftGrows ==
    ASSUME LogTyped, NEW t, NEW X, IsFiniteSet(X), Left(t)' \subseteq Left(t) \union X
    PROVE  /\ Cardinality(Left(t)') <= Cardinality(Left(t)) + Cardinality(X)
           /\ Cardinality(Left(t)) \in Nat /\ Cardinality(Left(t)') \in Nat
           /\ Cardinality(X) \in Nat
<1>1. IsFiniteSet(Left(t)) /\ Cardinality(Left(t)) \in Nat /\ Cardinality(X) \in Nat
    BY LeftFacts, FS_CardinalityType
<1>2. /\ IsFiniteSet(Left(t) \union X)
      /\ Cardinality(Left(t) \union X)
            = Cardinality(Left(t)) + Cardinality(X) - Cardinality(Left(t) \intersect X)
    BY <1>1, FS_Union
<1>3. Cardinality(Left(t) \intersect X) \in Nat
    BY <1>1, FS_Intersection, FS_CardinalityType
<1>4. /\ Cardinality(Left(t)') <= Cardinality(Left(t) \union X)
      /\ Cardinality(Left(t)') \in Nat /\ Cardinality(Left(t) \union X) \in Nat
    BY <1>2, FS_Subset, FS_CardinalityType
<1> QED
    BY <1>1, <1>2, <1>3, <1>4

\* A redelivered message brings one attempt back if it has published no retry,
\* and otherwise a whole budget.
LEMMA BudgetCrash ==
    ASSUME QueueTyped, QueueTyped', NEW w \in Workers, HCrash(w), job[w] # 0,
           NEW t \in Tasks, BudgetInv(t)
    PROVE  BudgetInv(t)'
<1>0. LogTyped /\ LogTyped' /\ RestTyped
    BY TypedParts DEF QueueTyped, HistoryTypeOK, LogTyped
<1>1. PICK m : m = job[w]
    OBVIOUS
<1>2. /\ \E s \in {"queued", "acked"}, p \in {"down", "idle"} : Leaves(w, s, p)
      /\ attempts' = attempts /\ restored' = restored
    BY <1>0, LeaveCases DEF HCrash
<1>3. /\ Grows /\ DOMAIN log' = DOMAIN log
      /\ Queued \subseteq Queued' /\ Queued' \subseteq Queued \union {m}
      /\ Working' = Working \ {m}
    BY <1>0, <1>1, <1>2, EffectLeave
<1>4. /\ m \in DOMAIN log /\ m \notin Queued /\ TaskOf(w) \in Tasks /\ log[m].task = TaskOf(w)
      /\ (m \in Working) <=> (phase[w] \in {"run", "done"})
    BY <1>0, <1>1, JobFacts, HeldFacts DEF TaskOf
<1>5. ASSUME NEW k \in DOMAIN log \ {m} PROVE Weight(k)' <= Weight(k)
    BY <1>0, <1>3, WeightShrinks
<1>6. /\ log[m].tries \in 0 .. MaxRetries /\ Weight(m)' \in Int
      /\ Weight(m)' <= MaxRetries - log[m].tries + 1
      /\ m \in Working => Weight(m) = MaxRetries - log[m].tries
  <2>1. log[m].tries \in 0 .. MaxRetries
        /\ (m \in Working => Weight(m) = MaxRetries - log[m].tries)
      BY <1>0, <1>4, WeightFacts DEF WeightTyped
  <2>2. m \in DOMAIN log' /\ m \notin Working' /\ log'[m].tries = log[m].tries
      BY <1>3, <1>4 DEF Grows
  <2>3. /\ m \in Queued' => Weight(m)' = MaxRetries - log'[m].tries + 1
        /\ m \notin Queued' => Weight(m)' = 0
      BY <1>0, <2>2, WeightLater DEF WeightTyped
  <2> QED
      BY <2>1, <2>2, <2>3, RetriesAssumption
<1>7. ASSUME NEW p \in Left(t)'
      PROVE  /\ p = <<p[1], p[2]>> /\ p[1] \in DOMAIN log /\ p[2] \in 1 .. MaxRetries + 1
             /\ log[p[1]].task = t /\ p[2] <= Weight(p[1])'
             /\ p[1] # m => p \in Left(t)
  <2>1. /\ p \in (DOMAIN log') \X (1 .. MaxRetries + 1)
        /\ log'[p[1]].task = t /\ p[2] <= Weight(p[1])'
      BY <1>7 DEF Left
  <2>2. /\ p = <<p[1], p[2]>> /\ p[1] \in DOMAIN log /\ p[2] \in 1 .. MaxRetries + 1
        /\ log[p[1]].task = t
      BY <1>3, <2>1 DEF Grows
  <2>3. ASSUME p[1] # m PROVE p \in Left(t)
    <3>1. Weight(p[1])' <= Weight(p[1])
        BY <1>5, <2>2, <2>3
    <3>2. Weight(p[1]) \in Int
        BY <1>0, <2>2, WeightFacts DEF WeightTyped
    <3>3. Weight(p[1])' \in Int
        BY <1>0, <1>3, <2>2, WeightLater DEF WeightTyped
    <3>4. p[2] <= Weight(p[1])
        BY <2>1, <2>2, <3>1, <3>2, <3>3, RetriesAssumption
    <3> QED
        BY <2>2, <3>4 DEF Left
  <2> QED
      BY <2>1, <2>2, <2>3
<1>8. /\ attempts[t] \in Nat /\ reruns[t] \in Nat /\ relapses[t] \in Nat
      /\ restored[t] \in Nat /\ Copies(t) \in Nat /\ (1 + MaxRetries) * Copies(t) \in Nat
    BY <1>0, CopiesFacts
<1>9. CASE phase[w] \in {"run", "done"}
  <2>1. reruns' = Count(reruns, TaskOf(w)) /\ relapses' = relapses
      BY <1>9 DEF HCrash
  <2>2. CASE TaskOf(w) = t
    <3>1. reruns'[t] = reruns[t] + 1 /\ Copies(t)' = Copies(t)
        BY <1>0, <1>2, <2>1, <2>2 DEF Count, RestTyped, Copies
    <3>2. PICK x : x = <<m, MaxRetries - log[m].tries + 1>>
        OBVIOUS
    <3>3. Left(t)' \subseteq Left(t) \union {x}
      <4> SUFFICES ASSUME NEW p \in Left(t)', p[1] = m, p # x PROVE p \in Left(t)
          BY <1>7
      <4>1. p[2] # MaxRetries - log[m].tries + 1
          BY <1>7, <3>2
      <4>2. p[2] <= MaxRetries - log[m].tries + 1 /\ p[2] \in 1 .. MaxRetries + 1
        <5>1. p[2] <= Weight(m)' /\ p[2] \in 1 .. MaxRetries + 1
            BY <1>7
        <5> QED
            BY <1>6, <5>1, RetriesAssumption
      <4>3. p[2] <= Weight(p[1])
          BY <1>4, <1>6, <1>9, <4>1, <4>2, RetriesAssumption
      <4> QED
          BY <1>7, <4>3 DEF Left
    <3>4. IsFiniteSet({x}) /\ Cardinality({x}) = 1
        BY FS_Singleton
    <3>5. /\ Cardinality(Left(t)') <= Cardinality(Left(t)) + 1
          /\ Cardinality(Left(t)) \in Nat /\ Cardinality(Left(t)') \in Nat
        BY <1>0, <3>3, <3>4, LeftGrows
    <3> QED
        BY <1>2, <1>8, <2>1, <3>1, <3>5 DEF BudgetInv
  <2>3. CASE TaskOf(w) # t
    <3>1. reruns'[t] = reruns[t] /\ log[m].task # t
        BY <1>0, <1>4, <2>1, <2>3 DEF Count, RestTyped
    <3> QED
        BY <1>2, <1>3, <2>1, <3>1, BudgetStays DEF Grows
  <2> QED
      BY <2>2, <2>3
<1>10. CASE phase[w] \in {"published", "retried"}
  <2>1. relapses' = Count(relapses, TaskOf(w)) /\ reruns' = reruns
      BY <1>10 DEF HCrash
  <2>2. CASE TaskOf(w) = t
    <3>1. Copies(t)' = Copies(t) + 1
      <4>1. relapses'[t] = relapses[t] + 1
          BY <1>0, <2>1, <2>2 DEF Count, RestTyped
      <4> QED
          BY <1>2, <1>8, <4>1 DEF Copies
    <3>2. Left(t)' \subseteq Left(t) \union Rows(m, MaxRetries + 1)
        BY <1>7 DEF Rows
    <3>3. /\ IsFiniteSet(Rows(m, MaxRetries + 1))
          /\ Cardinality(Rows(m, MaxRetries + 1)) = MaxRetries + 1
        BY RowFacts, RetriesAssumption
    <3>4. /\ Cardinality(Left(t)') <= Cardinality(Left(t)) + (MaxRetries + 1)
          /\ Cardinality(Left(t)) \in Nat /\ Cardinality(Left(t)') \in Nat
        BY <1>0, <3>2, <3>3, LeftGrows
    <3>5. (1 + MaxRetries) * (Copies(t) + 1)
             = (1 + MaxRetries) * Copies(t) + (MaxRetries + 1)
        BY <1>8, RetriesAssumption
    <3> QED
        BY <1>2, <1>8, <2>1, <3>1, <3>4, <3>5, RetriesAssumption DEF BudgetInv
  <2>3. CASE TaskOf(w) # t
    <3>1. relapses'[t] = relapses[t] /\ log[m].task # t
        BY <1>0, <1>4, <2>1, <2>3 DEF Count, RestTyped
    <3> QED
        BY <1>2, <1>3, <2>1, <3>1, BudgetStays DEF Grows
  <2> QED
      BY <2>2, <2>3
<1>11. phase[w] \in {"run", "done"} \/ phase[w] \in {"published", "retried"}
    BY <1>0 DEF LogTyped
<1> QED
    BY <1>9, <1>10, <1>11

\* A dispatched analysis has its whole budget before it.
LEMMA BudgetDispatch ==
    ASSUME QueueTyped, QueueTyped', NEW u \in Tasks, Dispatch(u), UNCHANGED historyVars,
           NEW t \in Tasks, BudgetInv(t), UnsentInv(t)
    PROVE  BudgetInv(t)'
<1>0. LogTyped /\ LogTyped' /\ RestTyped
    BY TypedParts DEF QueueTyped, HistoryTypeOK, LogTyped
<1>1. PICK m : m = Len(log) + 1
    OBVIOUS
<1>2. /\ log' = Append(log, Message(u, 0)) /\ job' = job /\ phase' = phase
      /\ 0 \in 0 .. MaxRetries /\ ~Sent(u)
    BY RetriesAssumption DEF Dispatch, workerVars
<1>3. /\ Grows /\ DOMAIN log' = DOMAIN log \union {m} /\ log'[m].task = u
      /\ Queued' = Queued \union {m} /\ Working' = Working
    BY <1>0, <1>1, <1>2, EffectPublish
<1>4. attempts' = attempts /\ reruns' = reruns /\ relapses' = relapses /\ restored' = restored
    BY DEF historyVars
<1>5. CASE u # t
    BY <1>3, <1>4, <1>5, BudgetStays
<1>6. CASE u = t
  <2>1. Left(t)' \subseteq Left(t) \union Rows(m, MaxRetries + 1)
      BY <1>2, <1>3, <1>6 DEF Left, Rows, Sent, Grows
  <2>2. /\ IsFiniteSet(Rows(m, MaxRetries + 1))
        /\ Cardinality(Rows(m, MaxRetries + 1)) = MaxRetries + 1
      BY RowFacts, RetriesAssumption
  <2>3. /\ Cardinality(Left(t)') <= Cardinality(Left(t)) + (MaxRetries + 1)
        /\ Cardinality(Left(t)) \in Nat /\ Cardinality(Left(t)') \in Nat
      BY <1>0, <2>1, <2>2, LeftGrows
  <2>4. Left(t) = {} /\ attempts[t] = 0
      BY <1>2, <1>6 DEF Left, Sent, UnsentInv
  <2>5. Cardinality(Left(t)) = 0
      BY <2>4, FS_EmptySet
  <2>6. /\ reruns[t] \in Nat /\ (1 + MaxRetries) * Copies(t) >= 1 + MaxRetries
        /\ (1 + MaxRetries) * Copies(t) \in Nat /\ Copies(t)' = Copies(t)
    <3>1. PICK n \in Nat : n = relapses[t] + restored[t]
        BY <1>0, CopiesFacts
    <3>2. Copies(t) = 1 + n
        BY <1>0, <3>1, CopiesFacts DEF Copies
    <3>3. (1 + MaxRetries) * (1 + n) >= 1 + MaxRetries
        BY RetriesAssumption
    <3> QED
        BY <1>0, <1>4, <3>2, <3>3, CopiesFacts DEF Copies
  <2> QED
      BY <1>4, <2>3, <2>4, <2>5, <2>6, RetriesAssumption DEF BudgetInv
<1> QED
    BY <1>5, <1>6

LEMMA Budgets ==
    ASSUME NEW j \in Nat, NEW k \in Nat, NEW n \in Nat, j <= k
    PROVE  /\ j * (MaxRetries + 1) <= (1 + MaxRetries) * k
           /\ j * (MaxRetries + 1) \in Nat /\ (1 + MaxRetries) * k \in Nat
           /\ (1 + MaxRetries) * (n + k) = (1 + MaxRetries) * n + (1 + MaxRetries) * k
<1>1. PICK d \in Nat : k = j + d
  <2>1. k - j \in Nat /\ k = j + (k - j)
      OBVIOUS
  <2> QED
      BY <2>1
<1>2. (1 + MaxRetries) * (j + d) = j * (MaxRetries + 1) + (1 + MaxRetries) * d
    BY RetriesAssumption
<1>3. (1 + MaxRetries) * d \in Nat /\ j * (MaxRetries + 1) \in Nat
    BY RetriesAssumption
<1> QED
    BY <1>1, <1>2, <1>3, RetriesAssumption

\* A message that a restart of Redis brings back has a whole budget at most.
LEMMA BudgetRedis ==
    ASSUME QueueTyped, QueueTyped', HRedisCrash, NEW t \in Tasks, BudgetInv(t)
    PROVE  BudgetInv(t)'
<1>0. LogTyped /\ LogTyped' /\ RestTyped
    BY TypedParts DEF QueueTyped, HistoryTypeOK, LogTyped
<1>1. Grows /\ Working' = Working
    BY <1>0, EffectRedis DEF HRedisCrash
<1>2. /\ IsFiniteSet(Fresh(t)) /\ Cardinality(Fresh(t)) <= Cardinality(Back(t))
      /\ Cardinality(Fresh(t)) \in Nat /\ Cardinality(Back(t)) \in Nat
    BY <1>0, FreshFacts DEF HRedisCrash
<1> DEFINE rows == Fresh(t) \X (1 .. MaxRetries + 1)
<1>3. ASSUME NEW p \in Left(t)' PROVE p \in Left(t) \union rows
  <2>1. /\ p \in (DOMAIN log') \X (1 .. MaxRetries + 1)
        /\ log'[p[1]].task = t /\ p[2] <= Weight(p[1])'
      BY <1>3 DEF Left
  <2>2. p = <<p[1], p[2]>> /\ p[1] \in DOMAIN log' /\ p[2] \in 1 .. MaxRetries + 1
      BY <2>1
  <2>3. CASE p[1] \in Queued' \ Queued
      BY <2>1, <2>2, <2>3 DEF Fresh
  <2>4. CASE p[1] \notin Queued' \ Queued
    <3>1. p[1] \in DOMAIN log
      <4>1. p[1] \in Queued' \union Working'
          BY <1>0, <2>1, <2>2, WeightLater DEF WeightTyped
      <4> QED
          BY <1>1, <2>4, <4>1 DEF Queued, Working
    <3>2. Weight(p[1])' <= Weight(p[1])
        BY <1>0, <1>1, <2>4, <3>1, WeightShrinks
    <3>3. Weight(p[1]) \in Int
        BY <1>0, <3>1, WeightFacts DEF WeightTyped
    <3>4. Weight(p[1])' \in Int
        BY <1>0, <2>2, WeightLater DEF WeightTyped
    <3>5. p[2] <= Weight(p[1])
        BY <2>1, <2>2, <3>2, <3>3, <3>4, RetriesAssumption
    <3>6. log[p[1]].task = t
        BY <1>1, <2>1, <3>1 DEF Grows
    <3> QED
        BY <2>2, <3>1, <3>5, <3>6 DEF Left
  <2> QED
      BY <2>3, <2>4
<1>4. IsFiniteSet(rows) /\ Cardinality(rows) = Cardinality(Fresh(t)) * (MaxRetries + 1)
  <2>1. IsFiniteSet(1 .. MaxRetries + 1) /\ Cardinality(1 .. MaxRetries + 1) = MaxRetries + 1
      BY RetriesAssumption, FS_Interval
  <2> QED
      BY <1>2, <2>1, FS_Product
<1>5. /\ Cardinality(Left(t)') <= Cardinality(Left(t)) + Cardinality(rows)
      /\ Cardinality(Left(t)) \in Nat /\ Cardinality(Left(t)') \in Nat
  <2>1. Left(t)' \subseteq Left(t) \union rows
      BY <1>3
  <2> HIDE DEF rows
  <2> QED
      BY <1>0, <1>4, <2>1, LeftGrows
<1>6. /\ attempts[t] \in Nat /\ reruns[t] \in Nat /\ relapses[t] \in Nat
      /\ restored[t] \in Nat /\ Copies(t) \in Nat /\ (1 + MaxRetries) * Copies(t) \in Nat
    BY <1>0, CopiesFacts
<1>7. /\ Copies(t)' = Copies(t) + Cardinality(Back(t))
      /\ attempts' = attempts /\ reruns' = reruns
    BY <1>2, <1>6 DEF HRedisCrash, Copies
<1>8. /\ Cardinality(Fresh(t)) * (MaxRetries + 1)
           <= (1 + MaxRetries) * Cardinality(Back(t))
      /\ Cardinality(Fresh(t)) * (MaxRetries + 1) \in Nat
      /\ (1 + MaxRetries) * Cardinality(Back(t)) \in Nat
      /\ (1 + MaxRetries) * (Copies(t) + Cardinality(Back(t)))
           = (1 + MaxRetries) * Copies(t) + (1 + MaxRetries) * Cardinality(Back(t))
    BY <1>2, <1>6, Budgets
<1> HIDE DEF rows
<1> QED
    BY <1>4, <1>5, <1>6, <1>7, <1>8 DEF BudgetInv

LEMMA BudgetStep ==
    ASSUME QueueTyped, [HNext]_allVars, NEW t \in Tasks, BudgetInv(t), UnsentInv(t)
    PROVE  BudgetInv(t)'
<1>0. QueueTyped' /\ LogTyped
    BY TypeStep, TypedParts
<1>1. ASSUME NEW w \in Workers, Discard(w), UNCHANGED historyVars PROVE BudgetInv(t)'
  <2>1. PICK m \in DOMAIN log : Take(w, m, "done")
      BY <1>1 DEF Discard
  <2>2. /\ Grows /\ m \in Queued /\ Queued' = Queued \ {m} /\ Working' = Working \union {m}
        /\ DOMAIN log' = DOMAIN log
      BY <1>0, <2>1, EffectTake
  <2> QED
      BY <1>0, <1>1, <2>2, BudgetStays DEF historyVars
<1>2. ASSUME NEW w \in Workers, Succeed(w) \/ Fail(w) \/ NoteRetry(w) \/ ResultLost(w),
             attempts' = attempts, reruns' = reruns, relapses' = relapses,
             restored' = restored
      PROVE  BudgetInv(t)'
  <2>1. PICK p \in {"retried", "done"} :
            /\ phase[w] = IF p = "done" THEN "run" ELSE "published"
            /\ phase' = [phase EXCEPT ![w] = p] /\ job' = job /\ log' = log
      BY <1>2 DEF Succeed, Fail, NoteRetry, ResultLost, Proceed
  <2>2. Grows /\ Queued' = Queued /\ Working' = Working
      BY <1>0, <2>1, EffectMove
  <2> QED
      BY <1>0, <1>2, <2>1, <2>2, BudgetStays
<1>3. ASSUME NEW w \in Workers, Acknowledge(w) \/ RetryLost(w),
             attempts' = attempts, reruns' = reruns, relapses' = relapses,
             restored' = restored
      PROVE  BudgetInv(t)'
  <2>1. job[w] # 0 /\ Leaves(w, "acked", "idle")
      BY <1>0, <1>3, LeaveCases
  <2>2. Grows /\ Queued' = Queued /\ Working' = Working \ {job[w]} /\ DOMAIN log' = DOMAIN log
      BY <1>0, <2>1, EffectLeave
  <2> QED
      BY <1>0, <1>3, <2>2, BudgetStays
<1>4. ASSUME NEW u \in Tasks, HExpire(u) PROVE BudgetInv(t)'
  <2>1. /\ log' = log /\ phase' = phase /\ job' = job
        /\ attempts' = attempts /\ reruns' = reruns /\ relapses' = relapses
        /\ restored' = restored
      BY <1>4 DEF HExpire, Expire, workerVars
  <2>2. Grows /\ Queued' = Queued /\ Working' = Working
      BY <2>1 DEF Grows, Queued, Working
  <2> QED
      BY <1>0, <2>1, <2>2, BudgetStays
<1>5. CASE Quiet
  <2>1. /\ Grows /\ Queued' = Queued /\ Working' = Working /\ log' = log
        /\ attempts' = attempts /\ reruns' = reruns /\ relapses' = relapses
        /\ restored' = restored
      BY <1>0, <1>5, EffectQuiet DEF Quiet, historyVars
  <2> QED
      BY <1>0, <2>1, BudgetStays
<1>6. ASSUME (\E u : Lose(u)) \/ UNCHANGED historyVars
      PROVE  /\ attempts' = attempts /\ reruns' = reruns /\ relapses' = relapses
             /\ restored' = restored
    BY <1>6 DEF Lose, historyVars
<1> QED
    BY NextCases, <1>0, <1>1, <1>2, <1>3, <1>4, <1>5, <1>6,
       BudgetDispatch, BudgetPickUp, BudgetRetry, BudgetCrash, BudgetRedis

\* An attempt is made at a message, so of a task that was dispatched.
LEMMA UnsentStep ==
    ASSUME QueueTyped, [HNext]_allVars, NEW t \in Tasks, UnsentInv(t)
    PROVE  UnsentInv(t)'
<1>0. LogTyped /\ attempts \in [Tasks -> Nat]
    BY TypedParts DEF RestTyped
<1>1. Sent(t) => Sent(t)'
  <2>1. Grows
      BY LogGrows
  <2> QED
      BY <2>1 DEF Grows, Sent
<1>2. attempts'[t] = attempts[t] \/ Sent(t)
  <2>1. ASSUME NEW w \in Workers, HPickUp(w) PROVE attempts'[t] = attempts[t] \/ Sent(t)
    <3>1. PICK m \in DOMAIN log : Take(w, m, "run")
        BY <2>1 DEF HPickUp, PickUp
    <3>2. job'[w] = m
        BY <1>0, <3>1, EffectTake
    <3> QED
        BY <1>0, <2>1, <3>2 DEF HPickUp, Count, Sent
  <2> QED
      BY NextCases, <2>1 DEF HExpire, HCrash, HRedisCrash, Lose, Quiet, historyVars
<1> QED
    BY <1>1, <1>2 DEF UnsentInv

\* max_retries: for any number of retries, workers and faults an analysis is
\* attempted 1 + MaxRetries times, and again only for each copy (one for each
\* crash after a published retry and each message that a restart of Redis brings
\* back) and for each attempt that a crash cut short.
THEOREM AttemptsCounted == HSpec => []AttemptsBounded
<1> DEFINE Inv == QueueTyped /\ \A t \in Tasks : BudgetInv(t) /\ UnsentInv(t)
<1>1. HInit => Inv
  <2> SUFFICES ASSUME HInit, NEW t \in Tasks PROVE BudgetInv(t) /\ UnsentInv(t)
      BY TypeInit
  <2>1. /\ Left(t) = {} /\ Copies(t) = 1 + 0 + 0
        /\ reruns[t] = 0 /\ attempts[t] = 0
      BY DEF HInit, Init, Left, Copies
  <2> QED
      BY <2>1, FS_EmptySet, RetriesAssumption DEF BudgetInv, UnsentInv
<1>2. Inv /\ [HNext]_allVars => Inv'
  <2> SUFFICES ASSUME Inv, [HNext]_allVars PROVE Inv'
      OBVIOUS
  <2>1. QueueTyped'
      BY TypeStep
  <2>2. ASSUME NEW t \in Tasks PROVE BudgetInv(t)' /\ UnsentInv(t)'
      BY BudgetStep, UnsentStep
  <2> QED
      BY <2>1, <2>2
<1>3. Inv => AttemptsBounded
  <2> SUFFICES ASSUME Inv, NEW t \in Tasks
               PROVE  attempts[t] <= (1 + MaxRetries) * Copies(t) + reruns[t]
      BY DEF AttemptsBounded
  <2>1. /\ LogTyped /\ attempts[t] \in Nat /\ reruns[t] \in Nat
        /\ (1 + MaxRetries) * Copies(t) \in Nat
      BY TypedParts, CopiesFacts
  <2>2. Cardinality(Left(t)) \in Nat
      BY <2>1, LeftFacts
  <2> QED
      BY <2>1, <2>2 DEF BudgetInv
<1> QED
    BY <1>1, <1>2, <1>3, PTL DEF HSpec

----------------------------------------------------------------------------
(* A verdict stands.                                                       *)

\* Neither a crash nor a restart of Redis has multiplied t.
Single(t) == relapses[t] = 0 /\ restored[t] = 0

\* Of a single task the retry that w has published is the only live message.
SoleInv(w) ==
    phase[w] = "published" /\ Single(TaskOf(w)) =>
        \A m \in Queued \union Working :
            log[m].task = TaskOf(w) =>
                m \in Queued /\ log[m].tries = Current(w).tries + 1

\* Nobody is left who could change the verdict on t.
Calm(t) ==
    /\ \A m \in Queued : log[m].task # t
    /\ \A w \in Workers : phase[w] \in {"run", "published"} => TaskOf(w) # t

\* So of a verdict that a restart of Redis would bring back.
VerdictInv(t) ==
    /\ status[t] \in Terminal \/ saved.status[t] \in Terminal
    /\ reruns[t] = 0 /\ Single(t)
    => Calm(t)

SilentInv(t) == ~Sent(t) => status[t] = "PENDING" /\ saved.status[t] = "PENDING"

LEMMA Apart == LogTyped => Queued \intersect Working = {}
<1> SUFFICES ASSUME LogTyped, NEW m \in Queued, m \in Working PROVE FALSE
    OBVIOUS
<1>1. PICK w \in Workers : job[w] = m /\ phase[w] \in {"run", "done"}
    BY DEF Working
<1>2. job[w] # 0
    BY <1>1 DEF LogTyped
<1> QED
    BY <1>1, <1>2, HeldFacts

\* The message of a worker keeps its task while it has it.
LEMMA TaskStays ==
    ASSUME QueueTyped, Grows, NEW w \in Workers, job[w] # 0, job'[w] = job[w]
    PROVE  TaskOf(w)' = TaskOf(w) /\ Current(w)'.tries = Current(w).tries
<1>1. job[w] \in DOMAIN log
    BY JobFacts
<1> QED
    BY <1>1 DEF Grows, TaskOf, Current

LEMMA SoleStays ==
    ASSUME QueueTyped, Grows, NEW v \in Workers, SoleInv(v),
           phase'[v] = phase[v], job'[v] = job[v], job[v] # 0,
           relapses'[TaskOf(v)] = 0 /\ restored'[TaskOf(v)] = 0 =>
               /\ Single(TaskOf(v))
               /\ \A m \in DOMAIN log' :
                     log'[m].task = TaskOf(v) /\ phase[v] = "published" =>
                         /\ m \in Queued' => m \in Queued
                         /\ m \in Working' => m \in Working
    PROVE  SoleInv(v)'
<1>1. TaskOf(v)' = TaskOf(v) /\ Current(v)'.tries = Current(v).tries
    BY TaskStays
<1> SUFFICES ASSUME phase[v] = "published", Single(TaskOf(v)),
                    relapses'[TaskOf(v)] = 0, restored'[TaskOf(v)] = 0,
                    NEW m \in Queued' \union Working', log'[m].task = TaskOf(v)
             PROVE  m \in Queued' /\ log'[m].tries = Current(v).tries + 1
    BY <1>1 DEF SoleInv, Single
<1>2. m \in DOMAIN log' /\ m \in DOMAIN log
    BY DEF Queued, Working
<1>3. log[m].task = TaskOf(v) /\ log'[m].tries = log[m].tries
    BY <1>2 DEF Grows
<1>4. m \in Queued /\ log[m].tries = Current(v).tries + 1
    BY <1>2, <1>3 DEF SoleInv
<1>5. m \notin Working
    BY <1>4, Apart, TypedParts
<1> QED
    BY <1>2, <1>3, <1>4, <1>5

\* Crashes and messages that come back are counted, never forgotten.
LEMMA CrashesGrow ==
    ASSUME QueueTyped, [HNext]_allVars, NEW t \in Tasks
    PROVE  /\ relapses'[t] >= relapses[t] /\ reruns'[t] >= reruns[t]
           /\ restored'[t] >= restored[t]
<1>0. /\ relapses \in [Tasks -> Nat] /\ reruns \in [Tasks -> Nat]
      /\ restored \in [Tasks -> Nat]
    BY TypedParts DEF RestTyped
<1>1. ASSUME NEW w \in Workers, HCrash(w)
      PROVE  relapses'[t] >= relapses[t] /\ reruns'[t] >= reruns[t]
  <2>1. \/ reruns' = reruns
        \/ reruns' = [reruns EXCEPT ![TaskOf(w)] = reruns[TaskOf(w)] + 1]
      BY <1>1 DEF HCrash, Count
  <2>2. \/ relapses' = relapses
        \/ relapses' = [relapses EXCEPT ![TaskOf(w)] = relapses[TaskOf(w)] + 1]
      BY <1>1 DEF HCrash, Count
  <2> QED
      BY <1>0, <2>1, <2>2
<1>2. \/ relapses' = relapses /\ reruns' = reruns
      \/ \E w \in Workers : HCrash(w)
    BY NextCases DEF HExpire, HPickUp, HRedisCrash, Lose, Quiet, historyVars
<1>3. restored' = restored \/ restored'[t] = restored[t] + Cardinality(Back(t))
    BY NextCases DEF HExpire, HPickUp, HCrash, HRedisCrash, Lose, Quiet, historyVars
<1>4. Cardinality(Back(t)) \in Nat
    BY TypedParts, BackFinite
<1> QED
    BY <1>0, <1>1, <1>2, <1>3, <1>4

\* A restart of Redis that brings nothing of t back queues nothing of t.
LEMMA NothingFresh ==
    ASSUME QueueTyped, HRedisCrash, NEW t \in Tasks,
           restored'[t] = 0 \/ restored'[t] = restored[t]
    PROVE  /\ restored'[t] = restored[t] /\ relapses' = relapses
           /\ \A m \in Queued' : log'[m].task = t => m \in Queued
<1>1. /\ IsFiniteSet(Fresh(t)) /\ Cardinality(Fresh(t)) <= Cardinality(Back(t))
      /\ Cardinality(Fresh(t)) \in Nat /\ Cardinality(Back(t)) \in Nat
    BY TypedParts, FreshFacts DEF HRedisCrash
<1>2. restored'[t] = restored[t] + Cardinality(Back(t)) /\ relapses' = relapses
    BY DEF HRedisCrash
<1>3. restored[t] \in Nat
    BY TypedParts DEF RestTyped
<1>4. Cardinality(Fresh(t)) = 0 /\ restored'[t] = restored[t]
    BY <1>1, <1>2, <1>3
<1>5. Fresh(t) = {}
    BY <1>1, <1>4, FS_EmptySet
<1> QED
    BY <1>2, <1>4, <1>5 DEF Fresh

\* No two messages of a single task are live.
LEMMA OnlyOne ==
    ASSUME QueueTyped, NEW t \in Tasks, CopiesInv(t), Single(t),
           NEW j \in Queued \union Working, NEW k \in Queued \union Working,
           log[j].task = t, log[k].task = t
    PROVE  j = k
<1>1. j \in Live(t) /\ k \in Live(t) /\ IsFiniteSet(Live(t)) /\ Cardinality(Live(t)) \in Nat
    BY TypedParts, LiveFacts
<1> SUFFICES ASSUME j # k PROVE FALSE
    OBVIOUS
<1>2. {j} \union {k} \subseteq Live(t)
    BY <1>1
<1>3. Cardinality({j} \union {k}) <= Cardinality(Live(t))
    BY <1>1, <1>2, FS_Subset
<1>4. Cardinality({j}) = 1 /\ IsFiniteSet({j})
    BY FS_Singleton
<1>5. Cardinality({j} \union {k}) = Cardinality({j}) + 1
    BY <1>4, FS_AddElement
<1> QED
    BY <1>1, <1>3, <1>4, <1>5 DEF CopiesInv, Copies, Single

LEMMA SoleStep ==
    ASSUME QueueTyped, [HNext]_allVars, NEW v \in Workers, SoleInv(v),
           \A t \in Tasks : CopiesInv(t)
    PROVE  SoleInv(v)'
<1>0. /\ LogTyped /\ relapses \in [Tasks -> Nat] /\ restored \in [Tasks -> Nat]
      /\ Grows
    BY TypedParts, LogGrows DEF RestTyped
<1> SUFFICES ASSUME phase'[v] = "published" PROVE SoleInv(v)'
    BY DEF SoleInv
<1>1. ASSUME NEW w \in Workers, Retry(w), relapses' = relapses, restored' = restored
      PROVE  SoleInv(v)'
  <2>0. PICK new : new = Len(log) + 1
      OBVIOUS
  <2>1. /\ phase[w] = "run" /\ phase' = [phase EXCEPT ![w] = "published"] /\ job' = job
        /\ log' = Append(log, Message(TaskOf(w), Current(w).tries + 1))
        /\ job[w] # 0 /\ Current(w).tries < MaxRetries
      BY <1>0, <1>1 DEF Retry, Proceed, LogTyped
  <2>2. /\ TaskOf(w) \in Tasks /\ Current(w).tries + 1 \in 0 .. MaxRetries
        /\ log[job[w]].task = TaskOf(w)
      BY <2>1, JobFacts, RetriesAssumption DEF TaskOf
  <2>3. /\ new \notin DOMAIN log /\ DOMAIN log' = DOMAIN log \union {new}
        /\ log'[new].task = TaskOf(w) /\ log'[new].tries = Current(w).tries + 1
        /\ Queued' = Queued \union {new} /\ Working' = Working \ {job[w]}
        /\ v # w => phase'[v] = phase[v]
      BY <1>0, <2>0, <2>1, <2>2, EffectPublish
  <2>4. /\ job[w] \in DOMAIN log /\ job[w] \notin Queued /\ job[w] \in Working
      BY <1>0, <2>1, HeldFacts
  <2>5. CASE v = w
    <3> SUFFICES ASSUME Single(TaskOf(w)),
                        NEW m \in Queued' \union Working', log'[m].task = TaskOf(w)
                 PROVE  m \in Queued' /\ log'[m].tries = Current(w).tries + 1
      <4>1. TaskOf(w)' = TaskOf(w) /\ Current(w)'.tries = Current(w).tries
          BY <1>0, <2>1, TaskStays
      <4> QED
          BY <1>1, <2>5, <4>1 DEF SoleInv, Single
    <3>1. ASSUME NEW k \in Queued \union Working, log[k].task = TaskOf(w) PROVE k = job[w]
        BY <1>0, <2>2, <2>4, <3>1, OnlyOne
    <3>2. m = new
      <4>1. CASE m \in Queued
          BY <1>0, <2>4, <3>1, <4>1 DEF Grows, Queued
      <4>2. CASE m \in Working \ {job[w]}
          BY <1>0, <3>1, <4>2 DEF Grows, Working
      <4> QED
          BY <2>3, <4>1, <4>2
    <3> QED
        BY <2>3, <3>2
  <2>6. CASE v # w
    <3>1. phase[v] = "published" /\ phase'[v] = phase[v] /\ job'[v] = job[v] /\ job[v] # 0
        BY <1>0, <2>1, <2>3, <2>6 DEF LogTyped
    <3>2. ASSUME Single(TaskOf(v)) PROVE TaskOf(w) # TaskOf(v)
        BY <2>2, <2>4, <3>1, <3>2 DEF SoleInv
    <3>3. Queued' \subseteq Queued \union {new} /\ Working' \subseteq Working
        BY <2>3
    <3> QED
        BY <1>0, <1>1, <2>3, <3>1, <3>2, <3>3, SoleStays DEF Single
  <2> QED
      BY <2>5, <2>6
<1>2. ASSUME NEW w \in Workers, PickUp(w) \/ Discard(w), relapses' = relapses, restored' = restored
      PROVE  SoleInv(v)'
  <2>1. PICK m \in DOMAIN log, p \in {"run", "done"} : Take(w, m, p)
      BY <1>2 DEF PickUp, Discard
  <2>2. /\ m \in Queued /\ Queued' = Queued \ {m} /\ DOMAIN log' = DOMAIN log
        /\ Working' = Working \union {m} /\ phase'[w] # "published"
        /\ v # w => phase'[v] = phase[v] /\ job'[v] = job[v]
      BY <1>0, <2>1, EffectTake
  <2>3. v # w /\ phase[v] = "published" /\ job[v] # 0
      BY <1>0, <2>2 DEF LogTyped
  <2>4. ASSUME Single(TaskOf(v)) PROVE log[m].task # TaskOf(v)
    <3>1. log[m].task = TaskOf(v) => log[m].tries = Current(v).tries + 1
        BY <2>2, <2>3, <2>4 DEF SoleInv
    <3> QED
        BY <2>1, <2>3, <3>1 DEF Take, Ripe
  <2>5. log'[m].task = log[m].task
      BY <1>0 DEF Grows
  <2> QED
      BY <1>0, <1>2, <2>2, <2>3, <2>4, <2>5, SoleStays DEF Single
<1>3. ASSUME NEW w \in Workers, relapses' = relapses, restored' = restored,
             Succeed(w) \/ Fail(w) \/ NoteRetry(w) \/ ResultLost(w)
      PROVE  SoleInv(v)'
  <2>1. PICK p \in {"retried", "done"} :
            /\ phase[w] = IF p = "done" THEN "run" ELSE "published"
            /\ phase' = [phase EXCEPT ![w] = p] /\ job' = job /\ log' = log
      BY <1>3 DEF Succeed, Fail, NoteRetry, ResultLost, Proceed
  <2>2. /\ Queued' = Queued /\ Working' = Working /\ phase'[w] # "published"
        /\ v # w => phase'[v] = phase[v]
      BY <1>0, <2>1, EffectMove
  <2>3. phase[v] = "published" /\ phase'[v] = phase[v] /\ job[v] # 0
      BY <1>0, <2>2 DEF LogTyped
  <2> QED
      BY <1>0, <1>3, <2>1, <2>2, <2>3, SoleStays DEF Single
<1>4. ASSUME NEW w \in Workers,
             \/ (Acknowledge(w) \/ RetryLost(w)) /\ relapses' = relapses
             \/ HCrash(w) /\ job[w] # 0,
             restored' = restored
      PROVE  SoleInv(v)'
  <2>1. /\ job[w] # 0
        /\ \E s \in {"queued", "acked"}, p \in {"down", "idle"} : Leaves(w, s, p)
      BY <1>0, <1>4, LeaveCases
  <2>2. /\ DOMAIN log' = DOMAIN log /\ phase'[w] # "published"
        /\ Queued' \subseteq Queued \union {job[w]} /\ Working' = Working \ {job[w]}
        /\ v # w => phase'[v] = phase[v] /\ job'[v] = job[v]
      BY <1>0, <2>1, EffectLeave
  <2>3. v # w /\ phase[v] = "published" /\ job[v] # 0
      BY <1>0, <2>2 DEF LogTyped
  <2>4. /\ job[w] \in DOMAIN log /\ TaskOf(w) = log[job[w]].task /\ TaskOf(w) \in Tasks
        /\ TaskOf(v) \in Tasks /\ job[w] \notin Queued
        /\ (job[w] \in Working) <=> (phase[w] \in {"run", "done"})
      BY <1>0, <2>1, <2>3, JobFacts, HeldFacts DEF TaskOf
  <2>5. CASE (Acknowledge(w) \/ RetryLost(w)) /\ relapses' = relapses
    <3>1. Leaves(w, "acked", "idle")
        BY <1>0, <2>5, LeaveCases
    <3>2. Queued' = Queued
        BY <1>0, <2>1, <3>1, EffectLeave
    <3> QED
        BY <1>0, <1>4, <2>2, <2>3, <2>5, <3>2, SoleStays DEF Single
  <2>6. CASE HCrash(w)
    <3>1. PICK t, old : t = TaskOf(v) /\ old = job[w]
        OBVIOUS
    <3>2. t \in Tasks /\ old \in DOMAIN log /\ old \notin Queued
        BY <2>4, <3>1
    <3>3. relapses'[t] >= relapses[t] /\ relapses[t] \in Nat /\ relapses'[t] \in Nat
      <4>1. relapses' \in [Tasks -> Nat]
          BY TypeStep DEF QueueTyped, HistoryTypeOK
      <4> QED
          BY <1>0, <3>2, <4>1, CrashesGrow
    <3>4. CASE TaskOf(w) = t /\ Single(t)
      <4>1. phase[w] \notin {"run", "done"}
          BY <2>3, <2>4, <3>1, <3>4 DEF SoleInv
      <4>2. phase[w] \in {"published", "retried"}
          BY <1>0, <2>1, <4>1 DEF LogTyped
      <4>3. relapses' = Count(relapses, t)
          BY <2>6, <3>4, <4>2 DEF HCrash
      <4>4. relapses'[t] # 0
          BY <1>0, <3>2, <4>3 DEF Count
      <4>5. TaskOf(v)' = t
          BY <1>0, <2>2, <2>3, <3>1, TaskStays
      <4> QED
          BY <4>4, <4>5 DEF SoleInv, Single
    <3>5. CASE TaskOf(w) # t \/ ~Single(t)
      <4>1. relapses'[t] = 0 /\ restored'[t] = 0 => Single(t)
          BY <1>4, <3>3 DEF Single
      <4>2. log'[old].task = log[old].task
          BY <1>0, <3>2 DEF Grows
      <4>3. ASSUME NEW m \in DOMAIN log', log'[m].task = t, Single(t)
            PROVE  /\ m \in Queued' => m \in Queued
                   /\ m \in Working' => m \in Working
        <5>1. m # old
            BY <2>4, <3>1, <3>5, <4>2, <4>3
        <5> QED
            BY <2>2, <3>1, <5>1
      <4> QED
          BY <1>0, <2>2, <2>3, <3>1, <4>1, <4>3, SoleStays
    <3> QED
        BY <3>4, <3>5
  <2> QED
      BY <1>4, <2>5, <2>6
<1>5. CASE HRedisCrash
  <2>1. Working' = Working /\ phase' = phase /\ job' = job
      BY <1>0, <1>5, TypedParts, EffectRedis DEF HRedisCrash
  <2>2. job[v] # 0
      BY <1>0, <2>1 DEF LogTyped
  <2>3. PICK t \in Tasks : t = TaskOf(v)
      BY <2>2, JobFacts
  <2>4. ASSUME relapses'[t] = 0, restored'[t] = 0
        PROVE  Single(t) /\ \A m \in Queued' : log'[m].task = t => m \in Queued
      BY <1>5, <2>4, NothingFresh DEF Single
  <2> QED
      BY <1>0, <2>1, <2>2, <2>3, <2>4, SoleStays
<1>6. ASSUME NEW u \in Tasks, Dispatch(u), relapses' = relapses, restored' = restored
      PROVE  SoleInv(v)'
  <2>0. PICK new : new = Len(log) + 1
      OBVIOUS
  <2>1. log' = Append(log, Message(u, 0)) /\ job' = job /\ phase' = phase /\ 0 \in 0 .. MaxRetries
        /\ ~Sent(u)
      BY <1>6, RetriesAssumption DEF Dispatch, workerVars
  <2>2. /\ DOMAIN log' = DOMAIN log \union {new} /\ log'[new].task = u
        /\ Queued' = Queued \union {new} /\ Working' = Working
      BY <1>0, <2>0, <2>1, EffectPublish
  <2>3. job[v] # 0
      BY <1>0, <2>1 DEF LogTyped
  <2>4. TaskOf(v) # u
      BY <2>1, <2>3, JobFacts DEF Sent, TaskOf
  <2> QED
      BY <1>0, <1>6, <2>1, <2>2, <2>3, <2>4, SoleStays DEF Single
<1>7. ASSUME log' = log, job' = job, relapses' = relapses, restored' = restored,
             Queued' = Queued, Working' = Working, phase'[v] = phase[v]
      PROVE  SoleInv(v)'
  <2>1. job[v] # 0
      BY <1>0, <1>7 DEF LogTyped
  <2> QED
      BY <1>0, <1>7, <2>1, SoleStays DEF Single
<1>8. ASSUME NEW u \in Tasks, HExpire(u) PROVE SoleInv(v)'
  <2>1. /\ log' = log /\ phase' = phase /\ job' = job
        /\ relapses' = relapses /\ restored' = restored
      BY <1>8 DEF HExpire, Expire, workerVars
  <2>2. Queued' = Queued /\ Working' = Working
      BY <2>1 DEF Queued, Working
  <2> QED
      BY <1>7, <2>1, <2>2
<1>9. CASE Quiet
    BY <1>0, <1>7, <1>9, EffectQuiet DEF Quiet, historyVars
<1>10. ASSUME (\E u : Lose(u)) \/ UNCHANGED historyVars
       PROVE  relapses' = relapses /\ restored' = restored
    BY <1>10 DEF Lose, historyVars
<1>11. /\ \A w \in Workers : HPickUp(w) => /\ PickUp(w)
                                           /\ relapses' = relapses /\ restored' = restored
       /\ \A w \in Workers : HCrash(w) => restored' = restored
    BY DEF HPickUp, HCrash
<1> QED
    BY NextCases, <1>1, <1>2, <1>3, <1>4, <1>5, <1>6, <1>8, <1>9, <1>10, <1>11

\* Who writes a verdict.
LEMMA StatusStep ==
    ASSUME QueueTyped, [HNext]_allVars, NEW t \in Tasks
    PROVE  \/ status'[t] = status[t]
           \/ status'[t] = "PENDING"
           \/ RedisCrash /\ status'[t] = saved.status[t]
           \/ /\ status[t] # "SUCCESS"
              /\ \/ \E w \in Workers : NoteRetry(w) /\ TaskOf(w) = t /\ status'[t] = "RETRY"
                 \/ \E w \in Workers : (Succeed(w) \/ Fail(w)) /\ TaskOf(w) = t
                 \/ \E w \in Workers, m \in DOMAIN log :
                       Take(w, m, "done") /\ log[m].task = t
<1>0. status \in [Tasks -> Stored]
    BY TypedParts DEF RestTyped
<1>1. ASSUME NEW u, NEW s, Store(u, s)
      PROVE  \/ status'[t] = status[t]
             \/ u = t /\ status[t] # "SUCCESS" /\ status'[t] = s
    BY <1>0, <1>1 DEF Store
<1>2. ASSUME NEW u \in Tasks, HExpire(u)
      PROVE  status'[t] = status[t] \/ status'[t] = "PENDING"
    BY <1>0, <1>2 DEF HExpire, Expire
<1>3. ASSUME NEW w \in Workers, Discard(w)
      PROVE  \/ status'[t] = status[t]
             \/ /\ status[t] # "SUCCESS"
                /\ \E m \in DOMAIN log : Take(w, m, "done") /\ log[m].task = t
  <2>1. PICK m \in DOMAIN log : Take(w, m, "done") /\ Store(log[m].task, "REVOKED")
      BY <1>3 DEF Discard
  <2> QED
      BY <1>1, <2>1
<1>4. ASSUME NEW w \in Workers, Succeed(w) \/ Fail(w)
      PROVE  status'[t] = status[t] \/ (status[t] # "SUCCESS" /\ TaskOf(w) = t)
    BY <1>1, <1>4 DEF Succeed, Fail
<1>5. ASSUME NEW w \in Workers, NoteRetry(w)
      PROVE  \/ status'[t] = status[t]
             \/ status[t] # "SUCCESS" /\ TaskOf(w) = t /\ status'[t] = "RETRY"
    BY <1>1, <1>5 DEF NoteRetry
<1>6. ASSUME status' = status PROVE status'[t] = status[t]
    BY <1>6
<1>7. HRedisCrash => RedisCrash /\ status'[t] = saved.status[t]
    BY DEF HRedisCrash, RedisCrash
<1> QED
    BY NextCases, <1>2, <1>3, <1>4, <1>5, <1>6, <1>7
       DEF Dispatch, HPickUp, PickUp, HCrash, Crash, AckLost, Retry, Acknowledge,
           RetryLost, ResultLost, Quiet

\* What the snapshot says of a task.
LEMMA SavedVerdict ==
    ASSUME [HNext]_allVars, NEW t
    PROVE  saved'.status[t] = saved.status[t] \/ saved'.status[t] = status[t]
<1>1. HSaveSnapshot => saved'.status = status
    BY DEF HSaveSnapshot, SaveSnapshot
<1>2. HSaveSnapshot \/ saved' = saved
    BY DEF HNext, HWork, HPickUp, HFaults, HCrash, HRedisCrash, RedisCrash, HExpire,
           historyVars, allVars, saveVars,
           Dispatch, Expire, PickUp, Discard, Take, Succeed, Retry, NoteRetry, Fail,
           Proceed, Acknowledge, RetryLost, ResultLost, AckLost,
           CheckCancel, Revoke, HearRevoke, Restart, Crash
<1> QED
    BY <1>1, <1>2

LEMMA SilentStep ==
    ASSUME QueueTyped, [HNext]_allVars, NEW t \in Tasks, SilentInv(t)
    PROVE  SilentInv(t)'
<1>0. LogTyped /\ Grows
    BY TypedParts, LogGrows
<1>1. Sent(t) => Sent(t)'
    BY <1>0 DEF Grows, Sent
<1>2. ASSUME NEW w \in Workers, NoteRetry(w) \/ Succeed(w) \/ Fail(w), TaskOf(w) = t
      PROVE  Sent(t)
  <2>1. job[w] # 0
      BY <1>0, <1>2 DEF NoteRetry, Succeed, Fail, Proceed, LogTyped
  <2> QED
      BY <1>2, <2>1, JobFacts DEF Sent, TaskOf
<1>3. \/ status'[t] \in {status[t], "PENDING", saved.status[t]}
      \/ Sent(t)
    BY StatusStep, <1>2 DEF Sent
<1> QED
    BY <1>1, <1>3, SavedVerdict DEF SilentInv

\* A task that is calm stays so unless a worker that had it crashes or a restart
\* of Redis brings a message of it back.
LEMMA CalmStep ==
    ASSUME QueueTyped, [HNext]_allVars, NEW t \in Tasks, Calm(t), Sent(t),
           relapses'[t] = relapses[t], reruns'[t] = reruns[t],
           restored'[t] = restored[t]
    PROVE  Calm(t)'
<1>0. LogTyped /\ Grows /\ relapses \in [Tasks -> Nat] /\ reruns \in [Tasks -> Nat]
    BY TypedParts, LogGrows DEF RestTyped
<1>1. ASSUME \A m \in Queued' : log'[m].task = t => m \in Queued,
             \A v \in Workers : phase'[v] \in {"run", "published"} =>
                 \/ TaskOf(v)' # t
                 \/ phase[v] \in {"run", "published"} /\ job'[v] = job[v]
      PROVE  Calm(t)'
  <2>1. ASSUME NEW m \in Queued' PROVE log'[m].task # t
    <3>1. m \in Queued => log'[m].task = log[m].task
        BY <1>0 DEF Grows, Queued
    <3> QED
        BY <1>1, <2>1, <3>1 DEF Calm
  <2>2. ASSUME NEW v \in Workers, phase'[v] \in {"run", "published"} PROVE TaskOf(v)' # t
    <3>1. CASE phase[v] \in {"run", "published"} /\ job'[v] = job[v]
      <4>1. job[v] # 0
          BY <1>0, <3>1 DEF LogTyped
      <4>2. TaskOf(v)' = TaskOf(v)
          BY <1>0, <3>1, <4>1, TaskStays
      <4> QED
          BY <3>1, <4>2 DEF Calm
    <3> QED
        BY <1>1, <2>2, <3>1
  <2> QED
      BY <2>1, <2>2 DEF Calm
<1>2. ASSUME NEW u \in Tasks, Dispatch(u) PROVE Calm(t)'
  <2>0. PICK new : new = Len(log) + 1
      OBVIOUS
  <2>1. log' = Append(log, Message(u, 0)) /\ job' = job /\ phase' = phase /\ 0 \in 0 .. MaxRetries
        /\ u # t
      BY <1>2, RetriesAssumption DEF Dispatch, workerVars
  <2>2. Queued' = Queued \union {new} /\ log'[new].task = u
      BY <1>0, <2>0, <2>1, EffectPublish
  <2> QED
      BY <1>1, <2>1, <2>2
<1>3. ASSUME NEW w \in Workers, PickUp(w) \/ Discard(w) PROVE Calm(t)'
  <2>1. PICK m \in DOMAIN log, p \in {"run", "done"} : Take(w, m, p)
      BY <1>3 DEF PickUp, Discard
  <2>2. /\ m \in Queued /\ Queued' = Queued \ {m} /\ job'[w] = m
        /\ \A v \in Workers : v # w => phase'[v] = phase[v] /\ job'[v] = job[v]
      BY <1>0, <2>1, EffectTake
  <2>3. TaskOf(w)' # t
    <3>1. log[m].task # t
        BY <2>2 DEF Calm
    <3>2. log'[m].task = log[m].task
        BY <1>0 DEF Grows
    <3> QED
        BY <2>2, <3>1, <3>2 DEF TaskOf, Current
  <2> QED
      BY <1>1, <2>2, <2>3
<1>4. ASSUME NEW w \in Workers, Succeed(w) \/ Fail(w) \/ NoteRetry(w) \/ ResultLost(w)
      PROVE  Calm(t)'
  <2>1. PICK p \in {"retried", "done"} :
            /\ phase[w] = IF p = "done" THEN "run" ELSE "published"
            /\ phase' = [phase EXCEPT ![w] = p] /\ job' = job /\ log' = log
      BY <1>4 DEF Succeed, Fail, NoteRetry, ResultLost, Proceed
  <2>2. /\ Queued' = Queued /\ phase'[w] = p
        /\ \A v \in Workers : v # w => phase'[v] = phase[v]
      BY <1>0, <2>1, EffectMove
  <2> QED
      BY <1>1, <2>1, <2>2
<1>5. ASSUME NEW w \in Workers, Retry(w) PROVE Calm(t)'
  <2>0. PICK new : new = Len(log) + 1
      OBVIOUS
  <2>1. /\ phase[w] = "run" /\ phase' = [phase EXCEPT ![w] = "published"] /\ job' = job
        /\ log' = Append(log, Message(TaskOf(w), Current(w).tries + 1))
        /\ job[w] # 0 /\ Current(w).tries < MaxRetries /\ TaskOf(w) # t
      BY <1>0, <1>5 DEF Retry, Proceed, LogTyped, Calm
  <2>2. TaskOf(w) \in Tasks /\ Current(w).tries + 1 \in 0 .. MaxRetries
      BY <2>1, JobFacts, RetriesAssumption
  <2>3. /\ Queued' = Queued \union {new} /\ log'[new].task = TaskOf(w)
        /\ \A v \in Workers : v # w => phase'[v] = phase[v]
      BY <1>0, <2>0, <2>1, <2>2, EffectPublish
  <2> QED
      BY <1>1, <2>1, <2>3
<1>6. ASSUME NEW w \in Workers, Acknowledge(w) \/ RetryLost(w) \/ (HCrash(w) /\ job[w] # 0)
      PROVE  Calm(t)'
  <2>1. /\ job[w] # 0
        /\ \E s \in {"queued", "acked"}, p \in {"down", "idle"} : Leaves(w, s, p)
      BY <1>0, <1>6, LeaveCases
  <2>2. PICK old : old = job[w]
      OBVIOUS
  <2>3. /\ old \in DOMAIN log /\ log[old].task = TaskOf(w) /\ TaskOf(w) \in Tasks
      BY <2>1, <2>2, JobFacts DEF TaskOf
  <2>4. /\ Queued' \subseteq Queued \union {old} /\ phase'[w] \in {"down", "idle"}
        /\ \A v \in Workers : v # w => phase'[v] = phase[v] /\ job'[v] = job[v]
      BY <1>0, <2>1, <2>2, EffectLeave
  <2>5. old \in Queued' => log'[old].task # t
    <3>1. CASE Acknowledge(w) \/ RetryLost(w)
      <4>1. Leaves(w, "acked", "idle") /\ old \notin Queued
          BY <1>0, <2>1, <2>2, <3>1, HeldFacts, LeaveCases
      <4>2. Queued' = Queued
          BY <1>0, <2>1, <4>1, EffectLeave
      <4> QED
          BY <4>1, <4>2
    <3>2. CASE HCrash(w)
      <4>1. TaskOf(w) # t
        <5>1. phase[w] \in {"run", "done", "published", "retried"}
            BY <1>0, <2>1 DEF LogTyped
        <5>2. reruns' = Count(reruns, TaskOf(w)) \/ relapses' = Count(relapses, TaskOf(w))
            BY <3>2, <5>1 DEF HCrash
        <5> QED
            BY <1>0, <5>2 DEF Count
      <4> QED
          BY <1>0, <2>3, <4>1 DEF Grows
    <3> QED
        BY <1>6, <3>1, <3>2
  <2> QED
      BY <1>1, <2>4, <2>5
<1>7. CASE HRedisCrash
  <2>1. phase' = phase /\ job' = job
      BY <1>0, <1>7, TypedParts, EffectRedis DEF HRedisCrash
  <2>2. \A m \in Queued' : log'[m].task = t => m \in Queued
      BY <1>7, NothingFresh
  <2> QED
      BY <1>1, <2>1, <2>2
<1>8. ASSUME NEW u \in Tasks, HExpire(u) PROVE Calm(t)'
  <2>1. log' = log /\ phase' = phase /\ job' = job
      BY <1>8 DEF HExpire, Expire, workerVars
  <2>2. Queued' = Queued
      BY <2>1 DEF Queued
  <2> QED
      BY <1>1, <2>1, <2>2
<1>9. CASE Quiet
  <2>1. /\ Queued' = Queued /\ job' = job
        /\ \A v \in Workers : phase'[v] \in {"run", "published"} => phase'[v] = phase[v]
      BY <1>0, <1>9, EffectQuiet DEF Quiet
  <2> QED
      BY <1>1, <2>1
<1> QED
    BY NextCases, <1>2, <1>3, <1>4, <1>5, <1>6, <1>7, <1>8, <1>9 DEF HPickUp

\* A worker that brings a single task to a verdict leaves nobody behind.
LEMMA CalmStart ==
    ASSUME QueueTyped, [HNext]_allVars, NEW t \in Tasks, CopiesInv(t), Single(t),
           \A v \in Workers : SoleInv(v),
           status[t] \notin Terminal, saved.status[t] \notin Terminal, status'[t] \in Terminal
    PROVE  Calm(t)'
<1>0. LogTyped /\ Grows
    BY TypedParts, LogGrows
<1>1. ASSUME NEW v \in Workers, phase[v] = "run", TaskOf(v) = t
      PROVE  job[v] \in Working /\ log[job[v]].task = t /\ job[v] # 0
  <2>1. job[v] # 0
      BY <1>0, <1>1 DEF LogTyped
  <2> QED
      BY <1>0, <1>1, <2>1, HeldFacts DEF TaskOf, Current
<1>2. ASSUME NEW w \in Workers, Succeed(w) \/ Fail(w), TaskOf(w) = t PROVE Calm(t)'
  <2>1. /\ phase[w] = "run" /\ phase' = [phase EXCEPT ![w] = "done"] /\ job' = job /\ log' = log
      BY <1>2 DEF Succeed, Fail, Proceed
  <2>2. /\ Queued' = Queued /\ phase'[w] = "done"
        /\ \A v \in Workers : v # w => phase'[v] = phase[v]
      BY <1>0, <2>1, EffectMove
  <2>3. job[w] \in Working /\ log[job[w]].task = t /\ job[w] # 0 /\ job[w] \notin Queued
      BY <1>0, <1>1, <1>2, <2>1, HeldFacts
  <2>4. ASSUME NEW m \in Queued', log'[m].task = t PROVE FALSE
    <3>1. m = job[w]
        BY <2>1, <2>2, <2>3, <2>4, OnlyOne
    <3> QED
        BY <2>2, <2>3, <3>1
  <2>5. ASSUME NEW v \in Workers, phase'[v] \in {"run", "published"}, TaskOf(v)' = t
        PROVE  FALSE
    <3>1. v # w /\ phase[v] = phase'[v] /\ TaskOf(v) = t
        BY <2>1, <2>2, <2>5 DEF TaskOf, Current
    <3>2. CASE phase[v] = "run"
      <4>1. job[v] = job[w] /\ job[v] # 0
          BY <1>1, <2>3, <3>1, <3>2, OnlyOne
      <4> QED
          BY <1>0, <3>1, <4>1 DEF LogTyped, JobsApart
    <3>3. CASE phase[v] = "published"
        BY <2>3, <3>1, <3>3 DEF SoleInv
    <3> QED
        BY <2>5, <3>1, <3>2, <3>3
  <2> QED
      BY <2>4, <2>5 DEF Calm
<1>3. ASSUME NEW w \in Workers, NEW m \in DOMAIN log, Take(w, m, "done"), log[m].task = t
      PROVE  Calm(t)'
  <2>1. /\ m \in Queued /\ Queued' = Queued \ {m} /\ phase'[w] = "done"
        /\ \A v \in Workers : v # w => phase'[v] = phase[v] /\ job'[v] = job[v]
      BY <1>0, <1>3, EffectTake
  <2>2. ASSUME NEW k \in Queued', log'[k].task = t PROVE FALSE
    <3>1. log[k].task = t /\ k \in Queued /\ k # m
        BY <1>0, <2>1, <2>2 DEF Grows, Queued
    <3> QED
        BY <1>3, <2>1, <3>1, OnlyOne
  <2>3. ASSUME NEW v \in Workers, phase'[v] \in {"run", "published"}, TaskOf(v)' = t
        PROVE  FALSE
    <3>1. v # w /\ phase[v] = phase'[v] /\ job'[v] = job[v] /\ job[v] # 0
        BY <1>0, <2>1, <2>3 DEF LogTyped
    <3>2. TaskOf(v) = t
        BY <1>0, <2>3, <3>1, TaskStays
    <3>3. CASE phase[v] = "run"
      <4>1. job[v] = m
          BY <1>1, <1>3, <2>1, <3>2, <3>3, OnlyOne
      <4> QED
          BY <1>0, <1>1, <2>1, <3>2, <3>3, <4>1, Apart
    <3>4. CASE phase[v] = "published"
      <4>1. log[m].tries = Current(v).tries + 1
          BY <1>3, <2>1, <3>2, <3>4 DEF SoleInv
      <4> QED
          BY <1>3, <3>2, <3>4, <4>1 DEF Take, Ripe
    <3> QED
        BY <2>3, <3>1, <3>3, <3>4
  <2> QED
      BY <2>2, <2>3 DEF Calm
<1>4. /\ status'[t] # status[t] /\ status'[t] # saved.status[t]
      /\ status'[t] # "PENDING" /\ status'[t] # "RETRY"
    BY DEF Terminal
<1> QED
    BY <1>2, <1>3, <1>4, StatusStep

LEMMA VerdictStep ==
    ASSUME QueueTyped, [HNext]_allVars, NEW t \in Tasks, CopiesInv(t), VerdictInv(t),
           SilentInv(t), \A v \in Workers : SoleInv(v)
    PROVE  VerdictInv(t)'
<1> SUFFICES ASSUME status'[t] \in Terminal \/ saved'.status[t] \in Terminal,
                    reruns'[t] = 0, relapses'[t] = 0, restored'[t] = 0
             PROVE  Calm(t)'
    BY DEF VerdictInv, Single
<1>1. reruns[t] = 0 /\ relapses[t] = 0 /\ restored[t] = 0
  <2>1. reruns[t] \in Nat /\ relapses[t] \in Nat /\ restored[t] \in Nat
      BY TypedParts DEF RestTyped
  <2> QED
      BY <2>1, CrashesGrow
<1>2. CASE status[t] \in Terminal \/ saved.status[t] \in Terminal
  <2>1. Calm(t) /\ Sent(t)
      BY <1>1, <1>2 DEF VerdictInv, SilentInv, Terminal, Single
  <2> QED
      BY <1>1, <2>1, CalmStep
<1>3. CASE status[t] \notin Terminal /\ saved.status[t] \notin Terminal
  <2>1. status'[t] \in Terminal
      BY <1>3, SavedVerdict
  <2> QED
      BY <1>1, <1>3, <2>1, CalmStart DEF Single
<1> QED
    BY <1>2, <1>3

SettledInv ==
    /\ QueueTyped
    /\ \A t \in Tasks : CopiesInv(t) /\ SilentInv(t) /\ VerdictInv(t)
    /\ \A w \in Workers : SoleInv(w)

\* Workers never overwrite the verdict that get_task_status reports, for any
\* number of workers, retries and faults: it expires, or a restart of Redis undoes
\* it.  For a SUCCESS that is always so, for the others unless a crash or a restart
\* made a worker take the task once more.
THEOREM VerdictsStand == HSpec => VerdictStands
<1>1. HInit => SettledInv
  <2> SUFFICES ASSUME HInit PROVE SettledInv
      OBVIOUS
  <2>1. ASSUME NEW t \in Tasks PROVE CopiesInv(t) /\ SilentInv(t) /\ VerdictInv(t)
    <3>1. /\ Live(t) = {} /\ Copies(t) = 1 + 0 + 0
          /\ status[t] = "PENDING" /\ saved.status[t] = "PENDING"
        BY DEF HInit, Init, Live, Copies
    <3> QED
        BY <3>1, FS_EmptySet DEF CopiesInv, SilentInv, VerdictInv, Terminal
  <2>2. \A w \in Workers : SoleInv(w)
      BY DEF HInit, Init, SoleInv
  <2> QED
      BY <2>1, <2>2, TypeInit DEF SettledInv
<1>2. SettledInv /\ [HNext]_allVars => SettledInv'
  <2> SUFFICES ASSUME SettledInv, [HNext]_allVars PROVE SettledInv'
      OBVIOUS
  <2>1. QueueTyped'
      BY TypeStep DEF SettledInv
  <2>2. ASSUME NEW t \in Tasks PROVE CopiesInv(t)' /\ SilentInv(t)' /\ VerdictInv(t)'
      BY CopiesStep, SilentStep, VerdictStep DEF SettledInv
  <2>3. ASSUME NEW w \in Workers PROVE SoleInv(w)'
      BY SoleStep DEF SettledInv
  <2> QED
      BY <2>1, <2>2, <2>3 DEF SettledInv
<1>3. SettledInv /\ [HNext]_allVars =>
        [\A t \in Tasks :
            /\ status[t] \in Terminal
            /\ status[t] = "SUCCESS" \/ reruns[t] + relapses[t] + restored[t] = 0
            => status'[t] \in {status[t], "PENDING"} \/ RedisCrash]_allVars
  <2> SUFFICES ASSUME SettledInv, [HNext]_allVars, NEW t \in Tasks, status[t] \in Terminal,
                      status[t] = "SUCCESS" \/ reruns[t] + relapses[t] + restored[t] = 0
               PROVE  status'[t] \in {status[t], "PENDING"} \/ RedisCrash
      OBVIOUS
  <2>1. CASE status[t] = "SUCCESS"
      BY <2>1, StatusStep DEF SettledInv
  <2>2. CASE reruns[t] + relapses[t] + restored[t] = 0
    <3>1. /\ reruns[t] \in Nat /\ relapses[t] \in Nat /\ restored[t] \in Nat
          /\ LogTyped
        BY TypedParts DEF SettledInv, RestTyped
    <3>2. Calm(t)
      <4>1. reruns[t] = 0 /\ relapses[t] = 0 /\ restored[t] = 0
          BY <2>2, <3>1
      <4>2. VerdictInv(t)
          BY DEF SettledInv
      <4> QED
          BY <4>1, <4>2 DEF VerdictInv, Single
    <3>3. ~ \E w \in Workers : (NoteRetry(w) \/ Succeed(w) \/ Fail(w)) /\ TaskOf(w) = t
        BY <3>2 DEF Calm, NoteRetry, Succeed, Fail, Proceed
    <3>4. ~ \E w \in Workers, m \in DOMAIN log : Take(w, m, "done") /\ log[m].task = t
        BY <3>2 DEF Calm, Take, Queued
    <3> QED
        BY <3>3, <3>4, StatusStep DEF SettledInv
  <2> QED
      BY <2>1, <2>2
<1> QED
    BY <1>1, <1>2, <1>3, PTL DEF HSpec, VerdictStands
=============================================================================
