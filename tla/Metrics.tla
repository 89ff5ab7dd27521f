------------------------------- MODULE Metrics -------------------------------
(***************************************************************************)
(* Request metrics: what MetricsMiddleware and record_intent write         *)
(* (src/api/middlewares/metrics.py), the counter of dispatched tasks       *)
(* (src/main.py), and the summary that get_metrics puts together from four *)
(* round trips (src/routers/metrics.py).                                   *)
(*                                                                         *)
(* Each round trip to Redis is one step; a pipeline is a transaction.      *)
(* Between two round trips of one request others take theirs, minutes      *)
(* pass, and Redis may restart from its last snapshot.                     *)
(***************************************************************************)
EXTENDS Integers, Sequences, FiniteSetsExt

CONSTANTS
    Intents,    \* _INTENTS
    Quant,      \* "financial_quant"
    Requests,   \* requests that reach the metrics middleware; each comes once
    Window,     \* minutes of the series in a summary (60)
    RpmTtl,     \* _RPM_TTL, minutes (120)
    RecentMax,  \* _RECENT_MAX
    Shown,      \* recent entries in a summary (20)
    MaxLag,     \* the longest time from reading a clock to the call that uses it
    MaxFaults,  \* bound: failing calls and restarts of Redis
    Horizon     \* bound: the last minute

\* A bucket has to outlive the window for as long as a reader may be late.
ASSUME TtlAssumption    == Window \in Nat \ {0} /\ MaxLag \in Nat /\ RpmTtl \in Nat
                           /\ RpmTtl >= Window + MaxLag
ASSUME IntentsAssumption == Quant \in Intents
ASSUME RecentAssumption == RecentMax \in Nat /\ Shown \in 0 .. RecentMax
ASSUME BoundsAssumption == MaxFaults \in Nat /\ Horizon \in Nat

VARIABLES
    now,        \* the minute
    db,         \* the keys metrics:* in Redis
    saved,      \* the same in the last snapshot
    stage,      \* stage[r]: the next call of r
    failed,     \* failed[r]: the answer to r has a status of 400 or more
    clock,      \* clock[r]: the minute that r read for the call that follows
    view,       \* view[r]: what the summary r has read so far
    torn,       \* summaries during which Redis was restarted
    unpaired,   \* tasks that may be counted although their intent is not
    faults      \* number of faults so far

requestVars == <<stage, failed, clock>>
historyVars == <<torn, unpaired, faults>>
vars == <<now, db, saved, stage, failed, clock, view, torn, unpaired, faults>>

Minutes == 0 .. Horizon

----------------------------------------------------------------------------
Smaller(a, b) == IF a < b THEN a ELSE b

SumOver(f, S) == MapThenSumSet(LAMBDA m : f[m], S)

\* Nothing was counted yet.
EmptyDb ==
    [total |-> 0, errors |-> 0, recent |-> <<>>, dispatched |-> 0,
     intents |-> [i \in Intents |-> 0],
     rpm     |-> [m \in Minutes |-> 0],    \* a value outlives its expiry here,
     until   |-> [m \in Minutes |-> 0]]    \* but is only visible before it

\* What mget returns for the bucket of minute m.
Bucket(m) == IF m \in Minutes /\ now < db.until[m] THEN db.rpm[m] ELSE 0

Go(r, from, to) == stage[r] = from /\ stage' = [stage EXCEPT ![r] = to]

NoView == [total |-> 0, errors |-> 0, series |-> <<>>, recent |-> 0]

\* The locals of a handler go with it.
Forget(r) ==
    /\ failed' = [failed EXCEPT ![r] = FALSE]
    /\ clock'  = [clock EXCEPT ![r] = 0]
    /\ view'   = [view EXCEPT ![r] = NoView]

Fault == faults < MaxFaults /\ faults' = faults + 1

NoFault == UNCHANGED faults

----------------------------------------------------------------------------
(* Handlers that count.                                                    *)

\* A chat query, a summary, or a route whose handler counts nothing.
Start(r) ==
    /\ \E to \in {"intent", "counters", "respond"} : Go(r, "new", to)
    /\ UNCHANGED <<now, db, saved, failed, clock, view, historyVars>>

\* record_intent.  A failing call is swallowed.
RecordIntent(r) ==
    \E i \in Intents :
        /\ Go(r, "intent", IF i = Quant THEN "dispatch" ELSE "respond")
        /\ \/ db' = [db EXCEPT !.intents[i] = @ + 1] /\ UNCHANGED <<unpaired, faults>>
           \/ Fault /\ unpaired' = unpaired + (IF i = Quant THEN 1 ELSE 0) /\ UNCHANGED db
        /\ UNCHANGED <<now, saved, failed, clock, view, torn>>

\* The task is published and then counted; a failing call is swallowed.
CountDispatch(r) ==
    /\ Go(r, "dispatch", "accepted")
    /\ \/ db' = [db EXCEPT !.dispatched = @ + 1] /\ NoFault
       \/ Fault /\ UNCHANGED db
    /\ UNCHANGED <<now, saved, failed, clock, view, torn, unpaired>>

\* The handler raises something other than an HTTPException: the publication
\* failed, or a call of get_metrics.  Nothing is recorded.
Raise(r) ==
    /\ Fault
    /\ stage[r] \notin {"new", "intent", "record", "done"}
    /\ stage' = [stage EXCEPT ![r] = "done"]
    /\ Forget(r)
    /\ UNCHANGED <<now, db, saved, torn, unpaired>>

----------------------------------------------------------------------------
(* MetricsMiddleware.                                                      *)

\* call_next returns a response; _record reads the clock.  A query that was
\* dispatched is answered with 200.
Respond(r) ==
    /\ stage[r] \in {"respond", "accepted"}
    /\ stage' = [stage EXCEPT ![r] = "record"]
    /\ \E e \in BOOLEAN :
          /\ e => stage[r] = "respond"
          /\ failed' = [failed EXCEPT ![r] = e]
    /\ clock' = [clock EXCEPT ![r] = now]
    /\ UNCHANGED <<now, db, saved, view, historyVars>>

\* The commands of the pipeline.
Recorded(r) ==
    LET m == clock[r]
    IN  [db EXCEPT !.total    = @ + 1,
                   !.errors   = IF failed[r] THEN @ + 1 ELSE @,
                   !.rpm[m]   = Bucket(m) + 1,
                   !.until[m] = now + RpmTtl,
                   !.recent   = SubSeq(<<failed[r]>> \o @, 1, Smaller(Len(@) + 1, RecentMax))]

Record(r) ==
    /\ Go(r, "record", "done")
    /\ db' = Recorded(r)
    /\ Forget(r)
    /\ UNCHANGED <<now, saved, historyVars>>

RecordFails_Partly(r) ==   \* fault: a pipeline that is not a transaction
    /\ Fault
    /\ Go(r, "record", "done")
    /\ db' = [db EXCEPT !.total = @ + 1]
    /\ Forget(r)
    /\ UNCHANGED <<now, saved, torn, unpaired>>

\* The exception is swallowed.
RecordFails(r) ==
    /\ Fault
    /\ Go(r, "record", "done")
    /\ Forget(r)
    /\ UNCHANGED <<now, db, saved, torn, unpaired>>

----------------------------------------------------------------------------
(* get_metrics.                                                            *)

ReadCounters(r) ==
    /\ Go(r, "counters", "series")
    /\ view'  = [view EXCEPT ![r].total = db.total, ![r].errors = db.errors]
    /\ clock' = [clock EXCEPT ![r] = now]
    /\ UNCHANGED <<now, db, saved, failed, historyVars>>

SeriesOf_Short(m) == [k \in (m - Window + 2) .. m |-> Bucket(k)]   \* fault: range(59)

\* rpm_series, by the minute that each of its entries stands for.
SeriesOf(m) == [k \in (m - Window + 1) .. m |-> Bucket(k)]

\* now_minute is read between the reply of the pipeline and the mget.
ReadSeries(r) ==
    /\ Go(r, "series", "recent")
    /\ \E m \in clock[r] .. now :
          /\ clock' = [clock EXCEPT ![r] = m]
          /\ view'  = [view EXCEPT ![r].series = SeriesOf(m)]
    /\ UNCHANGED <<now, db, saved, failed, historyVars>>

ReadRecent_OneMore(r) ==   \* fault: lrange 0 20, whose end is inclusive
    /\ Go(r, "recent", "tasks")
    /\ view' = [view EXCEPT ![r].recent = Smaller(Len(db.recent), Shown + 1)]
    /\ UNCHANGED <<now, db, saved, failed, clock, historyVars>>

ReadRecent(r) ==
    /\ Go(r, "recent", "tasks")
    /\ view' = [view EXCEPT ![r].recent = Smaller(Len(db.recent), Shown)]
    /\ UNCHANGED <<now, db, saved, failed, clock, historyVars>>

\* The task counters, which nothing compares; "completed" and "failed" are never
\* written.  The summary is complete.
ReadTasks(r) ==
    /\ Go(r, "tasks", "respond")
    /\ Forget(r)
    /\ UNCHANGED <<now, db, saved, historyVars>>

----------------------------------------------------------------------------
(* Time and Redis.                                                         *)

Tick ==
    /\ now < Horizon
    /\ \A r \in Requests : stage[r] \in {"series", "record"} => now - clock[r] < MaxLag
    /\ now' = now + 1
    /\ UNCHANGED <<db, saved, requestVars, view, historyVars>>

\* redis-server --save 60 1.
SaveSnapshot ==
    /\ faults < MaxFaults   \* no other snapshot can be restored
    /\ saved' = db
    /\ UNCHANGED <<now, db, requestVars, view, historyVars>>

Counting == {r \in Requests : stage[r] = "dispatch"}
Reading  == {r \in Requests : stage[r] \in {"series", "recent", "tasks"}}

\* Redis restarts from its last snapshot.
RedisCrash ==
    /\ Fault
    /\ db'       = saved
    /\ torn'     = torn \union Reading
    /\ unpaired' = unpaired + Cardinality(Counting)
    /\ UNCHANGED <<now, saved, requestVars, view>>

----------------------------------------------------------------------------
Init ==
    /\ now      = 0
    /\ db       = EmptyDb
    /\ saved    = EmptyDb
    /\ stage    = [r \in Requests |-> "new"]
    /\ failed   = [r \in Requests |-> FALSE]
    /\ clock    = [r \in Requests |-> 0]
    /\ view     = [r \in Requests |-> NoView]
    /\ torn     = {}
    /\ unpaired = 0
    /\ faults   = 0

Summarise(r) == ReadCounters(r) \/ ReadSeries(r) \/ ReadRecent(r) \/ ReadTasks(r)

Next ==
    \/ \E r \in Requests :
          \/ Start(r) \/ RecordIntent(r) \/ CountDispatch(r) \/ Raise(r)
          \/ Respond(r) \/ Record(r) \/ RecordFails(r) \/ Summarise(r)
    \/ Tick \/ SaveSnapshot \/ RedisCrash

Spec == Init /\ [][Next]_vars

----------------------------------------------------------------------------
(* What the metrics promise.                                               *)

TypeOK ==
    /\ now \in Minutes
    /\ \A d \in {db, saved} :
          /\ {d.total, d.errors, d.dispatched} \subseteq Nat
          /\ d.intents \in [Intents -> Nat]
          /\ d.rpm \in [Minutes -> Nat] /\ d.until \in [Minutes -> Nat]
    /\ stage  \in [Requests -> {"new", "intent", "dispatch", "counters", "series",
                                "recent", "tasks", "accepted", "respond", "record", "done"}]
    /\ failed \in [Requests -> BOOLEAN]
    /\ clock  \in [Requests -> Minutes]
    /\ torn \subseteq Requests
    /\ unpaired \in Nat /\ faults \in 0 .. MaxFaults
    /\ \A r \in Requests : view[r].recent \in 0 .. Shown

Errors(entries) == Cardinality({i \in DOMAIN entries : entries[i]})

\* The counters, the list and the series tell of the same requests, whatever
\* failed or was restored in between: the list holds the latest of them, its
\* errors are counted ones, each request is in one minute's bucket, and each
\* dispatched task was a financial_quant query.
CountersAgree ==
    /\ Len(db.recent) = Smaller(db.total, RecentMax)
    /\ Errors(db.recent) <= db.errors
    /\ db.total - db.errors >= Len(db.recent) - Errors(db.recent)
    /\ SumOver(db.rpm, Minutes) = db.total
    /\ db.dispatched + Cardinality(Counting) <= db.intents[Quant] + unpaired

\* The requests of minutes that the series of r leaves out.
Older(r) == SumOver(db.rpm, {m \in Minutes : m <= clock[r] - Window})

\* Although a summary is read in four round trips, its later parts never lack
\* what its earlier ones count: every request in the total is in the series or
\* older than its window, no bucket of the window having expired, and the recent
\* entries are as many as the total calls for.
SummaryCovers ==
    \A r \in Requests \ torn :
        /\ view[r].errors <= view[r].total
        /\ stage[r] \in {"recent", "tasks"} =>
              LET series == SumOver(view[r].series, DOMAIN view[r].series)
              IN  /\ view[r].total <= series + Older(r)
                  /\ series + Older(r) <= db.total
        /\ stage[r] = "tasks" => view[r].recent >= Smaller(view[r].total, Shown)
=============================================================================
