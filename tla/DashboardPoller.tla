--------------------------- MODULE DashboardPoller ---------------------------
(***************************************************************************)
(* The console of the dashboard (src/dashboard/index.html): it sends       *)
(* queries, polls the tasks that they dispatch every 1.5 seconds, and      *)
(* shows what comes back.                                                  *)
(*                                                                         *)
(* A page runs one callback at a time.  Between them answers arrive and    *)
(* intervals fire in any order, and the ticks of an interval do not wait   *)
(* for the answers to earlier ones.  There is one interval handle for the  *)
(* whole page, pollingInterval.                                            *)
(***************************************************************************)
CONSTANTS
    Queries,   \* queries that are sent; each names the task it may dispatch
    Fetches,   \* bound: status fetches that may be in flight at once
    NoQuery    \* stands for no query

ASSUME NoQueryAssumption == NoQuery \notin Queries

VARIABLES
    sent,      \* sent[q]: "new", "waiting" for the answer to its POST, "answered"
    task,      \* task[q]: what the task route reports: "open" (PENDING, RETRY), ...
    refused,   \* requests are refused: the key is dead (401), the bucket empty (429)
    live,      \* queries whose interval has not been cleared
    current,   \* pollingInterval: the query whose interval it is
    asks,      \* asks[f]: the task whose status fetch f asks for
    saw,       \* saw[f]: the status in its answer, "unread" while there is none
    status,    \* the spinner is visible
    result,    \* the task in the result panel, or NoQuery if it is hidden
    text,      \* the query in the text panel, or NoQuery if it is hidden
    error      \* the error panel is visible

taskVars  == <<sent, task, refused>>
pollVars  == <<live, current>>
fetchVars == <<asks, saw>>
pageVars  == <<status, result, text, error>>
vars == <<sent, task, refused, live, current, asks, saw, status, result, text, error>>

Reports == {"open", "success", "failure", "revoked"}

----------------------------------------------------------------------------
(* The page.                                                               *)

\* hideStatus, followed by what is shown instead.
ShowResult(q) ==
    /\ status' = FALSE
    /\ result' = q
    /\ UNCHANGED <<text, error>>

ShowText(q) ==
    /\ status' = FALSE
    /\ text' = q
    /\ UNCHANGED <<result, error>>

ShowError_Spinning ==   \* fault: hideStatus is forgotten
    /\ error' = TRUE
    /\ UNCHANGED <<status, result, text>>

ShowError ==
    /\ status' = FALSE
    /\ error' = TRUE
    /\ UNCHANGED <<result, text>>

\* clearInterval(pollingInterval).  The handle keeps its value.
StopPolling ==
    /\ live' = live \ {current}
    /\ UNCHANGED current

----------------------------------------------------------------------------
(* Queries.                                                                *)

\* runQuery up to its fetch.  The button is disabled until an answer comes, but
\* the Enter key is not: queries may overlap.
RunQuery(q) ==
    /\ sent[q] = "new"
    /\ sent'   = [sent EXCEPT ![q] = "waiting"]
    /\ status' = TRUE
    /\ result' = NoQuery
    /\ text'   = NoQuery
    /\ error'  = FALSE
    /\ UNCHANGED <<task, refused, pollVars, fetchVars>>

\* runQuery without a query: an error is shown beside whatever is there.
RunNothing ==
    /\ error' = TRUE
    /\ UNCHANGED <<taskVars, pollVars, fetchVars, status, result, text>>

\* The answer to the POST of q arrives.
Answered(q) ==
    /\ sent[q] = "waiting"
    /\ sent' = [sent EXCEPT ![q] = "answered"]
    /\ UNCHANGED <<task, refused, fetchVars>>

Processing_KeepOld(q) ==   \* fault: the interval of the last task is not cleared
    /\ Answered(q)
    /\ live'    = live \union {q}
    /\ current' = q
    /\ UNCHANGED pageVars

\* "processing": pollTask replaces the interval of the last task.
Processing(q) ==
    /\ Answered(q)
    /\ live'    = (live \ {current}) \union {q}
    /\ current' = q
    /\ UNCHANGED pageVars

\* "completed": the answer of the LLM.  An interval goes on.
Completed(q) ==
    /\ Answered(q)
    /\ ShowText(q)
    /\ UNCHANGED pollVars

Rejected_Spinning(q) ==   \* fault: returns before hideStatus
    /\ Answered(q)
    /\ UNCHANGED <<pollVars, pageVars>>

\* An error status, an unexpected answer, or no answer.
Rejected(q) ==
    /\ Answered(q)
    /\ ShowError
    /\ UNCHANGED pollVars

----------------------------------------------------------------------------
(* Polling.                                                                *)

\* The interval of q fires.
Tick(f) ==
    /\ asks[f] = NoQuery
    /\ \E q \in live : asks' = [asks EXCEPT ![f] = q]
    /\ UNCHANGED <<taskVars, pollVars, saw, pageVars>>

\* get_task_status reads the state, unless the request is refused before: that
\* answer is JSON too, with an error status and without a task state.
Read(f) ==
    /\ asks[f] # NoQuery
    /\ saw[f] = "unread"
    /\ saw' = [saw EXCEPT ![f] = IF refused THEN "refused" ELSE task[asks[f]]]
    /\ UNCHANGED <<taskVars, pollVars, asks, pageVars>>

EndFetch_Kept(f) ==   \* fault: the answer is left for the next tick
    /\ asks[f] # NoQuery
    /\ asks' = [asks EXCEPT ![f] = NoQuery]
    /\ UNCHANGED <<saw, taskVars>>

\* The callback of f is over.
EndFetch(f) ==
    /\ asks[f] # NoQuery
    /\ asks' = [asks EXCEPT ![f] = NoQuery]
    /\ saw'  = [saw EXCEPT ![f] = "unread"]
    /\ UNCHANGED taskVars

HandleSuccess(f) ==
    /\ saw[f] = "success"
    /\ EndFetch(f)
    /\ StopPolling
    /\ ShowResult(asks[f])

HandleFailure_GoOn(f) ==   \* fault: the interval goes on
    /\ saw[f] = "failure"
    /\ EndFetch(f)
    /\ ShowError
    /\ UNCHANGED pollVars

HandleFailure(f) ==
    /\ saw[f] = "failure"
    /\ EndFetch(f)
    /\ StopPolling
    /\ ShowError

\* Any other state is waited for, "revoked" included.  The status of the answer
\* is not looked at: a refusal is waited out too, whatever the task has come to.
KeepWaiting(f) ==
    /\ saw[f] \in {"open", "revoked", "refused"}
    /\ EndFetch(f)
    /\ UNCHANGED <<pollVars, pageVars>>

\* No answer, or one that is not JSON.
FetchFails(f) ==
    /\ EndFetch(f)
    /\ StopPolling
    /\ ShowError

----------------------------------------------------------------------------
(* The gateway, which this page only looks at.                             *)

\* A task comes to a verdict.  None is final: a failure or a cancellation may be
\* overwritten after a crash of the worker, and any verdict expires or is undone
\* by a restart of Redis.
TaskChanges(q) ==
    /\ sent[q] # "new"
    /\ \E s \in Reports : task' = [task EXCEPT ![q] = s]
    /\ UNCHANGED <<sent, refused, pollVars, fetchVars, pageVars>>

\* The key of the page is revoked or restored, its bucket runs dry or refills.
AdmissionChanges ==
    /\ refused' = ~refused
    /\ UNCHANGED <<sent, task, pollVars, fetchVars, pageVars>>

----------------------------------------------------------------------------
Init ==
    /\ sent    = [q \in Queries |-> "new"]
    /\ task    = [q \in Queries |-> "open"]
    /\ refused = FALSE
    /\ live    = {}
    /\ current = NoQuery
    /\ asks    = [f \in Fetches |-> NoQuery]
    /\ saw     = [f \in Fetches |-> "unread"]
    /\ status  = FALSE
    /\ result  = NoQuery
    /\ text    = NoQuery
    /\ error   = FALSE

Answer(q) == Processing(q) \/ Completed(q) \/ Rejected(q)
Handle(f) == HandleSuccess(f) \/ HandleFailure(f) \/ KeepWaiting(f) \/ FetchFails(f)

Next ==
    \/ RunNothing \/ AdmissionChanges
    \/ \E q \in Queries : RunQuery(q) \/ Answer(q) \/ TaskChanges(q)
    \/ \E f \in Fetches : Tick(f) \/ Read(f) \/ Handle(f)

Spec == Init /\ [][Next]_vars

\* Intervals fire, the gateway answers or the browser gives up, and callbacks
\* run.  Nothing obliges the user to send, a task to come to a verdict or to keep
\* it, or the gateway to admit a request.
FairSpec ==
    /\ Spec
    /\ \A q \in Queries : WF_vars(Answer(q))
    /\ \A f \in Fetches : WF_vars(Tick(f)) /\ WF_vars(Read(f)) /\ WF_vars(Handle(f))

----------------------------------------------------------------------------
(* What the console promises.                                              *)

\* Types; and a fetch that was not sent has no answer.
TypeOK ==
    /\ sent    \in [Queries -> {"new", "waiting", "answered"}]
    /\ task    \in [Queries -> Reports]
    /\ refused \in BOOLEAN
    /\ live    \subseteq Queries
    /\ current \in Queries \union {NoQuery}
    /\ asks    \in [Fetches -> Queries \union {NoQuery}]
    /\ saw     \in [Fetches -> Reports \union {"unread", "refused"}]
    /\ status  \in BOOLEAN
    /\ result  \in Queries \union {NoQuery}
    /\ text    \in Queries \union {NoQuery}
    /\ error   \in BOOLEAN
    /\ \A f \in Fetches : asks[f] = NoQuery => saw[f] = "unread"

\* However answers to queries and to polls overtake each other, no interval
\* other than the current one is left running: nothing could ever stop it.
OnePoll == live \subseteq {current}

Outstanding == live # {} \/ \E q \in Queries : sent[q] = "waiting"
Shown       == result # NoQuery \/ text # NoQuery \/ error

\* A page that spins has something to wait for, and one that has stopped
\* spinning shows something, although any answer stops the spinner and the
\* interval, whichever query it belongs to.
SpinnerHonest ==
    /\ status => Outstanding
    /\ ~status => Shown \/ \A q \in Queries : sent[q] = "new"

\* The page will see that the task of q has succeeded or failed.
SeesEnd(q) == task[q] \in {"success", "failure"} /\ ~refused

\* Polling ends once its task has succeeded or failed, if the gateway goes on
\* reporting that.  A task whose success is refused to the page, with 401 for
\* ever after its key was revoked, is polled for ever.
PollEnds ==
    \A q \in Queries : q \in live /\ SeesEnd(q) ~> q \notin live \/ ~SeesEnd(q)

\* The spinner stops unless the page polls a task whose end it does not see: one
\* that is open, or was cancelled, or is refused to it.
SpinnerEnds == status ~> ~status \/ \E q \in live : ~SeesEnd(q)

----------------------------------------------------------------------------
(* What documents say and the code does not do.                            *)

\* "The client gets a task ID immediately and polls for completion": the poll of
\* a task ends when its own status was asked for, or when another query's task
\* takes its place.
PollsForCompletion ==
    [][\A q \in live \ live' :
          current' # q \/ \E f \in Fetches : asks[f] = q /\ asks'[f] = NoQuery]_vars
=============================================================================
