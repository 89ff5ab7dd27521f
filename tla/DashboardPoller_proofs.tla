----------------------- MODULE DashboardPoller_proofs -----------------------
(***************************************************************************)
(* Proofs about the console, for any queries and any number of fetches in  *)
(* flight.                                                                 *)
(***************************************************************************)
EXTENDS DashboardPoller, TLAPS

PageInv == TypeOK /\ OnePoll /\ SpinnerHonest

\* A fresh page promises nothing yet.
LEMMA InitPageInv == Init => PageInv
  BY DEF Init, PageInv, TypeOK, Reports, OnePoll, SpinnerHonest, Outstanding, Shown

\* Every callback keeps the types, and puts its answer away.
LEMMA StepTyped == TypeOK /\ [Next]_vars => TypeOK'
<1> SUFFICES ASSUME TypeOK, [Next]_vars PROVE TypeOK'
    OBVIOUS
<1> USE DEF TypeOK, Reports
<1>1. CASE RunNothing
    BY <1>1 DEF RunNothing, taskVars, pollVars, fetchVars
<1>2. ASSUME NEW q \in Queries, RunQuery(q) PROVE TypeOK'
    BY <1>2 DEF RunQuery, pollVars, fetchVars
<1>3. ASSUME NEW q \in Queries, Answer(q) PROVE TypeOK'
  <2> USE DEF Answered, fetchVars, pollVars, pageVars
  <2>1. CASE Processing(q)
      BY <2>1 DEF Processing
  <2>2. CASE Completed(q)
      BY <2>2 DEF Completed, ShowText
  <2>3. CASE Rejected(q)
      BY <2>3 DEF Rejected, ShowError
  <2> QED
      BY <1>3, <2>1, <2>2, <2>3 DEF Answer
<1>4. ASSUME NEW q \in Queries, TaskChanges(q) PROVE TypeOK'
    BY <1>4 DEF TaskChanges, pollVars, fetchVars, pageVars
<1>0. CASE AdmissionChanges
    BY <1>0 DEF AdmissionChanges, pollVars, fetchVars, pageVars
<1>5. ASSUME NEW f \in Fetches, Tick(f) PROVE TypeOK'
    BY <1>5 DEF Tick, taskVars, pollVars, pageVars
<1>6. ASSUME NEW f \in Fetches, Read(f) PROVE TypeOK'
    BY <1>6, NoQueryAssumption DEF Read, taskVars, pollVars, pageVars
<1>7. ASSUME NEW f \in Fetches, Handle(f) PROVE TypeOK'
  <2> USE DEF EndFetch, StopPolling, taskVars, pollVars, pageVars
  <2>1. CASE HandleSuccess(f)
      BY <2>1 DEF HandleSuccess, ShowResult
  <2>2. CASE HandleFailure(f)
      BY <2>2 DEF HandleFailure, ShowError
  <2>3. CASE KeepWaiting(f)
      BY <2>3 DEF KeepWaiting
  <2>4. CASE FetchFails(f)
      BY <2>4 DEF FetchFails, ShowError
  <2> QED
      BY <1>7, <2>1, <2>2, <2>3, <2>4 DEF Handle
<1>8. CASE UNCHANGED vars
    BY <1>8 DEF vars
<1> QED
    BY <1>0, <1>1, <1>2, <1>3, <1>4, <1>5, <1>6, <1>7, <1>8 DEF Next

\* No stretch of code leaves a second interval behind, or the page blank, or
\* spinning for nothing.
LEMMA StepPageInv == PageInv /\ [Next]_vars => PageInv'
<1> SUFFICES ASSUME PageInv, [Next]_vars PROVE PageInv'
    OBVIOUS
<1>1. TypeOK'
    BY StepTyped DEF PageInv
<1> USE DEF OnePoll, SpinnerHonest, Outstanding, Shown
<1>2. OnePoll' /\ SpinnerHonest'
  <2> USE DEF PageInv
  <2>1. CASE RunNothing
      BY <2>1 DEF RunNothing, taskVars, pollVars, fetchVars
  <2>2. ASSUME NEW q \in Queries, RunQuery(q) PROVE OnePoll' /\ SpinnerHonest'
    <3>1. sent'[q] = "waiting"
        BY <2>2 DEF RunQuery, TypeOK
    <3> QED
        BY <2>2, <3>1 DEF RunQuery, pollVars
  <2>3. ASSUME NEW q \in Queries, Answer(q) PROVE OnePoll' /\ SpinnerHonest'
    <3> USE DEF Answered, pollVars, pageVars
    <3>1. q # NoQuery /\ sent'[q] = "answered"
        BY <2>3, NoQueryAssumption
           DEF Answer, Processing, Completed, Rejected, TypeOK
    <3>2. CASE Processing(q)
      <4>1. OnePoll' /\ live' # {}
          BY <3>2 DEF Processing
      <4>2. ~status => Shown
          BY <3>2 DEF Processing
      <4> QED
          BY <3>2, <4>1, <4>2 DEF Processing
    <3>3. CASE Completed(q)
        BY <3>1, <3>3 DEF Completed, ShowText
    <3>4. CASE Rejected(q)
        BY <3>4 DEF Rejected, ShowError
    <3> QED
        BY <2>3, <3>2, <3>3, <3>4 DEF Answer
  <2>4. ASSUME NEW q \in Queries, TaskChanges(q) PROVE OnePoll' /\ SpinnerHonest'
      BY <2>4 DEF TaskChanges, pollVars, pageVars
  <2>0. CASE AdmissionChanges
      BY <2>0 DEF AdmissionChanges, pollVars, pageVars
  <2>5. ASSUME NEW f \in Fetches, Tick(f) \/ Read(f)
        PROVE  OnePoll' /\ SpinnerHonest'
      BY <2>5 DEF Tick, Read, taskVars, pollVars, pageVars
  <2>6. ASSUME NEW f \in Fetches, Handle(f) PROVE OnePoll' /\ SpinnerHonest'
    <3> USE DEF EndFetch, StopPolling, taskVars, pollVars, pageVars
    <3>1. CASE HandleSuccess(f)
        BY <3>1 DEF HandleSuccess, ShowResult
    <3>2. CASE HandleFailure(f)
        BY <3>2 DEF HandleFailure, ShowError
    <3>3. CASE KeepWaiting(f)
        BY <3>3 DEF KeepWaiting
    <3>4. CASE FetchFails(f)
        BY <3>4 DEF FetchFails, ShowError
    <3> QED
        BY <2>6, <3>1, <3>2, <3>3, <3>4 DEF Handle
  <2>7. CASE UNCHANGED vars
      BY <2>7 DEF vars
  <2> QED
      BY <2>0, <2>1, <2>2, <2>3, <2>4, <2>5, <2>6, <2>7 DEF Next
<1> QED
    BY <1>1, <1>2 DEF PageInv

\* The inductive invariant holds throughout.
LEMMA PageInvariance == Spec => []PageInv
  BY InitPageInv, StepPageInv, PTL DEF Spec

\* Every variable has its type, and only fetches in flight have an answer.
THEOREM TypeCorrect == Spec => []TypeOK
<1>1. PageInv => TypeOK
    BY DEF PageInv
<1> QED
    BY <1>1, PageInvariance, PTL

\* However answers overtake each other, no interval is left that nothing could
\* stop.
THEOREM SinglePoll == Spec => []OnePoll
<1>1. PageInv => OnePoll
    BY DEF PageInv
<1> QED
    BY <1>1, PageInvariance, PTL

\* The page never spins for nothing and never stops with nothing to show.
THEOREM SpinnerCorrect == Spec => []SpinnerHonest
<1>1. PageInv => SpinnerHonest
    BY DEF PageInv
<1> QED
    BY <1>1, PageInvariance, PTL
=============================================================================
