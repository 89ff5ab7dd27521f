-------------------------- MODULE MCDashboardPoller --------------------------
(***************************************************************************)
(* A small instance of DashboardPoller for TLC: two queries overlap in     *)
(* every order, and the fetches for their tasks overtake each other.       *)
(***************************************************************************)
EXTENDS DashboardPoller

CONSTANTS q1, q2, f1, f2

MCQueries == {q1, q2}
MCFetches == {f1, f2}
=============================================================================
