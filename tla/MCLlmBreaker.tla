---------------------------- MODULE MCLlmBreaker ----------------------------
(***************************************************************************)
(* Small instances of LlmBreakerHistory for TLC.                           *)
(***************************************************************************)
EXTENDS LlmBreakerHistory, TLC

CONSTANTS r1, r2, r3

MCRequests == {r1, r2, r3}

\* The actions treat all requests alike.
Symmetry == Permutations(MCRequests)
=============================================================================
