----------------------------- MODULE MCMetrics -----------------------------
(***************************************************************************)
(* Small instances of Metrics for TLC.                                     *)
(***************************************************************************)
EXTENDS Metrics, TLC

CONSTANTS r1, r2, r3, Other

MCRequests == {r1, r2, r3}
MCIntents  == {Quant, Other}

Symmetry == Permutations(MCRequests)
=============================================================================
