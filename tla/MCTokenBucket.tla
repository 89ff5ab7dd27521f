--------------------------- MODULE MCTokenBucket ---------------------------
(***************************************************************************)
(* Small instances of TokenBucketHistory for TLC.  Users never share a     *)
(* bucket, so one user with several requests shows every interleaving.     *)
(***************************************************************************)
EXTENDS TokenBucketHistory, TLC

CONSTANTS u1, r1, r2

MCUsers    == {u1}
MCRequests == {r1, r2}

Symmetry == Permutations(MCRequests)
=============================================================================
