----------------------------- MODULE MCKeyCache -----------------------------
(***************************************************************************)
(* Small instances of KeyCacheHistory for TLC.  Keys share nothing but the *)
(* moments of a crash, so one key with several requests and admins shows   *)
(* every interleaving.                                                     *)
(***************************************************************************)
EXTENDS KeyCacheHistory, TLC

CONSTANTS k1, r1, r2, a1, a2

MCKeys     == {k1}
MCRequests == {r1, r2}
MCAdmins   == {a1, a2}
NoFaults   == {}
Restarts   == {"redis_crash"}
AllFaults  == {"redis_error", "postgres_error", "redis_crash"}

\* ttl_days: none, negative, and some seconds longer than the rehydration TTL.
MCLifetimes == {0, -1, 4}

Symmetry == Permutations(MCRequests) \union Permutations(MCAdmins)
=============================================================================
