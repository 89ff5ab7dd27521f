---------------------------- MODULE MCQuantTask ----------------------------
(***************************************************************************)
(* Small instances of QuantTaskHistory for TLC.  Two replicas of the       *)
(* worker are as many as a task and its copies can meet on.                *)
(***************************************************************************)
EXTENDS QuantTaskHistory, TLC

CONSTANTS t1, w1, w2, c1

MCTasks   == {t1}
MCWorkers == {w1, w2}
MCCancels == {c1}

\* The state without what no later step reads: a snapshot that no restart is left
\* to read.
MCView ==
    <<status, log, phase, job, mailbox, revoked, cancel, calls, faults,
      attempts, reruns, relapses, restored, lost, expired,
      IF faults = MaxFaults THEN <<>> ELSE <<saves, saved, known>> >>
=============================================================================
