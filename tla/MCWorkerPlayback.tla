------------------------- MODULE MCWorkerPlayback --------------------------
(* WorkerPlayback for TLC. *)
EXTENDS WorkerPlayback, TLC

CONSTANTS s1, t1, t2, o1, o2

=============================================================================
