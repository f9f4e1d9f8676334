---------------------------- MODULE MCDetectors ----------------------------
(* The three versions on the sample that deadlock.c and deadlock-default.c   *)
(* have in common: a ring of threads.                                        *)
EXTENDS MCDeadlockDetector, TableDetector
=============================================================================
