------------------------ MODULE MCDeadlockDetector ------------------------
(* The sample of deadlock.c, t1_cb .. t5_cb: thread t locks mutex t, sleeps, *)
(* locks the next mutex of the ring, and unlocks both.                       *)
EXTENDS DeadlockDetector

CONSTANT N

MCThreads == 1..N
NextInRing(t) == IF t = N THEN 1 ELSE t + 1
MCProgram == [t \in 1..N |-> <<t, NextInRing(t), -NextInRing(t), -t>>]
=============================================================================
