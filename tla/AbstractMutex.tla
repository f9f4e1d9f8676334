---------------------------- MODULE AbstractMutex ----------------------------
(***************************************************************************)
(* What a mutex promises: at most one holder, and only the holder releases *)
(* ("谁持有锁谁来释放", mycode/standard_library/mutex.cpp).                *)
(***************************************************************************)
CONSTANT Threads

VARIABLE holders

AInit == holders = {}

Acquire(t) == holders = {} /\ holders' = {t}

Release(t) == holders = {t} /\ holders' = {}

ANext == \E t \in Threads : Acquire(t) \/ Release(t)

ASpec == AInit /\ [][ANext]_holders
=============================================================================
