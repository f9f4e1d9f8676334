-------------------------- MODULE FutexMutexProofs --------------------------
(***************************************************************************)
(* Proofs about the futex mutex of mutex.cpp for any set of threads and    *)
(* any spin limit: its ownership invariants and the refinement of the      *)
(* abstract mutex.                                                         *)
(***************************************************************************)
EXTENDS FutexMutex, TLAPS

(* The lock word is 1 exactly while some thread holds, and one at most     *)
(* does.  The owner invariants rest on it: only the holder stores owner.   *)
LockWord ==
    /\ lock = 0 <=> Holding = {}
    /\ \A t, u \in Holding : t = u

IInv == TypeOK /\ LockWord /\ HolderCanUnlock /\ OwnerHolds

(* The zeroed struct satisfies the invariant.                              *)
LEMMA InitIInv == Init => IInv
BY ThreadsAssumption, SpinAssumption
   DEF Init, IInv, TypeOK, Locations, LockWord, Holding, HolderCanUnlock, OwnerHolds

(* Every atomic operation and system call preserves the invariant.         *)
LEMMA NextIInv == IInv /\ [Next]_vars => IInv'
<1> SUFFICES ASSUME IInv, [Next]_vars PROVE IInv'
  OBVIOUS
<1> USE ThreadsAssumption, SpinAssumption
    DEF IInv, TypeOK, Locations, LockWord, Holding, HolderCanUnlock, OwnerHolds, Goto
<1>1. ASSUME NEW t \in Threads, Call(t) PROVE IInv'
  BY <1>1 DEF Call
<1>2. ASSUME NEW t \in Threads, Spin(t) PROVE IInv'
  <2>1. CASE lock = 0
    BY <1>2, <2>1 DEF Spin
  <2>2. CASE lock # 0
    BY <1>2, <2>2 DEF Spin
  <2> QED
    BY <2>1, <2>2
<1>3. ASSUME NEW t \in Threads, Block(t) PROVE IInv'
  <2>1. CASE lock = 0
    BY <1>3, <2>1 DEF Block
  <2>2. CASE lock # 0
    BY <1>3, <2>2 DEF Block
  <2> QED
    BY <2>1, <2>2
<1>4. ASSUME NEW t \in Threads, FutexWait(t) PROVE IInv'
  BY <1>4 DEF FutexWait
<1>5. ASSUME NEW t \in Threads, StoreOwner(t) PROVE IInv'
  BY <1>5 DEF StoreOwner
<1>6. ASSUME NEW t \in Threads, Unlock(t) PROVE IInv'
  BY <1>6 DEF Unlock
<1>7. ASSUME NEW t \in Threads, Release(t) PROVE IInv'
  <2>1. CASE pc[t] = "disown"
    BY <1>7, <2>1 DEF Release
  <2>2. CASE pc[t] = "free"
    BY <1>7, <2>2 DEF Release
  <2> QED
    BY <1>7, <2>1, <2>2 DEF Release
<1>8. ASSUME NEW t \in Threads, FutexWake(t) PROVE IInv'
  <2>1. PICK woken \in SUBSET sleeping :
           /\ sleeping' = sleeping \ woken
           /\ pc' = [u \in Threads |-> IF u = t THEN "idle"
                                       ELSE IF u \in woken THEN "block" ELSE pc[u]]
    BY <1>8 DEF FutexWake
  <2>2. Holding' = Holding
    BY <1>8, <2>1 DEF FutexWake
  <2>3. TypeOK'
    BY <1>8, <2>1 DEF FutexWake
  <2>4. HolderCanUnlock' /\ OwnerHolds'
    BY <1>8, <2>1 DEF FutexWake
  <2> QED
    BY <1>8, <2>2, <2>3, <2>4 DEF FutexWake
<1>9. CASE UNCHANGED vars
  BY <1>9 DEF vars
<1> QED
  BY <1>1, <1>2, <1>3, <1>4, <1>5, <1>6, <1>7, <1>8, <1>9 DEF Next, Step

(* The invariant holds in every reachable state.                           *)
LEMMA Invariance == Spec => []IInv
  BY InitIInv, NextIInv, PTL DEF Spec

(* The state keeps its type; no thread spins past MAX_SPIN_COUNT.          *)
THEOREM TypeCorrect == Spec => []TypeOK
  BY Invariance, PTL DEF IInv

(* A thread inside always passes unlock's owner check.                     *)
THEOREM HolderUnlocks == Spec => []HolderCanUnlock
  BY Invariance, PTL DEF IInv

(* A thread that is not inside never passes unlock's owner check.          *)
THEOREM OnlyHolderUnlocks == Spec => []OwnerHolds
  BY Invariance, PTL DEF IInv

(* The mutex implements the abstract one: exclusion, and release only by   *)
(* the holder, for any number of threads.                                  *)
THEOREM Refinement == Spec => Implements
<1>1. Init => Abstract!AInit
  BY DEF Init, Abstract!AInit, Holding
<1>2. ASSUME IInv, [Next]_vars PROVE [Abstract!ANext]_Holding
  <2> USE <1>2 DEF IInv, TypeOK, LockWord, OwnerHolds, Holding, Goto
  <2>1. ASSUME NEW t \in Threads, Spin(t) \/ Block(t)
        PROVE  Abstract!Acquire(t) \/ UNCHANGED Holding
    <3>1. CASE lock = 0
      BY <2>1, <3>1 DEF Spin, Block, Abstract!Acquire
    <3>2. CASE lock # 0
      BY <2>1, <3>2 DEF Spin, Block
    <3> QED
      BY <3>1, <3>2
  <2>2. ASSUME NEW t \in Threads, Release(t)
        PROVE  Abstract!Release(t) \/ UNCHANGED Holding
    <3>1. CASE pc[t] = "disown"
      BY <2>2, <3>1 DEF Release
    <3>2. CASE pc[t] = "free"
      BY <2>2, <3>2 DEF Release, Abstract!Release
    <3> QED
      BY <2>2, <3>1, <3>2 DEF Release
  <2>3. ASSUME NEW t \in Threads, FutexWake(t) PROVE UNCHANGED Holding
    <3>1. PICK woken \in SUBSET sleeping :
             pc' = [u \in Threads |-> IF u = t THEN "idle"
                                      ELSE IF u \in woken THEN "block" ELSE pc[u]]
      BY <2>3 DEF FutexWake
    <3> QED
      BY <2>3, <3>1 DEF FutexWake
  <2>4. ASSUME NEW t \in Threads, Call(t) \/ FutexWait(t) \/ StoreOwner(t) \/ Unlock(t)
        PROVE  UNCHANGED Holding
    BY <2>4 DEF Call, FutexWait, StoreOwner, Unlock
  <2>5. CASE UNCHANGED vars
    BY <2>5 DEF vars
  <2> QED
    BY <2>1, <2>2, <2>3, <2>4, <2>5 DEF Next, Step, Abstract!ANext
<1> QED
  BY <1>1, <1>2, Invariance, PTL DEF Spec, Implements, Abstract!ASpec
=============================================================================
