------------------------ MODULE ReadWriteLockProofs ------------------------
(***************************************************************************)
(* Proofs about mycode/rwlock for any finite set of threads: the type and  *)
(* safety invariants, writer preference and the refinement of the abstract *)
(* lock.                                                                   *)
(***************************************************************************)
EXTENDS ReadWriteLock, FiniteSetTheorems, TLAPS

(* What the counters count.  Exclusion and NoLostWakeup are not inductive  *)
(* without it: the code only ever looks at the counters.                   *)
Counters ==
    /\ read_count = Cardinality(At("reading"))
    /\ write_wait_count = Cardinality(At("wtest"))
    /\ write_flag <=> At("writing") # {}

IInv == TypeOK /\ Counters /\ Exclusion /\ NoLostWakeup

(* The set of threads at a location is a finite set, so the counters that  *)
(* hold its size are natural numbers, zero exactly when nobody is there.   *)
LEMMA AtFinite ==
    ASSUME NEW l
    PROVE  /\ IsFiniteSet(At(l))
           /\ Cardinality(At(l)) \in Nat
           /\ Cardinality(At(l)) = 0 <=> At(l) = {}
<1>1. At(l) \subseteq Threads
  BY DEF At
<1>2. IsFiniteSet(At(l))
  BY <1>1, ThreadsAssumption, FS_Subset
<1> QED
  BY <1>2, FS_CardinalityType, FS_EmptySet

(* A thread that goes to location l joins the threads there.               *)
LEMMA AtJoin ==
    ASSUME NEW t \in Threads, NEW l, pc \in [Threads -> Locations],
           pc[t] # l, pc' = [pc EXCEPT ![t] = l]
    PROVE  /\ At(l)' = At(l) \cup {t}
           /\ Cardinality(At(l)') = Cardinality(At(l)) + 1
<1>1. At(l)' = At(l) \cup {t} /\ t \notin At(l)
  BY DEF At
<1> QED
  BY <1>1, AtFinite, FS_AddElement

(* A thread that leaves location l is no longer among the threads there.   *)
LEMMA AtLeave ==
    ASSUME NEW t \in Threads, NEW l, NEW m, pc \in [Threads -> Locations],
           pc[t] = l, l # m, pc' = [pc EXCEPT ![t] = m]
    PROVE  /\ At(l)' = At(l) \ {t}
           /\ Cardinality(At(l)') = Cardinality(At(l)) - 1
<1>1. At(l)' = At(l) \ {t} /\ t \in At(l)
  BY DEF At
<1> QED
  BY <1>1, AtFinite, FS_RemoveElement

(* A thread's move between two other locations does not change At(l).      *)
LEMMA AtSame ==
    ASSUME NEW t \in Threads, NEW l, NEW m, pc \in [Threads -> Locations],
           pc[t] # l, m # l, pc' = [pc EXCEPT ![t] = m]
    PROVE  At(l)' = At(l)
BY DEF At

(* The invariant holds initially: nobody is inside and all counts are 0.   *)
LEMMA InitIInv == Init => IInv
<1> SUFFICES ASSUME Init PROVE IInv
  OBVIOUS
<1>1. At("reading") = {} /\ At("wtest") = {} /\ At("writing") = {}
  BY DEF Init, At
<1>2. Counters
  BY <1>1, FS_EmptySet DEF Init, Counters
<1> QED
  BY <1>2 DEF Init, IInv, TypeOK, Locations, Exclusion, NoLostWakeup

(* Every step of Next preserves the invariant.                             *)
LEMMA NextIInv == IInv /\ [Next]_vars => IInv'
<1> SUFFICES ASSUME IInv, [Next]_vars PROVE IInv'
  OBVIOUS
<1> USE DEF IInv
<1>t. pc \in [Threads -> Locations] /\ read_count \in Nat /\ write_wait_count \in Nat
      /\ write_flag \in BOOLEAN /\ waiting \subseteq Threads
  BY DEF TypeOK
<1>1. ASSUME NEW t \in Threads, Call(t) PROVE IInv'
  <2>1. PICK l \in {"rtest", "wenter"} : pc' = [pc EXCEPT ![t] = l]
    BY <1>1 DEF Call
  <2>2. /\ At("reading")' = At("reading") /\ At("wtest")' = At("wtest")
        /\ At("writing")' = At("writing") /\ At("rnotify")' = At("rnotify")
    BY <1>1, <1>t, <2>1 DEF Call, At
  <2>3. Counters'
    BY <1>1, <2>2 DEF Call, Counters
  <2> QED
    BY <1>1, <1>t, <2>1, <2>2, <2>3
       DEF Call, TypeOK, Locations, Exclusion, NoLostWakeup, ReaderBlocked, WriterBlocked
<1>2. ASSUME NEW t \in Threads, ReadLock(t) PROVE IInv'
  <2>1. CASE ReaderBlocked
    <3>1. UNCHANGED <<read_count, write_flag, write_wait_count, pc>> /\ waiting' = waiting \cup {t}
      BY <1>2, <2>1 DEF ReadLock
    <3> QED
      BY <1>2, <1>t, <2>1, <3>1
         DEF ReadLock, TypeOK, Counters, At, Exclusion, NoLostWakeup, ReaderBlocked, WriterBlocked
  <2>2. CASE ~ReaderBlocked
    <3>1. /\ pc' = [pc EXCEPT ![t] = "reading"] /\ pc[t] = "rtest" /\ t \notin waiting
          /\ read_count' = read_count + 1
          /\ UNCHANGED <<write_flag, write_wait_count, waiting>>
      BY <1>2, <2>2 DEF ReadLock
    <3>2. /\ Cardinality(At("reading")') = Cardinality(At("reading")) + 1
          /\ At("wtest")' = At("wtest") /\ At("writing")' = At("writing")
          /\ At("rnotify")' = At("rnotify")
      BY <1>t, <3>1, AtJoin, AtSame
    <3>3. At("writing") = {}
      BY <2>2 DEF ReaderBlocked, Counters
    <3>4. Counters'
      BY <3>1, <3>2 DEF Counters
    <3>5. TypeOK' /\ Exclusion'
      BY <1>t, <3>1, <3>3 DEF TypeOK, Locations, Exclusion, At
    <3>6. NoLostWakeup'
      BY <1>t, <3>1, <3>2 DEF NoLostWakeup, ReaderBlocked, WriterBlocked
    <3> QED
      BY <3>4, <3>5, <3>6
  <2> QED
    BY <2>1, <2>2
<1>3. ASSUME NEW t \in Threads, ReadUnlock(t) PROVE IInv'
  <2>0. PICK m : m = IF read_count - 1 = 0 THEN "rnotify" ELSE "idle"
    OBVIOUS
  <2>1. /\ pc[t] = "reading" /\ pc' = [pc EXCEPT ![t] = m] /\ read_count' = read_count - 1
        /\ UNCHANGED <<write_flag, write_wait_count, waiting>>
    BY <1>3, <2>0 DEF ReadUnlock
  <2>2. Cardinality(At("reading")') = Cardinality(At("reading")) - 1
    <3>1. m # "reading"
      BY <2>0
    <3> QED
      BY <1>t, <2>1, <3>1, AtLeave
  <2>3. /\ At("wtest")' = At("wtest") /\ At("writing")' = At("writing")
        /\ At("rnotify") \subseteq At("rnotify")'
    BY <1>t, <2>0, <2>1 DEF At
  <2>4. Counters' /\ read_count' \in Nat
    <3>1. Counters'
      BY <2>1, <2>2, <2>3 DEF Counters
    <3>2. At("reading") # {}
      BY <2>1 DEF At
    <3> QED
      BY <3>1, <3>2, AtFinite, <2>1, <1>t DEF Counters
  <2>5. TypeOK' /\ Exclusion'
    BY <1>t, <2>0, <2>1, <2>4 DEF TypeOK, Locations, Exclusion
  <2>6. NoLostWakeup'
    <3>1. CASE read_count - 1 = 0
      <4>1. t \in At("rnotify")'
        BY <1>t, <2>0, <2>1, <3>1 DEF At
      <4> QED
        BY <2>1, <4>1 DEF NoLostWakeup
    <3>2. CASE read_count - 1 # 0
      <4>1. read_count > 0 /\ read_count' > 0
        BY <1>t, <2>1, <2>4, <3>2
      <4> QED
        BY <1>t, <2>0, <2>1, <2>3, <4>1 DEF NoLostWakeup, ReaderBlocked, WriterBlocked, TypeOK
    <3> QED
      BY <3>1, <3>2
  <2> QED
    BY <2>4, <2>5, <2>6
<1>4. ASSUME NEW t \in Threads, ReadNotify(t) PROVE IInv'
  <2>1. /\ pc[t] = "rnotify" /\ pc' = [pc EXCEPT ![t] = "idle"] /\ waiting' = {}
        /\ UNCHANGED <<read_count, write_flag, write_wait_count>>
    BY <1>4 DEF ReadNotify
  <2>2. /\ At("reading")' = At("reading") /\ At("wtest")' = At("wtest")
        /\ At("writing")' = At("writing")
    BY <1>t, <2>1, AtSame
  <2> QED
    BY <1>t, <2>1, <2>2 DEF TypeOK, Locations, Counters, Exclusion, NoLostWakeup
<1>5. ASSUME NEW t \in Threads, WriteEnter(t) PROVE IInv'
  <2>1. CASE WriterBlocked
    <3>1. /\ pc[t] = "wenter" /\ pc' = [pc EXCEPT ![t] = "wtest"]
          /\ write_wait_count' = write_wait_count + 1 /\ waiting' = waiting \cup {t}
          /\ UNCHANGED <<read_count, write_flag>>
      BY <1>5, <2>1 DEF WriteEnter
    <3>2. /\ Cardinality(At("wtest")') = Cardinality(At("wtest")) + 1
          /\ At("reading")' = At("reading") /\ At("writing")' = At("writing")
          /\ At("rnotify")' = At("rnotify")
      BY <1>t, <3>1, AtJoin, AtSame
    <3>3. Counters'
      BY <3>1, <3>2 DEF Counters
    <3>4. TypeOK' /\ Exclusion'
      BY <1>t, <3>1 DEF TypeOK, Locations, Exclusion
    <3>5. NoLostWakeup'
      BY <1>t, <2>1, <3>1, <3>2 DEF NoLostWakeup, ReaderBlocked, WriterBlocked
    <3> QED
      BY <3>3, <3>4, <3>5
  <2>2. CASE ~WriterBlocked
    <3>1. /\ pc[t] = "wenter" /\ pc' = [pc EXCEPT ![t] = "writing"] /\ write_flag' = TRUE
          /\ UNCHANGED <<read_count, write_wait_count, waiting>>
      BY <1>5, <2>2 DEF WriteEnter
    <3>2. /\ At("writing")' = At("writing") \cup {t}
          /\ At("reading")' = At("reading") /\ At("wtest")' = At("wtest")
      BY <1>t, <3>1, AtJoin, AtSame
    <3>3. At("writing") = {} /\ At("reading") = {}
      BY <2>2, <1>t, AtFinite DEF WriterBlocked, Counters
    <3>4. Counters'
      BY <3>1, <3>2 DEF Counters
    <3>5. TypeOK' /\ Exclusion'
      BY <1>t, <3>1, <3>3 DEF TypeOK, Locations, Exclusion, At
    <3>6. NoLostWakeup'
      BY <1>t, <3>1 DEF NoLostWakeup, ReaderBlocked, WriterBlocked, TypeOK
    <3> QED
      BY <3>4, <3>5, <3>6
  <2> QED
    BY <2>1, <2>2
<1>6. ASSUME NEW t \in Threads, WriteRetest(t) PROVE IInv'
  <2>1. CASE WriterBlocked
    <3>1. UNCHANGED <<read_count, write_flag, write_wait_count, pc>> /\ waiting' = waiting \cup {t}
      BY <1>6, <2>1 DEF WriteRetest
    <3> QED
      BY <1>6, <1>t, <2>1, <3>1
         DEF WriteRetest, TypeOK, Counters, At, Exclusion, NoLostWakeup, ReaderBlocked, WriterBlocked
  <2>2. CASE ~WriterBlocked
    <3>1. /\ pc[t] = "wtest" /\ pc' = [pc EXCEPT ![t] = "writing"] /\ write_flag' = TRUE
          /\ write_wait_count' = write_wait_count - 1 /\ t \notin waiting
          /\ UNCHANGED <<read_count, waiting>>
      BY <1>6, <2>2 DEF WriteRetest
    <3>2. /\ At("writing")' = At("writing") \cup {t}
          /\ Cardinality(At("wtest")') = Cardinality(At("wtest")) - 1
          /\ At("reading")' = At("reading")
      BY <1>t, <3>1, AtJoin, AtLeave, AtSame
    <3>3. At("writing") = {} /\ At("reading") = {}
      BY <2>2, <1>t, AtFinite DEF WriterBlocked, Counters
    <3>4. Counters'
      BY <3>1, <3>2 DEF Counters
    <3>5. write_wait_count' \in Nat
      <4>1. At("wtest") # {}
        BY <3>1 DEF At
      <4> QED
        BY <4>1, <3>1, AtFinite DEF Counters
    <3>6. TypeOK' /\ Exclusion'
      BY <1>t, <3>1, <3>3, <3>5 DEF TypeOK, Locations, Exclusion, At
    <3>7. NoLostWakeup'
      BY <1>t, <3>1 DEF NoLostWakeup, ReaderBlocked, WriterBlocked, TypeOK
    <3> QED
      BY <3>4, <3>6, <3>7
  <2> QED
    BY <2>1, <2>2
<1>7. ASSUME NEW t \in Threads, WriteUnlock(t) PROVE IInv'
  <2>1. /\ pc[t] = "writing" /\ pc' = [pc EXCEPT ![t] = "idle"] /\ write_flag' = FALSE
        /\ waiting' = {} /\ UNCHANGED <<read_count, write_wait_count>>
    BY <1>7 DEF WriteUnlock
  <2>2. At("reading")' = At("reading") /\ At("wtest")' = At("wtest")
    BY <1>t, <2>1, AtSame
  <2>3. At("writing")' = {}
    BY <1>t, <2>1 DEF Exclusion, At
  <2> QED
    BY <1>t, <2>1, <2>2, <2>3 DEF TypeOK, Locations, Counters, Exclusion, NoLostWakeup
<1>8. ASSUME NEW t \in Threads, SpuriousWakeup(t) PROVE IInv'
  BY <1>8 DEF SpuriousWakeup, TypeOK, Counters, At, Exclusion, NoLostWakeup, ReaderBlocked, WriterBlocked
<1>9. CASE UNCHANGED vars
  BY <1>9 DEF vars, TypeOK, Counters, At, Exclusion, NoLostWakeup, ReaderBlocked, WriterBlocked
<1> QED
  BY <1>1, <1>2, <1>3, <1>4, <1>5, <1>6, <1>7, <1>8, <1>9 DEF Next, Step

(* The invariant holds in every state the lock reaches.                    *)
LEMMA Invariance == Spec => []IInv
  BY InitIInv, NextIInv, PTL DEF Spec

(* The counters keep their types: neither count goes below zero, and only  *)
(* threads inside readLock or writeLock ever sleep on _cond.               *)
THEOREM TypeCorrect == Spec => []TypeOK
  BY Invariance, PTL DEF IInv

(* Any number of readers or one writer, never both, for any set of threads.*)
THEOREM MutualExclusion == Spec => []Exclusion
  BY Invariance, PTL DEF IInv

(* readUnlock's notify_all outside the mutex loses no wake-up.             *)
THEOREM WakeupsKept == Spec => []NoLostWakeup
  BY Invariance, PTL DEF IInv

(* No reader enters while a writer is queued: readLock's test of           *)
(* write_wait_count sees every thread in writeLock's loop.                 *)
THEOREM WritersFirst == Spec => WriterPreference
<1> DEFINE A == \A t \in Threads : (pc[t] # "reading" /\ pc'[t] = "reading") => At("wtest") = {}
<1>1. ASSUME IInv, [Next]_vars PROVE [A]_vars
  <2> SUFFICES ASSUME NEW t \in Threads, pc[t] # "reading", pc'[t] = "reading", Next
               PROVE  At("wtest") = {}
    BY <1>1
  <2>1. PICK u \in Threads : Call(u) \/ Step(u) \/ SpuriousWakeup(u)
    BY DEF Next
  <2>2. pc \in [Threads -> Locations] /\ write_wait_count \in Nat
    BY <1>1 DEF IInv, TypeOK
  <2>3. ReadLock(u) /\ ~ReaderBlocked
    BY <2>1, <2>2 DEF Call, Step, SpuriousWakeup, ReadLock, ReadUnlock, ReadNotify, WriteEnter, WriteRetest, WriteUnlock
  <2>4. Cardinality(At("wtest")) = 0
    BY <1>1, <2>2, <2>3 DEF ReaderBlocked, IInv, Counters
  <2> QED
    BY <2>4, AtFinite
<1> QED
  BY <1>1, Invariance, PTL DEF Spec, WriterPreference

(* The lock implements the abstract readers-writer lock: every step is an  *)
(* abstract entry or exit, or leaves readers and writers as they are.      *)
THEOREM Refinement == Spec => Implements
<1>1. Init => Abstract!AInit
  BY DEF Init, Abstract!AInit, At
<1>2. ASSUME IInv, [Next]_vars PROVE [Abstract!ANext]_(Abstract!avars)
  <2>t. /\ pc \in [Threads -> Locations] /\ write_flag \in BOOLEAN
        /\ write_wait_count \in Nat /\ read_count \in Nat
    BY <1>2 DEF IInv, TypeOK
  <2>r. ASSUME NEW t \in Threads, pc[t] # "reading", pc[t] # "writing",
               NEW l, l # "reading", l # "writing", pc' = [pc EXCEPT ![t] = l]
        PROVE  UNCHANGED Abstract!avars
    BY <2>t, <2>r, AtSame DEF Abstract!avars
  <2>1. ASSUME NEW t \in Threads, Call(t) \/ ReadNotify(t) PROVE UNCHANGED Abstract!avars
    BY <2>1, <2>r DEF Call, ReadNotify
  <2>2. ASSUME NEW t \in Threads, ReadLock(t) PROVE Abstract!EnterRead(t) \/ UNCHANGED Abstract!avars
    <3>1. CASE ReaderBlocked
      BY <2>2, <3>1 DEF ReadLock, Abstract!avars, At
    <3>2. CASE ~ReaderBlocked
      <4>1. pc[t] = "rtest" /\ pc' = [pc EXCEPT ![t] = "reading"]
        BY <2>2, <3>2 DEF ReadLock
      <4>2. At("reading")' = At("reading") \cup {t} /\ At("writing")' = At("writing")
        BY <2>t, <4>1, AtJoin, AtSame
      <4> QED
        BY <1>2, <3>2, <4>1, <4>2 DEF Abstract!EnterRead, IInv, Counters, ReaderBlocked, At
    <3> QED
      BY <3>1, <3>2
  <2>3. ASSUME NEW t \in Threads, ReadUnlock(t) PROVE Abstract!LeaveRead(t)
    <3>1. PICK m \in {"rnotify", "idle"} : pc[t] = "reading" /\ pc' = [pc EXCEPT ![t] = m]
      BY <2>3 DEF ReadUnlock
    <3>2. At("reading")' = At("reading") \ {t} /\ At("writing")' = At("writing")
      BY <2>t, <3>1, AtLeave, AtSame
    <3> QED
      BY <3>1, <3>2 DEF Abstract!LeaveRead, At
  <2>4. ASSUME NEW t \in Threads, WriteEnter(t) \/ WriteRetest(t)
        PROVE  Abstract!EnterWrite(t) \/ UNCHANGED Abstract!avars
    <3>1. CASE WriterBlocked
      BY <2>4, <2>r, <3>1 DEF WriteEnter, WriteRetest, Abstract!avars, At
    <3>2. CASE ~WriterBlocked
      <4>1. pc[t] \in {"wenter", "wtest"} /\ pc' = [pc EXCEPT ![t] = "writing"]
        BY <2>4, <3>2 DEF WriteEnter, WriteRetest
      <4>2. At("writing")' = At("writing") \cup {t} /\ At("reading")' = At("reading")
        BY <2>t, <4>1, AtJoin, AtSame
      <4>3. At("writing") = {} /\ At("reading") = {}
        BY <1>2, <2>t, <3>2, AtFinite DEF WriterBlocked, IInv, Counters
      <4> QED
        BY <4>2, <4>3 DEF Abstract!EnterWrite
    <3> QED
      BY <3>1, <3>2
  <2>5. ASSUME NEW t \in Threads, WriteUnlock(t) PROVE Abstract!LeaveWrite(t)
    <3>1. pc[t] = "writing" /\ pc' = [pc EXCEPT ![t] = "idle"]
      BY <2>5 DEF WriteUnlock
    <3>2. At("writing")' = At("writing") \ {t} /\ At("reading")' = At("reading")
      BY <2>t, <3>1, AtLeave, AtSame
    <3> QED
      BY <3>1, <3>2 DEF Abstract!LeaveWrite, At
  <2>6. ASSUME NEW t \in Threads, SpuriousWakeup(t) PROVE UNCHANGED Abstract!avars
    BY <2>6 DEF SpuriousWakeup, Abstract!avars, At
  <2>7. CASE UNCHANGED vars
    BY <2>7 DEF vars, Abstract!avars, At
  <2> QED
    BY <1>2, <2>1, <2>2, <2>3, <2>4, <2>5, <2>6, <2>7 DEF Next, Step, Abstract!ANext
<1> QED
  BY <1>1, <1>2, Invariance, PTL DEF Spec, Implements, Abstract!ASpec
=============================================================================
