-------------------------- MODULE ObjectPoolProofs --------------------------
(***************************************************************************)
(* Proofs about mycode/pool for any pool size and any set of threads: the  *)
(* free list stays intact, no slot is lost or shared, and the pool         *)
(* implements its abstract specification.                                  *)
(***************************************************************************)
EXTENDS ObjectPool, SequenceTheorems, TLAPS

(* A thread has a slot exactly while it is between allocate and deallocate.*)
UsingHolds == \A t \in Threads : pc[t] = "using" <=> ctx[t] # Null

IInv == TypeOK /\ UsingHolds /\ ListIntact /\ Conserved /\ ObjectIntact

(* What Tail leaves of a list.                                             *)
LEMMA TailFacts ==
    ASSUME NEW S, NEW q \in Seq(S), q # <<>>
    PROVE  /\ Tail(q) \in Seq(S) /\ Len(q) \in Nat /\ Len(q) >= 1
           /\ Len(Tail(q)) = Len(q) - 1
           /\ \A i \in 1..Len(Tail(q)) : Tail(q)[i] = q[i + 1] /\ i + 1 \in 1..Len(q)
OBVIOUS

(* What putting an element in front does to a list.                        *)
LEMMA PushFacts ==
    ASSUME NEW S, NEW q \in Seq(S), NEW x \in S
    PROVE  /\ <<x>> \o q \in Seq(S) /\ <<x>> \o q # <<>>
           /\ Len(<<x>> \o q) = Len(q) + 1 /\ Len(q) \in Nat
           /\ (<<x>> \o q)[1] = x
           /\ \A i \in 1..Len(q) : (<<x>> \o q)[i + 1] = q[i]
           /\ \A i \in 2..Len(<<x>> \o q) : i - 1 \in 1..Len(q) /\ (<<x>> \o q)[i] = q[i - 1]
OBVIOUS

(* The constructor establishes the invariant.                              *)
LEMMA InitIInv == Init => IInv
<1> SUFFICES ASSUME Init PROVE IInv
  OBVIOUS
<1>1. free \in Seq(Slots) /\ Len(free) = pool_size /\ \A i \in Slots : free[i] = i
  <2>1. free = [i \in 1..pool_size |-> i] /\ \A i \in 1..pool_size : i \in Slots
    BY DEF Init, Slots
  <2> QED
    BY <2>1, SizeAssumption DEF Slots
<1>2. free # <<>>
  BY <1>1, SizeAssumption
<1>3. TypeOK
  <2>1. mem \in [Slots -> Slots \cup {Null} \cup Threads]
    BY SizeAssumption DEF Init, Slots, Null
  <2>2. free_list_head \in Slots
    BY SizeAssumption DEF Init, Slots
  <2> QED
    BY <1>1, <2>1, <2>2 DEF Init, TypeOK
<1>4. ListIntact
  BY <1>1, <1>2, SizeAssumption DEF Init, ListIntact, Slots
<1>5. Conserved
  <2>1. \A s \in Slots : s \in Range(free)
    BY <1>1, RangeEquality DEF Slots
  <2> QED
    BY <1>1, <2>1 DEF Init, Conserved, Slots
<1> QED
  BY <1>3, <1>4, <1>5 DEF Init, IInv, UsingHolds, ObjectIntact

(* Every call preserves the invariant.                                     *)
LEMMA NextIInv == IInv /\ [Next]_vars => IInv'
<1> SUFFICES ASSUME IInv, [Next]_vars PROVE IInv'
  OBVIOUS
<1>t. /\ free \in Seq(Slots) /\ ctx \in [Threads -> Slots \cup {Null}]
      /\ mem \in [Slots -> Slots \cup {Null} \cup Threads]
      /\ pc \in [Threads -> {"out", "using", "failed"}]
      /\ free_list_head \in Slots \cup {Null}
      /\ Null \notin Slots /\ Len(free) \in Nat
  BY DEF IInv, TypeOK, Null, Slots
<1>1. ASSUME NEW t \in Threads, Allocate(t) PROVE IInv'
  <2> DEFINE h == free_list_head
  <2>1. /\ pc[t] = "out" /\ ~destroyed /\ h # Null /\ ctx' = [ctx EXCEPT ![t] = h]
        /\ free_list_head' = mem[h] /\ mem' = [mem EXCEPT ![h] = t]
        /\ pc' = [pc EXCEPT ![t] = "using"] /\ free' = Tail(free) /\ UNCHANGED destroyed
    BY <1>1 DEF Allocate
  <2>2. h \in Slots /\ free # <<>> /\ h = free[1]
    BY <1>t, <2>1 DEF IInv, ListIntact
  <2>3. /\ free' \in Seq(Slots) /\ Len(free) \in Nat /\ Len(free) >= 1
        /\ Len(free') = Len(free) - 1
        /\ \A i \in 1..Len(free') : free'[i] = free[i + 1] /\ i + 1 \in 1..Len(free)
    BY <1>t, <2>1, <2>2, TailFacts
  <2>4. mem[h] = IF Len(free) = 1 THEN Null ELSE free[2]
    BY <2>2, <2>3 DEF IInv, ListIntact
  <2>5. \A i \in 1..Len(free') : free'[i] # h
    BY <2>2, <2>3 DEF IInv, Conserved
  <2>6. TypeOK'
    <3>1. mem[h] \in Slots \cup {Null}
      BY <1>t, <2>2, <2>3, <2>4
    <3> QED
      BY <1>t, <2>1, <2>2, <2>3, <3>1 DEF IInv, TypeOK
  <2>7. UsingHolds'
    BY <1>t, <2>1 DEF IInv, UsingHolds
  <2>8. ListIntact'
    <3>1. free_list_head' = IF free' = <<>> THEN Null ELSE free'[1]
      <4>1. CASE Len(free) = 1
        BY <2>1, <2>3, <2>4, <4>1
      <4>2. CASE Len(free) # 1
        <5>1. free' # <<>> /\ 1 \in 1..Len(free')
          BY <2>3, <4>2
        <5> QED
          BY <2>1, <2>3, <2>4, <4>2, <5>1
      <4> QED
        BY <4>1, <4>2
    <3>2. ASSUME NEW i \in 1..Len(free')
          PROVE  mem'[free'[i]] = IF i = Len(free') THEN Null ELSE free'[i + 1]
      <4>1. free'[i] = free[i + 1] /\ i + 1 \in 1..Len(free) /\ free[i + 1] # h /\ free[i + 1] \in Slots
        BY <1>t, <2>3, <2>5
      <4>2. mem'[free'[i]] = mem[free[i + 1]]
        BY <1>t, <2>1, <2>2, <4>1
      <4>3. mem[free[i + 1]] = IF i + 1 = Len(free) THEN Null ELSE free[i + 2]
        BY <4>1 DEF IInv, ListIntact
      <4>4. i # Len(free') => i + 1 \in 1..Len(free')
        BY <2>3
      <4> QED
        BY <2>3, <4>2, <4>3, <4>4
    <3> QED
      BY <3>1, <3>2 DEF ListIntact
  <2>9. Conserved'
    <3>1. \A i, j \in 1..Len(free') : free'[i] = free'[j] => i = j
      BY <2>3 DEF IInv, Conserved
    <3>2. \A u \in Threads : ctx'[u] # Null => \A i \in 1..Len(free') : free'[i] # ctx'[u]
      BY <1>t, <2>1, <2>3, <2>5 DEF IInv, Conserved
    <3>3. \A u \in Threads : ctx[u] # h
      BY <2>1, <2>2, <2>3 DEF IInv, Conserved
    <3>4. \A u, v \in Threads : (ctx'[u] = ctx'[v] /\ ctx'[u] # Null) => u = v
      BY <1>t, <2>1, <3>3 DEF IInv, Conserved
    <3>5. \A s \in Slots : s \in Range(free') \/ s \in Range(ctx')
      <4> SUFFICES ASSUME NEW s \in Slots PROVE s \in Range(free') \/ s \in Range(ctx')
        OBVIOUS
      <4>0. ctx' \in [Threads -> Slots \cup {Null}] /\ ctx'[t] = h
        BY <1>t, <2>1, <2>2
      <4>1. CASE s = h
        BY <4>0, <4>1 DEF Range
      <4>2. CASE s # h /\ s \in Range(free)
        <5>1. PICK i \in 1..Len(free) : free[i] = s
          BY <1>t, <4>2, RangeEquality
        <5>2. i - 1 \in 1..Len(free') /\ free'[i - 1] = s
          BY <2>2, <2>3, <4>2, <5>1
        <5> QED
          BY <2>3, <5>2, RangeEquality
      <4>3. CASE s \in Range(ctx)
        <5>1. PICK u \in Threads : ctx[u] = s
          BY <1>t, <4>3 DEF Range
        <5>2. ctx'[u] = s
          BY <1>t, <2>1, <5>1 DEF IInv, UsingHolds
        <5> QED
          BY <4>0, <5>2 DEF Range
      <4> QED
        BY <4>1, <4>2, <4>3 DEF IInv, Conserved
    <3> QED
      BY <3>1, <3>2, <3>4, <3>5 DEF Conserved
  <2>10. ObjectIntact'
    <3>1. \A u \in Threads : u # t /\ pc[u] = "using" => ctx[u] # h /\ ctx[u] \in Slots
      BY <1>t, <2>2, <2>3 DEF IInv, Conserved, UsingHolds
    <3> QED
      BY <1>t, <2>1, <2>2, <3>1 DEF IInv, ObjectIntact
  <2> QED
    BY <2>6, <2>7, <2>8, <2>9, <2>10 DEF IInv
<1>2. ASSUME NEW t \in Threads, AllocateFails(t) \/ ReportFailure(t) PROVE IInv'
  BY <1>2, <1>t DEF AllocateFails, ReportFailure, IInv, TypeOK, UsingHolds, ListIntact, Conserved, ObjectIntact
<1>3. ASSUME NEW t \in Threads, Deallocate(t) PROVE IInv'
  <2> DEFINE c == ctx[t]
  <2>1. /\ pc[t] = "using" /\ ctx' = [ctx EXCEPT ![t] = Null]
        /\ free_list_head' = c /\ mem' = [mem EXCEPT ![c] = free_list_head]
        /\ pc' = [pc EXCEPT ![t] = "out"] /\ free' = <<c>> \o free /\ UNCHANGED destroyed
    BY <1>3 DEF Deallocate
  <2>2. c \in Slots
    BY <1>t, <2>1 DEF IInv, UsingHolds
  <2>3. /\ free' \in Seq(Slots) /\ free' # <<>>
        /\ Len(free') = Len(free) + 1 /\ Len(free) \in Nat
        /\ free'[1] = c
        /\ \A i \in 1..Len(free) : free'[i + 1] = free[i]
        /\ \A i \in 2..Len(free') : i - 1 \in 1..Len(free) /\ free'[i] = free[i - 1]
    BY <1>t, <2>1, <2>2, PushFacts
  <2>4. \A i \in 1..Len(free) : free[i] # c
    BY <1>t, <2>2 DEF IInv, Conserved
  <2>5. TypeOK'
    BY <1>t, <2>1, <2>2, <2>3 DEF IInv, TypeOK
  <2>6. UsingHolds'
    BY <1>t, <2>1 DEF IInv, UsingHolds
  <2>7. ListIntact'
    <3>1. ASSUME NEW i \in 1..Len(free')
          PROVE  mem'[free'[i]] = IF i = Len(free') THEN Null ELSE free'[i + 1]
      <4>1. CASE i = 1
        <5>1. mem'[free'[i]] = free_list_head
          BY <1>t, <2>1, <2>2, <2>3, <4>1
        <5>2. CASE free = <<>>
          BY <2>3, <4>1, <5>1, <5>2 DEF IInv, ListIntact
        <5>3. CASE free # <<>>
          <6>1. 1 \in 1..Len(free)
            BY <1>t, <5>3
          <6> QED
            BY <2>3, <4>1, <5>1, <5>3, <6>1 DEF IInv, ListIntact
        <5> QED
          BY <5>2, <5>3
      <4>2. CASE i # 1
        <5>1. i - 1 \in 1..Len(free) /\ free'[i] = free[i - 1] /\ free[i - 1] \in Slots
          BY <1>t, <2>3, <4>2
        <5>2. mem'[free'[i]] = mem[free[i - 1]]
          BY <1>t, <2>1, <2>4, <5>1
        <5>3. mem[free[i - 1]] = IF i - 1 = Len(free) THEN Null ELSE free[i]
          BY <5>1 DEF IInv, ListIntact
        <5>4. i # Len(free') => i \in 1..Len(free)
          BY <2>3
        <5> QED
          BY <2>3, <5>2, <5>3, <5>4
      <4> QED
        BY <4>1, <4>2
    <3> QED
      BY <2>1, <2>3, <3>1 DEF ListIntact
  <2>8. Conserved'
    <3>1. \A i, j \in 1..Len(free') : free'[i] = free'[j] => i = j
      <4> SUFFICES ASSUME NEW i \in 1..Len(free'), NEW j \in 1..Len(free'), free'[i] = free'[j]
                   PROVE  i = j
        OBVIOUS
      <4>1. CASE i = 1 \/ j = 1
        BY <2>3, <2>4, <4>1
      <4>2. CASE i # 1 /\ j # 1
        <5>1. /\ i - 1 \in 1..Len(free) /\ free'[i] = free[i - 1]
              /\ j - 1 \in 1..Len(free) /\ free'[j] = free[j - 1]
          BY <2>3, <4>2
        <5>2. i - 1 = j - 1
          BY <5>1 DEF IInv, Conserved
        <5> QED
          BY <2>3, <5>2
      <4> QED
        BY <4>1, <4>2
    <3>2. \A u \in Threads : u # t /\ ctx[u] # Null => ctx[u] # c
      BY <2>2, <1>t DEF IInv, Conserved
    <3>3. \A u \in Threads : ctx'[u] # Null => \A i \in 1..Len(free') : free'[i] # ctx'[u]
      <4> SUFFICES ASSUME NEW u \in Threads, ctx'[u] # Null, NEW i \in 1..Len(free')
                   PROVE  free'[i] # ctx'[u]
        OBVIOUS
      <4>1. u # t /\ ctx'[u] = ctx[u]
        BY <1>t, <2>1
      <4>2. CASE i = 1
        BY <2>3, <3>2, <4>1, <4>2
      <4>3. CASE i # 1
        <5>1. i - 1 \in 1..Len(free) /\ free'[i] = free[i - 1]
          BY <2>3, <4>3
        <5> QED
          BY <4>1, <5>1 DEF IInv, Conserved
      <4> QED
        BY <4>2, <4>3
    <3>4. \A u, v \in Threads : (ctx'[u] = ctx'[v] /\ ctx'[u] # Null) => u = v
      BY <1>t, <2>1 DEF IInv, Conserved
    <3>5. \A s \in Slots : s \in Range(free') \/ s \in Range(ctx')
      <4> SUFFICES ASSUME NEW s \in Slots PROVE s \in Range(free') \/ s \in Range(ctx')
        OBVIOUS
      <4>0. ctx' \in [Threads -> Slots \cup {Null}]
        BY <1>t, <2>1
      <4>1. CASE s = c
        <5>1. 1 \in 1..Len(free') /\ free'[1] = s
          BY <2>3, <4>1
        <5> QED
          BY <2>3, <5>1, RangeEquality
      <4>2. CASE s \in Range(free)
        <5>1. PICK i \in 1..Len(free) : free[i] = s
          BY <1>t, <4>2, RangeEquality
        <5>2. i + 1 \in 1..Len(free') /\ free'[i + 1] = s
          BY <2>3, <5>1
        <5> QED
          BY <2>3, <5>2, RangeEquality
      <4>3. CASE s # c /\ s \in Range(ctx)
        <5>1. PICK u \in Threads : ctx[u] = s
          BY <1>t, <4>3 DEF Range
        <5>2. ctx'[u] = s
          BY <1>t, <2>1, <4>3, <5>1
        <5> QED
          BY <4>0, <5>2 DEF Range
      <4> QED
        BY <4>1, <4>2, <4>3 DEF IInv, Conserved
    <3> QED
      BY <3>1, <3>3, <3>4, <3>5 DEF Conserved
  <2>9. ObjectIntact'
    <3>1. \A u \in Threads : u # t /\ pc[u] = "using" => ctx[u] # c /\ ctx[u] \in Slots
      BY <1>t, <2>2 DEF IInv, Conserved, UsingHolds
    <3> QED
      BY <1>t, <2>1, <2>2, <3>1 DEF IInv, ObjectIntact
  <2> QED
    BY <2>5, <2>6, <2>7, <2>8, <2>9 DEF IInv
<1>4. CASE Destroy
  BY <1>4 DEF Destroy, IInv, TypeOK, UsingHolds, ListIntact, Conserved, ObjectIntact
<1>5. CASE UNCHANGED vars
  BY <1>5 DEF vars, IInv, TypeOK, UsingHolds, ListIntact, Conserved, ObjectIntact
<1> QED
  BY <1>1, <1>2, <1>3, <1>4, <1>5 DEF Next

(* The invariant holds in every reachable state.                           *)
LEMMA Invariance == Spec => []IInv
  BY InitIInv, NextIInv, PTL DEF Spec

(* The pool's state keeps its type: the head is a slot or nullptr, never   *)
(* the bytes of a live object read as a link.                              *)
THEOREM TypeCorrect == Spec => []TypeOK
  BY Invariance, PTL DEF IInv

(* The links stored in the free slots always spell out the free list.      *)
THEOREM FreeListIntact == Spec => []ListIntact
  BY Invariance, PTL DEF IInv

(* No slot is ever leaked, shared, or free and in use at once.             *)
THEOREM SlotsConserved == Spec => []Conserved
  BY Invariance, PTL DEF IInv

(* No object in use is overwritten or destroyed under its thread.          *)
THEOREM ObjectsIntact == Spec => []ObjectIntact
  BY Invariance, PTL DEF IInv

(* The free list implements the abstract pool, refusals included.          *)
THEOREM Refinement == Spec => Implements
<1>1. Init => Abstract!AInit
  BY DEF Init, Abstract!AInit
<1>2. ASSUME IInv, [Next]_vars PROVE [Abstract!ANext]_(Abstract!avars)
  <2> USE <1>2
  <2>t. /\ ctx \in [Threads -> Slots \cup {Null}] /\ free \in Seq(Slots)
        /\ pc \in [Threads -> {"out", "using", "failed"}]
        /\ free_list_head \in Slots \cup {Null} /\ Len(free) \in Nat
    BY DEF IInv, TypeOK
  <2>1. ASSUME NEW t \in Threads, Allocate(t) PROVE Abstract!Take(t)
    <3>1. /\ ctx[t] = Null /\ pc[t] = "out" /\ free_list_head \in Slots
          /\ ctx' = [ctx EXCEPT ![t] = free_list_head] /\ pc' = [pc EXCEPT ![t] = "using"]
      BY <2>t, <2>1 DEF Allocate, IInv, UsingHolds
    <3>2. 1 \in 1..Len(free) /\ free_list_head = free[1]
      BY <2>t, <2>1 DEF Allocate, IInv, ListIntact
    <3>3. free_list_head \notin Abstract!Taken
      BY <3>1, <3>2 DEF IInv, Conserved, Abstract!Taken
    <3> QED
      BY <2>t, <3>1, <3>3 DEF Abstract!Take
  <2>2. ASSUME NEW t \in Threads, AllocateFails(t) PROVE Abstract!Refuse(t)
    <3>1. pc[t] = "out" /\ pc' = [pc EXCEPT ![t] = "failed"] /\ ctx' = ctx /\ ctx[t] = Null
      BY <2>t, <2>2 DEF AllocateFails, IInv, UsingHolds
    <3>2. free = <<>>
      <4>1. free # <<>> => free[1] \in Slots
        BY <2>t
      <4> QED
        BY <2>2, <4>1 DEF AllocateFails, IInv, ListIntact, Null, Slots
    <3>3. \A s \in Slots : s \in Range(ctx)
      <4>1. Range(free) = {}
        BY <3>2 DEF Range
      <4> QED
        BY <4>1 DEF IInv, Conserved
    <3>4. Abstract!Taken = Slots
      BY <2>t, <3>3 DEF Abstract!Taken, Range, Slots, Null
    <3> QED
      BY <2>t, <3>1, <3>4 DEF Abstract!Refuse
  <2>3. ASSUME NEW t \in Threads, ReportFailure(t) PROVE Abstract!GiveUp(t)
    BY <2>t, <2>3 DEF ReportFailure, Abstract!GiveUp
  <2>4. ASSUME NEW t \in Threads, Deallocate(t) PROVE Abstract!Give(t)
    BY <2>t, <2>4 DEF Deallocate, IInv, UsingHolds, Abstract!Give
  <2>5. CASE Destroy \/ UNCHANGED vars
    BY <2>5 DEF Destroy, vars, Abstract!avars
  <2> QED
    BY <2>1, <2>2, <2>3, <2>4, <2>5 DEF Next, Abstract!ANext
<1> QED
  BY <1>1, <1>2, Invariance, PTL DEF Spec, Implements, Abstract!ASpec
=============================================================================
