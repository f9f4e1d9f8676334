------------------------- MODULE CircularQueueProofs -------------------------
(***************************************************************************)
(* Proofs about mycode/reactor/CircularQueue for any values, any initial   *)
(* capacities and any size bound: it never shows an unassigned cell and it *)
(* implements a first-in first-out queue.                                  *)
(***************************************************************************)
EXTENDS CircularQueue, SequenceTheorems, TLAPS

(* rear is redundant: it is always size cells after front.  The choice     *)
(* between the copy loops of expand (rear <= front) depends on it.         *)
RearAfterSize == capacity > 0 => rear = (front + size) % capacity

(* The occupied cells hold pushed values. *)
Assigned == \A i \in 1..size : arr[(front + i - 1) % capacity] \in Values

IInv == TypeOK /\ RearAfterSize /\ Assigned

(* One step around the ring is one subtraction.                            *)
LEMMA Wrap ==
    ASSUME NEW c \in Nat \ {0}, NEW x \in Nat, x < 2 * c
    PROVE  x % c = IF x < c THEN x ELSE x - c
OBVIOUS

(* The contents form a sequence of pushed values, as long as size says.    *)
LEMMA ContentsSeq ==
    ASSUME IInv
    PROVE  /\ Contents \in Seq(Values) /\ Len(Contents) = size
           /\ \A i \in 1..size : Contents[i] = arr[(front + i - 1) % capacity]
<1>1. \A i \in 1..size : arr[(front + i - 1) % capacity] \in Values
  BY DEF IInv, Assigned
<1>2. size \in Nat
  BY DEF IInv, TypeOK
<1> QED
  BY <1>1, <1>2 DEF Contents

(* A new queue is empty, whatever its capacity.                            *)
LEMMA InitIInv == Init => IInv
BY CapacitiesAssumption
   DEF Init, NewArray, IInv, TypeOK, RearAfterSize, Assigned

(* On a full ring, expand puts the element of position i in cell i.        *)
LEMMA ExpandUnrolls ==
    ASSUME IInv, isFull
    PROVE  /\ NewCapacity \in Nat /\ NewCapacity > size /\ NewCapacity > capacity
           /\ Expanded \in [0..(NewCapacity - 1) -> Values \cup {Undef}]
           /\ \A i \in 1..size : Expanded[i - 1] = arr[(front + i - 1) % capacity]
<1>t. /\ capacity \in Nat /\ front \in Nat /\ rear \in Nat /\ size = capacity
      /\ arr \in [0..(capacity - 1) -> Values \cup {Undef}]
      /\ (front < capacity \/ front = 0) /\ (rear < capacity \/ rear = 0)
  BY DEF IInv, TypeOK, isFull
<1>1. NewCapacity \in Nat /\ NewCapacity > size /\ NewCapacity > capacity
  BY <1>t DEF NewCapacity
<1>2. rear = front
  <2>1. CASE capacity = 0
    BY <1>t, <2>1
  <2>2. CASE capacity # 0
    BY <1>t, <2>2 DEF IInv, RearAfterSize
  <2> QED
    BY <2>1, <2>2
<1>3. ASSUME NEW i \in 0..(NewCapacity - 1)
      PROVE  Expanded[i] = CASE i < capacity - front -> arr[front + i]
                             [] i >= capacity - front /\ i - (capacity - front) < rear
                                  -> arr[i - (capacity - front)]
                             [] OTHER -> Undef
  BY <1>t, <1>1, <1>2 DEF Expanded
<1>4. ASSUME NEW i \in 0..(NewCapacity - 1) PROVE Expanded[i] \in Values \cup {Undef}
  <2>1. CASE i < capacity - front
    <3>1. front + i \in 0..(capacity - 1)
      BY <1>t, <2>1
    <3> QED
      BY <1>t, <1>3, <2>1, <3>1
  <2>2. CASE i >= capacity - front /\ i - (capacity - front) < rear
    <3>1. i - (capacity - front) \in 0..(capacity - 1)
      BY <1>t, <2>2
    <3>2. Expanded[i] = arr[i - (capacity - front)]
      BY <1>t, <1>3, <2>2
    <3> QED
      BY <1>t, <3>1, <3>2
  <2>3. CASE ~(i < capacity - front) /\ ~(i >= capacity - front /\ i - (capacity - front) < rear)
    BY <1>3, <2>3
  <2> QED
    BY <2>1, <2>2, <2>3
<1>5. Expanded \in [0..(NewCapacity - 1) -> Values \cup {Undef}]
  BY <1>4 DEF Expanded
<1>6. ASSUME NEW i \in 1..size PROVE Expanded[i - 1] = arr[(front + i - 1) % capacity]
  <2>1. i - 1 \in 0..(NewCapacity - 1) /\ capacity \in Nat \ {0} /\ front < capacity
    BY <1>t, <1>1
  <2>2. (front + i - 1) % capacity = IF front + i - 1 < capacity THEN front + i - 1
                                                                 ELSE front + i - 1 - capacity
    BY <1>t, <2>1
  <2>3. CASE front + i - 1 < capacity
    <3>1. i - 1 < capacity - front /\ front + (i - 1) = front + i - 1
      BY <1>t, <2>1, <2>3
    <3>2. PICK k \in 0..(NewCapacity - 1) : k = i - 1
      BY <2>1
    <3>3. Expanded[k] = arr[front + k]
      BY <1>t, <1>3, <3>1, <3>2
    <3> QED
      BY <2>2, <2>3, <3>1, <3>2, <3>3
  <2>4. CASE ~(front + i - 1 < capacity)
    <3>1. /\ ~(i - 1 < capacity - front) /\ (i - 1) - (capacity - front) < rear
          /\ (i - 1) - (capacity - front) = front + i - 1 - capacity
      BY <1>t, <1>2, <2>1, <2>4
    <3>2. Expanded[i - 1] = arr[(i - 1) - (capacity - front)]
      BY <1>t, <1>3, <2>1, <3>1
    <3> QED
      BY <2>2, <2>4, <3>1, <3>2
  <2> QED
    BY <2>3, <2>4
<1> QED
  BY <1>1, <1>5, <1>6

(* push, whether it grows the ring or not: the new state in one form.      *)
LEMMA PushStep ==
    ASSUME IInv, NEW v \in Values, Push(v)
    PROVE  /\ TypeOK' /\ RearAfterSize'
           /\ size' = size + 1
           /\ \A i \in 1..size : arr'[(front' + i - 1) % capacity'] = arr[(front + i - 1) % capacity]
           /\ arr'[(front' + size) % capacity'] = v
<1>t. /\ capacity \in Nat /\ front \in Nat /\ rear \in Nat /\ size \in 0..capacity
      /\ arr \in [0..(capacity - 1) -> Values \cup {Undef}]
      /\ (front < capacity \/ front = 0) /\ (rear < capacity \/ rear = 0)
  BY DEF IInv, TypeOK
<1>1. CASE isFull
  <2>1. /\ arr' = [Expanded EXCEPT ![size] = v] /\ capacity' = NewCapacity
        /\ front' = 0 /\ rear' = (size + 1) % NewCapacity /\ size' = size + 1
    BY <1>1 DEF Push
  <2>2. /\ NewCapacity \in Nat \ {0} /\ NewCapacity > size
        /\ Expanded \in [0..(NewCapacity - 1) -> Values \cup {Undef}]
        /\ \A i \in 1..size : Expanded[i - 1] = arr[(front + i - 1) % capacity]
    BY <1>1, <1>t, ExpandUnrolls
  <2>3. \A x \in 0..(NewCapacity - 1) : x % NewCapacity = x
    BY <2>2
  <2>4. rear' \in Nat /\ rear' < capacity'
    BY <1>t, <2>1, <2>2
  <2>5. TypeOK'
    BY <1>t, <2>1, <2>2, <2>4 DEF TypeOK
  <2>6. RearAfterSize'
    BY <1>t, <2>1, <2>2 DEF RearAfterSize
  <2>7. ASSUME NEW i \in 1..size
        PROVE  arr'[(front' + i - 1) % capacity'] = arr[(front + i - 1) % capacity]
    <3>1. i - 1 \in 0..(NewCapacity - 1) /\ i - 1 # size /\ front' + i - 1 = i - 1
      BY <1>t, <2>1, <2>2
    <3> QED
      BY <2>1, <2>2, <2>3, <3>1
  <2>8. arr'[(front' + size) % capacity'] = v
    <3>1. size \in 0..(NewCapacity - 1) /\ front' + size = size
      BY <1>t, <2>1, <2>2
    <3>2. (front' + size) % capacity' = size
      BY <2>1, <2>3, <3>1
    <3> QED
      BY <2>1, <2>2, <3>1, <3>2
  <2> QED
    BY <2>1, <2>5, <2>6, <2>7, <2>8
<1>2. CASE ~isFull
  <2>1. /\ arr' = [arr EXCEPT ![rear] = v] /\ capacity' = capacity /\ front' = front
        /\ rear' = (rear + 1) % capacity /\ size' = size + 1
    BY <1>2 DEF Push
  <2>2. /\ capacity \in Nat \ {0} /\ size < capacity /\ front < capacity
        /\ rear \in 0..(capacity - 1) /\ rear = (front + size) % capacity
    BY <1>2, <1>t DEF isFull, IInv, RearAfterSize
  <2>3. rear = IF front + size < capacity THEN front + size ELSE front + size - capacity
    BY <1>t, <2>2
  <2>4. rear' = IF rear + 1 < capacity THEN rear + 1 ELSE rear + 1 - capacity
    BY <2>1, <2>2
  <2>5. TypeOK'
    BY <1>t, <2>1, <2>2, <2>4 DEF TypeOK
  <2>6. RearAfterSize'
    <3>1. (front + (size + 1)) % capacity = IF front + (size + 1) < capacity THEN front + (size + 1)
                                            ELSE front + (size + 1) - capacity
      BY <1>t, <2>2
    <3> QED
      BY <1>t, <2>1, <2>2, <2>3, <2>4, <3>1 DEF RearAfterSize
  <2>7. ASSUME NEW i \in 1..size
        PROVE  arr'[(front' + i - 1) % capacity'] = arr[(front + i - 1) % capacity]
    <3>1. (front + i - 1) % capacity = IF front + i - 1 < capacity THEN front + i - 1
                                       ELSE front + i - 1 - capacity
      BY <1>t, <2>2
    <3>2. (front + i - 1) % capacity # rear /\ (front + i - 1) % capacity \in 0..(capacity - 1)
      BY <1>t, <2>2, <2>3, <3>1
    <3> QED
      BY <1>t, <2>1, <3>2
  <2>8. arr'[(front' + size) % capacity'] = v
    BY <1>t, <2>1, <2>2
  <2> QED
    BY <2>1, <2>5, <2>6, <2>7, <2>8
<1> QED
  BY <1>1, <1>2

(* pop: the cells stay, the positions move by one.                         *)
LEMMA PopStep ==
    ASSUME IInv, Pop
    PROVE  /\ TypeOK' /\ RearAfterSize'
           /\ size' = size - 1 /\ size > 0
           /\ \A i \in 1..size' : arr'[(front' + i - 1) % capacity'] = arr[(front + i) % capacity]
<1>t. /\ capacity \in Nat \ {0} /\ front \in 0..(capacity - 1) /\ rear \in 0..(capacity - 1)
      /\ size \in 1..capacity
      /\ arr \in [0..(capacity - 1) -> Values \cup {Undef}]
  BY DEF IInv, TypeOK, Pop, isEmpty
<1>1. /\ front' = (front + 1) % capacity /\ size' = size - 1
      /\ arr' = arr /\ capacity' = capacity /\ rear' = rear
  BY DEF Pop
<1>2. front' = IF front + 1 < capacity THEN front + 1 ELSE front + 1 - capacity
  BY <1>t, <1>1
<1>3. TypeOK'
  BY <1>t, <1>1, <1>2 DEF TypeOK
<1>4. ASSUME NEW k \in 0..size' PROVE (front' + k) % capacity = (front + 1 + k) % capacity
  <2>1. (front + 1 + k) % capacity = IF front + 1 + k < capacity THEN front + 1 + k
                                     ELSE front + 1 + k - capacity
    BY <1>t, <1>1
  <2>2. (front' + k) % capacity = IF front' + k < capacity THEN front' + k
                                  ELSE front' + k - capacity
    BY <1>t, <1>1, <1>2
  <2> QED
    BY <1>t, <1>1, <1>2, <2>1, <2>2
<1>5. RearAfterSize'
  <2>1. size' \in 0..size' /\ front + 1 + size' = front + size
    BY <1>t, <1>1
  <2>2. rear = (front + size) % capacity
    BY <1>t DEF IInv, RearAfterSize
  <2>3. (front' + size') % capacity = (front + 1 + size') % capacity
    BY <1>4, <2>1
  <2> QED
    BY <1>1, <2>1, <2>2, <2>3 DEF RearAfterSize
<1>6. ASSUME NEW i \in 1..size'
      PROVE  arr'[(front' + i - 1) % capacity'] = arr[(front + i) % capacity]
  <2>1. i - 1 \in 0..size' /\ front' + i - 1 = front' + (i - 1) /\ front + 1 + (i - 1) = front + i
    BY <1>t, <1>1, <1>2
  <2>2. (front' + (i - 1)) % capacity = (front + 1 + (i - 1)) % capacity
    BY <1>4, <2>1
  <2> QED
    BY <1>1, <2>1, <2>2
<1> QED
  BY <1>t, <1>1, <1>3, <1>5, <1>6

(* Copying keeps every occupied cell.                                      *)
LEMMA CopyStep ==
    ASSUME IInv, Copy
    PROVE  /\ TypeOK' /\ RearAfterSize'
           /\ UNCHANGED size
           /\ \A i \in 1..size : arr'[(front' + i - 1) % capacity'] = arr[(front + i - 1) % capacity]
<1>t. /\ capacity \in Nat /\ front \in Nat /\ rear \in Nat /\ size \in 0..capacity
      /\ arr \in [0..(capacity - 1) -> Values \cup {Undef}]
      /\ (front < capacity \/ front = 0) /\ (rear < capacity \/ rear = 0)
  BY DEF IInv, TypeOK
<1>1. /\ capacity' = capacity /\ front' = front /\ rear' = rear /\ size' = size
      /\ arr' = [i \in 0..(capacity - 1) |->
                   IF /\ size > 0
                      /\ IF rear <= front THEN i >= front \/ i < rear ELSE front <= i /\ i < rear
                     THEN arr[i] ELSE Undef]
  BY DEF Copy
<1>2. TypeOK' /\ RearAfterSize'
  BY <1>t, <1>1 DEF TypeOK, IInv, RearAfterSize
<1>3. ASSUME NEW i \in 1..size
      PROVE  arr'[(front' + i - 1) % capacity'] = arr[(front + i - 1) % capacity]
  <2> DEFINE k == (front + i - 1) % capacity
  <2>1. capacity \in Nat \ {0} /\ front < capacity /\ rear = (front + size) % capacity
    BY <1>t DEF IInv, RearAfterSize
  <2>2. rear = IF front + size < capacity THEN front + size ELSE front + size - capacity
    BY <1>t, <2>1
  <2>3. k = IF front + i - 1 < capacity THEN front + i - 1 ELSE front + i - 1 - capacity
    BY <1>t, <2>1
  <2>4. /\ k \in 0..(capacity - 1) /\ size > 0
        /\ IF rear <= front THEN k >= front \/ k < rear ELSE front <= k /\ k < rear
    <3> HIDE DEF k
    <3> QED
      BY <1>t, <2>1, <2>2, <2>3
  <2>5. arr'[k] = arr[k]
    <3> HIDE DEF k
    <3> QED
      BY <1>1, <2>4
  <2> QED
    BY <1>1, <2>5
<1> QED
  BY <1>1, <1>2, <1>3

(* Every operation preserves the invariant.                                *)
LEMMA NextIInv == IInv /\ [Next]_vars => IInv'
<1> SUFFICES ASSUME IInv, [Next]_vars PROVE IInv'
  OBVIOUS
<1>t. size \in Nat /\ front \in Nat
  BY DEF IInv, TypeOK
<1>1. ASSUME NEW v \in Values, Push(v) PROVE IInv'
  <2>1. /\ TypeOK' /\ RearAfterSize' /\ size' = size + 1 /\ front' \in Nat
        /\ \A i \in 1..size : arr'[(front' + i - 1) % capacity'] = arr[(front + i - 1) % capacity]
        /\ arr'[(front' + size) % capacity'] = v
    BY <1>1, PushStep DEF TypeOK
  <2>2. ASSUME NEW i \in 1..size' PROVE arr'[(front' + i - 1) % capacity'] \in Values
    <3>1. CASE i \in 1..size
      BY <2>1, <3>1 DEF IInv, Assigned
    <3>2. CASE i = size + 1
      <4>1. front' + i - 1 = front' + size
        BY <1>t, <2>1, <3>2
      <4> QED
        BY <2>1, <4>1
    <3> QED
      BY <1>t, <2>1, <3>1, <3>2
  <2> QED
    BY <2>1, <2>2 DEF IInv, Assigned
<1>2. CASE Pop
  <2>1. /\ TypeOK' /\ RearAfterSize' /\ size' = size - 1 /\ size > 0
        /\ \A i \in 1..size' : arr'[(front' + i - 1) % capacity'] = arr[(front + i) % capacity]
    BY <1>2, PopStep
  <2>2. ASSUME NEW i \in 1..size' PROVE arr'[(front' + i - 1) % capacity'] \in Values
    <3>1. i + 1 \in 1..size /\ front + (i + 1) - 1 = front + i
      BY <1>t, <2>1
    <3>2. arr[(front + (i + 1) - 1) % capacity] \in Values
      BY <3>1 DEF IInv, Assigned
    <3> QED
      BY <2>1, <3>1, <3>2
  <2> QED
    BY <2>1, <2>2 DEF IInv, Assigned
<1>3. CASE Copy
  <2>1. /\ TypeOK' /\ RearAfterSize' /\ size' = size
        /\ \A i \in 1..size : arr'[(front' + i - 1) % capacity'] = arr[(front + i - 1) % capacity]
    BY <1>3, CopyStep
  <2> QED
    BY <2>1 DEF IInv, Assigned
<1>4. CASE UNCHANGED vars
  BY <1>4 DEF vars, IInv, TypeOK, RearAfterSize, Assigned
<1> QED
  BY <1>1, <1>2, <1>3, <1>4 DEF Next

(* The invariant holds in every reachable state.                           *)
LEMMA Invariance == Spec => []IInv
  BY InitIInv, NextIInv, PTL DEF Spec

(* front and rear stay inside the array and size within its capacity.      *)
THEOREM TypeCorrect == Spec => []TypeOK
  BY Invariance, PTL DEF IInv

(* No unassigned cell is ever shown, for any values and capacities.        *)
THEOREM OnlyPushedRead == Spec => []NoUndefRead
<1>1. ASSUME IInv PROVE NoUndefRead
  BY <1>1, ContentsSeq, UndefAssumption DEF NoUndefRead, IInv, Assigned
<1> QED
  BY <1>1, Invariance, PTL

(* The growing ring implements the first-in first-out queue.               *)
THEOREM Refinement == Spec => Implements
<1>1. Init => Abstract!AInit
  BY DEF Init, Abstract!AInit, Contents
<1>2. ASSUME IInv, IInv', [Next]_vars PROVE [Abstract!ANext]_Contents
  <2>c. /\ Contents \in Seq(Values) /\ Len(Contents) = size
        /\ \A i \in 1..size : Contents[i] = arr[(front + i - 1) % capacity]
    BY <1>2, ContentsSeq
  <2>d. /\ Contents' \in Seq(Values) /\ Len(Contents') = size'
        /\ \A i \in 1..size' : Contents'[i] = arr'[(front' + i - 1) % capacity']
    <3>1. \A i \in 1..size' : arr'[(front' + i - 1) % capacity'] \in Values
      BY <1>2 DEF IInv, Assigned
    <3>2. size' \in Nat
      BY <1>2 DEF IInv, TypeOK
    <3> QED
      BY <3>1, <3>2 DEF Contents
  <2>t. size \in Nat /\ front \in Nat /\ front' \in Nat
    BY <1>2 DEF IInv, TypeOK
  <2>1. ASSUME NEW v \in Values, Push(v) PROVE Abstract!Enqueue(v)
    <3>1. /\ size' = size + 1
          /\ \A i \in 1..size : arr'[(front' + i - 1) % capacity'] = arr[(front + i - 1) % capacity]
          /\ arr'[(front' + size) % capacity'] = v
      BY <1>2, <2>1, PushStep
    <3>2. /\ Append(Contents, v) \in Seq(Values) /\ Len(Append(Contents, v)) = size + 1
          /\ \A i \in 1..size : Append(Contents, v)[i] = Contents[i]
          /\ Append(Contents, v)[size + 1] = v
      BY <2>c, <2>t
    <3>3. ASSUME NEW i \in 1..size' PROVE Contents'[i] = Append(Contents, v)[i]
      <4>1. CASE i \in 1..size
        BY <2>c, <2>d, <3>1, <3>2, <4>1
      <4>2. CASE i = size + 1
        <5>1. front' + i - 1 = front' + size
          BY <2>t, <4>2
        <5>2. Contents'[i] = arr'[(front' + i - 1) % capacity']
          BY <2>d
        <5> QED
          BY <3>1, <3>2, <4>2, <5>1, <5>2
      <4>3. i \in 1..size \/ i = size + 1
        BY <2>t, <3>1
      <4> QED
        BY <4>1, <4>2, <4>3
    <3>4. Contents' = Append(Contents, v)
      BY <2>d, <3>1, <3>2, <3>3, SeqEqual
    <3> QED
      BY <3>4 DEF Abstract!Enqueue
  <2>2. CASE Pop
    <3>1. /\ size' = size - 1 /\ size > 0
          /\ \A i \in 1..size' : arr'[(front' + i - 1) % capacity'] = arr[(front + i) % capacity]
      BY <1>2, <2>2, PopStep
    <3>2. Contents # <<>>
      BY <2>c, <2>t, <3>1
    <3>3. /\ Tail(Contents) \in Seq(Values) /\ Len(Tail(Contents)) = size - 1
          /\ \A i \in 1..(size - 1) : Tail(Contents)[i] = Contents[i + 1]
      BY <2>c, <3>2, HeadTailProperties
    <3>4. ASSUME NEW i \in 1..size' PROVE Contents'[i] = Tail(Contents)[i]
      <4>1. i + 1 \in 1..size /\ front + (i + 1) - 1 = front + i
        BY <2>t, <3>1
      <4>2. Contents[i + 1] = arr[(front + (i + 1) - 1) % capacity]
        BY <2>c, <4>1
      <4> QED
        BY <2>d, <3>1, <3>3, <4>1, <4>2
    <3>5. Contents' = Tail(Contents)
      BY <2>d, <3>1, <3>3, <3>4, SeqEqual
    <3> QED
      BY <3>2, <3>5 DEF Abstract!Dequeue, Abstract!ANext
  <2>3. CASE Copy
    <3>1. /\ size' = size
          /\ \A i \in 1..size : arr'[(front' + i - 1) % capacity'] = arr[(front + i - 1) % capacity]
      BY <1>2, <2>3, CopyStep
    <3>2. \A i \in 1..size : Contents'[i] = Contents[i]
      BY <2>c, <2>d, <3>1
    <3> QED
      BY <2>c, <2>d, <3>1, <3>2, SeqEqual
  <2>4. CASE UNCHANGED vars
    BY <2>4 DEF vars, Contents
  <2> QED
    BY <1>2, <2>1, <2>2, <2>3, <2>4 DEF Next, Abstract!ANext
<1> QED
  BY <1>1, <1>2, Invariance, PTL DEF Spec, Implements, Abstract!ASpec
=============================================================================
