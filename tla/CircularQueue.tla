---------------------------- MODULE CircularQueue ----------------------------
(***************************************************************************)
(* mycode/reactor/CircularQueue: a growing ring buffer.  One queue object, *)
(* used from one thread; a copy (constructor or assignment) is modelled as *)
(* the client going on with the copy in place of the original.             *)
(***************************************************************************)
EXTENDS Integers, Sequences

CONSTANTS
    Values,
    Undef,          \* an array cell that was never assigned
    InitCapacities, \* the arguments the constructor is called with
    MaxSize         \* bound: pushes stop at this many elements

ASSUME CapacitiesAssumption == InitCapacities \subseteq Nat
ASSUME MaxSizeAssumption == MaxSize \in Nat
ASSUME UndefAssumption == Undef \notin Values

VARIABLES arr, capacity, front, rear, size

vars == <<arr, capacity, front, rear, size>>

NewArray(n) == [i \in 0..(n - 1) |-> Undef]

isFull == size = capacity
isEmpty == size = 0

(* The constructor corrects its parameter after capacity was initialised   *)
(* from it, so the capacity is whatever the caller asked for.              *)
Init ==
    /\ capacity \in InitCapacities
    /\ arr = NewArray(capacity)
    /\ front = 0 /\ rear = 0 /\ size = 0

NewCapacity == IF capacity = 0 THEN 4 ELSE capacity * 2

(* Mutant: the array is copied cell by cell, without unrolling the ring. *)
ExpandedFlat ==
    [i \in 0..(NewCapacity - 1) |-> IF i < capacity THEN arr[i] ELSE Undef]

(* expand: the new array, the old elements unrolled to start at 0.  The    *)
(* two copy loops run from front to the end and from 0 to rear when        *)
(* rear <= front, and from front to rear otherwise.                        *)
Expanded ==
    [i \in 0..(NewCapacity - 1) |->
        CASE rear <= front /\ i < capacity - front        -> arr[front + i]
          [] rear <= front /\ i >= capacity - front
                           /\ i - (capacity - front) < rear -> arr[i - (capacity - front)]
          [] rear > front /\ i < rear - front             -> arr[front + i]
          [] OTHER                                        -> Undef]

(* push, growing first when the ring is full. *)
Push(v) ==
    /\ size < MaxSize
    /\ LET cap == IF isFull THEN NewCapacity ELSE capacity
           end == IF isFull THEN size ELSE rear
       IN  /\ arr' = [IF isFull THEN Expanded ELSE arr EXCEPT ![end] = v]
           /\ capacity' = cap
           /\ front' = IF isFull THEN 0 ELSE front
           /\ rear' = (end + 1) % cap
           /\ size' = size + 1

Pop ==
    /\ ~isEmpty
    /\ front' = (front + 1) % capacity
    /\ size' = size - 1
    /\ UNCHANGED <<arr, capacity, rear>>

(* Copy construction and copy assignment: a fresh array of the same        *)
(* capacity that receives the occupied cells only.  (operator= has no      *)
(* return statement; what it stores is modelled, and nothing calls it.)    *)
Copy ==
    /\ arr' = [i \in 0..(capacity - 1) |->
                 IF /\ size > 0
                    /\ IF rear <= front THEN i >= front \/ i < rear
                                        ELSE front <= i /\ i < rear
                   THEN arr[i] ELSE Undef]
    /\ UNCHANGED <<capacity, front, rear, size>>

Next == (\E v \in Values : Push(v)) \/ Pop \/ Copy

Spec == Init /\ [][Next]_vars
-----------------------------------------------------------------------------
TypeOK ==
    /\ capacity \in Nat
    /\ arr \in [0..(capacity - 1) -> Values \cup {Undef}]
    /\ front \in Nat /\ (front < capacity \/ front = 0)
    /\ rear \in Nat /\ (rear < capacity \/ rear = 0)
    /\ size \in 0..capacity

(* What getFront and printQueue walk through. *)
Contents == [i \in 1..size |-> arr[(front + i - 1) % capacity]]

(* getFront and printQueue never show an unassigned cell: every element    *)
(* counted in size was pushed, through any number of wraps, growths and    *)
(* copies that leave the free cells unassigned.                            *)
NoUndefRead == \A i \in 1..size : Contents[i] # Undef

(* The ring is a first-in first-out queue: growing and copying leave its   *)
(* contents and their order alone, push appends and pop drops the oldest.  *)
Abstract == INSTANCE Fifo WITH items <- Contents
Implements == Abstract!ASpec
=============================================================================
