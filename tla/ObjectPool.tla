----------------------------- MODULE ObjectPool -----------------------------
(***************************************************************************)
(* mycode/pool: an object pool whose free list is threaded through the     *)
(* memory of the free objects, and the threads of main.cpp that use it.    *)
(* allocate and deallocate run under one lock_guard each, so each is a     *)
(* step; between them a thread uses its object for as long as it likes.    *)
(* Slots are numbered 1..pool_size and 0 is nullptr.                       *)
(***************************************************************************)
EXTENDS Integers, Sequences, Functions

CONSTANTS Threads, pool_size

ASSUME SizeAssumption == pool_size \in Nat \ {0}

Null == 0
Slots == 1..pool_size

VARIABLES
    free_list_head,
    mem,        \* the first bytes of each slot: a link, or the thread whose object lives there
    ctx,        \* each thread's ConnContext*
    pc,         \* "out", "using", or "failed" after allocate returned nullptr
    destroyed,  \* main has joined the threads and run the destructor
    free        \* auxiliary: the free list as the constructor and the calls build it

vars == <<free_list_head, mem, ctx, pc, destroyed, free>>

(* The constructor links every slot to the next one. *)
Init ==
    /\ free_list_head = 1
    /\ mem = [s \in Slots |-> IF s = pool_size THEN Null ELSE s + 1]
    /\ ctx = [t \in Threads |-> Null]
    /\ pc = [t \in Threads |-> "out"]
    /\ destroyed = FALSE
    /\ free = [i \in Slots |-> i]

(* allocate: take the first free slot and construct the object in it. *)
Allocate(t) ==
    /\ pc[t] = "out" /\ ~destroyed /\ free_list_head # Null
    /\ ctx' = [ctx EXCEPT ![t] = free_list_head]
    /\ free_list_head' = mem[free_list_head]
    /\ mem' = [mem EXCEPT ![free_list_head] = t]
    /\ pc' = [pc EXCEPT ![t] = "using"]
    /\ free' = Tail(free)
    /\ UNCHANGED destroyed

(* allocate on an empty list returns nullptr. *)
AllocateFails(t) ==
    /\ pc[t] = "out" /\ ~destroyed /\ free_list_head = Null
    /\ pc' = [pc EXCEPT ![t] = "failed"]
    /\ UNCHANGED <<free_list_head, mem, ctx, destroyed, free>>

(* thread_func prints that the pool is exhausted and returns. *)
ReportFailure(t) ==
    /\ pc[t] = "failed"
    /\ pc' = [pc EXCEPT ![t] = "out"]
    /\ UNCHANGED <<free_list_head, mem, ctx, destroyed, free>>

(* Mutant: the slot becomes the head before its link is written. *)
DeallocateHeadFirst(t) ==
    /\ pc[t] = "using"
    /\ mem' = [mem EXCEPT ![ctx[t]] = ctx[t]]
    /\ free_list_head' = ctx[t]
    /\ free' = <<ctx[t]>> \o free
    /\ ctx' = [ctx EXCEPT ![t] = Null]
    /\ pc' = [pc EXCEPT ![t] = "out"]
    /\ UNCHANGED destroyed

(* Mutant: the slot is never put back. *)
DeallocateLeaks(t) ==
    /\ pc[t] = "using"
    /\ ctx' = [ctx EXCEPT ![t] = Null]
    /\ pc' = [pc EXCEPT ![t] = "out"]
    /\ UNCHANGED <<free_list_head, mem, destroyed, free>>

(* deallocate: destroy the object and push its slot on the free list. *)
Deallocate(t) ==
    /\ pc[t] = "using"
    /\ mem' = [mem EXCEPT ![ctx[t]] = free_list_head]
    /\ free_list_head' = ctx[t]
    /\ free' = <<ctx[t]>> \o free
    /\ ctx' = [ctx EXCEPT ![t] = Null]
    /\ pc' = [pc EXCEPT ![t] = "out"]
    /\ UNCHANGED destroyed

(* Mutant: main does not join the threads. *)
DestroyUnjoined ==
    /\ ~destroyed
    /\ destroyed' = TRUE
    /\ UNCHANGED <<free_list_head, mem, ctx, pc, free>>

(* main joins all the threads, then the destructor frees buffer_. *)
Destroy ==
    /\ ~destroyed /\ \A t \in Threads : pc[t] = "out"
    /\ destroyed' = TRUE
    /\ UNCHANGED <<free_list_head, mem, ctx, pc, free>>

Next == \/ \E t \in Threads : \/ Allocate(t) \/ AllocateFails(t)
                              \/ ReportFailure(t) \/ Deallocate(t)
        \/ Destroy

Spec == Init /\ [][Next]_vars
-----------------------------------------------------------------------------
TypeOK ==
    /\ free_list_head \in Slots \cup {Null}
    /\ mem \in [Slots -> Slots \cup {Null} \cup Threads]
    /\ ctx \in [Threads -> Slots \cup {Null}]
    /\ pc \in [Threads -> {"out", "using", "failed"}]
    /\ destroyed \in BOOLEAN
    /\ free \in Seq(Slots)

(* The links in memory spell out the free list, to its end and in order,   *)
(* whatever order slots were taken and given back in.                      *)
ListIntact ==
    /\ free_list_head = IF free = <<>> THEN Null ELSE free[1]
    /\ \A i \in 1..Len(free) : mem[free[i]] = IF i = Len(free) THEN Null ELSE free[i + 1]

(* Every slot is either once on the free list or with exactly one thread:  *)
(* none is leaked, handed out twice, or on the list while in use.          *)
Conserved ==
    /\ \A i, j \in 1..Len(free) : free[i] = free[j] => i = j
    /\ \A t \in Threads : ctx[t] # Null => \A i \in 1..Len(free) : free[i] # ctx[t]
    /\ \A t, u \in Threads : (ctx[t] = ctx[u] /\ ctx[t] # Null) => t = u
    /\ \A s \in Slots : s \in Range(free) \/ s \in Range(ctx)

(* What a thread constructed in its object is still there when it uses it: *)
(* nobody constructed another object, or wrote a link, over it.            *)
ObjectIntact == \A t \in Threads : pc[t] = "using" => mem[ctx[t]] = t /\ ~destroyed

(* The linked list implements the abstract pool: a thread is told that the *)
(* pool is exhausted only when all slots are in use.                       *)
Abstract == INSTANCE AbstractPool WITH held <- ctx, refused <- {t \in Threads : pc[t] = "failed"}
Implements == Abstract!ASpec
=============================================================================
