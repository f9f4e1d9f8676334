----------------------------- MODULE FutexMutex -----------------------------
(***************************************************************************)
(* mycode/standard_library/mutex.cpp: a mutex made of an atomic lock word, *)
(* an atomic owner and the futex system call.  Each atomic operation and   *)
(* each system call is a step.  The struct starts zeroed, and nothing in   *)
(* the code ever writes its futex field.                                   *)
(***************************************************************************)
EXTENDS Integers

CONSTANTS Threads, NoThread, MAX_SPIN_COUNT

ASSUME ThreadsAssumption == NoThread \notin Threads
ASSUME SpinAssumption == MAX_SPIN_COUNT \in Nat

VARIABLES
    lock, owner, futex,   \* the struct
    sleeping,             \* threads blocked in FUTEX_WAIT
    spin_count, pc        \* each thread's local state

vars == <<lock, owner, futex, sleeping, spin_count, pc>>

(***************************************************************************)
(* lock():   "spin"  the spinning loop        "block" the blocking loop    *)
(*           "fwait" about to call FUTEX_WAIT, or in it                    *)
(*           "own"   exchange won, owner not yet stored                    *)
(*           "cs"    returned 0                                            *)
(* unlock(): "disown" owner checked           "free"  owner cleared        *)
(*           "wake"  lock word cleared, FUTEX_WAKE not yet called          *)
(***************************************************************************)
Locations == {"idle", "spin", "block", "fwait", "own", "cs", "disown", "free", "wake"}

(* The threads between the exchange that took the lock word and the store *)
(* that clears it.                                                        *)
Holding == {t \in Threads : pc[t] \in {"own", "cs", "disown", "free"}}

(* Mutant: the futex word starts at the value FUTEX_WAIT compares with. *)
InitWordSet ==
    /\ lock = 0 /\ owner = NoThread /\ futex = 1
    /\ sleeping = {}
    /\ spin_count = [t \in Threads |-> 0]
    /\ pc = [t \in Threads |-> "idle"]

Init ==
    /\ lock = 0 /\ owner = NoThread /\ futex = 0
    /\ sleeping = {}
    /\ spin_count = [t \in Threads |-> 0]
    /\ pc = [t \in Threads |-> "idle"]

Goto(t, l) == pc' = [pc EXCEPT ![t] = l]

(* pthread_mutex_lock is called. *)
Call(t) ==
    /\ pc[t] = "idle"
    /\ spin_count' = [spin_count EXCEPT ![t] = 0]
    /\ Goto(t, "spin")
    /\ UNCHANGED <<lock, owner, futex, sleeping>>

(* Mutant: a load and a store in place of the atomic exchange; the load    *)
(* saw 0 before another thread's store.                                    *)
SpinTorn(t) ==
    /\ pc[t] = "spin" /\ spin_count[t] < MAX_SPIN_COUNT
    /\ lock' = 1
    /\ \/ Goto(t, "own") /\ UNCHANGED spin_count
       \/ /\ lock # 0
          /\ spin_count' = [spin_count EXCEPT ![t] = @ + 1] /\ UNCHANGED pc
    /\ UNCHANGED <<owner, futex, sleeping>>

(* One atomic_exchange of the spinning loop. *)
Spin(t) ==
    /\ pc[t] = "spin" /\ spin_count[t] < MAX_SPIN_COUNT
    /\ lock' = 1
    /\ IF lock = 0
         THEN Goto(t, "own") /\ UNCHANGED spin_count
         ELSE spin_count' = [spin_count EXCEPT ![t] = @ + 1] /\ UNCHANGED pc
    /\ UNCHANGED <<owner, futex, sleeping>>

(* One atomic_exchange of the loop after the spinning one. *)
Block(t) ==
    /\ \/ pc[t] = "block"
       \/ pc[t] = "spin" /\ spin_count[t] = MAX_SPIN_COUNT
    /\ lock' = 1
    /\ Goto(t, IF lock = 0 THEN "own" ELSE "fwait")
    /\ UNCHANGED <<owner, futex, sleeping, spin_count>>

(* futex(FUTEX_WAIT, 1): sleep if the word is 1, else return EAGAIN. *)
FutexWait(t) ==
    /\ pc[t] = "fwait" /\ t \notin sleeping
    /\ IF futex = 1
         THEN sleeping' = sleeping \cup {t} /\ UNCHANGED pc
         ELSE Goto(t, "block") /\ UNCHANGED sleeping
    /\ UNCHANGED <<lock, owner, futex, spin_count>>

StoreOwner(t) ==
    /\ pc[t] = "own"
    /\ owner' = t
    /\ Goto(t, "cs")
    /\ UNCHANGED <<lock, futex, sleeping, spin_count>>

(* pthread_mutex_unlock up to its ownership check; a thread that is not    *)
(* the recorded owner gets -1 and stays where it is.                       *)
Unlock(t) ==
    /\ pc[t] \in {"cs", "idle"}
    /\ IF owner = t THEN Goto(t, "disown") ELSE UNCHANGED pc
    /\ UNCHANGED <<lock, owner, futex, sleeping, spin_count>>

(* Mutant: the lock word is cleared before the owner. *)
ReleaseSwapped(t) ==
    /\ \/ pc[t] = "disown" /\ lock' = 0 /\ Goto(t, "free") /\ UNCHANGED owner
       \/ pc[t] = "free" /\ owner' = NoThread /\ Goto(t, "wake") /\ UNCHANGED lock
    /\ UNCHANGED <<futex, sleeping, spin_count>>

(* Mutant: the owner is not cleared. *)
ReleaseOwnerKept(t) ==
    /\ \/ pc[t] = "disown" /\ Goto(t, "free") /\ UNCHANGED <<owner, lock>>
       \/ pc[t] = "free" /\ lock' = 0 /\ Goto(t, "wake") /\ UNCHANGED owner
    /\ UNCHANGED <<futex, sleeping, spin_count>>

(* unlock's two stores: the owner is cleared, then the lock word. *)
Release(t) ==
    /\ \/ pc[t] = "disown" /\ owner' = NoThread /\ Goto(t, "free") /\ UNCHANGED lock
       \/ pc[t] = "free" /\ lock' = 0 /\ Goto(t, "wake") /\ UNCHANGED owner
    /\ UNCHANGED <<futex, sleeping, spin_count>>

(* futex(FUTEX_WAKE, 1): one sleeper, if any, returns to its loop. *)
FutexWake(t) ==
    /\ pc[t] = "wake"
    /\ \E woken \in IF sleeping = {} THEN {{}} ELSE {{u} : u \in sleeping} :
         /\ sleeping' = sleeping \ woken
         /\ pc' = [u \in Threads |-> IF u = t THEN "idle"
                                     ELSE IF u \in woken THEN "block" ELSE pc[u]]
    /\ UNCHANGED <<lock, owner, futex, spin_count>>

(* What a thread does by itself between calling lock and returning from    *)
(* the unlock that gives the mutex back.                                   *)
Step(t) == \/ Spin(t) \/ Block(t) \/ FutexWait(t) \/ StoreOwner(t)
           \/ (pc[t] = "cs" /\ Unlock(t)) \/ Release(t) \/ FutexWake(t)

Next == \E t \in Threads : Call(t) \/ Step(t) \/ Unlock(t)

Spec == Init /\ [][Next]_vars

(* Every runnable thread is scheduled and a holder eventually unlocks. *)
FairSpec == Spec /\ \A t \in Threads : WF_vars(Step(t))
-----------------------------------------------------------------------------
TypeOK ==
    /\ lock \in {0, 1}
    /\ owner \in Threads \cup {NoThread}
    /\ futex \in {0, 1}
    /\ sleeping \subseteq {t \in Threads : pc[t] = "fwait"}
    /\ spin_count \in [Threads -> 0..MAX_SPIN_COUNT]
    /\ pc \in [Threads -> Locations]

(* The thread inside can always get out: unlock's check compares owner     *)
(* with the caller, and no other thread's unlock, still between its two    *)
(* stores, may clear the owner that a new holder has just recorded.        *)
HolderCanUnlock == \A t \in Threads : pc[t] = "cs" => owner = t

(* The recorded owner really is inside, so a thread that does not hold the *)
(* mutex never passes unlock's check, not even right after its own unlock  *)
(* or while the next holder has not recorded itself yet.                   *)
OwnerHolds == \A t \in Threads : owner = t => pc[t] \in {"cs", "disown"}

(* The lock word and the owner implement the abstract mutex: one thread at *)
(* a time between its exchange and its store of 0, and only it lets go.    *)
Abstract == INSTANCE AbstractMutex WITH holders <- Holding
Implements == Abstract!ASpec

(* Whenever somebody tries to lock, somebody gets (or is still) inside: no *)
(* reachable order of failed exchanges, FUTEX_WAITs and wake-ups leaves    *)
(* all of them asleep or trying in vain.                                   *)
Progress ==
    (\E t \in Threads : pc[t] \in {"spin", "block", "fwait"}) ~> (\E t \in Threads : pc[t] = "cs")
=============================================================================
