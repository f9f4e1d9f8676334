---------------------------- MODULE ReadWriteLock ----------------------------
(***************************************************************************)
(* mycode/rwlock: a writer-preferring readers-writer lock made of one      *)
(* mutex, one condition variable and three counters.  Every access to the  *)
(* counters is made under _mutex and nothing else happens under it, so one *)
(* critical section of _mutex (up to the wait() or the unlock that ends    *)
(* it) is one step.  The notify_all of readUnlock comes after the unlock   *)
(* and is a step of its own.                                               *)
(***************************************************************************)
EXTENDS Integers, FiniteSets

CONSTANT Threads

ASSUME ThreadsAssumption == IsFiniteSet(Threads)

VARIABLES
    read_count, write_flag, write_wait_count,
    waiting,     \* threads blocked in _cond.wait
    pc           \* where each thread is in the lock's protocol

vars == <<read_count, write_flag, write_wait_count, waiting, pc>>

(***************************************************************************)
(* "idle"    : outside the lock                                            *)
(* "rtest"   : in readLock, about to test (or in wait, if in waiting)      *)
(* "reading" : readLock has returned                                       *)
(* "rnotify" : in readUnlock, mutex released, notify_all not yet called    *)
(* "wenter"  : in writeLock, before its critical section                   *)
(* "wtest"   : in writeLock's loop, counted in write_wait_count            *)
(* "writing" : writeLock has returned                                      *)
(***************************************************************************)
Locations == {"idle", "rtest", "reading", "rnotify", "wenter", "wtest", "writing"}

At(l) == {t \in Threads : pc[t] = l}

Init ==
    /\ read_count = 0
    /\ write_flag = FALSE
    /\ write_wait_count = 0
    /\ waiting = {}
    /\ pc = [t \in Threads |-> "idle"]

(* The client calls readLock or writeLock. *)
Call(t) ==
    /\ pc[t] = "idle"
    /\ \E l \in {"rtest", "wenter"} : pc' = [pc EXCEPT ![t] = l]
    /\ UNCHANGED <<read_count, write_flag, write_wait_count, waiting>>

(* Mutant: readers do not look at the waiting writers. *)
ReaderBlockedReadFirst == write_flag

(* Mutant: a writer does not look at the readers inside. *)
WriterBlockedByWriterOnly == write_flag

(* The conditions of the two wait loops. *)
ReaderBlocked == write_flag \/ write_wait_count > 0

WriterBlocked == write_flag \/ read_count > 0

(* One pass of readLock's loop: wait again, or enter. *)
ReadLock(t) ==
    /\ pc[t] = "rtest" /\ t \notin waiting
    /\ IF ReaderBlocked
         THEN /\ waiting' = waiting \cup {t}
              /\ UNCHANGED <<read_count, pc>>
         ELSE /\ read_count' = read_count + 1
              /\ pc' = [pc EXCEPT ![t] = "reading"]
              /\ UNCHANGED waiting
    /\ UNCHANGED <<write_flag, write_wait_count>>

(* Mutant: the last reader does not go on to notify_all. *)
ReadUnlockSilent(t) ==
    /\ pc[t] = "reading"
    /\ read_count' = read_count - 1
    /\ pc' = [pc EXCEPT ![t] = "idle"]
    /\ UNCHANGED <<write_flag, write_wait_count, waiting>>

(* readUnlock up to the end of its critical section. *)
ReadUnlock(t) ==
    /\ pc[t] = "reading"
    /\ read_count' = read_count - 1
    /\ pc' = [pc EXCEPT ![t] = IF read_count - 1 = 0 THEN "rnotify" ELSE "idle"]
    /\ UNCHANGED <<write_flag, write_wait_count, waiting>>

(* readUnlock, the notify_all after the mutex is released. *)
ReadNotify(t) ==
    /\ pc[t] = "rnotify"
    /\ waiting' = {}
    /\ pc' = [pc EXCEPT ![t] = "idle"]
    /\ UNCHANGED <<read_count, write_flag, write_wait_count>>

(* writeLock's critical section: count the caller, then test. *)
WriteEnter(t) ==
    /\ pc[t] = "wenter"
    /\ IF WriterBlocked
         THEN /\ write_wait_count' = write_wait_count + 1
              /\ waiting' = waiting \cup {t}
              /\ pc' = [pc EXCEPT ![t] = "wtest"]
              /\ UNCHANGED write_flag
         ELSE /\ write_flag' = TRUE
              /\ pc' = [pc EXCEPT ![t] = "writing"]
              /\ UNCHANGED <<write_wait_count, waiting>>
    /\ UNCHANGED read_count

(* One later pass of writeLock's loop, after a wake-up. *)
WriteRetest(t) ==
    /\ pc[t] = "wtest" /\ t \notin waiting
    /\ IF WriterBlocked
         THEN /\ waiting' = waiting \cup {t}
              /\ UNCHANGED <<write_flag, write_wait_count, pc>>
         ELSE /\ write_flag' = TRUE
              /\ write_wait_count' = write_wait_count - 1
              /\ pc' = [pc EXCEPT ![t] = "writing"]
              /\ UNCHANGED waiting
    /\ UNCHANGED read_count

(* Mutant: notify_one in place of notify_all. *)
WriteUnlockNotifyOne(t) ==
    /\ pc[t] = "writing"
    /\ write_flag' = FALSE
    /\ IF waiting = {} THEN UNCHANGED waiting
                       ELSE \E u \in waiting : waiting' = waiting \ {u}
    /\ pc' = [pc EXCEPT ![t] = "idle"]
    /\ UNCHANGED <<read_count, write_wait_count>>

(* Mutant: write_flag stays set. *)
WriteUnlockFlagKept(t) ==
    /\ pc[t] = "writing"
    /\ waiting' = {}
    /\ pc' = [pc EXCEPT ![t] = "idle"]
    /\ UNCHANGED <<read_count, write_flag, write_wait_count>>

WriteUnlock(t) ==
    /\ pc[t] = "writing"
    /\ write_flag' = FALSE
    /\ waiting' = {}
    /\ pc' = [pc EXCEPT ![t] = "idle"]
    /\ UNCHANGED <<read_count, write_wait_count>>

(* condition_variable::wait may return without a notification. *)
SpuriousWakeup(t) ==
    /\ t \in waiting
    /\ waiting' = waiting \ {t}
    /\ UNCHANGED <<read_count, write_flag, write_wait_count, pc>>

(* What a thread does by itself once it has called into the lock. *)
Step(t) == \/ ReadLock(t) \/ ReadUnlock(t) \/ ReadNotify(t)
           \/ WriteEnter(t) \/ WriteRetest(t) \/ WriteUnlock(t)

Next == \E t \in Threads : Call(t) \/ Step(t) \/ SpuriousWakeup(t)

Spec == Init /\ [][Next]_vars

(* The scheduler runs every runnable thread, the mutex starves nobody and  *)
(* a client that holds the lock gives it back; nobody has to call.         *)
FairSpec == Spec /\ \A t \in Threads : WF_vars(Step(t))
-----------------------------------------------------------------------------
TypeOK ==
    /\ read_count \in Nat
    /\ write_flag \in BOOLEAN
    /\ write_wait_count \in Nat
    /\ pc \in [Threads -> Locations]
    /\ waiting \subseteq {t \in Threads : pc[t] \in {"rtest", "wtest"}}

(* A writer inside excludes every reader and every other writer, whatever  *)
(* interleaving of readLock, writeLock and their wake-ups led there.       *)
Exclusion ==
    \A t, u \in Threads :
        (t # u /\ pc[t] = "writing") => pc[u] \notin {"reading", "writing"}

(* No wake-up is lost: a thread that sleeps in _cond.wait either still has *)
(* to wait, or a readUnlock is on its way to notify_all (which it calls    *)
(* with the mutex already released).                                       *)
NoLostWakeup ==
    \A t \in waiting :
        \/ pc[t] = "rtest" /\ ReaderBlocked
        \/ pc[t] = "wtest" /\ WriterBlocked
        \/ At("rnotify") # {}

(* Writer preference ("写优先", ReadWriteLock.h): no step lets a reader in *)
(* while a writer is queued in writeLock.                                  *)
WriterPreference ==
    [][\A t \in Threads : (pc[t] # "reading" /\ pc'[t] = "reading") => At("wtest") = {}]_vars

(* A queued writer is not waited for in vain: some writer gets in, since   *)
(* the readers inside leave and no new reader enters before it.            *)
WriterProgress == (At("wtest") # {}) ~> (At("writing") # {})

(* A reader in readLock gets in unless writers keep coming: if from some   *)
(* point on nobody asks to write, every readLock returns.                  *)
ReaderProgress ==
    \A t \in Threads :
        <>[](At("wenter") \cup At("wtest") = {}) => (pc[t] = "rtest" ~> pc[t] = "reading")

(* The counters and the condition variable implement the abstract lock.    *)
Abstract == INSTANCE AbstractRWLock WITH readers <- At("reading"),
                                         writers <- At("writing")
Implements == Abstract!ASpec
=============================================================================
