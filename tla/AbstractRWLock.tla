--------------------------- MODULE AbstractRWLock ---------------------------
(***************************************************************************)
(* What a readers-writer lock promises, without counters, mutex or         *)
(* condition variable: the set of threads that read and the set of threads *)
(* that write, and the two rules for entering either.                      *)
(***************************************************************************)
CONSTANT Threads

VARIABLES readers, writers

avars == <<readers, writers>>

AInit == readers = {} /\ writers = {}

EnterRead(t) ==
    /\ writers = {} /\ t \notin readers
    /\ readers' = readers \cup {t}
    /\ UNCHANGED writers

LeaveRead(t) ==
    /\ t \in readers
    /\ readers' = readers \ {t}
    /\ UNCHANGED writers

EnterWrite(t) ==
    /\ readers = {} /\ writers = {}
    /\ writers' = {t}
    /\ UNCHANGED readers

LeaveWrite(t) ==
    /\ t \in writers
    /\ writers' = writers \ {t}
    /\ UNCHANGED readers

ANext == \E t \in Threads :
             EnterRead(t) \/ LeaveRead(t) \/ EnterWrite(t) \/ LeaveWrite(t)

ASpec == AInit /\ [][ANext]_avars
=============================================================================
