---------------------------- MODULE AbstractPool ----------------------------
(***************************************************************************)
(* What an object pool promises: a slot is given to one thread at a time,  *)
(* and a request is refused only when every slot is taken.                 *)
(***************************************************************************)
CONSTANTS Threads, Slots, Null

VARIABLES held,     \* held[t]: the slot thread t has, or Null
          refused   \* threads that were told the pool is exhausted

avars == <<held, refused>>

Taken == {held[t] : t \in Threads} \ {Null}

AInit == held = [t \in Threads |-> Null] /\ refused = {}

Take(t) ==
    /\ held[t] = Null /\ t \notin refused
    /\ \E s \in Slots \ Taken : held' = [held EXCEPT ![t] = s]
    /\ UNCHANGED refused

Refuse(t) ==
    /\ held[t] = Null /\ Taken = Slots
    /\ refused' = refused \cup {t}
    /\ UNCHANGED held

GiveUp(t) == t \in refused /\ refused' = refused \ {t} /\ UNCHANGED held

Give(t) ==
    /\ held[t] # Null
    /\ held' = [held EXCEPT ![t] = Null]
    /\ UNCHANGED refused

ANext == \E t \in Threads : Take(t) \/ Refuse(t) \/ GiveUp(t) \/ Give(t)

ASpec == AInit /\ [][ANext]_avars
=============================================================================
