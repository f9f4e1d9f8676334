-------------------------------- MODULE Fifo --------------------------------
(***************************************************************************)
(* An unbounded first-in first-out queue: what the circular queue promises.*)
(***************************************************************************)
EXTENDS Sequences

CONSTANT Values

VARIABLE items

AInit == items = <<>>

Enqueue(v) == items' = Append(items, v)

Dequeue == items # <<>> /\ items' = Tail(items)

ANext == (\E v \in Values : Enqueue(v)) \/ Dequeue

ASpec == AInit /\ [][ANext]_items
=============================================================================
