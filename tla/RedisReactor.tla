---------------------------- MODULE RedisReactor ----------------------------
(***************************************************************************)
(* mycode/redis/reactor.cpp: a reactor whose events live in an array and   *)
(* are freed by the functions that read and write.  The callbacks of its   *)
(* user are not in the repository: accepting makes an event that waits for *)
(* input, and what is read is written back.  A callback is one step; the   *)
(* two halves of an epoll event, EPOLLIN and EPOLLOUT, are two, since the  *)
(* second runs even if the first has freed the event.  Here a client need  *)
(* not read: a write may be short.                                         *)
(***************************************************************************)
EXTENDS Sockets

CONSTANTS
    MAX_CONN,   \* the length of the array, and the mask of its indexes
    BufferSize, \* what event_buffer_read can take: 1023
    Served      \* numbers of connections that have come and gone before the start

ASSUME MaskAssumption == MAX_CONN \in Nat \ {0} /\ \A n \in Served : n \in 0..(MAX_CONN - 2)

VARIABLES
    iter,       \* the slot that was given out last
    slot,       \* slot[i]: its descriptor, which stays when the event is freed, or FreeSlot
    live,       \* the slots whose buffers are allocated
    watched,    \* watched[fd]: the slot that epoll has for the descriptor, or NoSlot
    wants_out,  \* the descriptors registered for EPOLLOUT as well
    fire,       \* the rest of the batch: slots with an event, and whether EPOLLOUT is in it
    out_due,    \* the slot whose EPOLLOUT half comes next, or NoSlot
    short,      \* the clients that a write was short for
    intact      \* FALSE once the process has died or its memory is corrupt

FreeSlot == 0
NoSlot == -1
reactor == <<iter, slot, live, watched, wants_out, fire, out_due, short, intact>>
redisvars == <<sockets, reactor>>

Slots == 0..(MAX_CONN - 1)
Sources == Fds \cup {Listener}

(* create_reactor and create_server: the listener has the first slot that  *)
(* is given out.  Every connection that has come and gone kept its own.    *)
RedisInit ==
    /\ SocketsInit
    /\ \E n \in Served :
         /\ iter = 1 + n
         /\ slot = [i \in Slots |-> IF i = 1 THEN Listener
                                    ELSE IF i \in 2..(n + 1) THEN 1 ELSE FreeSlot]
    /\ live = {1}
    /\ watched = [fd \in Sources |-> IF fd = Listener THEN 1 ELSE NoSlot]
    /\ wants_out = {} /\ fire = {} /\ out_due = NoSlot /\ short = {} /\ intact = TRUE
-----------------------------------------------------------------------------
(* epoll_wait, level-triggered; an error or a hang-up counts as both.  A   *)
(* socket whose client does not read may not be writable.                  *)
InReady(fd) == IF fd = Listener THEN backlog # <<>> ELSE Readable(conn[fd])
Both(fd) == fd # Listener /\ peer[conn[fd]] = "reset"
Watched == {fd \in Sources : watched[fd] # NoSlot}
Mask(fd, writable) ==
    [slot |-> watched[fd], in |-> InReady(fd) \/ Both(fd), out |-> fd \in writable \/ Both(fd)]
RedisWait ==
    /\ intact /\ fire = {} /\ out_due = NoSlot
    /\ \E writable \in SUBSET wants_out :
         fire' = {e \in {Mask(fd, writable) : fd \in Watched} : e.in \/ e.out}
    /\ fire' # {}
    /\ UNCHANGED <<sockets, iter, slot, live, watched, wants_out, out_due, short, intact>>

(* eventloop_once: the next event, its EPOLLIN half first. *)
Fire(e) ==
    /\ intact /\ out_due = NoSlot /\ e \in fire
    /\ fire' = fire \ {e}
    /\ out_due' = IF e.out THEN e.slot ELSE NoSlot
Reading(e) == Fire(e) /\ e.in
Fd(e) == slot[e.slot]

(* Mutant: iter is not moved on. *)
get_event_stuck == iter

(* _get_event_t: on from iter to a slot without a descriptor. *)
get_event_t == CHOOSE i \in (iter + 1)..(iter + MAX_CONN + 1) :
    /\ i % (MAX_CONN + 1) \notin Slots \/ slot[i % (MAX_CONN + 1)] = FreeSlot
    /\ \A j \in (iter + 1)..(i - 1) : j \in Slots /\ slot[j] # FreeSlot

(* The user's accept callback: accept, new_event and add_event. *)
RedisAcceptCb(e) ==
    /\ Reading(e) /\ Fd(e) = Listener /\ FreeFds # {} /\ get_event_t \in Slots
    /\ Accept
    /\ iter' = get_event_t
    /\ slot' = [slot EXCEPT ![get_event_t] = ClientFd]
    /\ live' = live \cup {get_event_t}
    /\ watched' = [watched EXCEPT ![ClientFd] = get_event_t]
    /\ UNCHANGED <<net, wants_out, short, intact>>

(* The same when no descriptor is left. *)
RedisAcceptFails(e) ==
    /\ Reading(e) /\ Fd(e) = Listener
    /\ UNCHANGED <<sockets, iter, slot, live, watched, wants_out, short, intact>>

(* The same when the slots are used up: new_event writes past the array. *)
AcceptOverrun(e) ==
    /\ Reading(e) /\ Fd(e) = Listener /\ FreeFds # {} /\ get_event_t \notin Slots
    /\ intact' = FALSE
    /\ UNCHANGED <<sockets, iter, slot, live, watched, wants_out, short>>

(* del_event and close; the slot keeps its descriptor. *)
Release(s) ==
    /\ live' = live \ {s}
    /\ watched' = [watched EXCEPT ![slot[s]] = NoSlot]
    /\ wants_out' = wants_out \ {slot[s]}
    /\ conn' = [conn EXCEPT ![slot[s]] = NoClient]

(* event_buffer_read ends by closing: the stream's end, an error, or a     *)
(* full buffer, whose read of 0 bytes looks like the end.  What it has     *)
(* read is lost.                                                           *)
Closing(c) == peer[c] # "open" \/ Len(inq[c]) >= BufferSize
ReadCloses(e) ==
    /\ Reading(e) /\ Fd(e) # Listener /\ Closing(conn[Fd(e)])
    /\ Release(e.slot)
    /\ sk_err' = sk_err \ {conn[Fd(e)]}
    /\ UNCHANGED <<peer, sent, inq, out, backlog, iter, slot, short, intact>>

(* Mutant: a write of everything counts as short. *)
Incomplete_equal(n, sz) == n <= sz

Incomplete(n, sz) == n = 0 \/ n < sz

(* enable_event(readable and writeable): EPOLLOUT is asked for, and never  *)
(* given up again.                                                         *)
enable_event(fd) == wants_out' = wants_out \cup {fd}

(* event_buffer_read until there is no more, and event_buffer_write of it: *)
(* what a short write leaves is dropped, and EPOLLOUT asked for.           *)
ReadEchoes(e) ==
    /\ Reading(e) /\ Fd(e) # Listener /\ ~Closing(conn[Fd(e)])
    /\ LET c == conn[Fd(e)]  sz == Len(inq[c]) IN
       \E n \in 0..sz :
         /\ Consume(c, sz)
         /\ out' = [out EXCEPT ![c] = @ \o Received(c, n)]
         /\ IF Incomplete(n, sz) THEN enable_event(Fd(e)) ELSE UNCHANGED wants_out
         /\ short' = IF n < sz THEN short \cup {c} ELSE short
    /\ UNCHANGED <<peer, sent, sk_err, backlog, conn, iter, slot, live, watched, intact>>

(* An event without EPOLLIN. *)
NoRead(e) == Fire(e) /\ ~e.in /\ UNCHANGED <<sockets, iter, slot, live, watched, wants_out, short, intact>>
-----------------------------------------------------------------------------
(* The EPOLLOUT half: event_buffer_write of out, which is always empty; a  *)
(* write of 0 bytes returns 0, and EPOLLOUT stays asked for.               *)
WriteNothing ==
    /\ intact /\ out_due \in live /\ conn[slot[out_due]] \notin sk_err
    /\ enable_event(slot[out_due])
    /\ out_due' = NoSlot
    /\ UNCHANGED <<sockets, iter, slot, live, watched, fire, short, intact>>

(* The write reports a reset: _write_socket closes. *)
WriteCloses ==
    /\ intact /\ out_due \in live /\ conn[slot[out_due]] \in sk_err
    /\ Release(out_due)
    /\ sk_err' = sk_err \ {conn[slot[out_due]]}
    /\ out_due' = NoSlot
    /\ UNCHANGED <<peer, sent, inq, out, backlog, iter, slot, fire, short, intact>>

(* The EPOLLIN half has freed the event: strlen of freed memory, and if    *)
(* that is 0, a write to a closed descriptor whose failure frees again.    *)
WriteFreed ==
    /\ intact /\ out_due \notin live \cup {NoSlot}
    /\ out_due' = NoSlot
    /\ intact' \in BOOLEAN
    /\ UNCHANGED <<sockets, iter, slot, live, watched, wants_out, fire, short>>

Reactor ==
    \/ RedisWait \/ WriteNothing \/ WriteCloses \/ WriteFreed
    \/ \E e \in fire : \/ RedisAcceptCb(e) \/ RedisAcceptFails(e) \/ AcceptOverrun(e)
                       \/ ReadCloses(e) \/ ReadEchoes(e) \/ NoRead(e)

RedisClient(c) ==
    /\ Connect(c) \/ Send(c) \/ Shutdown(c) \/ Reset(c)
    /\ UNCHANGED reactor

RedisNext == Reactor \/ \E c \in Clients : RedisClient(c)

RedisSpec == RedisInit /\ [][RedisNext]_redisvars
-----------------------------------------------------------------------------
(* Every open descriptor has an event of its own that is not freed, also   *)
(* one whose number an old slot still holds, and every event of a batch is *)
(* of such a descriptor when its turn comes: the loop never starts on a    *)
(* freed event.                                                            *)
EventsSound ==
    intact =>
        /\ \A fd \in Fds : conn[fd] # NoClient <=> watched[fd] # NoSlot
        /\ \A fd \in Watched : watched[fd] \in live /\ slot[watched[fd]] = fd
        /\ \A fd, f \in Watched : watched[fd] = watched[f] => fd = f
        /\ \A e \in fire : e.slot \in live

(* The process outlives any clients that neither reset their connection    *)
(* nor stop reading, in any order of connections, data and shutdowns, for  *)
(* as long as there are slots that were never used.                        *)
Survives ==
    ~intact => short # {} \/ (\E c \in Clients : peer[c] = "reset") \/ iter = MAX_CONN - 1
=============================================================================
