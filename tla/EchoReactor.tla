----------------------------- MODULE EchoReactor -----------------------------
(***************************************************************************)
(* mycode/reactor/reactor.c: the single-threaded epoll echo server.  A     *)
(* callback runs to its end before the next one, so it is one step;        *)
(* clients act between any two of them, also inside one batch of           *)
(* epoll_wait events.  The sockets are blocking and level-triggered.  The  *)
(* listening sockets differ in nothing but their port: there is one.       *)
(***************************************************************************)
EXTENDS Sockets

CONSTANT BUFFER_LENGTH

ASSUME BufferAssumption == BUFFER_LENGTH \in Nat \ {0}

VARIABLES
    interest,       \* what epoll watches each descriptor for: "off", "in" or "out"
    rbuffer, wbuffer, \* connlist: the rlen bytes received, the wlen bytes to send
    events,         \* the rest of the batch that epoll_wait returned
    alive           \* FALSE once the process has died of a client's reset

vars == <<sockets, interest, rbuffer, wbuffer, events, alive>>

Init ==
    /\ SocketsInit
    /\ interest = [fd \in Fds |-> "off"]
    /\ rbuffer = [fd \in Fds |-> <<>>] /\ wbuffer = [fd \in Fds |-> <<>>]
    /\ events = {} /\ alive = TRUE

Ready ==
    (IF backlog # <<>> THEN {<<Listener, "in">>} ELSE {})
        \cup {<<fd, "in">> : fd \in {f \in Fds : interest[f] = "in" /\ Readable(conn[f])}}
        \cup {<<fd, "out">> : fd \in {f \in Fds : interest[f] = "out"}}

(* main's loop: the next batch, when the last one is done. *)
EpollWait ==
    /\ alive /\ events = {} /\ Ready # {}
    /\ events' = Ready
    /\ UNCHANGED <<net, backlog, conn, interest, rbuffer, wbuffer, alive>>

(* Mutant: accept is called again, until it fails. *)
AcceptCbAgain ==
    /\ alive /\ <<Listener, "in">> \in events /\ backlog # <<>> /\ FreeFds # {}
    /\ Accept
    /\ interest' = [interest EXCEPT ![ClientFd] = "in"]
    /\ rbuffer' = [rbuffer EXCEPT ![ClientFd] = <<>>]
    /\ wbuffer' = [wbuffer EXCEPT ![ClientFd] = <<>>]
    /\ UNCHANGED <<net, events, alive>>

(* accept_cb: the lowest free descriptor, registered and its item cleared. *)
AcceptCb ==
    /\ alive /\ <<Listener, "in">> \in events /\ backlog # <<>> /\ FreeFds # {}
    /\ events' = events \ {<<Listener, "in">>}
    /\ Accept
    /\ interest' = [interest EXCEPT ![ClientFd] = "in"]
    /\ rbuffer' = [rbuffer EXCEPT ![ClientFd] = <<>>]
    /\ wbuffer' = [wbuffer EXCEPT ![ClientFd] = <<>>]
    /\ UNCHANGED <<net, alive>>

(* accept_cb when accept returns -1: always when the process is out of     *)
(* descriptors, at any time when the system is; the client stays queued.   *)
AcceptFails ==
    /\ alive /\ <<Listener, "in">> \in events /\ backlog # <<>>
    /\ events' = events \ {<<Listener, "in">>}
    /\ UNCHANGED <<net, backlog, conn, interest, rbuffer, wbuffer, alive>>

(* recv's three outcomes on descriptor fd, of which exactly one holds when *)
(* the socket is readable.                                                 *)
Room(fd) == BUFFER_LENGTH - Len(rbuffer[fd])
RecvData(fd) == Room(fd) > 0 /\ inq[conn[fd]] # <<>>
RecvEnd(fd) == Room(fd) = 0 \/ StreamEnd(conn[fd])
RecvError(fd) == Room(fd) > 0 /\ StreamError(conn[fd])
Count(fd) == RecvCount(conn[fd], Room(fd))

(* Mutant: rlen is not reset after the copy. *)
RecvCbKept(fd) ==
    /\ alive /\ <<fd, "in">> \in events /\ RecvData(fd)
    /\ events' = events \ {<<fd, "in">>}
    /\ LET c == conn[fd]
           received == rbuffer[fd] \o Received(c, Count(fd))
       IN  /\ Consume(c, Count(fd))
           /\ wbuffer' = [wbuffer EXCEPT ![fd] = received]
           /\ rbuffer' = [rbuffer EXCEPT ![fd] = received]
    /\ interest' = [interest EXCEPT ![fd] = "out"]
    /\ UNCHANGED <<peer, sent, sk_err, out, backlog, conn, alive>>

(* recv_cb with data: append it to rbuffer, copy rbuffer to wbuffer, reset *)
(* rlen and wait for writability.                                          *)
RecvCb(fd) ==
    /\ alive /\ <<fd, "in">> \in events /\ RecvData(fd)
    /\ events' = events \ {<<fd, "in">>}
    /\ LET c == conn[fd]
           received == rbuffer[fd] \o Received(c, Count(fd))
       IN  /\ Consume(c, Count(fd))
           /\ wbuffer' = [wbuffer EXCEPT ![fd] = received]
           /\ rbuffer' = [rbuffer EXCEPT ![fd] = <<>>]
    /\ interest' = [interest EXCEPT ![fd] = "out"]
    /\ UNCHANGED <<peer, sent, sk_err, out, backlog, conn, alive>>

(* Mutant: epoll forgets the descriptor but it is not closed. *)
DisconnectLeaks(fd) ==
    /\ alive /\ <<fd, "in">> \in events /\ RecvEnd(fd)
    /\ events' = events \ {<<fd, "in">>}
    /\ interest' = [interest EXCEPT ![fd] = "off"]
    /\ UNCHANGED <<net, backlog, conn, rbuffer, wbuffer, alive>>

(* recv_cb when recv returns 0: EPOLL_CTL_DEL and close. *)
Disconnect(fd) ==
    /\ alive /\ <<fd, "in">> \in events /\ RecvEnd(fd)
    /\ events' = events \ {<<fd, "in">>}
    /\ interest' = [interest EXCEPT ![fd] = "off"]
    /\ conn' = [conn EXCEPT ![fd] = NoClient]
    /\ UNCHANGED <<net, backlog, rbuffer, wbuffer, alive>>

(* recv_cb when recv returns -1: rlen becomes -1, memcpy gets it as a      *)
(* size, and the process dies.                                             *)
RecvFails(fd) ==
    /\ alive /\ <<fd, "in">> \in events /\ RecvError(fd)
    /\ alive' = FALSE
    /\ UNCHANGED <<net, backlog, conn, interest, rbuffer, wbuffer, events>>

(* send_cb: send, whatever comes of it, and wait for input again.  A send  *)
(* on a reset socket fails and takes the pending error with it.            *)
SendCb(fd) ==
    /\ alive /\ <<fd, "out">> \in events /\ ~Pipe(conn[fd])
    /\ events' = events \ {<<fd, "out">>}
    /\ Transmit(conn[fd], wbuffer[fd])
    /\ interest' = [interest EXCEPT ![fd] = "in"]
    /\ UNCHANGED <<peer, sent, inq, backlog, conn, rbuffer, wbuffer, alive>>

(* send_cb when the reset was reported before: EPIPE, and the SIGPIPE that *)
(* comes with it ends the process.                                         *)
SendFails(fd) ==
    /\ alive /\ <<fd, "out">> \in events /\ Pipe(conn[fd])
    /\ alive' = FALSE
    /\ UNCHANGED <<net, backlog, conn, interest, rbuffer, wbuffer, events>>

Server == \/ EpollWait \/ AcceptCb \/ AcceptFails
          \/ \E fd \in Fds : \/ RecvCb(fd) \/ Disconnect(fd) \/ RecvFails(fd)
                             \/ SendCb(fd) \/ SendFails(fd)

Client(c) ==
    /\ Connect(c) \/ Send(c) \/ Shutdown(c) \/ Reset(c)
    /\ UNCHANGED <<interest, rbuffer, wbuffer, events, alive>>

-----------------------------------------------------------------------------
(* What recv_cb has taken from client c and send_cb not yet sent. *)
Pending(c) ==
    IF \E fd \in Fds : conn[fd] = c /\ interest[fd] = "out"
      THEN wbuffer[CHOOSE fd \in Fds : conn[fd] = c] ELSE <<>>

(* The echo: what was sent back, what waits in wbuffer and what waits in   *)
(* the socket are together the client's bytes, in order: none lost or      *)
(* doubled over any number of partial reads, and none of another client's, *)
(* also on a descriptor that was closed and reused.                        *)
EchoInOrder ==
    \A c \in Clients :
        IF peer[c] # "reset" THEN out[c] \o Pending(c) \o inq[c] = Bytes(c, sent[c])
                             ELSE IsPrefix(out[c], Bytes(c, sent[c]))

(* No callback blocks the only thread: an event of the batch still holds   *)
(* when its turn comes, after any other callbacks of the batch, so the     *)
(* blocking accept and recv return at once.                                *)
NoBlockingCall ==
    /\ <<Listener, "in">> \in events => backlog # <<>>
    /\ \A fd \in Fds :
         /\ <<fd, "in">> \in events => conn[fd] # NoClient /\ interest[fd] = "in" /\ Readable(conn[fd])
         /\ <<fd, "out">> \in events => conn[fd] # NoClient /\ interest[fd] = "out"

(* Every byte of an accepted client is sent back, although the other       *)
(* clients send on and accept may keep failing, unless it resets or the    *)
(* server dies of a reset.                                                 *)
Answered ==
    \A c \in Clients : \A n \in 1..MaxBytes :
        (Accepted(c) /\ sent[c] >= n) ~> (Len(out[c]) >= n \/ peer[c] = "reset" \/ ~alive)

(* A client that has shut down is disconnected and its descriptor freed. *)
Closed == \A c \in Clients : (Accepted(c) /\ peer[c] = "fin") ~> (~Accepted(c) \/ ~alive)
=============================================================================
