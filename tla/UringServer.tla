----------------------------- MODULE UringServer -----------------------------
(***************************************************************************)
(* mycode/io_uring/io_uring.c: an echo server on io_uring.  Every accepted *)
(* connection starts a chain of requests, recv, send, recv and so on, with *)
(* one of them outstanding at any time; the chain never ends, also when    *)
(* its descriptor was closed, and goes on with the connection that gets    *)
(* the same descriptor next.  All requests use one buffer.  The kernel     *)
(* completes submitted requests in any order.  The process has a           *)
(* descriptor for every client: accept never fails for want of one.  (The  *)
(* address that accept fills in is that of a parameter of                  *)
(* set_accept_event; the model takes it to be unused.)                     *)
(***************************************************************************)
EXTENDS Sockets

CONSTANT BufferLength   \* 1024

VARIABLES
    ring,       \* ring[c]: the request of the chain that client c's connection started,
                \* ring[Listener]: the accept request
    buffer      \* the bytes in the shared buffer

uring == <<ring, buffer>>

NoFd == 0               \* never a client's: it stays open as standard input
Junk == <<"junk", 0>>   \* a byte from behind the buffer

ASSUME UringAssumption ==
    Listener \notin Clients /\ NoFd \notin Fds /\ BufferLength \in Nat \ {0}

(* A request: connfd and type as in conninfo; the connection that its      *)
(* descriptor named when it was submitted; its length, or its result; and  *)
(* where it is: "prepared", "submitted" or "done".                         *)
Request(type, fd, n) == [type |-> type, fd |-> fd, sock |-> NoClient, n |-> n, stage |-> "prepared"]
NoRequest == [Request("none", NoFd, 0) EXCEPT !.stage = "none"]

set_accept_event == Request("accept", NoFd, 0)
set_recv_event(fd) == Request("read", fd, 0)
set_send_event(fd, len) == Request("write", fd, len)

UringInit ==
    /\ ring = [k \in Clients \cup {Listener} |-> IF k = Listener THEN set_accept_event ELSE NoRequest]
    /\ buffer = <<>>

In(stage) == {k \in DOMAIN ring : ring[k].stage = stage}
Complete(k, n) == [ring EXCEPT ![k].stage = "done", ![k].n = n]
-----------------------------------------------------------------------------
(* io_uring_submit: the kernel looks the descriptors up. *)
Submit ==
    /\ In("prepared") # {}
    /\ ring' = [k \in DOMAIN ring |->
                  IF ring[k].stage # "prepared" THEN ring[k]
                  ELSE [ring[k] EXCEPT !.stage = "submitted",
                                       !.sock = IF ring[k].fd = NoFd THEN NoClient ELSE conn[ring[k].fd]]]
    /\ UNCHANGED <<sockets, buffer>>

(* What follows a completed request.  An accept: the next one (and the     *)
(* first recv of the new connection, in Batch).  A recv: a send of as many *)
(* bytes as were read, a negative number after an error.  A send: the next *)
(* recv.                                                                   *)
OnAccept == set_accept_event
OnRead(c) == set_send_event(ring[c].fd, ring[c].n)

(* Mutant: a send ends the chain. *)
OnWriteEnds(c) == [ring[c] EXCEPT !.stage = "none"]

OnWrite(c) == set_recv_event(ring[c].fd)

(* A connection that accept has returned and that has no chain yet. *)
Fresh(c) == ring[c].type = "none" /\ ring[c].fd # NoFd

(* io_uring_wait_cqe, io_uring_peek_batch_cqe, which has room for all, and *)
(* the loop over the batch.  It touches nothing that the kernel sees but   *)
(* the descriptors that it closes, those of the streams that have ended.   *)
Batch ==
    /\ In("prepared") = {} /\ In("done") # {}
    /\ ring' = [k \in DOMAIN ring |->
                  IF k \notin In("done") THEN IF k # Listener /\ Fresh(k) THEN set_recv_event(ring[k].fd) ELSE ring[k]
                  ELSE IF k = Listener THEN OnAccept
                  ELSE IF ring[k].type = "read" THEN OnRead(k) ELSE OnWrite(k)]
    /\ conn' = [fd \in Fds |->
                  IF \E c \in In("done") : ring[c].type = "read" /\ ring[c].fd = fd /\ ring[c].n = 0
                    THEN NoClient ELSE conn[fd]]
    /\ UNCHANGED <<net, backlog, buffer>>

UringMain == Submit \/ Batch
-----------------------------------------------------------------------------
(* The kernel: a submitted request that can be completed. *)
Submitted(k, type) == ring[k].stage = "submitted" /\ ring[k].type = type

DoAccept ==
    /\ Submitted(Listener, "accept") /\ backlog # <<>> /\ FreeFds # {}
    /\ Accept
    /\ ring' = [Complete(Listener, 0) EXCEPT ![Head(backlog)].fd = ClientFd]
    /\ UNCHANGED <<net, buffer>>

DoRecv(c) ==
    LET s == ring[c].sock IN
    /\ Submitted(c, "read") /\ s # NoClient /\ inq[s] # <<>>
    /\ LET n == RecvCount(s, BufferLength) IN
       /\ Consume(s, n)
       /\ buffer' = Received(s, n) \o SubSeq(buffer, n + 1, Len(buffer))
       /\ ring' = Complete(c, n)
    /\ UNCHANGED <<peer, sent, sk_err, out, backlog, conn>>

DoRecvEnd(c) ==
    LET s == ring[c].sock IN
    /\ Submitted(c, "read") /\ s # NoClient /\ StreamEnd(s)
    /\ ring' = Complete(c, 0)
    /\ UNCHANGED <<sockets, buffer>>

(* A reset, or a descriptor that was closed. *)
DoRecvFails(c) ==
    LET s == ring[c].sock IN
    /\ Submitted(c, "read")
    /\ s # NoClient => StreamError(s)
    /\ sk_err' = sk_err \ {s}
    /\ ring' = Complete(c, -1)
    /\ UNCHANGED <<peer, sent, inq, out, backlog, conn, buffer>>

(* The bytes that are in the buffer now; a negative length is a huge one,  *)
(* which sends what lies behind the buffer or nothing.  (io_uring raises   *)
(* no SIGPIPE.)                                                            *)
DoSend(c) ==
    LET s == ring[c].sock  n == ring[c].n IN
    /\ Submitted(c, "write")
    /\ IF s = NoClient \/ Pipe(s) THEN UNCHANGED <<out, sk_err>>
       ELSE \/ n >= 0 /\ Transmit(s, SubSeq(buffer, 1, n))
            \/ n < 0 /\ \E bytes \in {<<>>, Append(buffer, Junk)} : Transmit(s, bytes)
    /\ ring' = Complete(c, 0)
    /\ UNCHANGED <<peer, sent, inq, backlog, conn, buffer>>

UringKernel(c) == DoRecv(c) \/ DoRecvEnd(c) \/ DoRecvFails(c) \/ DoSend(c)
-----------------------------------------------------------------------------
(* The descriptor of client c's connection is used by its own chain only. *)
OneChain(c) == \A d \in Clients : ring[d].fd = ring[c].fd => d = c

(* What the chain has read and not yet sent. *)
Read(c) ==
    LET r == ring[c] IN
    IF r.n > 0 /\ (r.type = "read" \/ r.stage \in {"prepared", "submitted"}) THEN r.n ELSE 0

(* As long as a descriptor is not reused, its client gets back as many     *)
(* bytes as it has sent, none lost or counted twice.  Whose bytes they are *)
(* is another matter, since the buffer is shared: its own, in order, if no *)
(* other client has connected.                                             *)
UringEchoes ==
    \A c \in Clients : (OneChain(c) /\ peer[c] # "reset") =>
        /\ Len(out[c]) + Read(c) + Len(inq[c]) = sent[c]
        /\ (\A d \in Clients : d = c \/ peer[d] = "new") =>
              out[c] \o SubSeq(buffer, 1, Read(c)) \o inq[c] = Bytes(c, sent[c])
=============================================================================
