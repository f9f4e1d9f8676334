------------------------------- MODULE Sockets -------------------------------
(***************************************************************************)
(* What the servers of the repository use of the kernel: TCP connections   *)
(* with their clients, the accept queue of the listening socket and the    *)
(* process's descriptors.  Byte n of client c is the pair <<c, n>>.  The   *)
(* send buffers never fill up.                                             *)
(***************************************************************************)
EXTENDS Integers, Sequences, SequencesExt

CONSTANTS
    Clients,        \* connections, each made once
    NoClient,
    Fds,            \* the descriptors the process may open for clients
    Listener,       \* the listening descriptor
    MaxBytes        \* bound: what a client sends

ASSUME NamesAssumption == NoClient \notin Clients /\ Listener \notin Fds
ASSUME FdsAssumption == Fds \subseteq Nat

VARIABLES
    peer,           \* each client: "new", "open", "fin" (it has shut down writing) or "reset"
    sent,           \* how many bytes each client has sent
    inq,            \* the receive queue of each client's socket in the server
    sk_err,         \* clients whose socket has an unreported ECONNRESET
    out,            \* what the server has sent each client
    backlog,        \* the accept queue
    conn            \* the client behind each descriptor, or NoClient

net == <<peer, sent, inq, sk_err, out>>
sockets == <<net, backlog, conn>>

SocketsInit ==
    /\ peer = [c \in Clients |-> "new"] /\ sent = [c \in Clients |-> 0]
    /\ inq = [c \in Clients |-> <<>>] /\ sk_err = {}
    /\ out = [c \in Clients |-> <<>>]
    /\ backlog = <<>> /\ conn = [fd \in Fds |-> NoClient]
-----------------------------------------------------------------------------
(* The clients: connect, send a byte, shut down writing, reset. *)
Connect(c) ==
    /\ peer[c] = "new"
    /\ peer' = [peer EXCEPT ![c] = "open"]
    /\ backlog' = Append(backlog, c)
    /\ UNCHANGED <<sent, inq, sk_err, out, conn>>

Send(c) ==
    /\ peer[c] = "open" /\ sent[c] < MaxBytes
    /\ sent' = [sent EXCEPT ![c] = @ + 1]
    /\ inq' = [inq EXCEPT ![c] = Append(@, <<c, sent[c] + 1>>)]
    /\ UNCHANGED <<peer, sk_err, out, backlog, conn>>

Shutdown(c) ==
    /\ peer[c] = "open"
    /\ peer' = [peer EXCEPT ![c] = "fin"]
    /\ UNCHANGED <<sent, inq, sk_err, out, backlog, conn>>

Reset(c) ==
    /\ peer[c] = "open"
    /\ peer' = [peer EXCEPT ![c] = "reset"]
    /\ sk_err' = sk_err \cup {c}
    /\ UNCHANGED <<sent, inq, out, backlog, conn>>
-----------------------------------------------------------------------------
(* accept: the oldest connection gets the lowest free descriptor. *)
FreeFds == {fd \in Fds : conn[fd] = NoClient}
ClientFd == CHOOSE fd \in FreeFds : \A f \in FreeFds : fd <= f
Accept ==
    /\ backlog' = Tail(backlog)
    /\ conn' = [conn EXCEPT ![ClientFd] = Head(backlog)]

(* recv on the socket of client c: data, the end of the stream, an error,  *)
(* or nothing yet.                                                         *)
Readable(c) == inq[c] # <<>> \/ peer[c] \in {"fin", "reset"}
StreamEnd(c) ==
    inq[c] = <<>> /\ (peer[c] = "fin" \/ (peer[c] = "reset" /\ c \notin sk_err))
StreamError(c) == inq[c] = <<>> /\ c \in sk_err
RecvCount(c, room) == IF Len(inq[c]) < room THEN Len(inq[c]) ELSE room
Received(c, n) == SubSeq(inq[c], 1, n)
Consume(c, n) == inq' = [inq EXCEPT ![c] = SubSeq(@, n + 1, Len(@))]

(* send on it: a reset is reported first as an error, then as EPIPE with   *)
(* SIGPIPE.                                                                *)
Pipe(c) == peer[c] = "reset" /\ c \notin sk_err
Transmit(c, bytes) ==
    /\ out' = IF c \in sk_err THEN out ELSE [out EXCEPT ![c] = @ \o bytes]
    /\ sk_err' = sk_err \ {c}

Bytes(c, n) == [i \in 1..n |-> <<c, i>>]
Accepted(c) == \E fd \in Fds : conn[fd] = c
=============================================================================
