----------------------------- MODULE EpollServer -----------------------------
(***************************************************************************)
(* NetwokDesign/coroutine/server_mulport_epoll.c: the C1000K server on top *)
(* of its thread pool, WorkQueue, and of Sockets.  main waits for          *)
(* edge-triggered events, accepts, and gives every other event to the pool *)
(* as a job (or, once nRun is set, serves it itself).  Nothing stops two   *)
(* jobs from working on one descriptor, or a job from working on one that  *)
(* is closed or reused.  A system call or an access to a shared variable   *)
(* is a step.  main never shuts the pool down.  Job <<fd, k>> is the kth   *)
(* live job for fd.  The listening sockets differ in nothing but their     *)
(* port: there is one.                                                     *)
(***************************************************************************)
EXTENDS WorkQueue, Sockets

CONSTANTS
    MainThread,     \* the thread that runs main
    MAX_BUFFER,
    LetterA,        \* the positions of the bytes 'a' in what a client sends
    OneByte,        \* bound: the clients that send no more than a byte
    RunLimit,       \* the number of connections after which nRun is set
    JobsPerFd       \* bound: the live jobs for a descriptor

ASSUME MainAssumption == MainThread \notin Workers
ASSUME MaxBufferAssumption == MAX_BUFFER \in Nat \ {0}

VARIABLES
    ready,          \* the ready list of epoll: descriptors with an edge not yet fetched
    events,         \* the rest of main's batch
    curfds, nRun,
    at, buf, reg,   \* each thread: its place in a job or in the counting, the bytes it
                    \* has read, and the register of its unlocked ++ or --
    serving,        \* the descriptor that main registers or serves, or None
    running         \* FALSE once main has returned

server == <<ready, events, curfds, nRun, at, buf, reg, serving, running>>
allvars == <<vars, sockets, server>>

ServerThreads == Workers \cup {MainThread}
FdJobs == Fds \X (1..JobsPerFd)
Junk == <<"junk", 0>>   \* a byte past the end of the buffer

ASSUME FdJobsAssumption == FdJobs \subseteq Jobs

ServerInit ==
    /\ Init /\ SocketsInit
    /\ ready = {} /\ events = {} /\ curfds = 1 /\ nRun = FALSE
    /\ at = [t \in ServerThreads |-> "idle"] /\ buf = [t \in ServerThreads |-> <<>>]
    /\ reg = [t \in ServerThreads |-> 0] /\ serving = None /\ running = TRUE

Goto(t, place) == at' = [at EXCEPT ![t] = place]

(* Every arrival at a registered socket is a new edge. *)
Edge(c) == ready' = ready \cup {fd \in Fds : conn[fd] = c /\ ~(serving = fd /\ at[MainThread] = "inc")}

Client(c) ==
    /\ \/ Connect(c) /\ ready' = ready \cup {Listener}
       \/ Send(c) /\ (c \in OneByte => sent[c] = 0) /\ Edge(c)
       \/ (Shutdown(c) \/ Reset(c)) /\ Edge(c)
    /\ UNCHANGED <<vars, events, curfds, nRun, at, buf, reg, serving, running>>
-----------------------------------------------------------------------------
(* epoll_wait with room for curfds events; each is fetched once. *)
EpollWait ==
    /\ at[MainThread] = "idle" /\ events = {} /\ ready # {} /\ curfds > 0
    /\ \E batch \in SUBSET ready :
         /\ Cardinality(batch) = IF Cardinality(ready) < curfds THEN Cardinality(ready) ELSE curfds
         /\ events' = batch
         /\ ready' = ready \ batch
    /\ UNCHANGED <<vars, sockets, curfds, nRun, at, buf, reg, serving, running>>

(* With room for none, epoll_wait returns -1 and main leaves its loop. *)
EpollFails ==
    /\ at[MainThread] = "idle" /\ events = {} /\ curfds <= 0
    /\ running' = FALSE
    /\ UNCHANGED <<vars, sockets, ready, events, curfds, nRun, at, buf, reg, serving>>

(* The event of the listening socket: one accept.  It also reads curfds.  *)
AcceptClient ==
    /\ at[MainThread] = "idle" /\ Listener \in events /\ backlog # <<>> /\ FreeFds # {}
    /\ events' = events \ {Listener}
    /\ Accept
    /\ serving' = ClientFd
    /\ reg' = [reg EXCEPT ![MainThread] = curfds] /\ Goto(MainThread, "inc")
    /\ UNCHANGED <<vars, net, ready, curfds, nRun, buf, running>>

(* A failed accept ends the program. *)
AcceptFails ==
    /\ at[MainThread] = "idle" /\ Listener \in events
    /\ running' = FALSE
    /\ UNCHANGED <<vars, sockets, ready, events, curfds, nRun, at, buf, reg, serving>>

(* curfds ++ is stored, nRun set, and the descriptor registered; a socket  *)
(* is writable at once, so that is its first edge.                         *)
Register ==
    /\ at[MainThread] = "inc"
    /\ curfds' = reg[MainThread] + 1
    /\ nRun' = (nRun \/ reg[MainThread] > RunLimit)
    /\ ready' = IF conn[serving] = NoClient THEN ready ELSE ready \cup {serving}
    /\ serving' = None /\ reg' = [reg EXCEPT ![MainThread] = 0] /\ Goto(MainThread, "idle")
    /\ UNCHANGED <<vars, sockets, events, buf, running>>

(* Mutant: an event for a descriptor that has a job already is dropped. *)
AddClientJobBusy(fd) ==
    /\ at[MainThread] = "idle" /\ fd \in events /\ ~nRun
    /\ IF <<fd, 1>> \in Live THEN UNCHANGED vars ELSE AddJob(<<fd, 1>>)
    /\ events' = events \ {fd}
    /\ UNCHANGED <<sockets, ready, curfds, nRun, at, buf, reg, serving, running>>

(* Any other event: a new job for the pool ... *)
AddClientJob(fd) ==
    /\ at[MainThread] = "idle" /\ fd \in events /\ ~nRun
    /\ \E k \in 1..JobsPerFd :
         /\ \A i \in 1..(k - 1) : <<fd, i>> \in Live
         /\ AddJob(<<fd, k>>)
    /\ events' = events \ {fd}
    /\ UNCHANGED <<sockets, ready, curfds, nRun, at, buf, reg, serving, running>>

(* ... or client_data_process, which is client_job without the pool. *)
ServeInline(fd) ==
    /\ at[MainThread] = "idle" /\ fd \in events /\ nRun
    /\ events' = events \ {fd}
    /\ serving' = fd /\ Goto(MainThread, "recv")
    /\ UNCHANGED <<vars, sockets, ready, curfds, nRun, buf, reg, running>>
-----------------------------------------------------------------------------
(* A worker takes a job; what its thread does then is client_job. *)
TakeJob(w) ==
    /\ Take(w) /\ Goto(w, "recv")
    /\ UNCHANGED <<sockets, ready, events, curfds, nRun, buf, reg, serving, running>>

Fd(t) == IF t = MainThread THEN serving ELSE job[t][1]
Peer(t) == conn[Fd(t)]

(* The end of client_job, which frees it, or of client_data_process; it is *)
(* part of the last step that other threads can see.                       *)
End(t) ==
    /\ IF t = MainThread THEN serving' = None /\ UNCHANGED vars ELSE Finish(t) /\ UNCHANGED serving
    /\ Goto(t, "idle") /\ buf' = [buf EXCEPT ![t] = <<>>]

Continue(t, place, b) ==
    /\ Goto(t, place) /\ buf' = [buf EXCEPT ![t] = b]
    /\ UNCHANGED <<vars, serving>>

(* What follows nRecv: an echo if the first byte is 'a' or nRun is set,    *)
(* the end of the connection after ENOTCONN without a byte, or nothing.    *)
AfterRecv(t, b, notconn) ==
    IF b # <<>> /\ (nRun \/ b[1][2] \in LetterA) THEN Continue(t, "send", b)
    ELSE IF b = <<>> /\ notconn THEN Continue(t, "dec", b) ELSE End(t)

local == <<curfds, nRun, reg, events, running>>

(* Mutant: the bytes stay in the receive queue. *)
RecvBytesPeek(t) ==
    /\ at[t] = "recv" /\ Peer(t) # NoClient /\ inq[Peer(t)] # <<>>
    /\ LET n == RecvCount(Peer(t), MAX_BUFFER - Len(buf[t]))
           b == buf[t] \o Received(Peer(t), n)
       IN  IF Len(b) < MAX_BUFFER THEN Continue(t, "recv", b) ELSE AfterRecv(t, b, FALSE)
    /\ UNCHANGED <<sockets, ready, local>>

(* nRecv: recv returns bytes; it goes on unless the buffer is full. *)
RecvBytes(t) ==
    /\ at[t] = "recv" /\ Peer(t) # NoClient /\ inq[Peer(t)] # <<>>
    /\ LET n == RecvCount(Peer(t), MAX_BUFFER - Len(buf[t]))
           b == buf[t] \o Received(Peer(t), n)
       IN  /\ Consume(Peer(t), n)
           /\ IF Len(b) < MAX_BUFFER THEN Continue(t, "recv", b) ELSE AfterRecv(t, b, FALSE)
    /\ UNCHANGED <<peer, sent, sk_err, out, backlog, conn, ready, local>>

(* recv returns 0: ENOTCONN. *)
RecvZero(t) ==
    /\ at[t] = "recv" /\ Peer(t) # NoClient /\ StreamEnd(Peer(t))
    /\ AfterRecv(t, buf[t], TRUE)
    /\ UNCHANGED <<sockets, ready, local>>

(* recv returns -1: nothing yet, a reset, or a closed descriptor. *)
RecvFails(t) ==
    /\ at[t] = "recv"
    /\ Peer(t) # NoClient => StreamError(Peer(t)) \/ ~Readable(Peer(t))
    /\ sk_err' = sk_err \ {Peer(t)}
    /\ Continue(t, "poll", buf[t])
    /\ UNCHANGED <<peer, sent, inq, out, backlog, conn, ready, local>>


(* nRecv's poll: POLLHUP is ENOTCONN, a closed descriptor (POLLNVAL) and   *)
(* input lead back to recv, and 5 ms without either end it.                *)
Poll(t) ==
    /\ at[t] = "poll"
    /\ IF Peer(t) = NoClient THEN Continue(t, "recv", buf[t])
       ELSE IF peer[Peer(t)] = "reset" THEN AfterRecv(t, buf[t], TRUE)
       ELSE IF Readable(Peer(t)) THEN Continue(t, "recv", buf[t])
       ELSE AfterRecv(t, buf[t], FALSE)
    /\ UNCHANGED <<sockets, ready, local>>

(* nSend of strlen(buffer) bytes: a full buffer has no terminator, and     *)
(* strlen may run on.  POLLHUP stops it, a closed descriptor fails it.     *)
SendEcho(t) ==
    /\ at[t] = "send"
    /\ IF Peer(t) = NoClient \/ peer[Peer(t)] = "reset" THEN UNCHANGED <<out, sk_err>>
       ELSE \E tail \in {<<>>, <<Junk>>} :
              /\ Len(buf[t]) < MAX_BUFFER => tail = <<>>
              /\ Transmit(Peer(t), buf[t] \o tail)
    /\ End(t)
    /\ UNCHANGED <<peer, sent, inq, backlog, conn, ready, local>>

(* curfds --: read; then store, and close whatever the descriptor is now. *)
ReadCurfds(t) ==
    /\ at[t] = "dec"
    /\ reg' = [reg EXCEPT ![t] = curfds] /\ Continue(t, "close", buf[t])
    /\ UNCHANGED <<sockets, ready, curfds, nRun, events, running>>

CloseClient(t) ==
    /\ at[t] = "close"
    /\ curfds' = reg[t] - 1 /\ reg' = [reg EXCEPT ![t] = 0]
    /\ conn' = [conn EXCEPT ![Fd(t)] = NoClient]
    /\ ready' = ready \ {Fd(t)}
    /\ End(t)
    /\ UNCHANGED <<net, backlog, nRun, events, running>>

WorkerWait(w) == Wait(w) /\ UNCHANGED <<sockets, server>>

JobStep(t) == \/ RecvBytes(t) \/ RecvZero(t) \/ RecvFails(t) \/ Poll(t) \/ SendEcho(t)
              \/ ReadCurfds(t) \/ CloseClient(t)
PoolStep(w) == TakeJob(w) \/ WorkerWait(w) \/ JobStep(w)
MainStep == \/ EpollWait \/ EpollFails \/ AcceptClient \/ AcceptFails \/ Register
            \/ (\E fd \in Fds : AddClientJob(fd) \/ ServeInline(fd)) \/ JobStep(MainThread)

ServerNext ==
    /\ running
    /\ MainStep \/ (\E w \in Workers : PoolStep(w)) \/ (\E c \in Clients : Client(c))

(* Every thread runs when it can; a client need do nothing. *)
ServerSpec ==
    /\ ServerInit /\ [][ServerNext]_allvars
    /\ WF_allvars(running /\ MainStep)
    /\ \A w \in Workers : WF_allvars(running /\ PoolStep(w))
-----------------------------------------------------------------------------
(* No edge is lost: while a connection whose bytes fit the buffer has some *)
(* that nobody has read, epoll or main's batch still hold an event for it, *)
(* or a thread, or a job, is going to read; however many jobs work on the  *)
(* descriptor, and although it may have been closed and reused under them. *)
(* (nRecv stops at a full buffer: the rest of a longer message waits, with *)
(* no edge, until more arrives.)                                           *)
NoLostEdge ==
    running => \A fd \in Fds :
        (conn[fd] # NoClient /\ inq[conn[fd]] # <<>> /\ sent[conn[fd]] <= MAX_BUFFER) =>
            \/ fd \in ready \cup events
            \/ \E j \in Range(waiting_jobs) : j[1] = fd
            \/ \E t \in ServerThreads : at[t] \in {"inc", "recv", "poll"} /\ Fd(t) = fd

(* A byte is in one place only: unread, in the buffer of one thread, or    *)
(* sent back, and that once, although two jobs may read from one socket.   *)
(* (It may be sent to another client than its own.)                        *)
Places(b) ==
    {<<"inq", c>> : c \in {d \in Clients : b \in Range(inq[d])}}
        \cup {<<"buf", t>> : t \in {u \in ServerThreads : b \in Range(buf[u])}}
        \cup UNION {{<<"out", c, i>> : i \in {k \in 1..Len(out[c]) : out[c][k] = b}} : c \in Clients}
BytesOnce ==
    \A c \in Clients : \A n \in 1..sent[c] : Cardinality(Places(<<c, n>>)) <= 1

=============================================================================
