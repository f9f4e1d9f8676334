------------------------------ MODULE Reactors ------------------------------
(***************************************************************************)
(* The three single-threaded servers that answer what they receive: the    *)
(* echo server on epoll, the web server and the echo server on io_uring,   *)
(* with the same clients.  A behaviour is one of one of them.              *)
(***************************************************************************)
EXTENDS WebServer, UringServer

CONSTANT UringBytes     \* bound: what all clients send to the io_uring server

VARIABLE program    \* the server that is running: "echo", "web" or "uring"

allvars == <<vars, uring, program>>

ReactorsInit ==
    /\ program \in {"echo", "web", "uring"}
    /\ IF program = "web" THEN WebInit ELSE Init
    /\ UringInit

EpollStep ==
    /\ \/ program = "echo" /\ Server
       \/ program = "web" /\ WebStep
    /\ UNCHANGED <<uring, program>>

UringStep(a) == program = "uring" /\ a /\ UNCHANGED <<interest, rbuffer, wbuffer, events, alive, program>>

ReactorClient(c) ==
    /\ Client(c) /\ UNCHANGED <<uring, program>>
    /\ program = "uring" => MapThenSumSet(LAMBDA d : sent'[d], Clients) <= UringBytes

ReactorsNext ==
    \/ EpollStep
    \/ UringStep(UringMain) \/ UringStep(DoAccept) \/ \E c \in Clients : UringStep(UringKernel(c))
    \/ \E c \in Clients : ReactorClient(c)

(* The server's thread runs, and the kernel completes what it can; a       *)
(* client need do nothing.                                                 *)
ReactorsSpec ==
    /\ ReactorsInit /\ [][ReactorsNext]_allvars
    /\ WF_allvars(EpollStep)
    /\ WF_allvars(UringStep(UringMain)) /\ WF_allvars(UringStep(DoAccept))
    /\ \A c \in Clients : WF_allvars(UringStep(UringKernel(c)))
-----------------------------------------------------------------------------
(* The promise of an echo server: EchoInOrder for reactor.c; for the       *)
(* io_uring server, with its one buffer, only UringEchoes.                 *)
Echoes ==
    /\ program = "echo" => EchoInOrder
    /\ program = "uring" => UringEchoes

(* The web server's books: what it has received of an accepted client and  *)
(* what waits in the socket are the client's bytes in order, of this       *)
(* client only although descriptors and buffers are reused; so it hangs up *)
(* on a client that still talks only after BUFFER_LENGTH bytes.            *)
Requests ==
    program = "web" => \A fd \in Fds : conn[fd] # NoClient =>
        rbuffer[fd] \o inq[conn[fd]] = Bytes(conn[fd], sent[conn[fd]])

(* The echo servers answer every byte; the web server answers a client     *)
(* that has sent something; all although other clients send on and accept  *)
(* may keep failing, unless the client resets, the server dies, or the     *)
(* io_uring server has reused the descriptor.                              *)
EveryoneAnswered ==
    /\ program = "echo" => Answered
    /\ program = "web" => \A c \in Clients :
         (Accepted(c) /\ sent[c] > 0) ~> (out[c] # <<>> \/ peer[c] = "reset" \/ ~alive)
    /\ program = "uring" => \A c \in Clients : \A n \in 1..UringBytes :
         (Accepted(c) /\ sent[c] >= n) ~> (Len(out[c]) >= n \/ peer[c] = "reset" \/ ~OneChain(c))
=============================================================================
