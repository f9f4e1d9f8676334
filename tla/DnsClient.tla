------------------------------ MODULE DnsClient ------------------------------
(***************************************************************************)
(* NetwokDesign/coroutine/async_dns_client_noblock.c: main commits one     *)
(* request after the other, each on a UDP socket of its own, and a second  *)
(* thread waits for the answers and calls the callbacks.  The two share    *)
(* the epoll instance and the descriptors.  The name server and the        *)
(* network, which loses, delays and duplicates datagrams, are external.    *)
(* Messages are the subject of DnsMessage: here an answer is the request   *)
(* that it answers.  There is no time-out and no retry in the code.        *)
(***************************************************************************)
EXTENDS Integers, Sequences, FiniteSets, SequencesExt

CONSTANTS
    Requests,       \* 1..n: the domains that main asks for, in order
    Fds, Ports,     \* what the kernel can give to sockets
    Nobody,         \* not a request
    MaxCopies,      \* bound: the answers that the network duplicates
    ASYNC_CLIENT_NUM

ASSUME RequestsAssumption ==
    IsFiniteSet(Requests) /\ Requests = 1..Cardinality(Requests) /\ Nobody \notin Requests
ASSUME FdsAssumption == Fds \subseteq Nat
ASSUME PortsAssumption == Ports # {}
ASSUME BatchAssumption == ASYNC_CLIENT_NUM \in Nat \ {0}

VARIABLES
    committed,      \* the requests for which dns_async_client_commit has been called
    step,           \* main: "call", or "add" between sendto and epoll_ctl
    asked,          \* requests on their way to the name server
    answers,        \* answers on their way: <<request, port>>
    copied,         \* the requests whose answer was duplicated
    sock,           \* sock[fd]: the request whose socket it is, or Nobody
    port,           \* port[r]: the local port of r's socket
    rcvq,           \* rcvq[r]: what r's socket has received: answers, or Nobody for an ICMP error
    interest,       \* the requests whose sockets are registered, with their ep_arg
    events,         \* the rest of the thread's batch of ep_args
    cb,             \* cb[r]: what r's callback was given, one entry for each call
    alive           \* FALSE after exit(-1)

network == <<asked, answers, copied>>
vars == <<committed, step, network, sock, port, rcvq, interest, events, cb, alive>>

(* dns_async_client_init: the epoll instance and the thread. *)
Init ==
    /\ committed = 0 /\ step = "call" /\ alive = TRUE
    /\ asked = {} /\ answers = {} /\ copied = {}
    /\ sock = [fd \in Fds |-> Nobody] /\ port = [r \in Requests |-> CHOOSE p \in Ports : TRUE]
    /\ rcvq = [r \in Requests |-> <<>>]
    /\ interest = {} /\ events = <<>>
    /\ cb = [r \in Requests |-> <<>>]

Open(r) == \E fd \in Fds : sock[fd] = r
FdOf(r) == CHOOSE fd \in Fds : sock[fd] = r
FreeFds == {fd \in Fds : sock[fd] = Nobody}
FreePorts == {p \in Ports : \A r \in Requests : Open(r) => port[r] # p}
-----------------------------------------------------------------------------
(* dns_async_client_commit up to sendto: connect gives the socket a port.  *)
(* main calls it for the next domain whatever the last call returned.      *)
Commit ==
    LET r == committed + 1
        fd == CHOOSE f \in FreeFds : \A g \in FreeFds : f <= g
    IN  /\ step = "call" /\ r \in Requests /\ FreeFds # {}
        /\ committed' = r
        /\ sock' = [sock EXCEPT ![fd] = r]
        /\ \E p \in FreePorts : port' = [port EXCEPT ![r] = p]
        /\ asked' = asked \cup {r}
        /\ step' = "add"
        /\ UNCHANGED <<answers, copied, rcvq, interest, events, cb, alive>>

(* socket() fails: exit(-1). *)
CommitExits ==
    /\ step = "call" /\ committed + 1 \in Requests /\ FreeFds = {}
    /\ alive' = FALSE
    /\ UNCHANGED <<committed, step, network, sock, port, rcvq, interest, events, cb>>

(* Mutant: the socket is closed when there is no memory for the ep_arg. *)
CommitFailsClosing ==
    /\ step = "add"
    /\ step' = "call"
    /\ sock' = [sock EXCEPT ![FdOf(committed)] = Nobody]
    /\ UNCHANGED <<committed, network, port, rcvq, interest, events, cb, alive>>

(* No memory for the ep_arg: return -1, and the socket stays open. *)
CommitFails ==
    /\ step = "add"
    /\ step' = "call"
    /\ UNCHANGED <<committed, network, sock, port, rcvq, interest, events, cb, alive>>

(* epoll_ctl(EPOLL_CTL_ADD) for EPOLLIN; the answer may be there already. *)
CommitAdds ==
    /\ step = "add"
    /\ interest' = interest \cup {committed}
    /\ step' = "call"
    /\ UNCHANGED <<committed, network, sock, port, rcvq, events, cb, alive>>
-----------------------------------------------------------------------------
(* dns_async_client_proc: epoll_wait, level-triggered, in any order. *)
Ready == {r \in interest : rcvq[r] # <<>>}
EpollWait ==
    /\ events = <<>> /\ Ready # {}
    /\ \E batch \in SUBSET Ready :
         /\ batch # {} /\ Cardinality(batch) <= ASYNC_CLIENT_NUM
         /\ batch = Ready \/ Cardinality(batch) = ASYNC_CLIENT_NUM
         /\ events' \in SetToSeqs(batch)
    /\ UNCHANGED <<committed, step, network, sock, port, rcvq, interest, cb, alive>>

Call(r) ==
    /\ rcvq' = [rcvq EXCEPT ![r] = Tail(@)]
    /\ cb' = [cb EXCEPT ![r] = Append(@, Head(rcvq[r]))]

(* Mutant: the socket is left registered and open. *)
ProcKeeps ==
    /\ events # <<>>
    /\ Call(Head(events))
    /\ events' = Tail(events)
    /\ UNCHANGED <<committed, step, network, sock, port, interest, alive>>

(* Mutant: without an answer there is no callback. *)
ProcSkips ==
    LET r == Head(events) IN
    /\ events # <<>>
    /\ IF Head(rcvq[r]) = Nobody
         THEN rcvq' = [rcvq EXCEPT ![r] = Tail(@)] /\ UNCHANGED <<cb, interest, sock>>
         ELSE /\ Call(r)
              /\ interest' = interest \ {r}
              /\ sock' = [fd \in Fds |-> IF sock[fd] = r THEN Nobody ELSE sock[fd]]
    /\ events' = Tail(events)
    /\ UNCHANGED <<committed, step, network, port, alive>>

(* The loop's body: recvfrom, whose failure is not looked at (an empty     *)
(* buffer has no answers), the callback, EPOLL_CTL_DEL, close and free.    *)
Proc ==
    LET r == Head(events) IN
    /\ events # <<>>
    /\ Call(r)
    /\ interest' = interest \ {r}
    /\ sock' = [fd \in Fds |-> IF sock[fd] = r THEN Nobody ELSE sock[fd]]
    /\ events' = Tail(events)
    /\ UNCHANGED <<committed, step, network, port, alive>>
-----------------------------------------------------------------------------
(* The network: a request is answered, refused (ICMP) or lost; an answer   *)
(* is duplicated, lost, or delivered to the open socket with that port.    *)
Answer(r) ==
    /\ r \in asked /\ asked' = asked \ {r}
    /\ answers' = answers \cup {<<r, port[r]>>}
    /\ UNCHANGED <<committed, step, copied, sock, port, rcvq, interest, events, cb, alive>>

Refuse(r) ==
    /\ r \in asked /\ asked' = asked \ {r}
    /\ rcvq' = [rcvq EXCEPT ![r] = IF Open(r) THEN Append(@, Nobody) ELSE @]
    /\ UNCHANGED <<committed, step, answers, copied, sock, port, interest, events, cb, alive>>

Lose ==
    /\ \/ \E r \in asked : asked' = asked \ {r} /\ UNCHANGED answers
       \/ \E a \in answers : answers' = answers \ {a} /\ UNCHANGED asked
    /\ UNCHANGED <<committed, step, copied, sock, port, rcvq, interest, events, cb, alive>>

Deliver(a) ==
    /\ a \in answers
    /\ answers' = answers \ {a} \/ (a[1] \notin copied /\ Cardinality(copied) < MaxCopies /\ UNCHANGED answers)
    /\ copied' = IF answers' = answers THEN copied \cup {a[1]} ELSE copied
    /\ rcvq' = [r \in Requests |-> IF Open(r) /\ port[r] = a[2] THEN Append(rcvq[r], a[1]) ELSE rcvq[r]]
    /\ UNCHANGED <<committed, step, asked, sock, port, interest, events, cb, alive>>

Main == Commit \/ CommitExits \/ CommitFails \/ CommitAdds
Thread == EpollWait \/ Proc
Network == (\E r \in Requests : Answer(r) \/ Refuse(r)) \/ (\E a \in answers : Deliver(a)) \/ Lose

Next == alive /\ (Main \/ Thread \/ Network)

(* Both threads run when they can; the network owes nothing. *)
Spec == Init /\ [][Next]_vars /\ WF_vars(alive /\ Main) /\ WF_vars(alive /\ Thread)
-----------------------------------------------------------------------------
(* A request's callback is called once at most, and its ep_arg is not used *)
(* after it was freed: an event in the batch is of a request that is still *)
(* registered, on a socket that is still its own.                          *)
CalledOnce ==
    /\ \A r \in Requests : Len(cb[r]) <= 1
    /\ \A i \in 1..Len(events) : events[i] \in interest /\ Open(events[i]) /\ cb[events[i]] = <<>>

(* The id of a response is not compared with that of the request, and      *)
(* ports are used again: still a callback is given its own answer, or an   *)
(* empty list, as long as the network duplicates nothing.  (One copy that  *)
(* is late can give every later request the answer of another.)            *)
OwnAnswer ==
    copied = {} => \A r \in Requests : \A i \in 1..Len(cb[r]) : cb[r][i] \in {r, Nobody}

(* What a registered socket has received, early or late, answer or error,  *)
(* leads to the callback.                                                  *)
CallbackComes ==
    \A r \in Requests : (r \in interest /\ rcvq[r] # <<>>) ~> (cb[r] # <<>> \/ ~alive)
=============================================================================
