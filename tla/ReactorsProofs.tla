---------------------------- MODULE ReactorsProofs ----------------------------
(***************************************************************************)
(* Proofs about the four single-threaded servers, for any clients,         *)
(* descriptors and buffer sizes: no callback of the two epoll loops meets  *)
(* a stale event, the echo servers return what they are sent, the web      *)
(* server's buffers hold one client's bytes each, and the redis-style      *)
(* reactor only starts on live events and survives well-behaved clients.   *)
(***************************************************************************)
EXTENDS Reactors, RedisReactor, SequenceTheorems, WellFoundedInduction, TLAPS

(* The sockets, whichever server runs: types; a connection is in one place, *)
(* the accept queue or one descriptor; what is unread is the end of what    *)
(* the client has sent; an unserved client has lost and been sent nothing.  *)
Byte == Clients \X Nat
Data == Byte \cup {Page, Junk}
SockTypes ==
    /\ peer \in [Clients -> {"new", "open", "fin", "reset"}] /\ sent \in [Clients -> Nat]
    /\ inq \in [Clients -> Seq(Byte)] /\ out \in [Clients -> Seq(Data)]
    /\ backlog \in Seq(Clients) /\ conn \in [Fds -> Clients \cup {NoClient}]
Queued(c) == \E i \in 1..Len(backlog) : backlog[i] = c
Unserved(c) == peer[c] = "new" \/ Queued(c)
Placed ==
    /\ \A i, j \in 1..Len(backlog) : backlog[i] = backlog[j] => i = j
    /\ \A i \in 1..Len(backlog) : peer[backlog[i]] # "new"
    /\ \A fd \in Fds, c \in Clients : conn[fd] = c => ~Unserved(c)
    /\ \A fd, g \in Fds, c \in Clients : conn[fd] = c /\ conn[g] = c => fd = g
From(q, c, k) == \A i \in 1..Len(q) : q[i] = <<c, k + i>>
Taken(c) == sent[c] - Len(inq[c])
Streams == \A c \in Clients : Len(inq[c]) <= sent[c] /\ From(inq[c], c, Taken(c))
Untouched == \A c \in Clients : Unserved(c) => out[c] = <<>> /\ Taken(c) = 0
Errors == \A c \in Clients : c \in sk_err => peer[c] = "reset"
SockInv == SockTypes /\ Placed /\ Streams /\ Untouched /\ Errors

(* The two servers on epoll: a descriptor is watched exactly while it is   *)
(* open, and the events of the batch still hold.                           *)
Sound ==
    /\ <<Listener, "in">> \in events => backlog # <<>>
    /\ \A fd \in Fds : /\ <<fd, "in">> \in events => interest[fd] = "in"
                       /\ <<fd, "out">> \in events => interest[fd] = "out"
    /\ \A fd \in Fds, c \in Clients : <<fd, "in">> \in events /\ conn[fd] = c => Readable(c)
EpollInv ==
    /\ interest \in [Fds -> {"off", "in", "out"}]
    /\ rbuffer \in [Fds -> Seq(Byte)] /\ wbuffer \in [Fds -> Seq(Data)]
    /\ \A fd \in Fds : conn[fd] = NoClient <=> interest[fd] = "off"
    /\ Sound

(* The books of reactor.c, by position. *)
EchoBooks ==
    /\ \A fd \in Fds : rbuffer[fd] = <<>>
    /\ \A c \in Clients : Len(out[c]) <= sent[c] /\ From(out[c], c, 0)
    /\ \A fd \in Fds, c \in Clients : conn[fd] = c /\ interest[fd] = "out" /\ peer[c] # "reset" =>
         Len(out[c]) + Len(wbuffer[fd]) = Taken(c) /\ From(wbuffer[fd], c, Len(out[c]))
    /\ \A c \in Clients :
         peer[c] # "reset" /\ (\A fd \in Fds : conn[fd] = c => interest[fd] # "out") =>
             Len(out[c]) = Taken(c)

WebBooks ==
    \A fd \in Fds, c \in Clients : conn[fd] = c =>
        Len(rbuffer[fd]) = Taken(c) /\ From(rbuffer[fd], c, 0)

(* The chains of the io_uring server. *)
RequestSet == [type : {"none", "accept", "read", "write"}, fd : Fds \cup {NoFd},
             sock : Clients \cup {NoClient}, n : Int,
             stage : {"none", "prepared", "submitted", "done"}]
ChainOf(c) ==
    /\ ring[c].type # "accept"
    /\ ring[c].fd = NoFd <=> Unserved(c)
    /\ ring[c].type = "none" <=> ring[c].stage = "none"
    /\ ring[c].type = "none" => ring[c].n = 0 /\ ring[c].sock = NoClient
    /\ ring[c].type # "none" => ring[c].fd # NoFd
    /\ ring[c].type = "read" /\ ring[c].stage # "done" => ring[c].n = 0
Chains ==
    /\ ring \in [Clients \cup {Listener} -> RequestSet] /\ buffer \in Seq(Byte)
    /\ ring[Listener].type = "accept" /\ ring[Listener].fd = NoFd
    /\ \A c \in Clients : ChainOf(c) /\ Read(c) <= Len(buffer)
    /\ \A c, d \in Clients : ring[c].sock = d => ring[d].fd = ring[c].fd
    /\ \A c \in Clients, fd \in Fds : conn[fd] = c => ring[c].fd = fd

(* A connection whose descriptor was never reused: its bytes are counted,  *)
(* and the descriptor is closed, its requests fail, only after its end.    *)
Solo(c) == ring[c].fd # NoFd /\ OneChain(c) /\ peer[c] # "reset"
Hung(c) == conn[ring[c].fd] = NoClient
Ended(c) == peer[c] = "fin" /\ inq[c] = <<>>
CountOf(c) ==
    /\ Len(out[c]) + Read(c) = Taken(c)
    /\ Hung(c) => Ended(c) /\ Read(c) = 0
    /\ ring[c].stage = "submitted" /\ ring[c].sock = NoClient => Hung(c)
    /\ ring[c].n < 0 => Hung(c) /\ (ring[c].stage = "submitted" => ring[c].sock = NoClient)
    /\ ring[c].type = "read" /\ ring[c].stage = "done" /\ ring[c].n = 0 => Ended(c)
Counts == \A c \in Clients : Solo(c) => CountOf(c)

(* While no other client has connected, the buffer holds its own bytes.    *)
Alone(c) == \A d \in Clients : d = c \/ peer[d] = "new"
ContentOf(c) == From(out[c], c, 0) /\ From(SubSeq(buffer, 1, Read(c)), c, Len(out[c]))
Contents == \A c \in Clients : Solo(c) /\ Alone(c) => ContentOf(c)

Inv ==
    /\ SockInv
    /\ program \in {"echo", "web", "uring"}
    /\ program # "uring" => EpollInv
    /\ program = "echo" => EchoBooks
    /\ program = "web" => WebBooks
    /\ program = "uring" => events = {} /\ Chains /\ Counts /\ Contents
-----------------------------------------------------------------------------
(* Sequences of consecutive bytes of a client, those after its kth.        *)
LEMMA FromEmpty == \A c, k : From(<<>>, c, k)
BY DEF From

LEMMA FromConcat ==
  ASSUME NEW S, NEW a \in Seq(S), NEW b \in Seq(S), NEW c, NEW k \in Int,
         From(a, c, k), From(b, c, k + Len(a))
  PROVE  a \o b \in Seq(S) /\ Len(a \o b) = Len(a) + Len(b) /\ From(a \o b, c, k)
<1>1. /\ a \o b \in Seq(S) /\ Len(a \o b) = Len(a) + Len(b) /\ Len(a) \in Nat /\ Len(b) \in Nat
      /\ \A i \in 1..Len(a) + Len(b) : (a \o b)[i] = IF i <= Len(a) THEN a[i] ELSE b[i - Len(a)]
  BY ConcatProperties
<1>2. ASSUME NEW i \in 1..Len(a) + Len(b) PROVE (a \o b)[i] = <<c, k + i>>
  <2>1. CASE i <= Len(a)
    BY <1>1, <2>1 DEF From
  <2>2. CASE ~(i <= Len(a))
    <3>1. i - Len(a) \in 1..Len(b) /\ (k + Len(a)) + (i - Len(a)) = k + i
      BY <1>1, <2>2
    <3>2. b[i - Len(a)] = <<c, (k + Len(a)) + (i - Len(a))>>
      BY <3>1 DEF From
    <3> QED
      BY <1>1, <2>2, <3>1, <3>2
  <2> QED
    BY <2>1, <2>2
<1> QED
  BY <1>1, <1>2 DEF From

LEMMA FromSplit ==
  ASSUME NEW S, NEW q \in Seq(S), NEW c, NEW k \in Int, From(q, c, k), NEW n \in 0..Len(q)
  PROVE  LET a == SubSeq(q, 1, n)  b == SubSeq(q, n + 1, Len(q)) IN
         /\ a \in Seq(S) /\ Len(a) = n /\ From(a, c, k)
         /\ b \in Seq(S) /\ Len(b) = Len(q) - n /\ From(b, c, k + n)
<1> DEFINE a == SubSeq(q, 1, n)
           b == SubSeq(q, n + 1, Len(q))
<1>1. Len(q) \in Nat /\ n \in Nat /\ n <= Len(q) /\ \A i \in 1..Len(q) : q[i] \in S
  OBVIOUS
<1>2. a \in Seq(S) /\ Len(a) = n /\ \A i \in 1..n : a[i] = q[i]
  <2>1. /\ \A i \in 1..n : q[i] \in S
        /\ (IF 1 <= n THEN n - 1 + 1 ELSE 0) = n /\ n - 1 + 1 = n
        /\ \A i \in 1..n : 1 + i - 1 = i
    BY <1>1
  <2>2. a \in Seq(S) /\ Len(a) = n /\ \A i \in 1..(n - 1 + 1) : a[i] = q[1 + i - 1]
    BY <1>1, <2>1, SubSeqProperties
  <2> QED
    BY <2>1, <2>2
<1>3. b \in Seq(S) /\ Len(b) = Len(q) - n /\ \A i \in 1..(Len(q) - n) : b[i] = q[n + i]
  <2>1. n + 1 \in Int /\ Len(q) \in Int /\ \A i \in (n + 1)..Len(q) : q[i] \in S
    BY <1>1
  <2>2. /\ b \in Seq(S) /\ Len(b) = IF n + 1 <= Len(q) THEN Len(q) - (n + 1) + 1 ELSE 0
        /\ \A i \in 1..(Len(q) - (n + 1) + 1) : b[i] = q[(n + 1) + i - 1]
    BY <2>1, SubSeqProperties
  <2>3. Len(b) = Len(q) - n /\ Len(q) - (n + 1) + 1 = Len(q) - n
    BY <1>1, <2>2
  <2>4. \A i \in 1..(Len(q) - n) : (n + 1) + i - 1 = n + i
    BY <1>1
  <2> QED
    BY <2>2, <2>3, <2>4
<1> HIDE DEF a, b
<1>4. From(a, c, k)
  <2> SUFFICES ASSUME NEW i \in 1..n PROVE a[i] = <<c, k + i>>
    BY <1>2 DEF From
  <2>1. i \in 1..Len(q)
    BY <1>1
  <2> QED
    BY <1>2, <2>1 DEF From
<1>5. From(b, c, k + n)
  <2> SUFFICES ASSUME NEW i \in 1..(Len(q) - n) PROVE b[i] = <<c, (k + n) + i>>
    BY <1>3 DEF From
  <2>1. n + i \in 1..Len(q) /\ k + (n + i) = (k + n) + i
    BY <1>1
  <2>2. q[n + i] = <<c, k + (n + i)>>
    BY <2>1 DEF From
  <2> QED
    BY <1>3, <2>1, <2>2
<1> QED
  BY <1>2, <1>3, <1>4, <1>5 DEF a, b

(* A client's bytes from its first to its nth are all it has sent.         *)
LEMMA AllBytes ==
  ASSUME NEW S, NEW q \in Seq(S), NEW c, NEW n \in Nat, Len(q) = n, From(q, c, 0)
  PROVE  q = Bytes(c, n)
<1>1. DOMAIN q = 1..n /\ q = [i \in DOMAIN q |-> q[i]]
  BY LenProperties
<1>2. \A i \in 1..n : q[i] = <<c, i>>
  BY DEF From
<1>3. [i \in 1..n |-> q[i]] = [i \in 1..n |-> <<c, i>>]
  BY <1>2
<1> QED
  BY <1>1, <1>3 DEF Bytes
-----------------------------------------------------------------------------
(* What the steps of the servers and the clients do to the sockets.        *)
Idles == UNCHANGED <<peer, sent, inq, out, backlog, conn>> /\ sk_err' \subseteq sk_err
Reads(c, n) ==
    n \in 1..Len(inq[c]) /\ Consume(c, n) /\ UNCHANGED <<peer, sent, sk_err, out, backlog, conn>>
Replies(c, bytes) == Transmit(c, bytes) /\ UNCHANGED <<peer, sent, inq, backlog, conn>>
Accepts == backlog # <<>> /\ FreeFds # {} /\ Accept /\ UNCHANGED net
Closes ==
    /\ conn' \in [Fds -> Clients \cup {NoClient}]
    /\ UNCHANGED <<peer, sent, inq, out, backlog>> /\ sk_err' \subseteq sk_err
    /\ \A fd \in Fds : conn'[fd] = conn[fd] \/ conn'[fd] = NoClient
Acts(c) == Connect(c) \/ Send(c) \/ Shutdown(c) \/ Reset(c)

LEMMA Counters ==
  ASSUME SockInv, NEW c \in Clients
  PROVE  /\ sent[c] \in Nat /\ Len(inq[c]) \in Nat /\ Taken(c) \in Nat /\ Len(out[c]) \in Nat
         /\ inq[c] \in Seq(Byte) /\ out[c] \in Seq(Data) /\ Taken(c) = sent[c] - Len(inq[c])
<1>1. inq[c] \in Seq(Byte) /\ out[c] \in Seq(Data) /\ sent[c] \in Nat /\ Len(inq[c]) <= sent[c]
  BY DEF SockInv, SockTypes, Streams
<1>2. Len(inq[c]) \in Nat /\ Len(out[c]) \in Nat
  BY <1>1
<1> QED
  BY <1>1, <1>2 DEF Taken

LEMMA IdlesSockets == ASSUME SockInv, Idles PROVE SockInv'
<1>1. SockTypes' /\ Placed'
  BY DEF Idles, SockInv, SockTypes, Placed, Unserved, Queued
<1>2. Streams' /\ Untouched' /\ Errors'
  BY DEF Idles, SockInv, Streams, Untouched, Errors, Taken, Unserved, Queued
<1> QED
  BY <1>1, <1>2 DEF SockInv

(* The number of bytes that recv returns.                                  *)
LEMMA CountRange ==
  ASSUME SockInv, NEW c \in Clients, inq[c] # <<>>, NEW room \in Nat \ {0}
  PROVE  RecvCount(c, room) \in 1..Len(inq[c]) /\ RecvCount(c, room) <= room
<1>1. Len(inq[c]) \in Nat \ {0}
  BY Counters, EmptySeq
<1> QED
  BY <1>1 DEF RecvCount

(* Reading moves the boundary between what is read and what is not.        *)
LEMMA ReadsSockets ==
  ASSUME SockInv, NEW c \in Clients, ~Unserved(c), NEW n \in Nat, Reads(c, n)
  PROVE  /\ SockInv' /\ Taken(c)' = Taken(c) + n /\ inq' \in [Clients -> Seq(Byte)]
         /\ \A d \in Clients \ {c} : inq'[d] = inq[d] /\ Taken(d)' = Taken(d)
         /\ Received(c, n) \in Seq(Byte) /\ Len(Received(c, n)) = n
         /\ From(Received(c, n), c, Taken(c))
<1> DEFINE q == inq[c]
           r == SubSeq(q, n + 1, Len(q))
<1>1. /\ q \in Seq(Byte) /\ n \in 1..Len(q) /\ Len(q) \in Nat /\ Len(q) <= sent[c] /\ sent[c] \in Nat
      /\ Taken(c) = sent[c] - Len(q) /\ Taken(c) \in Nat /\ From(q, c, Taken(c))
  BY Counters DEF Reads, SockInv, Streams
<1>2. /\ inq' = [inq EXCEPT ![c] = r] /\ inq \in [Clients -> Seq(Byte)] /\ Received(c, n) = SubSeq(q, 1, n)
      /\ UNCHANGED <<peer, sent, sk_err, out, backlog, conn>>
  BY DEF Reads, Consume, Received, SockInv, SockTypes
<1> HIDE DEF q
<1>3. /\ r \in Seq(Byte) /\ Len(r) = Len(q) - n /\ From(r, c, Taken(c) + n)
      /\ Received(c, n) \in Seq(Byte) /\ Len(Received(c, n)) = n /\ From(Received(c, n), c, Taken(c))
  <2>1. n \in 0..Len(q) /\ Taken(c) \in Int /\ q \in Seq(Byte) /\ From(q, c, Taken(c))
    BY <1>1
  <2>2. /\ SubSeq(q, 1, n) \in Seq(Byte) /\ Len(SubSeq(q, 1, n)) = n /\ From(SubSeq(q, 1, n), c, Taken(c))
        /\ r \in Seq(Byte) /\ Len(r) = Len(q) - n /\ From(r, c, Taken(c) + n)
    <3> HIDE DEF Byte
    <3> QED
      BY <2>1, FromSplit
  <2> QED
    BY <1>2, <2>2, Zenon
<1> HIDE DEF r
<1>4. inq' \in [Clients -> Seq(Byte)] /\ inq'[c] = r /\ \A d \in Clients \ {c} : inq'[d] = inq[d]
  BY <1>2, <1>3
<1>5. Taken(c)' = Taken(c) + n /\ \A d \in Clients \ {c} : Taken(d)' = Taken(d)
  <2>1. Taken(c)' = sent[c] - Len(r)
    BY <1>2, <1>4 DEF Taken
  <2>2. \A d \in Clients \ {c} : Taken(d)' = Taken(d)
    BY <1>2, <1>4 DEF Taken
  <2>3. sent[c] - Len(r) = Taken(c) + n
    BY <1>1, <1>3
  <2> QED
    BY <2>1, <2>2, <2>3
<1>6. SockTypes' /\ Placed' /\ Errors'
  BY <1>2, <1>4 DEF SockInv, SockTypes, Placed, Unserved, Queued, Errors
<1>7. Streams'
  <2>1. Len(r) <= sent[c]
    BY <1>1, <1>3
  <2> QED
    BY <1>2, <1>3, <1>4, <1>5, <2>1 DEF SockInv, Streams
<1>8. Untouched'
  BY <1>2, <1>5 DEF SockInv, Untouched, Unserved, Queued
<1> QED
  BY <1>3, <1>4, <1>5, <1>6, <1>7, <1>8 DEF SockInv

(* A reply appends to what the client was sent, unless a reset is pending. *)
LEMMA RepliesSockets ==
  ASSUME SockInv, NEW c \in Clients, ~Unserved(c), NEW bytes \in Seq(Data), Replies(c, bytes)
  PROVE  /\ SockInv' /\ out' \in [Clients -> Seq(Data)] /\ sk_err' \subseteq sk_err
         /\ out'[c] = IF c \in sk_err THEN out[c] ELSE out[c] \o bytes
         /\ \A d \in Clients \ {c} : out'[d] = out[d]
         /\ \A d \in Clients : Taken(d)' = Taken(d)
<1>1. /\ out \in [Clients -> Seq(Data)] /\ UNCHANGED <<peer, sent, inq, backlog, conn>>
      /\ out' = IF c \in sk_err THEN out ELSE [out EXCEPT ![c] = out[c] \o bytes]
      /\ sk_err' \subseteq sk_err
  BY DEF SockInv, SockTypes, Replies, Transmit
<1>2. out[c] \o bytes \in Seq(Data)
  BY <1>1, ConcatProperties
<1>3. /\ out' \in [Clients -> Seq(Data)]
      /\ out'[c] = IF c \in sk_err THEN out[c] ELSE out[c] \o bytes
      /\ \A d \in Clients \ {c} : out'[d] = out[d]
  BY <1>1, <1>2
<1>4. \A d \in Clients : Taken(d)' = Taken(d)
  BY <1>1 DEF Taken
<1>5. SockTypes' /\ Placed' /\ Errors'
  BY <1>1, <1>3 DEF SockInv, SockTypes, Placed, Unserved, Queued, Errors
<1>6. Streams'
  BY <1>1, <1>4 DEF SockInv, Streams
<1>7. Untouched'
  BY <1>1, <1>3, <1>4 DEF SockInv, Untouched, Unserved, Queued
<1> QED
  BY <1>1, <1>3, <1>4, <1>5, <1>6, <1>7 DEF SockInv

(* accept returns the lowest free descriptor.                              *)
LEMMA LowestFd == FreeFds # {} => ClientFd \in FreeFds
<1> SUFFICES ASSUME FreeFds # {} PROVE ClientFd \in FreeFds
  OBVIOUS
<1>1. FreeFds \subseteq Nat
  BY FdsAssumption DEF FreeFds
<1>2. PICK f \in FreeFds : \A g \in FreeFds : ~(<<g, f>> \in OpToRel(<, Nat))
  BY <1>1, NatLessThanWellFounded, WFMin
<1>3. ASSUME NEW x \in Nat, NEW y \in Nat, x < y PROVE <<x, y>> \in OpToRel(<, Nat)
  BY <1>3 DEF OpToRel
<1>4. \A g \in FreeFds : ~(g < f)
  BY <1>1, <1>2, <1>3, Zenon
<1>5. \A g \in FreeFds : f <= g
  BY <1>1, <1>4
<1> QED
  BY <1>5 DEF ClientFd

LEMMA AcceptsSockets ==
  ASSUME SockInv, Accepts, NEW c, c = Head(backlog), NEW f, f = ClientFd
  PROVE  /\ SockInv' /\ c \in Clients /\ Unserved(c) /\ ~Unserved(c)'
         /\ f \in Fds /\ conn[f] = NoClient /\ conn'[f] = c
         /\ \A fd \in Fds \ {f} : conn'[fd] = conn[fd]
         /\ \A d \in Clients \ {c} : Unserved(d)' <=> Unserved(d)
<1> DEFINE b == backlog
<1>1. /\ backlog # <<>> /\ backlog' = Tail(b) /\ conn' = [conn EXCEPT ![f] = c]
      /\ UNCHANGED <<peer, sent, inq, sk_err, out>>
  BY DEF Accepts, Accept, net
<1>2. f \in Fds /\ conn[f] = NoClient /\ NoClient \notin Clients
  BY LowestFd, NamesAssumption DEF Accepts, FreeFds
<1>3. /\ b \in Seq(Clients) /\ conn \in [Fds -> Clients \cup {NoClient}]
      /\ \A i, j \in 1..Len(b) : b[i] = b[j] => i = j
      /\ \A i \in 1..Len(b) : peer[b[i]] # "new"
  BY DEF SockInv, SockTypes, Placed
<1>4. /\ c = b[1] /\ Len(b) \in Nat \ {0} /\ c \in Clients /\ Tail(b) \in Seq(Clients)
      /\ Len(Tail(b)) = Len(b) - 1 /\ \A i \in 1..(Len(b) - 1) : Tail(b)[i] = b[i + 1]
  BY <1>1, <1>3, EmptySeq, HeadTailProperties
<1> HIDE DEF b
<1>5. conn'[f] = c /\ \A fd \in Fds \ {f} : conn'[fd] = conn[fd]
  BY <1>1, <1>2, <1>3
<1>6. Queued(c) /\ peer[c] # "new"
  BY <1>3, <1>4 DEF Queued, b
<1>7. \A d \in Clients : Queued(d)' <=> Queued(d) /\ d # c
  <2> SUFFICES ASSUME NEW d \in Clients PROVE Queued(d)' <=> Queued(d) /\ d # c
    OBVIOUS
  <2>1. ASSUME NEW i \in 1..Len(Tail(b)), Tail(b)[i] = d PROVE Queued(d) /\ d # c
    <3>1. i + 1 \in 1..Len(b) /\ i + 1 # 1 /\ b[i + 1] = d /\ 1 \in 1..Len(b)
      BY <1>4, <2>1
    <3> QED
      BY <1>3, <1>4, <3>1 DEF Queued, b
  <2>2. ASSUME NEW i \in 1..Len(b), b[i] = d, d # c PROVE \E j \in 1..Len(Tail(b)) : Tail(b)[j] = d
    <3>1. i - 1 \in 1..Len(Tail(b)) /\ Tail(b)[i - 1] = b[(i - 1) + 1] /\ (i - 1) + 1 = i
      BY <1>4, <2>2
    <3> QED
      BY <2>2, <3>1
  <2>3. Queued(d) <=> \E i \in 1..Len(b) : b[i] = d
    BY DEF Queued, b
  <2>4. Queued(d)' <=> \E i \in 1..Len(Tail(b)) : Tail(b)[i] = d
    BY <1>1 DEF Queued
  <2> QED
    BY <2>1, <2>2, <2>3, <2>4
<1>8. ~Unserved(c)' /\ Unserved(c) /\ \A d \in Clients \ {c} : Unserved(d)' <=> Unserved(d)
  BY <1>1, <1>4, <1>6, <1>7 DEF Unserved
<1>9. SockTypes'
  BY <1>1, <1>2, <1>4 DEF SockInv, SockTypes
<1>10. Placed'
  <2>1. ASSUME NEW i \in 1..Len(Tail(b)), NEW j \in 1..Len(Tail(b)), Tail(b)[i] = Tail(b)[j] PROVE i = j
    <3>1. i + 1 \in 1..Len(b) /\ j + 1 \in 1..Len(b) /\ b[i + 1] = b[j + 1]
      BY <1>4, <2>1
    <3>2. i + 1 = j + 1
      BY <1>3, <3>1
    <3> QED
      BY <1>4, <3>2
  <2>2. ASSUME NEW i \in 1..Len(Tail(b)) PROVE peer[Tail(b)[i]] # "new"
    <3>1. i + 1 \in 1..Len(b) /\ Tail(b)[i] = b[i + 1]
      BY <1>4, <2>2
    <3> QED
      BY <1>3, <3>1
  <2>3. \A fd \in Fds, d \in Clients : conn'[fd] = d => ~Unserved(d)'
    BY <1>2, <1>5, <1>8 DEF SockInv, Placed
  <2>4. \A fd, g \in Fds, d \in Clients : conn'[fd] = d /\ conn'[g] = d => fd = g
    <3>1. \A fd \in Fds : conn[fd] # c
      BY <1>2, <1>4, <1>8 DEF SockInv, Placed
    <3> QED
      BY <1>5, <3>1 DEF SockInv, Placed
  <2> QED
    BY <1>1, <2>1, <2>2, <2>3, <2>4 DEF Placed
<1>11. Streams' /\ Errors'
  BY <1>1 DEF SockInv, Streams, Errors, Taken
<1>12. Untouched'
  <2>1. \A d \in Clients : Taken(d)' = Taken(d)
    BY <1>1 DEF Taken
  <2> QED
    BY <1>1, <1>8, <2>1 DEF SockInv, Untouched
<1> QED
  BY <1>2, <1>4, <1>5, <1>8, <1>9, <1>10, <1>11, <1>12 DEF SockInv

LEMMA ClosesSockets ==
  ASSUME SockInv, Closes
  PROVE  SockInv' /\ \A d \in Clients : (Unserved(d)' <=> Unserved(d)) /\ Taken(d)' = Taken(d)
<1>1. UNCHANGED <<peer, sent, inq, out, backlog>> /\ sk_err' \subseteq sk_err
  BY DEF Closes
<1>2. \A d : (Unserved(d)' <=> Unserved(d)) /\ Taken(d)' = Taken(d)
  BY <1>1 DEF Unserved, Queued, Taken
<1>3. SockTypes'
  BY <1>1 DEF SockInv, SockTypes, Closes
<1>4. \A fd \in Fds, d \in Clients : conn'[fd] = d => conn[fd] = d
  BY NamesAssumption DEF Closes
<1>5. Placed'
  BY <1>1, <1>2, <1>4 DEF SockInv, Placed
<1>6. Streams' /\ Errors' /\ Untouched'
  BY <1>1, <1>2 DEF SockInv, Streams, Errors, Untouched
<1> QED
  BY <1>2, <1>3, <1>5, <1>6 DEF SockInv

(* A client changes only its own state, and only forward.                  *)
LEMMA ActsSockets ==
  ASSUME SockInv, NEW c \in Clients, Acts(c)
  PROVE  /\ SockInv' /\ UNCHANGED <<out, conn>>
         /\ \A d \in Clients :
              /\ Taken(d)' = Taken(d) /\ (Unserved(d)' <=> Unserved(d)) /\ sent[d] <= sent'[d]
              /\ peer'[d] = "new" => peer[d] = "new"
              /\ peer[d] \in {"fin", "reset"} => peer'[d] = peer[d] /\ inq'[d] = inq[d]
              /\ inq[d] # <<>> => inq'[d] # <<>>
<1>1. UNCHANGED <<out, conn>>
  BY DEF Acts, Connect, Send, Shutdown, Reset
<1>2. CASE Connect(c)
  <2> DEFINE b == backlog
  <2>1. /\ peer[c] = "new" /\ peer' = [peer EXCEPT ![c] = "open"] /\ backlog' = Append(b, c)
        /\ UNCHANGED <<sent, inq, sk_err>>
    BY <1>2 DEF Connect
  <2>2. peer \in [Clients -> {"new", "open", "fin", "reset"}] /\ b \in Seq(Clients)
    BY DEF SockInv, SockTypes
  <2>3. /\ Append(b, c) \in Seq(Clients) /\ Len(Append(b, c)) = Len(b) + 1 /\ Len(b) \in Nat
        /\ \A i \in 1..Len(b) : Append(b, c)[i] = b[i]
        /\ Append(b, c)[Len(b) + 1] = c
    BY <2>2, AppendProperties
  <2>4. /\ peer' \in [Clients -> {"new", "open", "fin", "reset"}] /\ peer'[c] = "open"
        /\ \A d \in Clients \ {c} : peer'[d] = peer[d]
    BY <2>1, <2>2
  <2>5. \A i \in 1..Len(b) : b[i] \in Clients /\ b[i] # c /\ peer[b[i]] # "new"
    BY <2>1, <2>2 DEF SockInv, Placed
  <2> HIDE DEF b
  <2>6. \A d \in Clients : Queued(d)' <=> Queued(d) \/ d = c
    <3> SUFFICES ASSUME NEW d \in Clients
                 PROVE  (\E i \in 1..Len(Append(b, c)) : Append(b, c)[i] = d)
                          <=> (\E i \in 1..Len(b) : b[i] = d) \/ d = c
      BY <2>1 DEF Queued, b
    <3>1. \A i \in 1..Len(Append(b, c)) : i \in 1..Len(b) \/ i = Len(b) + 1
      BY <2>3
    <3>2. \A i \in 1..Len(b) : i \in 1..Len(Append(b, c))
      BY <2>3
    <3>3. Len(b) + 1 \in 1..Len(Append(b, c))
      BY <2>3
    <3> QED
      BY <2>3, <3>1, <3>2, <3>3
  <2>7. \A d \in Clients : Unserved(d)' <=> Unserved(d)
    BY <2>1, <2>4, <2>6 DEF Unserved
  <2>8. \A d \in Clients : Taken(d)' = Taken(d)
    BY <2>1 DEF Taken
  <2>9. SockTypes'
    BY <1>1, <2>1, <2>3, <2>4 DEF SockInv, SockTypes
  <2>10. Placed'
    <3>1. ASSUME NEW i \in 1..Len(Append(b, c)), NEW j \in 1..Len(Append(b, c)), Append(b, c)[i] = Append(b, c)[j]
          PROVE  i = j
      <4>1. (i \in 1..Len(b) \/ i = Len(b) + 1) /\ (j \in 1..Len(b) \/ j = Len(b) + 1)
        BY <2>3
      <4>2. CASE i \in 1..Len(b) /\ j \in 1..Len(b)
        BY <2>3, <3>1, <4>2 DEF SockInv, Placed, b
      <4>3. CASE i = Len(b) + 1 \/ j = Len(b) + 1
        BY <2>3, <2>5, <3>1, <4>1, <4>3
      <4> QED
        BY <4>1, <4>2, <4>3
    <3>2. ASSUME NEW i \in 1..Len(Append(b, c)) PROVE peer'[Append(b, c)[i]] # "new"
      <4>1. i \in 1..Len(b) \/ i = Len(b) + 1
        BY <2>3
      <4> QED
        BY <2>3, <2>4, <2>5, <4>1
    <3>3. \A fd \in Fds, d \in Clients : conn[fd] = d => ~Unserved(d)'
      BY <2>7 DEF SockInv, Placed
    <3> QED
      BY <1>1, <2>1, <3>1, <3>2, <3>3 DEF SockInv, Placed
  <2>11. Streams' /\ Errors' /\ Untouched'
    BY <1>1, <2>1, <2>4, <2>7, <2>8 DEF SockInv, Streams, Errors, Untouched
  <2> QED
    BY <1>1, <2>1, <2>4, <2>7, <2>8, <2>9, <2>10, <2>11, Counters DEF SockInv
<1>3. CASE Send(c)
  <2> DEFINE q == inq[c]
             a == Append(q, <<c, sent[c] + 1>>)
  <2>1. /\ peer[c] = "open" /\ sent' = [sent EXCEPT ![c] = sent[c] + 1]
        /\ inq' = [inq EXCEPT ![c] = a] /\ UNCHANGED <<peer, sk_err, backlog>>
    BY <1>3 DEF Send
  <2>2. /\ q \in Seq(Byte) /\ Len(q) \in Nat /\ sent[c] \in Nat /\ Len(q) <= sent[c]
        /\ Taken(c) = sent[c] - Len(q) /\ From(q, c, Taken(c))
        /\ inq \in [Clients -> Seq(Byte)] /\ sent \in [Clients -> Nat]
    BY Counters DEF SockInv, SockTypes, Streams
  <2> HIDE DEF q
  <2>3. <<c, sent[c] + 1>> \in Byte
    BY <2>2 DEF Byte
  <2>4. /\ a \in Seq(Byte) /\ Len(a) = Len(q) + 1 /\ a[Len(q) + 1] = <<c, sent[c] + 1>>
        /\ \A i \in 1..Len(q) : a[i] = q[i]
    BY <2>2, <2>3, AppendProperties
  <2> HIDE DEF a
  <2>5. /\ inq' \in [Clients -> Seq(Byte)] /\ sent' \in [Clients -> Nat]
        /\ inq'[c] = a /\ sent'[c] = sent[c] + 1
        /\ \A d \in Clients \ {c} : inq'[d] = inq[d] /\ sent'[d] = sent[d]
    BY <2>1, <2>2, <2>4
  <2>6. \A d \in Clients : Taken(d)' = Taken(d)
    <3>1. Taken(c)' = (sent[c] + 1) - Len(a)
      BY <2>5 DEF Taken
    <3>2. Taken(c)' = Taken(c)
      BY <2>2, <2>4, <3>1
    <3>3. \A d \in Clients \ {c} : Taken(d)' = Taken(d)
      BY <2>5 DEF Taken
    <3> QED
      BY <3>2, <3>3
  <2>7. SockTypes' /\ Placed' /\ Errors'
    BY <1>1, <2>1, <2>5 DEF SockInv, SockTypes, Placed, Errors, Unserved, Queued
  <2>8. Streams'
    <3>1. Len(a) <= sent[c] + 1
      BY <2>2, <2>4
    <3>2. Taken(c) + (Len(q) + 1) = sent[c] + 1
      BY <2>2
    <3>3. \A i \in 1..Len(a) : i \in 1..Len(q) \/ i = Len(q) + 1
      BY <2>2, <2>4
    <3>4. From(a, c, Taken(c))
      BY <2>2, <2>4, <3>2, <3>3 DEF From
    <3> QED
      BY <2>5, <2>6, <3>1, <3>4 DEF SockInv, Streams
  <2>9. \A d : Unserved(d)' <=> Unserved(d)
    BY <2>1 DEF Unserved, Queued
  <2>10. Untouched'
    BY <1>1, <2>6, <2>9 DEF SockInv, Untouched
  <2>11. inq'[c] # <<>>
    <3>1. Len(a) # 0
      BY <2>2, <2>4
    <3> QED
      BY <2>5, <3>1
  <2>12. \A d \in Clients : sent[d] <= sent'[d]
    <3>1. \A d \in Clients : sent[d] \in Nat
      BY <2>2
    <3>2. sent[c] <= sent'[c]
      BY <2>2, <2>5
    <3> QED
      BY <2>5, <3>1, <3>2
  <2> QED
    BY <1>1, <2>1, <2>5, <2>6, <2>7, <2>8, <2>9, <2>10, <2>11, <2>12 DEF SockInv
<1>4. CASE Shutdown(c) \/ Reset(c)
  <2>1. /\ peer[c] = "open" /\ UNCHANGED <<sent, inq, backlog>> /\ sk_err' \subseteq sk_err \cup {c}
        /\ \/ peer' = [peer EXCEPT ![c] = "fin"] /\ sk_err' = sk_err
           \/ peer' = [peer EXCEPT ![c] = "reset"]
    BY <1>4 DEF Shutdown, Reset
  <2>2. peer \in [Clients -> {"new", "open", "fin", "reset"}]
    BY DEF SockInv, SockTypes
  <2>3. /\ peer' \in [Clients -> {"new", "open", "fin", "reset"}] /\ peer'[c] \in {"fin", "reset"}
        /\ peer'[c] = "fin" => sk_err' = sk_err
        /\ \A d \in Clients \ {c} : peer'[d] = peer[d]
    BY <2>1, <2>2
  <2>4. \A d \in Clients : Unserved(d)' <=> Unserved(d)
    BY <2>1, <2>3 DEF Unserved, Queued
  <2>5. \A d \in Clients : Taken(d)' = Taken(d)
    BY <2>1 DEF Taken
  <2>6. Placed'
    <3>2. \A fd \in Fds, d \in Clients : conn[fd] = d => ~Unserved(d)'
      BY <2>4 DEF SockInv, Placed
    <3>3. \A i \in 1..Len(backlog) : peer'[backlog[i]] # "new"
      <4>1. \A i \in 1..Len(backlog) : backlog[i] \in Clients /\ peer[backlog[i]] # "new"
        BY DEF SockInv, SockTypes, Placed
      <4> QED
        BY <2>3, <4>1
    <3> QED
      BY <1>1, <2>1, <3>2, <3>3 DEF SockInv, Placed
  <2>7. SockTypes' /\ Streams' /\ Untouched'
    BY <1>1, <2>1, <2>3, <2>4, <2>5 DEF SockInv, SockTypes, Streams, Untouched
  <2>8. Errors'
    BY <2>1, <2>3 DEF SockInv, Errors
  <2> QED
    BY <1>1, <2>1, <2>3, <2>4, <2>5, <2>6, <2>7, <2>8, Counters DEF SockInv
<1> QED
  BY <1>2, <1>3, <1>4 DEF Acts
-----------------------------------------------------------------------------
(* What the callbacks of the two epoll servers do to the sockets.          *)
LEMMA RecvReads ==
  ASSUME SockInv, EpollInv, NEW fd \in Fds, RecvCb(fd) \/ WebRecvCb(fd)
  PROVE  \E c \in Clients, n \in Nat :
           /\ conn[fd] = c /\ interest[fd] = "in" /\ ~Unserved(c) /\ Reads(c, n) /\ n = Count(fd)
           /\ interest' = [interest EXCEPT ![fd] = "out"] /\ events' = events \ {<<fd, "in">>}
<1>1. /\ <<fd, "in">> \in events /\ Room(fd) > 0 /\ inq[conn[fd]] # <<>> /\ Consume(conn[fd], Count(fd))
      /\ events' = events \ {<<fd, "in">>} /\ interest' = [interest EXCEPT ![fd] = "out"]
      /\ UNCHANGED <<peer, sent, sk_err, out, backlog, conn>>
  BY DEF RecvCb, WebRecvCb, WebSetEvent, RecvData
<1>2. interest[fd] = "in" /\ conn[fd] # NoClient
  BY <1>1 DEF EpollInv, Sound
<1>3. PICK c \in Clients : conn[fd] = c
  BY <1>2 DEF SockInv, SockTypes
<1>4. Room(fd) \in Nat \ {0}
  <2>1. Len(rbuffer[fd]) \in Nat
    BY DEF EpollInv
  <2>2. Room(fd) = BUFFER_LENGTH - Len(rbuffer[fd]) /\ BUFFER_LENGTH \in Nat
    BY BufferAssumption DEF Room
  <2> QED
    BY <1>1, <2>1, <2>2
<1>5. Count(fd) \in 1..Len(inq[c])
  BY <1>1, <1>3, <1>4, CountRange DEF Count
<1>6. Count(fd) \in Nat
  BY <1>5, Counters
<1>7. ~Unserved(c)
  BY <1>3 DEF SockInv, Placed
<1>8. Reads(c, Count(fd))
  BY <1>1, <1>3, <1>5 DEF Reads
<1> QED
  BY <1>1, <1>2, <1>3, <1>6, <1>7, <1>8

LEMMA SendReplies ==
  ASSUME SockInv, EpollInv, NEW fd \in Fds, SendCb(fd)
  PROVE  \E c \in Clients :
           /\ conn[fd] = c /\ interest[fd] = "out" /\ ~Unserved(c) /\ ~Pipe(c)
           /\ wbuffer[fd] \in Seq(Data) /\ Replies(c, wbuffer[fd])
           /\ interest' = [interest EXCEPT ![fd] = "in"] /\ events' = events \ {<<fd, "out">>}
           /\ UNCHANGED <<rbuffer, wbuffer>>
<1>1. /\ <<fd, "out">> \in events /\ ~Pipe(conn[fd]) /\ Transmit(conn[fd], wbuffer[fd])
      /\ interest' = [interest EXCEPT ![fd] = "in"] /\ events' = events \ {<<fd, "out">>}
      /\ UNCHANGED <<peer, sent, inq, backlog, conn, rbuffer, wbuffer>>
  BY DEF SendCb
<1>2. interest[fd] = "out" /\ conn[fd] # NoClient /\ wbuffer[fd] \in Seq(Data)
  BY <1>1 DEF EpollInv, Sound
<1>3. PICK c \in Clients : conn[fd] = c
  BY <1>2 DEF SockInv, SockTypes
<1>4. ~Unserved(c)
  BY <1>3 DEF SockInv, Placed
<1> QED
  BY <1>1, <1>2, <1>3, <1>4 DEF Replies

LEMMA DisconnectCloses ==
  ASSUME SockInv, EpollInv, NEW fd \in Fds, Disconnect(fd)
  PROVE  /\ Closes /\ interest[fd] = "in" /\ conn'[fd] = NoClient /\ interest'[fd] = "off"
         /\ RecvEnd(fd) /\ events' = events \ {<<fd, "in">>} /\ UNCHANGED <<rbuffer, wbuffer>>
         /\ interest' \in [Fds -> {"off", "in", "out"}]
         /\ \A g \in Fds \ {fd} : conn'[g] = conn[g] /\ interest'[g] = interest[g]
<1>1. /\ <<fd, "in">> \in events /\ interest' = [interest EXCEPT ![fd] = "off"]
      /\ conn' = [conn EXCEPT ![fd] = NoClient] /\ events' = events \ {<<fd, "in">>} /\ RecvEnd(fd)
      /\ UNCHANGED <<net, backlog, rbuffer, wbuffer>>
  BY DEF Disconnect
<1>2. conn \in [Fds -> Clients \cup {NoClient}] /\ interest \in [Fds -> {"off", "in", "out"}]
  BY DEF SockInv, SockTypes, EpollInv
<1> QED
  BY <1>1, <1>2 DEF Closes, net, EpollInv, Sound

(* The steps that leave the sockets alone, but for a reported error.       *)
Fails(fd) == RecvFails(fd) \/ SendFails(fd)
LEMMA QuietSteps ==
  ASSUME EpollWait \/ AcceptFails \/ \E fd \in Fds : Fails(fd)
  PROVE  Idles /\ UNCHANGED <<interest, rbuffer, wbuffer>>
BY DEF EpollWait, AcceptFails, Fails, RecvFails, SendFails, Idles, net

(* Every step of an epoll loop leaves the events of its batch sound.       *)
LEMMA EpollStepInv ==
  ASSUME SockInv, EpollInv, Server \/ WebStep
  PROVE  SockInv' /\ EpollInv'
<1>1. /\ interest \in [Fds -> {"off", "in", "out"}]
      /\ rbuffer \in [Fds -> Seq(Byte)] /\ wbuffer \in [Fds -> Seq(Data)]
      /\ conn \in [Fds -> Clients \cup {NoClient}] /\ NoClient \notin Clients
      /\ \A fd \in Fds : conn[fd] = NoClient <=> interest[fd] = "off"
  BY NamesAssumption DEF EpollInv, SockInv, SockTypes
<1>2. CASE EpollWait \/ AcceptFails \/ \E fd \in Fds : Fails(fd)
  <2>1. Idles /\ UNCHANGED <<interest, rbuffer, wbuffer>>
    BY <1>2, QuietSteps
  <2>2. CASE EpollWait
    <3>1. events' = Ready /\ (<<Listener, "in">> \in Ready => backlog # <<>>)
      BY <2>2, NamesAssumption DEF EpollWait, Ready
    <3>2. \A fd \in Fds : /\ <<fd, "in">> \in Ready => interest[fd] = "in" /\ Readable(conn[fd])
                          /\ <<fd, "out">> \in Ready => interest[fd] = "out"
      BY NamesAssumption DEF Ready
    <3>3. \A c \in Clients : Readable(c)' <=> Readable(c)
      BY <2>1 DEF Idles, Readable
    <3> QED
      BY <2>1, <3>1, <3>2, <3>3, IdlesSockets DEF Idles, EpollInv, Sound
  <2>3. CASE AcceptFails \/ \E fd \in Fds : Fails(fd)
    <3>1. events' \subseteq events
      BY <2>3 DEF AcceptFails, Fails, RecvFails, SendFails
    <3>2. \A c \in Clients : Readable(c)' <=> Readable(c)
      BY <2>1 DEF Idles, Readable
    <3> QED
      BY <2>1, <3>1, <3>2, IdlesSockets DEF Idles, EpollInv, Sound
  <2> QED
    BY <1>2, <2>2, <2>3
<1>3. CASE AcceptCb
  <2>1. PICK c, f : c = Head(backlog) /\ f = ClientFd
    OBVIOUS
  <2>2. /\ Accepts /\ events' = events \ {<<Listener, "in">>} /\ UNCHANGED net
        /\ interest' = [interest EXCEPT ![f] = "in"]
        /\ rbuffer' = [rbuffer EXCEPT ![f] = <<>>] /\ wbuffer' = [wbuffer EXCEPT ![f] = <<>>]
    BY <1>3, <2>1 DEF AcceptCb, Accepts
  <2>3. /\ SockInv' /\ c \in Clients /\ f \in Fds /\ conn[f] = NoClient /\ conn'[f] = c
        /\ \A fd \in Fds \ {f} : conn'[fd] = conn[fd]
    BY <2>1, <2>2, AcceptsSockets
  <2>4. /\ interest' \in [Fds -> {"off", "in", "out"}] /\ interest'[f] = "in" /\ interest[f] = "off"
        /\ \A fd \in Fds \ {f} : interest'[fd] = interest[fd]
        /\ rbuffer' \in [Fds -> Seq(Byte)] /\ wbuffer' \in [Fds -> Seq(Data)]
    BY <1>1, <2>2, <2>3
  <2>5. \A d \in Clients : Readable(d)' <=> Readable(d)
    BY <2>2 DEF net, Readable
  <2>6. \A fd \in Fds : conn'[fd] = NoClient <=> interest'[fd] = "off"
    BY <1>1, <2>3, <2>4
  <2>7. Sound'
    <3>1. <<Listener, "in">> \notin events'
      BY <2>2
    <3>2. \A fd \in Fds : <<fd, "in">> \in events' \/ <<fd, "out">> \in events' => fd # f
      BY <2>2, <2>4 DEF EpollInv, Sound
    <3>3. \A fd \in Fds : fd # f => /\ interest'[fd] = interest[fd] /\ conn'[fd] = conn[fd]
                                    /\ <<fd, "in">> \in events' => <<fd, "in">> \in events
                                    /\ <<fd, "out">> \in events' => <<fd, "out">> \in events
      BY <2>2, <2>3, <2>4
    <3>4. \A fd \in Fds : /\ <<fd, "in">> \in events' => interest'[fd] = "in"
                          /\ <<fd, "out">> \in events' => interest'[fd] = "out"
      BY <3>2, <3>3 DEF EpollInv, Sound
    <3>5. \A fd \in Fds, d \in Clients : <<fd, "in">> \in events' /\ conn'[fd] = d => Readable(d)'
      <4> SUFFICES ASSUME NEW fd \in Fds, NEW d \in Clients, <<fd, "in">> \in events', conn'[fd] = d
                   PROVE  Readable(d)'
        OBVIOUS
      <4>1. <<fd, "in">> \in events /\ conn[fd] = d
        BY <3>2, <3>3
      <4>2. Readable(d)
        BY <4>1 DEF EpollInv, Sound
      <4> QED
        BY <2>5, <4>2
    <3> QED
      BY <3>1, <3>4, <3>5 DEF Sound
  <2> QED
    BY <2>3, <2>4, <2>6, <2>7 DEF EpollInv
<1>4. ASSUME NEW fd \in Fds, RecvCb(fd) \/ WebRecvCb(fd) PROVE SockInv' /\ EpollInv'
  <2>1. PICK c \in Clients, n \in Nat :
          /\ conn[fd] = c /\ interest[fd] = "in" /\ ~Unserved(c) /\ Reads(c, n) /\ n = Count(fd)
          /\ interest' = [interest EXCEPT ![fd] = "out"] /\ events' = events \ {<<fd, "in">>}
    BY <1>4, RecvReads
  <2>2. /\ SockInv' /\ \A d \in Clients \ {c} : inq'[d] = inq[d]
        /\ Received(c, n) \in Seq(Byte) /\ UNCHANGED <<peer, backlog, conn>>
    BY <2>1, ReadsSockets DEF Reads
  <2>3. /\ interest' \in [Fds -> {"off", "in", "out"}] /\ interest'[fd] = "out"
        /\ \A g \in Fds \ {fd} : interest'[g] = interest[g]
    BY <1>1, <2>1
  <2>4. rbuffer' \in [Fds -> Seq(Byte)] /\ wbuffer' \in [Fds -> Seq(Data)]
    <3>1. rbuffer[fd] \o Received(c, n) \in Seq(Byte) /\ <<>> \in Seq(Byte)
      BY <1>1, <2>2, ConcatProperties
    <3>2. rbuffer[fd] \o Received(c, n) \in Seq(Data) /\ http_response \in Seq(Data)
      <4>1. Byte \subseteq Data
        BY DEF Data
      <4>2. http_response \in Seq(Data)
        BY DEF http_response, Data
      <4> QED
        BY <3>1, <4>1, <4>2, SeqMonotonic
    <3>3. CASE RecvCb(fd)
      <4>1. /\ wbuffer' = [wbuffer EXCEPT ![fd] = rbuffer[fd] \o Received(c, n)]
            /\ rbuffer' = [rbuffer EXCEPT ![fd] = <<>>]
        BY <2>1, <3>3 DEF RecvCb
      <4> QED
        BY <1>1, <3>1, <3>2, <4>1
    <3>4. CASE WebRecvCb(fd)
      <4>1. /\ rbuffer' = [rbuffer EXCEPT ![fd] = rbuffer[fd] \o Received(c, n)]
            /\ wbuffer' = [wbuffer EXCEPT ![fd] = http_response]
        BY <2>1, <3>4 DEF WebRecvCb
      <4> QED
        BY <1>1, <3>1, <3>2, <4>1
    <3> QED
      BY <1>4, <3>3, <3>4
  <2>5. \A g \in Fds : conn'[g] = NoClient <=> interest'[g] = "off"
    BY <1>1, <2>1, <2>2, <2>3
  <2>6. Sound'
    <3>1. \A g \in Fds, d \in Clients : g # fd /\ conn[g] = d => d # c /\ (Readable(d)' <=> Readable(d))
      BY <2>1, <2>2 DEF SockInv, Placed, Readable
    <3>2. <<fd, "in">> \notin events' /\ <<fd, "out">> \notin events'
      BY <2>1 DEF EpollInv, Sound
    <3> QED
      BY <2>1, <2>2, <2>3, <3>1, <3>2 DEF EpollInv, Sound
  <2> QED
    BY <2>2, <2>3, <2>4, <2>5, <2>6 DEF EpollInv
<1>5. ASSUME NEW fd \in Fds, Disconnect(fd) PROVE SockInv' /\ EpollInv'
  <2>1. /\ Closes /\ interest[fd] = "in" /\ conn'[fd] = NoClient /\ interest'[fd] = "off"
        /\ RecvEnd(fd) /\ events' = events \ {<<fd, "in">>} /\ UNCHANGED <<rbuffer, wbuffer>>
        /\ interest' \in [Fds -> {"off", "in", "out"}]
        /\ \A g \in Fds \ {fd} : conn'[g] = conn[g] /\ interest'[g] = interest[g]
    BY <1>5, DisconnectCloses
  <2>2. SockInv' /\ backlog' = backlog /\ \A d \in Clients : Readable(d)' <=> Readable(d)
    BY <2>1, ClosesSockets DEF Closes, net, Readable
  <2>3. <<fd, "in">> \notin events' /\ <<fd, "out">> \notin events'
    BY <2>1 DEF EpollInv, Sound
  <2>4. Sound'
    BY <2>1, <2>2, <2>3 DEF EpollInv, Sound
  <2>5. \A g \in Fds : conn'[g] = NoClient <=> interest'[g] = "off"
    BY <1>1, <2>1
  <2> QED
    BY <1>1, <2>1, <2>2, <2>4, <2>5 DEF EpollInv
<1>6. ASSUME NEW fd \in Fds, SendCb(fd) PROVE SockInv' /\ EpollInv'
  <2>1. PICK c \in Clients :
          /\ conn[fd] = c /\ interest[fd] = "out" /\ ~Unserved(c) /\ ~Pipe(c)
          /\ wbuffer[fd] \in Seq(Data) /\ Replies(c, wbuffer[fd])
          /\ interest' = [interest EXCEPT ![fd] = "in"] /\ events' = events \ {<<fd, "out">>}
          /\ UNCHANGED <<rbuffer, wbuffer>>
    BY <1>6, SendReplies
  <2>2. SockInv'
    BY <2>1, RepliesSockets
  <2>3. UNCHANGED <<backlog, conn>> /\ \A d \in Clients : Readable(d)' <=> Readable(d)
    BY <2>1 DEF Replies, Readable
  <2>4. /\ interest' \in [Fds -> {"off", "in", "out"}] /\ interest'[fd] = "in"
        /\ \A g \in Fds \ {fd} : interest'[g] = interest[g]
    BY <1>1, <2>1
  <2>5. <<fd, "in">> \notin events' /\ <<fd, "out">> \notin events'
    BY <2>1 DEF EpollInv, Sound
  <2>6. Sound'
    BY <2>1, <2>3, <2>4, <2>5 DEF EpollInv, Sound
  <2>7. \A g \in Fds : conn'[g] = NoClient <=> interest'[g] = "off"
    BY <1>1, <2>1, <2>3, <2>4
  <2> QED
    BY <1>1, <2>1, <2>2, <2>4, <2>6, <2>7 DEF EpollInv
<1>7. ASSUME NEW fd \in Fds, WebRecvFails(fd) PROVE SockInv' /\ EpollInv'
  <2>1. /\ Idles /\ <<fd, "in">> \in events /\ events' = events \ {<<fd, "in">>}
        /\ wbuffer' = [wbuffer EXCEPT ![fd] = http_response] /\ rbuffer' = rbuffer
        /\ interest' = [interest EXCEPT ![fd] = "out"]
    BY <1>7 DEF WebRecvFails, WebSetEvent, Idles
  <2>2. interest[fd] = "in" /\ <<fd, "in">> \notin events' /\ <<fd, "out">> \notin events'
    BY <2>1 DEF EpollInv, Sound
  <2>3. /\ interest' \in [Fds -> {"off", "in", "out"}] /\ interest'[fd] = "out"
        /\ \A g \in Fds \ {fd} : interest'[g] = interest[g]
    BY <1>1, <2>1
  <2>4. http_response \in Seq(Data)
    BY DEF http_response, Data
  <2>5. wbuffer' \in [Fds -> Seq(Data)]
    BY <1>1, <2>1, <2>4
  <2>6. UNCHANGED <<backlog, conn>> /\ \A d \in Clients : Readable(d)' <=> Readable(d)
    BY <2>1 DEF Idles, Readable
  <2>7. Sound'
    BY <2>1, <2>2, <2>3, <2>6 DEF EpollInv, Sound
  <2>8. \A g \in Fds : conn'[g] = NoClient <=> interest'[g] = "off"
    BY <1>1, <2>2, <2>3, <2>6
  <2> QED
    BY <1>1, <2>1, <2>3, <2>5, <2>7, <2>8, IdlesSockets DEF EpollInv
<1> QED
  BY <1>2, <1>3, <1>4, <1>5, <1>6, <1>7
     DEF Server, WebStep, WebEpollWait, WebAcceptCb, WebAcceptFails, WebDisconnect, WebSendCb,
         WebSendFails, Fails

(* A client's step keeps what the loop knows: what can be read stays so.   *)
LEMMA ActsEpoll ==
  ASSUME SockInv, EpollInv, NEW c \in Clients, Acts(c),
         UNCHANGED <<interest, rbuffer, wbuffer, events>>
  PROVE  EpollInv'
<1>1. backlog # <<>> => backlog' # <<>>
  <2>1. backlog' = backlog \/ backlog' = Append(backlog, c)
    BY DEF Acts, Connect, Send, Shutdown, Reset
  <2>2. backlog \in Seq(Clients)
    BY DEF SockInv, SockTypes
  <2>3. Len(Append(backlog, c)) # 0
    BY <2>2, AppendProperties
  <2> QED
    BY <2>1, <2>3, EmptySeq
<1>2. \A d \in Clients : Readable(d) => Readable(d)'
  BY ActsSockets DEF Readable
<1>3. conn' = conn
  BY ActsSockets
<1> QED
  BY <1>1, <1>2, <1>3 DEF EpollInv, Sound
-----------------------------------------------------------------------------
(* The web server's rbuffer holds what was read of its client.             *)
LEMMA WebStepBooks ==
  ASSUME SockInv, EpollInv, WebBooks, WebStep
  PROVE  WebBooks'
<1>1. /\ rbuffer \in [Fds -> Seq(Byte)] /\ \A c \in Clients : Taken(c) \in Nat
      /\ NoClient \notin Clients
  BY NamesAssumption, Counters DEF EpollInv
<1>2. ASSUME UNCHANGED <<sent, inq, rbuffer>>,
             \A fd \in Fds, c \in Clients : conn'[fd] = c => conn[fd] = c
      PROVE  WebBooks'
  <2>1. \A c \in Clients : Taken(c)' = Taken(c)
    BY <1>2 DEF Taken
  <2> QED
    BY <1>2, <2>1 DEF WebBooks
<1>3. CASE EpollWait \/ AcceptFails \/ \E fd \in Fds : Fails(fd)
  BY <1>2, <1>3, QuietSteps DEF Idles
<1>4. CASE \E fd \in Fds : WebRecvFails(fd)
  BY <1>2, <1>4 DEF WebRecvFails
<1>5. CASE \E fd \in Fds : SendCb(fd)
  BY <1>2, <1>5 DEF SendCb
<1>6. CASE \E fd \in Fds : Disconnect(fd)
  BY <1>1, <1>2, <1>6, DisconnectCloses DEF Closes, net
<1>7. CASE AcceptCb
  <2>1. PICK c, f : c = Head(backlog) /\ f = ClientFd
    OBVIOUS
  <2>2. Accepts /\ UNCHANGED net /\ rbuffer' = [rbuffer EXCEPT ![f] = <<>>]
    BY <1>7, <2>1 DEF AcceptCb, Accepts
  <2>3. /\ c \in Clients /\ f \in Fds /\ conn'[f] = c /\ Unserved(c)
        /\ \A fd \in Fds \ {f} : conn'[fd] = conn[fd]
    BY <2>1, <2>2, AcceptsSockets
  <2>4. Taken(c) = 0 /\ \A d \in Clients : Taken(d)' = Taken(d)
    BY <2>2, <2>3 DEF SockInv, Untouched, Taken, net
  <2>5. /\ Len(rbuffer'[f]) = 0 /\ From(rbuffer'[f], c, 0)
        /\ \A fd \in Fds \ {f} : rbuffer'[fd] = rbuffer[fd]
    BY <1>1, <2>2, <2>3, EmptySeq, FromEmpty
  <2> QED
    BY <2>3, <2>4, <2>5 DEF WebBooks
<1>8. ASSUME NEW fd \in Fds, WebRecvCb(fd) PROVE WebBooks'
  <2>1. PICK c \in Clients, n \in Nat :
          conn[fd] = c /\ ~Unserved(c) /\ Reads(c, n) /\ n = Count(fd)
    BY <1>8, RecvReads
  <2> DEFINE r == rbuffer[fd]
             b == Received(c, n)
  <2>2. rbuffer' = [rbuffer EXCEPT ![fd] = r \o b] /\ conn' = conn
    BY <1>8, <2>1 DEF WebRecvCb
  <2>3. /\ Taken(c)' = Taken(c) + n /\ \A d \in Clients \ {c} : Taken(d)' = Taken(d)
        /\ b \in Seq(Byte) /\ Len(b) = n /\ From(b, c, Taken(c))
    BY <2>1, ReadsSockets
  <2>4. r \in Seq(Byte) /\ Len(r) = Taken(c) /\ Len(r) \in Nat /\ From(r, c, 0)
    BY <1>1, <2>1 DEF WebBooks
  <2> HIDE DEF r, b
  <2>5. Len(r \o b) = Taken(c) + n /\ From(r \o b, c, 0)
    <3>1. From(b, c, 0 + Len(r)) /\ 0 \in Int
      BY <2>3, <2>4
    <3> QED
      BY <2>3, <2>4, <3>1, FromConcat
  <2>7. rbuffer'[fd] = r \o b /\ \A g \in Fds \ {fd} : rbuffer'[g] = rbuffer[g]
    BY <1>1, <2>2
  <2>8. \A g \in Fds, d \in Clients : g # fd /\ conn[g] = d => d # c
    BY <2>1 DEF SockInv, Placed
  <2> QED
    BY <2>1, <2>2, <2>3, <2>5, <2>7, <2>8 DEF WebBooks
<1> QED
  BY <1>3, <1>4, <1>5, <1>6, <1>7, <1>8
     DEF WebStep, WebEpollWait, WebAcceptCb, WebAcceptFails, WebDisconnect, WebSendCb,
         WebSendFails, Fails

LEMMA ActsWeb ==
  ASSUME SockInv, WebBooks, NEW c \in Clients, Acts(c), rbuffer' = rbuffer
  PROVE  WebBooks'
BY ActsSockets DEF WebBooks

LEMMA WebRequests == ASSUME SockInv, EpollInv, WebBooks, program = "web" PROVE Requests
<1> SUFFICES ASSUME NEW fd \in Fds, NEW c \in Clients, conn[fd] = c
             PROVE  rbuffer[fd] \o inq[c] = Bytes(c, sent[c])
  BY DEF Requests, SockInv, SockTypes
<1> DEFINE r == rbuffer[fd]
           q == inq[c]
<1>1. /\ r \in Seq(Byte) /\ q \in Seq(Byte) /\ Len(r) \in Nat /\ Len(q) \in Nat /\ sent[c] \in Nat
      /\ Len(r) = Taken(c) /\ Taken(c) = sent[c] - Len(q)
      /\ From(r, c, 0) /\ From(q, c, Taken(c))
  BY Counters DEF EpollInv, WebBooks, SockInv, Streams
<1> HIDE DEF r, q
<1>2. r \o q \in Seq(Byte) /\ Len(r \o q) = sent[c] /\ From(r \o q, c, 0)
  <2>1. From(q, c, 0 + Len(r)) /\ 0 \in Int
    BY <1>1
  <2>2. Len(r) + Len(q) = sent[c]
    BY <1>1
  <2> QED
    BY <1>1, <2>1, <2>2, FromConcat
<1>3. PICK x \in Seq(Byte), n \in Nat : x = r \o q /\ n = sent[c]
  BY <1>1, <1>2
<1>4. x = Bytes(c, n)
  BY <1>2, <1>3, AllBytes
<1> QED
  BY <1>3, <1>4 DEF r, q
-----------------------------------------------------------------------------
(* The echo server: what was sent back, and what waits in wbuffer.         *)
LEMMA EchoStepBooks ==
  ASSUME SockInv, EpollInv, EchoBooks, Server
  PROVE  EchoBooks'
<1>1. /\ rbuffer \in [Fds -> Seq(Byte)] /\ wbuffer \in [Fds -> Seq(Data)]
      /\ interest \in [Fds -> {"off", "in", "out"}] /\ NoClient \notin Clients
      /\ \A fd, g \in Fds, c \in Clients : conn[fd] = c /\ conn[g] = c => fd = g
  BY NamesAssumption DEF EpollInv, SockInv, Placed
<1>2. CASE EpollWait \/ AcceptFails \/ \E fd \in Fds : Fails(fd)
  <2>1. UNCHANGED <<peer, sent, inq, out, conn, interest, rbuffer, wbuffer>>
    BY <1>2, QuietSteps DEF Idles
  <2>2. \A c : Taken(c)' = Taken(c)
    BY <2>1 DEF Taken
  <2> QED
    BY <2>1, <2>2 DEF EchoBooks
<1>3. CASE AcceptCb
  <2>1. PICK c, f : c = Head(backlog) /\ f = ClientFd
    OBVIOUS
  <2>2. /\ Accepts /\ UNCHANGED <<peer, sent, inq, out>> /\ interest' = [interest EXCEPT ![f] = "in"]
        /\ rbuffer' = [rbuffer EXCEPT ![f] = <<>>] /\ wbuffer' = [wbuffer EXCEPT ![f] = <<>>]
    BY <1>3, <2>1 DEF AcceptCb, Accepts, net
  <2>3. /\ c \in Clients /\ f \in Fds /\ conn[f] = NoClient /\ conn'[f] = c /\ Unserved(c)
        /\ \A fd \in Fds \ {f} : conn'[fd] = conn[fd]
    BY <2>1, <2>2, AcceptsSockets
  <2>4. /\ interest'[f] = "in" /\ rbuffer'[f] = <<>>
        /\ \A fd \in Fds \ {f} :
             interest'[fd] = interest[fd] /\ rbuffer'[fd] = rbuffer[fd] /\ wbuffer'[fd] = wbuffer[fd]
    BY <1>1, <2>2, <2>3
  <2>5. \A d : Taken(d)' = Taken(d)
    BY <2>2 DEF Taken
  <2>6. Len(out[c]) = Taken(c)
    BY <2>3, EmptySeq DEF SockInv, Untouched
  <2>7. \A d \in Clients \ {c} : \A fd \in Fds : conn[fd] = d => conn'[fd] = d /\ interest'[fd] = interest[fd]
    BY <1>1, <2>3, <2>4
  <2>8. \A g \in Fds, d \in Clients : conn'[g] = d /\ interest'[g] = "out" /\ peer'[d] # "reset" =>
          Len(out'[d]) + Len(wbuffer'[g]) = Taken(d)' /\ From(wbuffer'[g], d, Len(out'[d]))
    <3>1. \A g \in Fds : interest'[g] = "out" =>
            g # f /\ conn'[g] = conn[g] /\ interest[g] = "out" /\ wbuffer'[g] = wbuffer[g]
      BY <2>3, <2>4
    <3> SUFFICES ASSUME NEW g \in Fds, NEW d \in Clients,
                        conn'[g] = d, interest'[g] = "out", peer'[d] # "reset"
                 PROVE  Len(out'[d]) + Len(wbuffer'[g]) = Taken(d)' /\ From(wbuffer'[g], d, Len(out'[d]))
      OBVIOUS
    <3>2. conn[g] = d /\ interest[g] = "out" /\ peer[d] # "reset"
      BY <2>2, <3>1
    <3>3. out'[d] = out[d] /\ wbuffer'[g] = wbuffer[g] /\ Taken(d)' = Taken(d)
      BY <2>2, <2>5, <3>1
    <3>4. Len(out[d]) + Len(wbuffer[g]) = Taken(d) /\ From(wbuffer[g], d, Len(out[d]))
      BY <3>2 DEF EchoBooks
    <3> QED
      BY <3>3, <3>4
  <2>9. \A d \in Clients :
          peer'[d] # "reset" /\ (\A g \in Fds : conn'[g] = d => interest'[g] # "out") => Len(out'[d]) = Taken(d)'
    <3> SUFFICES ASSUME NEW d \in Clients, peer'[d] # "reset",
                        \A g \in Fds : conn'[g] = d => interest'[g] # "out"
                 PROVE  Len(out'[d]) = Taken(d)'
      OBVIOUS
    <3>1. out'[d] = out[d] /\ Taken(d)' = Taken(d) /\ peer[d] # "reset"
      BY <2>2, <2>5
    <3>2. CASE d = c
      BY <2>6, <3>1, <3>2
    <3>3. CASE d # c
      <4>1. \A g \in Fds : conn[g] = d => interest[g] # "out"
        BY <2>7, <3>3
      <4>2. Len(out[d]) = Taken(d)
        BY <3>1, <4>1 DEF EchoBooks
      <4> QED
        BY <3>1, <4>2
    <3> QED
      BY <3>2, <3>3
  <2>10. \A g \in Fds : rbuffer'[g] = <<>>
    BY <2>3, <2>4 DEF EchoBooks
  <2>11. \A d \in Clients : Len(out'[d]) <= sent'[d] /\ From(out'[d], d, 0)
    BY <2>2 DEF EchoBooks
  <2> QED
    BY <2>8, <2>9, <2>10, <2>11 DEF EchoBooks
<1>4. ASSUME NEW fd \in Fds, RecvCb(fd) PROVE EchoBooks'
  <2>1. PICK c \in Clients, n \in Nat :
          /\ conn[fd] = c /\ interest[fd] = "in" /\ ~Unserved(c) /\ Reads(c, n) /\ n = Count(fd)
          /\ interest' = [interest EXCEPT ![fd] = "out"] /\ events' = events \ {<<fd, "in">>}
    BY <1>4, RecvReads
  <2> DEFINE b == Received(c, n)
  <2>2. /\ wbuffer' = [wbuffer EXCEPT ![fd] = rbuffer[fd] \o b]
        /\ rbuffer' = [rbuffer EXCEPT ![fd] = <<>>] /\ UNCHANGED <<peer, sent, out, conn>>
    BY <1>4, <2>1 DEF RecvCb
  <2>3. /\ Taken(c)' = Taken(c) + n /\ \A d \in Clients \ {c} : Taken(d)' = Taken(d)
        /\ b \in Seq(Byte) /\ Len(b) = n /\ From(b, c, Taken(c))
    BY <2>1, ReadsSockets
  <2> HIDE DEF b
  <2>4. rbuffer[fd] \o b = b
    BY <2>3, ConcatEmptySeq DEF EchoBooks
  <2>5. /\ interest'[fd] = "out" /\ wbuffer'[fd] = b
        /\ \A g \in Fds : rbuffer'[g] = <<>>
        /\ \A g \in Fds \ {fd} : interest'[g] = interest[g] /\ wbuffer'[g] = wbuffer[g]
    BY <1>1, <2>1, <2>2, <2>4 DEF EchoBooks
  <2>7. peer[c] # "reset" => Len(out[c]) = Taken(c)
    BY <1>1, <2>1 DEF EchoBooks
  <2>8. Len(out[c]) \in Nat /\ Taken(c) \in Nat
    BY Counters
  <2>9. peer[c] # "reset" => Len(out[c]) + Len(b) = Taken(c) + n /\ From(b, c, Len(out[c]))
    BY <2>3, <2>7, <2>8
  <2>10. \A g \in Fds, d \in Clients : g # fd /\ conn[g] = d => d # c
    BY <1>1, <2>1
  <2>11. \A g \in Fds, d \in Clients : conn'[g] = d /\ interest'[g] = "out" /\ peer'[d] # "reset" =>
           Len(out'[d]) + Len(wbuffer'[g]) = Taken(d)' /\ From(wbuffer'[g], d, Len(out'[d]))
    <3> SUFFICES ASSUME NEW g \in Fds, NEW d \in Clients,
                        conn'[g] = d, interest'[g] = "out", peer'[d] # "reset"
                 PROVE  Len(out'[d]) + Len(wbuffer'[g]) = Taken(d)' /\ From(wbuffer'[g], d, Len(out'[d]))
      OBVIOUS
    <3>1. CASE g = fd
      BY <2>1, <2>2, <2>3, <2>5, <2>9, <3>1
    <3>2. CASE g # fd
      <4>1. /\ conn[g] = d /\ interest[g] = "out" /\ peer[d] # "reset" /\ d # c
            /\ wbuffer'[g] = wbuffer[g] /\ out' = out /\ Taken(d)' = Taken(d)
        BY <2>2, <2>3, <2>5, <2>10, <3>2
      <4> QED
        BY <4>1 DEF EchoBooks
    <3> QED
      BY <3>1, <3>2
  <2>12. \A d \in Clients :
           peer'[d] # "reset" /\ (\A g \in Fds : conn'[g] = d => interest'[g] # "out") => Len(out'[d]) = Taken(d)'
    <3> SUFFICES ASSUME NEW d \in Clients, peer'[d] # "reset",
                        \A g \in Fds : conn'[g] = d => interest'[g] # "out"
                 PROVE  Len(out'[d]) = Taken(d)'
      OBVIOUS
    <3>1. d # c
      BY <2>1, <2>2, <2>5
    <3>2. \A g \in Fds : conn[g] = d => interest[g] # "out"
      BY <2>1, <2>2, <2>5, <3>1
    <3> QED
      BY <2>2, <2>3, <3>1, <3>2 DEF EchoBooks
  <2>13. \A d \in Clients : Len(out'[d]) <= sent'[d] /\ From(out'[d], d, 0)
    BY <2>2 DEF EchoBooks
  <2> QED
    BY <2>5, <2>11, <2>12, <2>13 DEF EchoBooks
<1>5. ASSUME NEW fd \in Fds, Disconnect(fd) PROVE EchoBooks'
  <2>1. /\ Closes /\ interest[fd] = "in" /\ conn'[fd] = NoClient /\ interest'[fd] = "off"
        /\ UNCHANGED <<rbuffer, wbuffer>>
        /\ \A g \in Fds \ {fd} : conn'[g] = conn[g] /\ interest'[g] = interest[g]
    BY <1>5, DisconnectCloses
  <2>2. UNCHANGED <<peer, sent, inq, out>>
    BY <2>1 DEF Closes, net
  <2>3. \A d : Taken(d)' = Taken(d)
    BY <2>2 DEF Taken
  <2>4. \A g \in Fds : interest'[g] = "out" <=> interest[g] = "out"
    BY <2>1
  <2>5. \A g \in Fds, d \in Clients : interest[g] = "out" => (conn'[g] = d <=> conn[g] = d)
    BY <2>1
  <2> QED
    BY <2>1, <2>2, <2>3, <2>4, <2>5 DEF EchoBooks
<1>6. ASSUME NEW fd \in Fds, SendCb(fd) PROVE EchoBooks'
  <2>1. PICK c \in Clients :
          /\ conn[fd] = c /\ interest[fd] = "out" /\ ~Unserved(c) /\ ~Pipe(c)
          /\ wbuffer[fd] \in Seq(Data) /\ Replies(c, wbuffer[fd])
          /\ interest' = [interest EXCEPT ![fd] = "in"] /\ events' = events \ {<<fd, "out">>}
          /\ UNCHANGED <<rbuffer, wbuffer>>
    BY <1>6, SendReplies
  <2>2. /\ out'[c] = IF c \in sk_err THEN out[c] ELSE out[c] \o wbuffer[fd]
        /\ \A d \in Clients \ {c} : out'[d] = out[d]
        /\ \A d \in Clients : Taken(d)' = Taken(d)
        /\ UNCHANGED <<peer, sent, conn>>
    BY <2>1, RepliesSockets DEF Replies
  <2>3. interest'[fd] = "in" /\ \A g \in Fds \ {fd} : interest'[g] = interest[g]
    BY <1>1, <2>1
  <2>5. /\ Len(out'[c]) <= sent[c] /\ From(out'[c], c, 0)
        /\ peer[c] # "reset" => Len(out'[c]) = Taken(c)
    <3>1. CASE c \in sk_err
      <4>1. peer[c] = "reset" /\ out'[c] = out[c]
        BY <2>2, <3>1 DEF SockInv, Errors
      <4> QED
        BY <4>1 DEF EchoBooks
    <3>2. CASE c \notin sk_err
      <4>1. peer[c] # "reset" /\ out'[c] = out[c] \o wbuffer[fd]
        BY <2>1, <2>2, <3>2 DEF Pipe
      <4>2. /\ Len(out[c]) + Len(wbuffer[fd]) = Taken(c)
            /\ From(wbuffer[fd], c, Len(out[c])) /\ From(out[c], c, 0)
        BY <2>1, <4>1 DEF EchoBooks
      <4>3. out[c] \in Seq(Data) /\ Taken(c) <= sent[c] /\ Len(out[c]) \in Nat /\ 0 \in Int
        BY Counters
      <4>4. From(wbuffer[fd], c, 0 + Len(out[c]))
        BY <4>2, <4>3
      <4>5. Len(out[c] \o wbuffer[fd]) = Taken(c) /\ From(out[c] \o wbuffer[fd], c, 0)
        BY <2>1, <4>2, <4>3, <4>4, FromConcat
      <4> QED
        BY <4>1, <4>3, <4>5
    <3> QED
      BY <3>1, <3>2
  <2>6. \A d \in Clients : Len(out'[d]) <= sent'[d] /\ From(out'[d], d, 0)
    BY <2>2, <2>5 DEF EchoBooks
  <2>7. \A g \in Fds, d \in Clients : conn'[g] = d /\ interest'[g] = "out" => g # fd /\ d # c
    BY <1>1, <2>1, <2>2, <2>3
  <2>8. \A g \in Fds, d \in Clients : conn'[g] = d /\ interest'[g] = "out" /\ peer'[d] # "reset" =>
           Len(out'[d]) + Len(wbuffer'[g]) = Taken(d)' /\ From(wbuffer'[g], d, Len(out'[d]))
    <3> SUFFICES ASSUME NEW g \in Fds, NEW d \in Clients,
                        conn'[g] = d, interest'[g] = "out", peer'[d] # "reset"
                 PROVE  Len(out'[d]) + Len(wbuffer'[g]) = Taken(d)' /\ From(wbuffer'[g], d, Len(out'[d]))
      OBVIOUS
    <3>1. g # fd /\ d # c
      BY <2>7
    <3>2. conn[g] = d /\ peer[d] # "reset" /\ interest[g] = "out"
      BY <2>2, <2>3, <3>1
    <3>3. out'[d] = out[d] /\ wbuffer'[g] = wbuffer[g] /\ Taken(d)' = Taken(d)
      BY <2>1, <2>2, <3>1
    <3>4. Len(out[d]) + Len(wbuffer[g]) = Taken(d) /\ From(wbuffer[g], d, Len(out[d]))
      BY <3>2 DEF EchoBooks
    <3> QED
      BY <3>3, <3>4
  <2>9. \A d \in Clients :
           peer'[d] # "reset" /\ (\A g \in Fds : conn'[g] = d => interest'[g] # "out") => Len(out'[d]) = Taken(d)'
    <3> SUFFICES ASSUME NEW d \in Clients, peer'[d] # "reset",
                        \A g \in Fds : conn'[g] = d => interest'[g] # "out"
                 PROVE  Len(out'[d]) = Taken(d)'
      OBVIOUS
    <3>1. CASE d = c
      BY <2>2, <2>5, <3>1
    <3>2. CASE d # c
      <4>1. \A g \in Fds : conn[g] = d => interest[g] # "out"
        BY <2>1, <2>2, <2>3, <3>2
      <4> QED
        BY <2>2, <3>2, <4>1 DEF EchoBooks
    <3> QED
      BY <3>1, <3>2
  <2> QED
    BY <2>1, <2>6, <2>8, <2>9 DEF EchoBooks
<1> QED
  BY <1>2, <1>3, <1>4, <1>5, <1>6 DEF Server, Fails

LEMMA ActsEcho ==
  ASSUME SockInv, EchoBooks, NEW c \in Clients, Acts(c), UNCHANGED <<interest, rbuffer, wbuffer>>
  PROVE  EchoBooks'
<1>1. /\ UNCHANGED <<out, conn>>
      /\ \A d \in Clients : /\ Taken(d)' = Taken(d) /\ sent[d] <= sent'[d]
                            /\ peer[d] = "reset" => peer'[d] = "reset"
  BY ActsSockets
<1>2. \A d \in Clients : sent[d] \in Nat /\ sent'[d] \in Nat /\ Len(out[d]) \in Nat
  <2>1. SockInv'
    BY ActsSockets
  <2> QED
    BY <2>1, Counters DEF SockInv, SockTypes
<1>3. \A d \in Clients : Len(out[d]) <= sent'[d]
  BY <1>1, <1>2 DEF EchoBooks
<1> QED
  BY <1>1, <1>3 DEF EchoBooks

(* Sent back, kept and unread: together all that the client has sent.      *)
LEMMA ThreeParts ==
  ASSUME SockInv, NEW c \in Clients, NEW p \in Seq(Data),
         From(out[c], c, 0), From(p, c, Len(out[c])), Len(out[c]) + Len(p) = Taken(c)
  PROVE  out[c] \o p \o inq[c] = Bytes(c, sent[c])
<1> DEFINE o == out[c]
           q == inq[c]
<1>1. /\ o \in Seq(Data) /\ q \in Seq(Byte) /\ sent[c] \in Nat /\ Len(o) \in Nat /\ Len(q) \in Nat
      /\ Taken(c) \in Nat /\ Taken(c) = sent[c] - Len(q) /\ From(q, c, Taken(c))
  BY Counters DEF SockInv, Streams
<1>2. q \in Seq(Data)
  <2>1. Byte \subseteq Data
    BY DEF Data
  <2> QED
    BY <1>1, <2>1, SeqMonotonic
<1>3. From(o, c, 0) /\ From(p, c, Len(o)) /\ Len(o) + Len(p) = Taken(c)
  OBVIOUS
<1> HIDE DEF o, q
<1>4. o \o p \in Seq(Data) /\ Len(o \o p) = Taken(c) /\ From(o \o p, c, 0)
  <2>1. From(p, c, 0 + Len(o)) /\ 0 \in Int
    BY <1>1, <1>3
  <2> QED
    BY <1>1, <1>3, <2>1, FromConcat
<1>5. PICK x \in Seq(Data) : x = o \o p
  BY <1>4
<1>6. x \o q \in Seq(Data) /\ Len(x \o q) = sent[c] /\ From(x \o q, c, 0)
  <2>1. From(q, c, 0 + Len(x)) /\ 0 \in Int
    BY <1>1, <1>4, <1>5
  <2>2. Len(x) = Taken(c)
    BY <1>4, <1>5
  <2>3. Taken(c) + Len(q) = sent[c]
    BY <1>1
  <2>4. Len(x) + Len(q) = sent[c]
    BY <2>2, <2>3
  <2> QED
    BY <1>1, <1>2, <1>4, <1>5, <2>1, <2>4, FromConcat
<1>7. PICK y \in Seq(Data), n \in Nat : y = x \o q /\ n = sent[c]
  BY <1>1, <1>6
<1>8. y = Bytes(c, n)
  BY <1>6, <1>7, AllBytes
<1> QED
  BY <1>5, <1>7, <1>8 DEF o, q

(* EchoInOrder from the books.                                             *)
LEMMA EchoPromise == ASSUME SockInv, EpollInv, EchoBooks PROVE EchoInOrder
<1> SUFFICES ASSUME NEW c \in Clients
             PROVE  IF peer[c] # "reset" THEN out[c] \o Pending(c) \o inq[c] = Bytes(c, sent[c])
                                         ELSE IsPrefix(out[c], Bytes(c, sent[c]))
  BY DEF EchoInOrder
<1> DEFINE o == out[c]
<1>1. /\ o \in Seq(Data) /\ sent[c] \in Nat /\ Len(o) \in Nat /\ Taken(c) \in Nat
      /\ From(o, c, 0) /\ Len(o) <= sent[c]
  BY Counters DEF EchoBooks
<1> HIDE DEF o
<1>3. CASE peer[c] # "reset"
  <2>1. /\ Pending(c) \in Seq(Data) /\ Len(o) + Len(Pending(c)) = Taken(c)
        /\ From(Pending(c), c, Len(o))
    <3>1. ASSUME NEW fd \in Fds, conn[fd] = c, interest[fd] = "out"
          PROVE  /\ Pending(c) \in Seq(Data) /\ Len(o) + Len(Pending(c)) = Taken(c)
                 /\ From(Pending(c), c, Len(o))
      <4>1. \A g \in Fds : conn[g] = c => g = fd
        BY <3>1 DEF SockInv, Placed
      <4>2. Pending(c) = wbuffer[fd]
        BY <3>1, <4>1 DEF Pending
      <4> QED
        BY <1>3, <3>1, <4>2 DEF EpollInv, EchoBooks, o
    <3>2. ASSUME \A fd \in Fds : conn[fd] = c => interest[fd] # "out"
          PROVE  /\ Pending(c) \in Seq(Data) /\ Len(o) + Len(Pending(c)) = Taken(c)
                 /\ From(Pending(c), c, Len(o))
      <4>1. Pending(c) = <<>> /\ <<>> \in Seq(Data) /\ Len(<<>>) = 0
        BY <3>2 DEF Pending
      <4>2. Len(o) = Taken(c)
        BY <1>3, <3>2 DEF EchoBooks, o
      <4> QED
        BY <1>1, <4>1, <4>2, FromEmpty
    <3> QED
      BY <3>1, <3>2
  <2> QED
    BY <1>1, <1>3, <2>1, ThreeParts DEF o
<1>4. CASE peer[c] = "reset"
  <2>1. PICK n \in Nat : n = sent[c]
    BY <1>1
  <2>2. Bytes(c, n) = [i \in 1..n |-> <<c, i>>]
    BY DEF Bytes
  <2>3. Bytes(c, n) \in Seq(Byte) /\ Len(Bytes(c, n)) = n /\ From(Bytes(c, n), c, 0)
    BY <2>2 DEF From, Byte
  <2>4. PICK b \in Seq(Byte) : b = Bytes(c, n)
    BY <2>3
  <2>5. /\ SubSeq(b, 1, Len(o)) \in Seq(Byte) /\ Len(SubSeq(b, 1, Len(o))) = Len(o)
        /\ From(SubSeq(b, 1, Len(o)), c, 0)
    <3>1. Len(o) \in 0..Len(b) /\ 0 \in Int /\ From(b, c, 0)
      BY <1>1, <2>1, <2>3, <2>4
    <3> QED
      BY <3>1, FromSplit
  <2>6. PICK s \in Seq(Byte), m \in Nat : s = SubSeq(b, 1, Len(o)) /\ m = Len(o)
    BY <1>1, <2>5
  <2>7. s = Bytes(c, m)
    BY <2>5, <2>6, AllBytes
  <2>8. o = Bytes(c, m)
    BY <1>1, <2>6, AllBytes
  <2>9. SubSeq(o, 1, Len(o)) = o
    BY <1>1, SubSeqFull
  <2>10. IsPrefix(o, b)
    BY <1>1, <2>1, <2>3, <2>4, <2>6, <2>7, <2>8, <2>9 DEF IsPrefix
  <2> QED
    BY <1>4, <2>1, <2>4, <2>10 DEF o
<1> QED
  BY <1>3, <1>4
-----------------------------------------------------------------------------
(* The io_uring server.  What its steps do to the requests.                *)
LEMMA CompleteRequest ==
  ASSUME Chains, NEW k \in Clients \cup {Listener}, NEW n \in Int, NEW r, r = Complete(k, n)
  PROVE  /\ r \in [Clients \cup {Listener} -> RequestSet]
         /\ r[k].type = ring[k].type /\ r[k].fd = ring[k].fd /\ r[k].sock = ring[k].sock
         /\ r[k].stage = "done" /\ r[k].n = n
         /\ \A d \in (Clients \cup {Listener}) \ {k} : r[d] = ring[d]
BY DEF Chains, Complete, RequestSet

LEMMA SubmitRequests ==
  ASSUME SockInv, Chains, Submit
  PROVE  /\ ring' \in [Clients \cup {Listener} -> RequestSet]
         /\ \A k \in Clients \cup {Listener} :
              /\ ring'[k].type = ring[k].type /\ ring'[k].fd = ring[k].fd /\ ring'[k].n = ring[k].n
              /\ ring[k].stage # "prepared" => ring'[k] = ring[k]
              /\ ring[k].stage = "prepared" =>
                   /\ ring'[k].stage = "submitted"
                   /\ ring'[k].sock = IF ring[k].fd = NoFd THEN NoClient ELSE conn[ring[k].fd]
<1>1. ring' = [k \in Clients \cup {Listener} |->
                 IF ring[k].stage # "prepared" THEN ring[k]
                 ELSE [ring[k] EXCEPT !.stage = "submitted",
                                      !.sock = IF ring[k].fd = NoFd THEN NoClient ELSE conn[ring[k].fd]]]
  BY DEF Submit, Chains
<1>2. \A k \in Clients \cup {Listener} :
        ring[k] \in RequestSet /\ (IF ring[k].fd = NoFd THEN NoClient ELSE conn[ring[k].fd]) \in Clients \cup {NoClient}
  BY DEF Chains, SockInv, SockTypes, RequestSet
<1>3. ASSUME NEW k \in Clients \cup {Listener}
      PROVE  /\ ring'[k] \in RequestSet
             /\ ring'[k].type = ring[k].type /\ ring'[k].fd = ring[k].fd /\ ring'[k].n = ring[k].n
             /\ ring[k].stage # "prepared" => ring'[k] = ring[k]
             /\ ring[k].stage = "prepared" =>
                  /\ ring'[k].stage = "submitted"
                  /\ ring'[k].sock = IF ring[k].fd = NoFd THEN NoClient ELSE conn[ring[k].fd]
  <2>1. PICK q, s : q = ring[k] /\ s = IF ring[k].fd = NoFd THEN NoClient ELSE conn[ring[k].fd]
    OBVIOUS
  <2>2. q \in RequestSet /\ s \in Clients \cup {NoClient}
    BY <1>2, <2>1
  <2>3. ring'[k] = IF q.stage # "prepared" THEN q
                   ELSE [q EXCEPT !.stage = "submitted", !.sock = s]
    BY <1>1, <2>1
  <2>4. CASE q.stage # "prepared"
    BY <2>1, <2>2, <2>3, <2>4
  <2>5. CASE q.stage = "prepared"
    <3>1. PICK p : p = [q EXCEPT !.stage = "submitted", !.sock = s]
      OBVIOUS
    <3>2. /\ p \in RequestSet /\ p.type = q.type /\ p.fd = q.fd /\ p.n = q.n
          /\ p.stage = "submitted" /\ p.sock = s
      BY <2>2, <3>1 DEF RequestSet
    <3>3. ring'[k] = p
      BY <2>3, <2>5, <3>1
    <3> QED
      BY <2>1, <2>5, <3>2, <3>3
  <2> QED
    BY <2>4, <2>5
<1>4. ring' \in [Clients \cup {Listener} -> RequestSet]
  <2>1. DOMAIN ring' = Clients \cup {Listener} /\ ring' = [k \in DOMAIN ring' |-> ring'[k]]
    BY <1>1
  <2> QED
    BY <1>3, <2>1
<1> QED
  BY <1>3, <1>4

LEMMA BatchRequests ==
  ASSUME SockInv, Chains, Batch
  PROVE  /\ ring' \in [Clients \cup {Listener} -> RequestSet] /\ buffer' = buffer /\ Closes
         /\ ring'[Listener].type = "accept" /\ ring'[Listener].fd = NoFd
         /\ \A c \in Clients :
              /\ ring'[c].fd = ring[c].fd
              /\ \/ ring'[c] = ring[c] /\ ring[c].stage # "done"
                 \/ /\ ring'[c].stage = "prepared" /\ ring'[c].sock = NoClient
                    /\ ring[c].stage = "done" \/ (ring[c].type = "none" /\ ring[c].fd # NoFd)
                    /\ IF ring[c].type = "read" THEN ring'[c].type = "write" /\ ring'[c].n = ring[c].n
                                                ELSE ring'[c].type = "read" /\ ring'[c].n = 0
         /\ \A fd \in Fds :
              /\ conn[fd] = NoClient => conn'[fd] = NoClient
              /\ conn'[fd] = conn[fd] \/ \E c \in Clients : /\ ring[c].type = "read" /\ ring[c].stage = "done"
                                                            /\ ring[c].fd = fd /\ ring[c].n = 0
<1>1. /\ ring \in [Clients \cup {Listener} -> RequestSet] /\ DOMAIN ring = Clients \cup {Listener}
      /\ ring[Listener].type = "accept" /\ ring[Listener].fd = NoFd /\ Listener \notin Clients
      /\ NoClient \notin Clients /\ \A c \in Clients : ChainOf(c)
  BY UringAssumption, NamesAssumption DEF Chains
<1>2. /\ ring' = [k \in Clients \cup {Listener} |->
                    IF k \notin In("done") THEN IF k # Listener /\ Fresh(k) THEN set_recv_event(ring[k].fd) ELSE ring[k]
                    ELSE IF k = Listener THEN OnAccept
                    ELSE IF ring[k].type = "read" THEN OnRead(k) ELSE OnWrite(k)]
      /\ conn' = [fd \in Fds |->
                    IF \E c \in In("done") : ring[c].type = "read" /\ ring[c].fd = fd /\ ring[c].n = 0
                      THEN NoClient ELSE conn[fd]]
      /\ UNCHANGED <<net, backlog, buffer>>
  BY <1>1 DEF Batch
<1>3. \A k \in Clients \cup {Listener} : k \in In("done") <=> ring[k].stage = "done"
  BY <1>1 DEF In
<1>4. /\ Closes
      /\ \A fd \in Fds :
              /\ conn[fd] = NoClient => conn'[fd] = NoClient
              /\ conn'[fd] = conn[fd] \/ \E c \in Clients : /\ ring[c].type = "read" /\ ring[c].stage = "done"
                                                            /\ ring[c].fd = fd /\ ring[c].n = 0
  <2>1. conn \in [Fds -> Clients \cup {NoClient}]
    BY DEF SockInv, SockTypes
  <2>2. \A c \in In("done") : ring[c].type = "read" => c \in Clients /\ ring[c].stage = "done"
    BY <1>1 DEF In
  <2> QED
    BY <1>2, <2>1, <2>2 DEF Closes, net
<1>5. ring'[Listener].type = "accept" /\ ring'[Listener].fd = NoFd /\ ring'[Listener] \in RequestSet
  <2>1. ring'[Listener] = IF Listener \notin In("done") THEN ring[Listener] ELSE Request("accept", NoFd, 0)
    BY <1>2 DEF OnAccept, set_accept_event
  <2>2. Request("accept", NoFd, 0) \in RequestSet /\ Request("accept", NoFd, 0).type = "accept"
        /\ Request("accept", NoFd, 0).fd = NoFd
    BY DEF Request, RequestSet
  <2> QED
    BY <1>1, <2>1, <2>2
<1>6. ASSUME NEW c \in Clients
      PROVE  /\ ring'[c] \in RequestSet /\ ring'[c].fd = ring[c].fd
             /\ \/ ring'[c] = ring[c] /\ ring[c].stage # "done"
                \/ /\ ring'[c].stage = "prepared" /\ ring'[c].sock = NoClient
                   /\ ring[c].stage = "done" \/ (ring[c].type = "none" /\ ring[c].fd # NoFd)
                   /\ IF ring[c].type = "read" THEN ring'[c].type = "write" /\ ring'[c].n = ring[c].n
                                               ELSE ring'[c].type = "read" /\ ring'[c].n = 0
  <2>1. ring[c].fd \in Fds \cup {NoFd} /\ ring[c].n \in Int /\ ring[c] \in RequestSet
    BY <1>1 DEF RequestSet
  <2>2. ASSUME NEW type \in {"read", "write"}, NEW n \in Int, ring'[c] = Request(type, ring[c].fd, n)
        PROVE  /\ ring'[c] \in RequestSet /\ ring'[c].fd = ring[c].fd /\ ring'[c].type = type
               /\ ring'[c].n = n /\ ring'[c].stage = "prepared" /\ ring'[c].sock = NoClient
    BY <2>1, <2>2 DEF Request, RequestSet
  <2>3. CASE ring[c].stage # "done" /\ Fresh(c)
    <3>1. ring'[c] = Request("read", ring[c].fd, 0)
      BY <1>1, <1>2, <1>3, <2>3 DEF set_recv_event
    <3> QED
      BY <2>2, <2>3, <3>1 DEF Fresh
  <2>4. CASE ring[c].stage # "done" /\ ~Fresh(c)
    BY <1>1, <1>2, <1>3, <2>1, <2>4
  <2>5. CASE ring[c].stage = "done" /\ ring[c].type = "read"
    <3>1. ring'[c] = Request("write", ring[c].fd, ring[c].n)
      BY <1>1, <1>2, <1>3, <2>5 DEF OnRead, set_send_event
    <3> QED
      BY <2>1, <2>2, <2>5, <3>1
  <2>6. CASE ring[c].stage = "done" /\ ring[c].type # "read"
    <3>1. ring'[c] = Request("read", ring[c].fd, 0)
      BY <1>1, <1>2, <1>3, <2>6 DEF OnWrite, set_recv_event
    <3> QED
      BY <2>2, <2>6, <3>1
  <2> QED
    BY <2>3, <2>4, <2>5, <2>6
<1>7. ring' \in [Clients \cup {Listener} -> RequestSet]
  BY <1>2, <1>5, <1>6
<1> QED
  BY <1>2, <1>4, <1>5, <1>6, <1>7

LEMMA AcceptRequests ==
  ASSUME SockInv, Chains, DoAccept, NEW c, c = Head(backlog), NEW f, f = ClientFd
  PROVE  /\ Accepts /\ buffer' = buffer /\ c \in Clients /\ f \in Fds
         /\ ring' \in [Clients \cup {Listener} -> RequestSet]
         /\ ring'[Listener].type = "accept" /\ ring'[Listener].fd = NoFd
         /\ ring'[c] = [ring[c] EXCEPT !.fd = f] /\ ring'[c].fd = f
         /\ \A d \in Clients \ {c} : ring'[d] = ring[d]
<1>1. /\ Accepts /\ ring' = [Complete(Listener, 0) EXCEPT ![c].fd = f] /\ buffer' = buffer
  BY DEF DoAccept, Accepts
<1>2. c \in Clients /\ f \in Fds /\ Listener \notin Clients
  BY <1>1, AcceptsSockets, UringAssumption
<1>3. PICK r : r = Complete(Listener, 0)
  OBVIOUS
<1>4. /\ r \in [Clients \cup {Listener} -> RequestSet] /\ r[Listener].type = "accept" /\ r[Listener].fd = NoFd
      /\ \A d \in Clients : r[d] = ring[d]
  BY <1>2, <1>3, CompleteRequest DEF Chains
<1>5. r[c] \in RequestSet /\ [r[c] EXCEPT !.fd = f] \in RequestSet /\ [r[c] EXCEPT !.fd = f].fd = f
  BY <1>2, <1>4 DEF RequestSet
<1> QED
  BY <1>1, <1>2, <1>3, <1>4, <1>5

(* A request acts on the connection that its descriptor had when it was    *)
(* submitted; a descriptor that was never reused has one connection.       *)
LEMMA OwnSock ==
  ASSUME Chains, NEW c \in Clients, OneChain(c)
  PROVE  \A d \in Clients : (ring[d].sock = c => d = c) /\ (ring[c].sock = d => d = c)
BY DEF Chains, OneChain

LEMMA SockServed ==
  ASSUME Chains, NEW k \in Clients, NEW s \in Clients, ring[k].sock = s
  PROVE  ring[k].type # "none" /\ ~Unserved(s)
<1>1. ring[k].type # "none"
  BY NamesAssumption DEF Chains, ChainOf
<1>2. ring[k].fd # NoFd /\ ring[s].fd = ring[k].fd
  BY <1>1 DEF Chains, ChainOf
<1> QED
  BY <1>1, <1>2 DEF Chains, ChainOf

(* What the kernel does to the sockets and the buffer for a request of     *)
(* chain k.                                                                *)
LEMMA DoRecvReads ==
  ASSUME SockInv, Chains, NEW k \in Clients, DoRecv(k)
  PROVE  \E s \in Clients, n \in Nat \ {0} :
           /\ ring[k].sock = s /\ ~Unserved(s) /\ Reads(s, n) /\ ring' = Complete(k, n) /\ inq[s] # <<>>
           /\ buffer' \in Seq(Byte) /\ n <= Len(buffer') /\ Len(buffer) <= Len(buffer')
           /\ SubSeq(buffer', 1, n) = Received(s, n)
<1>1. /\ ring[k].sock # NoClient /\ inq[ring[k].sock] # <<>>
      /\ LET s == ring[k].sock  n == RecvCount(s, BufferLength) IN
         /\ Consume(s, n) /\ buffer' = Received(s, n) \o SubSeq(buffer, n + 1, Len(buffer))
         /\ ring' = Complete(k, n)
      /\ UNCHANGED <<peer, sent, sk_err, out, backlog, conn>>
  BY DEF DoRecv
<1>2. PICK s \in Clients : s = ring[k].sock
  BY <1>1 DEF Chains, RequestSet
<1>3. ~Unserved(s)
  BY <1>2, SockServed
<1>4. PICK n : n = RecvCount(s, BufferLength)
  OBVIOUS
<1>5. n \in 1..Len(inq[s]) /\ Len(inq[s]) \in Nat
  BY <1>1, <1>2, <1>4, CountRange, UringAssumption, Counters
<1>6. n \in Nat \ {0}
  BY <1>5
<1>7. Reads(s, n) /\ ring' = Complete(k, n) /\ inq[s] # <<>>
  BY <1>1, <1>2, <1>4, <1>5 DEF Reads
<1>8. PICK a \in Seq(Byte) : a = Received(s, n) /\ Len(a) = n
  BY <1>3, <1>6, <1>7, ReadsSockets
<1>9. buffer \in Seq(Byte) /\ Len(buffer) \in Nat
  BY DEF Chains
<1>10. PICK b : b = SubSeq(buffer, n + 1, Len(buffer))
  OBVIOUS
<1>11. b \in Seq(Byte) /\ Len(b) \in Nat /\ n + Len(b) >= Len(buffer)
  <2>1. n + 1 \in Int /\ Len(buffer) \in Int /\ \A i \in (n + 1)..Len(buffer) : buffer[i] \in Byte
    BY <1>6, <1>9
  <2>2. b \in Seq(Byte) /\ Len(b) = IF n + 1 <= Len(buffer) THEN Len(buffer) - (n + 1) + 1 ELSE 0
    BY <1>10, <2>1, SubSeqProperties
  <2> QED
    BY <1>6, <1>9, <2>2
<1>12. buffer' = a \o b
  BY <1>1, <1>2, <1>4, <1>8, <1>10
<1>13. a \o b \in Seq(Byte) /\ Len(a \o b) = n + Len(b)
  BY <1>8, <1>11, ConcatProperties
<1>14. SubSeq(a \o b, 1, n) = a
  <2>1. SubSeq(a \o b, 1, Len(a)) = SubSeq(a, 1, Len(a)) /\ SubSeq(a, 1, Len(a)) = a
    BY <1>8, <1>11, SubSeqFull, SubSeqOfConcat1
  <2> QED
    BY <1>8, <2>1
<1>15. n <= n + Len(b) /\ Len(buffer) <= n + Len(b)
  BY <1>6, <1>9, <1>11
<1> QED
  BY <1>2, <1>3, <1>6, <1>7, <1>8, <1>12, <1>13, <1>14, <1>15

(* A send either reaches the socket or leaves it alone.                    *)
LEMMA DoSendReplies ==
  ASSUME SockInv, Chains, NEW k \in Clients, DoSend(k)
  PROVE  /\ ring' = Complete(k, 0) /\ buffer' = buffer
         /\ \/ Idles /\ (ring[k].sock = NoClient \/ peer[ring[k].sock] = "reset")
            \/ \E s \in Clients, bytes \in Seq(Data) :
                 /\ ring[k].sock = s /\ ~Unserved(s) /\ Replies(s, bytes)
                 /\ ring[k].n >= 0 => bytes = SubSeq(buffer, 1, ring[k].n)
<1>1. /\ ring[k].type = "write" /\ ring[k].stage = "submitted"
      /\ ring' = Complete(k, 0) /\ UNCHANGED <<peer, sent, inq, backlog, conn, buffer>>
  BY DEF DoSend, Submitted
<1>2. ring[k].sock \in Clients \cup {NoClient} /\ ring[k].n \in Int /\ buffer \in Seq(Byte)
  BY DEF Chains, RequestSet
<1>3. CASE ring[k].sock = NoClient \/ Pipe(ring[k].sock)
  BY <1>1, <1>3 DEF DoSend, Idles, Pipe
<1>4. CASE ~(ring[k].sock = NoClient \/ Pipe(ring[k].sock))
  <2>1. PICK s \in Clients : s = ring[k].sock
    BY <1>2, <1>4
  <2>2. PICK n \in Int : n = ring[k].n
    BY <1>2
  <2>3. \/ n >= 0 /\ Transmit(s, SubSeq(buffer, 1, n))
        \/ n < 0 /\ \E bytes \in {<<>>, Append(buffer, Junk)} : Transmit(s, bytes)
    BY <1>4, <2>1, <2>2 DEF DoSend
  <2>4. ~Unserved(s)
    BY <2>1, SockServed
  <2>5. CASE n >= 0 /\ Transmit(s, SubSeq(buffer, 1, n))
    <3>1. n <= Len(buffer)
      <4>1. Read(k) <= Len(buffer) /\ Len(buffer) \in Nat
        BY DEF Chains
      <4>2. n > 0 => Read(k) = n
        BY <1>1, <2>2 DEF Read
      <4> QED
        BY <2>5, <4>1, <4>2
    <3>2. \A i \in 1..n : buffer[i] \in Data
      <4>1. \A i \in 1..n : i \in 1..Len(buffer)
        BY <1>2, <3>1
      <4> QED
        BY <1>2, <4>1 DEF Data
    <3>3. SubSeq(buffer, 1, n) \in Seq(Data)
      BY <3>2, SubSeqProperties
    <3> QED
      BY <1>1, <2>1, <2>2, <2>4, <2>5, <3>3 DEF Replies
  <2>6. CASE n < 0 /\ \E bytes \in {<<>>, Append(buffer, Junk)} : Transmit(s, bytes)
    <3>1. PICK bytes \in {<<>>, Append(buffer, Junk)} : Transmit(s, bytes)
      BY <2>6
    <3>2. buffer \in Seq(Data) /\ Junk \in Data
      <4>1. Byte \subseteq Data /\ Junk \in Data
        BY DEF Data
      <4> QED
        BY <1>2, <4>1, SeqMonotonic
    <3>3. bytes \in Seq(Data)
      <4>1. Append(buffer, Junk) \in Seq(Data)
        BY <3>2, AppendProperties
      <4>2. <<>> \in Seq(Data)
        OBVIOUS
      <4> QED
        BY <3>1, <4>1, <4>2
    <3>4. ~(ring[k].n >= 0)
      BY <2>2, <2>6
    <3> QED
      BY <1>1, <2>1, <2>4, <3>1, <3>3, <3>4 DEF Replies
  <2> QED
    BY <2>3, <2>5, <2>6
<1> QED
  BY <1>3, <1>4

LEMMA KernelSockets ==
  ASSUME SockInv, Chains, NEW k \in Clients, UringKernel(k)
  PROVE  /\ SockInv' /\ UNCHANGED <<peer, sent, backlog, conn>>
         /\ \E n \in Int : ring' = Complete(k, n)
         /\ ring[k].stage = "submitted" /\ ring[k].type \in {"read", "write"}
         /\ buffer' \in Seq(Byte) /\ Len(buffer) <= Len(buffer')
         /\ \A d \in Clients : ring[k].sock # d => inq'[d] = inq[d] /\ out'[d] = out[d]
<1>1. buffer \in Seq(Byte) /\ Len(buffer) <= Len(buffer)
  BY DEF Chains
<1>2. inq \in [Clients -> Seq(Byte)] /\ out \in [Clients -> Seq(Data)]
  BY DEF SockInv, SockTypes
<1>3. /\ UNCHANGED <<peer, sent, backlog, conn>>
      /\ ring[k].stage = "submitted" /\ ring[k].type \in {"read", "write"}
  BY DEF UringKernel, DoRecv, DoRecvEnd, DoRecvFails, DoSend, Submitted, sockets, net
<1>4. CASE DoRecv(k)
  <2>1. PICK s \in Clients, n \in Nat \ {0} :
           /\ ring[k].sock = s /\ ~Unserved(s) /\ Reads(s, n) /\ ring' = Complete(k, n)
           /\ buffer' \in Seq(Byte) /\ Len(buffer) <= Len(buffer')
    BY <1>4, DoRecvReads
  <2>2. SockInv' /\ n \in Int /\ out' = out /\ \A d \in Clients \ {s} : inq'[d] = inq[d]
    BY <2>1, ReadsSockets DEF Reads
  <2> QED
    BY <1>3, <2>1, <2>2
<1>5. CASE DoRecvEnd(k) \/ DoRecvFails(k)
  <2>1. Idles /\ UNCHANGED <<inq, out, buffer>> /\ \E n \in Int : ring' = Complete(k, n)
    BY <1>5 DEF DoRecvEnd, DoRecvFails, Idles, sockets, net
  <2> QED
    BY <1>1, <1>3, <2>1, IdlesSockets
<1>6. CASE DoSend(k)
  <2>1. ring' = Complete(k, 0) /\ buffer' = buffer /\ 0 \in Int
    BY <1>6, DoSendReplies
  <2>2. CASE Idles
    BY <1>1, <1>3, <2>1, <2>2, IdlesSockets DEF Idles
  <2>3. ASSUME NEW s \in Clients, NEW bytes \in Seq(Data), ring[k].sock = s, ~Unserved(s), Replies(s, bytes)
        PROVE  SockInv' /\ inq' = inq /\ \A d \in Clients \ {s} : out'[d] = out[d]
    BY <2>3, RepliesSockets DEF Replies
  <2> QED
    BY <1>1, <1>3, <1>6, <2>1, <2>2, <2>3, DoSendReplies
<1> QED
  BY <1>4, <1>5, <1>6 DEF UringKernel

LEMMA ReadCount == ASSUME Chains, NEW c \in Clients PROVE Read(c) \in Nat
BY DEF Chains, RequestSet, Read

LEMMA KernelChains ==
  ASSUME SockInv, Chains, NEW k \in Clients, UringKernel(k)
  PROVE  Chains'
<1>1. /\ SockInv' /\ UNCHANGED <<peer, backlog, conn>>
      /\ ring[k].stage = "submitted" /\ ring[k].type \in {"read", "write"}
      /\ buffer' \in Seq(Byte) /\ Len(buffer) <= Len(buffer')
  BY KernelSockets
<1>2. PICK n \in Int : ring' = Complete(k, n)
  BY KernelSockets
<1>3. /\ ring' \in [Clients \cup {Listener} -> RequestSet]
      /\ ring'[k].type = ring[k].type /\ ring'[k].fd = ring[k].fd /\ ring'[k].sock = ring[k].sock
      /\ ring'[k].stage = "done" /\ ring'[k].n = n
      /\ \A d \in (Clients \cup {Listener}) \ {k} : ring'[d] = ring[d]
  BY <1>2, CompleteRequest
<1>4. \A c : Unserved(c)' <=> Unserved(c)
  BY <1>1 DEF Unserved, Queued
<1>5. \A c \in Clients : ChainOf(c)
  BY DEF Chains
<1>6. \A c \in Clients : ChainOf(c)'
  <2>1. ASSUME NEW c \in Clients, c # k PROVE ChainOf(c)'
    BY <1>3, <1>4, <1>5, <2>1 DEF ChainOf
  <2>2. ChainOf(k)'
    BY <1>1, <1>3, <1>4, <1>5 DEF ChainOf
  <2> QED
    BY <2>1, <2>2
<1>7. Len(buffer') \in Nat /\ Len(buffer) \in Nat
  BY <1>1 DEF Chains
<1>8. n <= Len(buffer')
  <2>1. CASE DoRecv(k)
    <3>1. PICK m \in Nat \ {0} : ring' = Complete(k, m) /\ m <= Len(buffer')
      BY <2>1, DoRecvReads
    <3>2. ring'[k].n = m
      BY <3>1, CompleteRequest
    <3> QED
      BY <1>3, <3>1, <3>2
  <2>2. CASE DoRecvEnd(k) \/ DoRecvFails(k) \/ DoSend(k)
    <3>1. ring' = Complete(k, 0) \/ ring' = Complete(k, -1)
      BY <2>2 DEF DoRecvEnd, DoRecvFails, DoSend
    <3>2. ring'[k].n = 0 \/ ring'[k].n = -1
      BY <3>1, CompleteRequest
    <3> QED
      BY <1>3, <1>7, <3>2
  <2> QED
    BY <2>1, <2>2 DEF UringKernel
<1>9. \A c \in Clients : Read(c)' <= Len(buffer')
  <2>1. Read(k)' <= Len(buffer')
    BY <1>3, <1>7, <1>8 DEF Read
  <2>2. ASSUME NEW c \in Clients, c # k PROVE Read(c)' <= Len(buffer')
    <3>1. Read(c)' = Read(c) /\ Read(c) <= Len(buffer) /\ Read(c) \in Nat
      BY <1>3, <2>2, ReadCount DEF Read, Chains
    <3> QED
      BY <1>1, <1>7, <3>1
  <2> QED
    BY <2>1, <2>2
<1>10. \A c \in Clients : ring'[c].fd = ring[c].fd /\ ring'[c].sock = ring[c].sock
  BY <1>3
<1>11. Listener \notin Clients
  BY UringAssumption
<1>12. ring'[Listener].type = "accept" /\ ring'[Listener].fd = NoFd
  BY <1>3, <1>11 DEF Chains
<1>13. /\ \A c, d \in Clients : ring'[c].sock = d => ring'[d].fd = ring'[c].fd
       /\ \A c \in Clients, fd \in Fds : conn'[fd] = c => ring'[c].fd = fd
  BY <1>1, <1>10 DEF Chains
<1> QED
  BY <1>1, <1>3, <1>6, <1>9, <1>12, <1>13 DEF Chains

LEMMA SubmitChains ==
  ASSUME SockInv, Chains, Submit
  PROVE  SockInv' /\ Chains'
<1>1. UNCHANGED <<peer, sent, inq, out, sk_err, backlog, conn, buffer>>
  BY DEF Submit, sockets, net
<1>2. /\ ring' \in [Clients \cup {Listener} -> RequestSet]
      /\ \A k \in Clients \cup {Listener} :
              /\ ring'[k].type = ring[k].type /\ ring'[k].fd = ring[k].fd /\ ring'[k].n = ring[k].n
              /\ ring[k].stage # "prepared" => ring'[k] = ring[k]
              /\ ring[k].stage = "prepared" =>
                   /\ ring'[k].stage = "submitted"
                   /\ ring'[k].sock = IF ring[k].fd = NoFd THEN NoClient ELSE conn[ring[k].fd]
  BY SubmitRequests
<1>3. SockInv'
  BY <1>1, IdlesSockets DEF Idles
<1>4. \A c : Unserved(c)' <=> Unserved(c)
  BY <1>1 DEF Unserved, Queued
<1>5. \A c \in Clients : ChainOf(c)
  BY DEF Chains
<1>6. ASSUME NEW c \in Clients PROVE ChainOf(c)'
  <2>1. CASE ring[c].stage # "prepared"
    BY <1>2, <1>4, <1>5, <2>1 DEF ChainOf
  <2>2. CASE ring[c].stage = "prepared"
    BY <1>2, <1>4, <1>5, <2>2 DEF ChainOf
  <2> QED
    BY <2>1, <2>2
<1>7. ASSUME NEW c \in Clients PROVE Read(c)' = Read(c)
  <2>1. CASE ring[c].stage # "prepared"
    BY <1>2, <2>1 DEF Read
  <2>2. CASE ring[c].stage = "prepared"
    BY <1>2, <2>2 DEF Read
  <2> QED
    BY <2>1, <2>2
<1>8. ASSUME NEW c \in Clients, NEW d \in Clients, ring'[c].sock = d PROVE ring'[d].fd = ring'[c].fd
  <2>1. CASE ring[c].stage # "prepared"
    BY <1>2, <1>8, <2>1 DEF Chains
  <2>2. CASE ring[c].stage = "prepared"
    <3>1. ring[c].fd # NoFd /\ conn[ring[c].fd] = d
      BY <1>2, <1>8, <2>2, NamesAssumption
    <3>2. ring[c].fd \in Fds
      BY <3>1 DEF Chains, RequestSet
    <3> QED
      BY <1>2, <3>1, <3>2 DEF Chains
  <2> QED
    BY <2>1, <2>2
<1>9. \A c \in Clients, fd \in Fds : conn'[fd] = c => ring'[c].fd = fd
  BY <1>1, <1>2 DEF Chains
<1> QED
  BY <1>1, <1>2, <1>3, <1>6, <1>7, <1>8, <1>9 DEF Chains

LEMMA BatchChains ==
  ASSUME SockInv, Chains, Batch
  PROVE  SockInv' /\ Chains' /\ \A c \in Clients : Read(c)' = Read(c)
<1>1. /\ ring' \in [Clients \cup {Listener} -> RequestSet] /\ buffer' = buffer /\ Closes
      /\ ring'[Listener].type = "accept" /\ ring'[Listener].fd = NoFd
      /\ \A c \in Clients : ring'[c].fd = ring[c].fd
  BY BatchRequests
<1>2. SockInv' /\ \A c \in Clients : Unserved(c)' <=> Unserved(c)
  BY <1>1, ClosesSockets
<1>3. ASSUME NEW c \in Clients PROVE ChainOf(c)' /\ Read(c)' = Read(c) /\ ring'[c].sock \in {ring[c].sock, NoClient}
  <2>1. ChainOf(c) /\ ring[c] \in RequestSet
    BY DEF Chains
  <2>2. CASE ring'[c] = ring[c] /\ ring[c].stage # "done"
    BY <1>2, <2>1, <2>2 DEF ChainOf, Read
  <2>3. CASE /\ ring'[c].stage = "prepared" /\ ring'[c].sock = NoClient
             /\ ring[c].stage = "done" \/ (ring[c].type = "none" /\ ring[c].fd # NoFd)
             /\ IF ring[c].type = "read" THEN ring'[c].type = "write" /\ ring'[c].n = ring[c].n
                                         ELSE ring'[c].type = "read" /\ ring'[c].n = 0
    <3>1. ring[c].fd # NoFd /\ ring'[c].fd = ring[c].fd
      BY <1>1, <2>1, <2>3 DEF ChainOf
    <3>2. ChainOf(c)'
      BY <1>2, <2>1, <2>3, <3>1 DEF ChainOf
    <3>3. Read(c)' = Read(c)
      BY <2>1, <2>3 DEF Read, ChainOf, RequestSet
    <3> QED
      BY <2>3, <3>2, <3>3
  <2> QED
    BY <2>2, <2>3, BatchRequests
<1>4. \A c, d \in Clients : ring'[c].sock = d => ring'[d].fd = ring'[c].fd
  BY <1>1, <1>3, NamesAssumption DEF Chains
<1>5. \A c \in Clients, fd \in Fds : conn'[fd] = c => ring'[c].fd = fd
  <2>1. \A c \in Clients, fd \in Fds : conn'[fd] = c => conn[fd] = c
    BY <1>1, NamesAssumption DEF Closes
  <2> QED
    BY <1>1, <2>1 DEF Chains
<1> QED
  BY <1>1, <1>2, <1>3, <1>4, <1>5 DEF Chains

LEMMA AcceptChains ==
  ASSUME SockInv, Chains, DoAccept
  PROVE  SockInv' /\ Chains' /\ \A c \in Clients : Read(c)' = Read(c)
<1>1. PICK c, f : c = Head(backlog) /\ f = ClientFd
  OBVIOUS
<1>2. /\ Accepts /\ buffer' = buffer /\ c \in Clients /\ f \in Fds
      /\ ring' \in [Clients \cup {Listener} -> RequestSet]
      /\ ring'[Listener].type = "accept" /\ ring'[Listener].fd = NoFd
      /\ ring'[c] = [ring[c] EXCEPT !.fd = f] /\ ring'[c].fd = f
      /\ \A d \in Clients \ {c} : ring'[d] = ring[d]
  BY <1>1, AcceptRequests
<1>3. /\ SockInv' /\ Unserved(c) /\ ~Unserved(c)' /\ conn'[f] = c
      /\ \A fd \in Fds \ {f} : conn'[fd] = conn[fd]
      /\ \A d \in Clients \ {c} : Unserved(d)' <=> Unserved(d)
  BY <1>1, <1>2, AcceptsSockets
<1>4. ring[c] \in RequestSet /\ f # NoFd /\ \A d \in Clients : ChainOf(d)
  BY <1>2, UringAssumption DEF Chains
<1>5. /\ ring'[c].type = ring[c].type /\ ring'[c].sock = ring[c].sock /\ ring'[c].n = ring[c].n
      /\ ring'[c].stage = ring[c].stage
  BY <1>2, <1>4 DEF RequestSet
<1>6. ring[c].type = "none" /\ ring[c].fd = NoFd /\ ring[c].sock = NoClient
  BY <1>2, <1>3, <1>4 DEF ChainOf
<1>7. ASSUME NEW d \in Clients PROVE ChainOf(d)' /\ Read(d)' = Read(d)
  <2>1. CASE d = c
    BY <1>2, <1>3, <1>4, <1>5, <2>1 DEF ChainOf, Read
  <2>2. CASE d # c
    BY <1>2, <1>3, <1>4, <2>2 DEF ChainOf, Read
  <2> QED
    BY <2>1, <2>2
<1>8. ASSUME NEW d \in Clients, NEW e \in Clients, ring'[d].sock = e PROVE ring'[e].fd = ring'[d].fd
  <2>1. d # c /\ ring[d].sock = e
    BY <1>2, <1>5, <1>6, <1>8, NamesAssumption
  <2>2. e # c
    BY <1>2, <1>3, <2>1, SockServed
  <2> QED
    BY <1>2, <2>1, <2>2 DEF Chains
<1>9. ASSUME NEW d \in Clients, NEW fd \in Fds, conn'[fd] = d PROVE ring'[d].fd = fd
  <2>1. CASE fd = f
    BY <1>2, <1>3, <1>9, <2>1
  <2>2. CASE fd # f
    <3>1. conn[fd] = d
      BY <1>3, <1>9, <2>2
    <3>2. d # c
      BY <1>2, <1>3, <3>1 DEF SockInv, Placed
    <3> QED
      BY <1>2, <3>1, <3>2 DEF Chains
  <2> QED
    BY <2>1, <2>2
<1> QED
  BY <1>2, <1>3, <1>7, <1>8, <1>9 DEF Chains

LEMMA ActsChains ==
  ASSUME SockInv, Chains, NEW k \in Clients, Acts(k), UNCHANGED uring
  PROVE  Chains'
<1>1. /\ conn' = conn /\ ring' = ring /\ buffer' = buffer
      /\ \A c \in Clients : Unserved(c)' <=> Unserved(c)
  BY ActsSockets DEF uring
<1> QED
  BY <1>1 DEF Chains, ChainOf, Read

(* The chain's own requests.  A recv moves bytes from the socket to the    *)
(* buffer.                                                                 *)
LEMMA OwnRecv ==
  ASSUME SockInv, Chains, NEW c \in Clients, Solo(c), CountOf(c), DoRecv(c)
  PROVE  CountOf(c)' /\ (ContentOf(c) => ContentOf(c)')
<1>1. PICK s \in Clients, n \in Nat \ {0} :
           /\ ring[c].sock = s /\ ~Unserved(s) /\ Reads(s, n) /\ ring' = Complete(c, n) /\ inq[s] # <<>>
           /\ SubSeq(buffer', 1, n) = Received(s, n)
  BY DoRecvReads
<1>2. s = c
  BY <1>1, OwnSock DEF Solo
<1>3. /\ Taken(c)' = Taken(c) + n /\ From(Received(c, n), c, Taken(c))
      /\ UNCHANGED <<peer, out, conn>>
  BY <1>1, <1>2, ReadsSockets DEF Reads
<1>4. /\ ring'[c].type = ring[c].type /\ ring'[c].fd = ring[c].fd
      /\ ring'[c].stage = "done" /\ ring'[c].n = n
  BY <1>1, CompleteRequest
<1>5. ring[c].type = "read" /\ ring[c].stage = "submitted"
  BY DEF DoRecv, Submitted
<1>6. ring[c].n = 0
  BY <1>5 DEF Chains, ChainOf
<1>7. Read(c) = 0 /\ Read(c)' = n
  BY <1>4, <1>5, <1>6 DEF Read
<1>8. ~Hung(c) /\ ~Hung(c)'
  <2>1. ~Hung(c)
    BY <1>1, <1>2 DEF CountOf, Ended
  <2> QED
    BY <1>3, <1>4, <2>1 DEF Hung
<1>9. Len(out[c]) = Taken(c) /\ Len(out[c]) \in Nat /\ Taken(c) \in Nat
  BY <1>7, Counters DEF CountOf
<1>10. Len(out'[c]) + Read(c)' = Taken(c)'
  BY <1>3, <1>7, <1>9
<1>11. CountOf(c)'
  BY <1>4, <1>8, <1>10 DEF CountOf
<1>12. ASSUME ContentOf(c) PROVE ContentOf(c)'
  <2>1. From(out'[c], c, 0)
    BY <1>3, <1>12 DEF ContentOf
  <2>2. From(SubSeq(buffer', 1, n), c, Len(out'[c]))
    BY <1>1, <1>2, <1>3, <1>9
  <2> QED
    BY <1>7, <2>1, <2>2 DEF ContentOf
<1> QED
  BY <1>11, <1>12

(* The end of the stream, or a failure because the descriptor is closed.   *)
LEMMA OwnEnd ==
  ASSUME SockInv, Chains, NEW c \in Clients, Solo(c), CountOf(c), DoRecvEnd(c) \/ DoRecvFails(c)
  PROVE  CountOf(c)' /\ (ContentOf(c) => ContentOf(c)')
<1>1. UNCHANGED <<peer, sent, inq, out, conn, buffer>>
  BY DEF DoRecvEnd, DoRecvFails, sockets, net
<1>2. ring[c].type = "read" /\ ring[c].stage = "submitted"
  BY DEF DoRecvEnd, DoRecvFails, Submitted
<1>3. PICK n \in {0, -1} :
        /\ ring' = Complete(c, n)
        /\ n = 0 => ring[c].sock # NoClient /\ StreamEnd(ring[c].sock)
        /\ n = -1 => (ring[c].sock # NoClient => StreamError(ring[c].sock))
  BY DEF DoRecvEnd, DoRecvFails
<1>4. /\ ring'[c].type = ring[c].type /\ ring'[c].fd = ring[c].fd
      /\ ring'[c].stage = "done" /\ ring'[c].n = n
  BY <1>3, CompleteRequest
<1>5. ring[c].n = 0
  BY <1>2 DEF Chains, ChainOf
<1>6. Read(c) = 0 /\ Read(c)' = 0
  BY <1>4, <1>5 DEF Read
<1>7. ring[c].sock # NoClient => ring[c].sock = c
  <2>1. ring[c].sock \in Clients \cup {NoClient}
    BY DEF Chains, RequestSet
  <2> QED
    BY <2>1, OwnSock DEF Solo
<1>8. (Hung(c)' <=> Hung(c)) /\ (Ended(c)' <=> Ended(c)) /\ Taken(c)' = Taken(c) /\ out'[c] = out[c]
  BY <1>1, <1>4 DEF Hung, Ended, Taken
<1>9. n = 0 => Ended(c)
  BY <1>3, <1>7 DEF StreamEnd, Ended, Solo
<1>10. n = -1 => Hung(c)
  <2>1. c \notin sk_err
    BY DEF SockInv, Errors, Solo
  <2> QED
    BY <1>2, <1>3, <1>7, <2>1 DEF StreamError, CountOf
<1>11. CountOf(c)'
  <2>2. Hung(c) => Ended(c)
    BY DEF CountOf
  <2>3. ring'[c].n < 0 => Hung(c)'
    BY <1>3, <1>4, <1>8, <1>10
  <2>4. ring'[c].n = 0 => Ended(c)'
    BY <1>3, <1>4, <1>8, <1>9
  <2>5. Len(out'[c]) + Read(c)' = Taken(c)'
    BY <1>6, <1>8 DEF CountOf
  <2> QED
    BY <1>4, <1>6, <1>8, <2>2, <2>3, <2>4, <2>5 DEF CountOf
<1>12. ContentOf(c) => ContentOf(c)'
  BY <1>1, <1>6 DEF ContentOf
<1> QED
  BY <1>11, <1>12

(* A send moves them on to the client.                                     *)
LEMMA OwnSend ==
  ASSUME SockInv, Chains, NEW c \in Clients, Solo(c), CountOf(c), DoSend(c)
  PROVE  CountOf(c)' /\ (ContentOf(c) => ContentOf(c)')
<1>1. ring' = Complete(c, 0) /\ buffer' = buffer
  BY DoSendReplies
<1>2. ring[c].type = "write" /\ ring[c].stage = "submitted" /\ UNCHANGED <<peer, sent, inq, conn>>
  BY DEF DoSend, Submitted
<1>3. /\ ring'[c].type = ring[c].type /\ ring'[c].fd = ring[c].fd
      /\ ring'[c].stage = "done" /\ ring'[c].n = 0
  BY <1>1, CompleteRequest
<1>4. Read(c)' = 0 /\ ring[c].n \in Int /\ (ring[c].n >= 0 => Read(c) = ring[c].n)
  <2>1. ring[c].n \in Int
    BY DEF Chains, RequestSet
  <2> QED
    BY <1>2, <1>3, <2>1 DEF Read
<1>5. (Hung(c)' <=> Hung(c)) /\ (Ended(c)' <=> Ended(c)) /\ Taken(c)' = Taken(c)
  BY <1>2, <1>3 DEF Hung, Ended, Taken
<1>6. /\ Len(out[c]) + Read(c) = Taken(c) /\ Len(out[c]) \in Nat /\ Taken(c) \in Nat /\ out[c] \in Seq(Data)
      /\ Read(c) \in Nat /\ Read(c) <= Len(buffer) /\ buffer \in Seq(Byte) /\ Len(buffer) \in Nat
  BY Counters, ReadCount DEF CountOf, Chains
<1>7. ASSUME Len(out'[c]) + 0 = Taken(c) PROVE CountOf(c)'
  <2>1. Hung(c) => Ended(c)
    BY DEF CountOf
  <2> QED
    BY <1>2, <1>3, <1>4, <1>5, <1>7, <2>1 DEF CountOf
<1>8. ASSUME From(out'[c], c, 0) PROVE ContentOf(c)'
  <2>1. SubSeq(buffer', 1, 0) = <<>>
    OBVIOUS
  <2> QED
    BY <1>4, <1>8, <2>1, FromEmpty DEF ContentOf
<1>9. CASE Idles /\ (ring[c].sock = NoClient \/ peer[ring[c].sock] = "reset")
  <2>1. ring[c].sock = NoClient
    <3>1. ring[c].sock \in Clients \cup {NoClient}
      BY DEF Chains, RequestSet
    <3> QED
      BY <1>9, <3>1, OwnSock DEF Solo
  <2>2. Read(c) = 0 /\ out'[c] = out[c]
    BY <1>2, <1>9, <2>1 DEF CountOf, Idles
  <2> QED
    BY <1>6, <1>7, <1>8, <2>2 DEF ContentOf
<1>10. CASE \E s \in Clients, bytes \in Seq(Data) :
                 /\ ring[c].sock = s /\ ~Unserved(s) /\ Replies(s, bytes)
                 /\ ring[c].n >= 0 => bytes = SubSeq(buffer, 1, ring[c].n)
  <2>1. PICK s \in Clients, bytes \in Seq(Data) :
                 /\ ring[c].sock = s /\ ~Unserved(s) /\ Replies(s, bytes)
                 /\ ring[c].n >= 0 => bytes = SubSeq(buffer, 1, ring[c].n)
    BY <1>10
  <2>2. s = c /\ c # NoClient
    BY <2>1, OwnSock, NamesAssumption DEF Solo
  <2>3. c \notin sk_err
    BY DEF SockInv, Errors, Solo
  <2>4. out'[c] = out[c] \o bytes
    BY <2>1, <2>2, <2>3, RepliesSockets
  <2>5. ring[c].n >= 0
    BY <1>2, <1>4, <2>1, <2>2 DEF CountOf
  <2>6. bytes = SubSeq(buffer, 1, Read(c))
    BY <1>4, <2>1, <2>5
  <2>7. Len(bytes) = Read(c)
    <3>1. PICK m \in Nat : m = Read(c)
      BY <1>6
    <3>2. /\ \A i \in 1..m : i \in 1..Len(buffer)
          /\ m = IF 1 <= m THEN m - 1 + 1 ELSE 0
      BY <1>6, <3>1
    <3>3. \A i \in 1..m : buffer[i] \in Byte
      BY <1>6, <3>2
    <3>4. Len(SubSeq(buffer, 1, m)) = IF 1 <= m THEN m - 1 + 1 ELSE 0
      BY <3>3, SubSeqProperties
    <3> QED
      BY <2>6, <3>1, <3>2, <3>4
  <2>8. Len(out'[c]) = Len(out[c]) + Read(c)
    BY <1>6, <2>4, <2>7, ConcatProperties
  <2>9. CountOf(c)'
    BY <1>6, <1>7, <2>8
  <2>10. ASSUME ContentOf(c) PROVE ContentOf(c)'
    <3>1. From(out[c], c, 0) /\ From(bytes, c, Len(out[c]))
      BY <2>6, <2>10 DEF ContentOf
    <3>2. 0 \in Int /\ From(bytes, c, 0 + Len(out[c]))
      BY <1>6, <3>1
    <3>3. From(out[c] \o bytes, c, 0)
      BY <1>6, <3>1, <3>2, FromConcat
    <3> QED
      BY <1>8, <2>4, <3>3
  <2> QED
    BY <2>9, <2>10
<1> QED
  BY <1>9, <1>10, DoSendReplies

(* A step of another chain does not touch a connection whose descriptor    *)
(* was never reused.                                                       *)
LEMMA KernelCounts ==
  ASSUME SockInv, Chains, Counts, Contents, NEW k \in Clients, UringKernel(k)
  PROVE  Counts' /\ Contents'
<1>1. /\ UNCHANGED <<peer, sent, conn>>
      /\ ring[k].type \in {"read", "write"}
      /\ \A d \in Clients : ring[k].sock # d => inq'[d] = inq[d] /\ out'[d] = out[d]
  BY KernelSockets
<1>2. PICK n \in Int : ring' = Complete(k, n)
  BY KernelSockets
<1>3. /\ \A d \in Clients \ {k} : ring'[d] = ring[d]
      /\ \A d \in Clients : ring'[d].fd = ring[d].fd
  BY <1>2, CompleteRequest
<1> SUFFICES ASSUME NEW c \in Clients, Solo(c)' PROVE CountOf(c)' /\ (Alone(c)' => ContentOf(c)')
  BY DEF Counts, Contents
<1>4. Solo(c)
  BY <1>1, <1>3 DEF Solo, OneChain
<1>5. CountOf(c) /\ (Alone(c)' => Alone(c) /\ ContentOf(c))
  BY <1>1, <1>4 DEF Counts, Contents, Alone
<1>6. CASE k = c
  <2>1. CASE DoRecv(c)
    BY <1>4, <1>5, <2>1, OwnRecv
  <2>2. CASE DoRecvEnd(c) \/ DoRecvFails(c)
    BY <1>4, <1>5, <2>2, OwnEnd
  <2>3. CASE DoSend(c)
    BY <1>4, <1>5, <2>3, OwnSend
  <2> QED
    BY <1>6, <2>1, <2>2, <2>3 DEF UringKernel
<1>7. CASE k # c
  <2>1. ring[k].sock # c
    BY <1>4, <1>7, OwnSock DEF Solo
  <2>2. inq'[c] = inq[c] /\ out'[c] = out[c] /\ ring'[c] = ring[c]
    BY <1>1, <1>3, <1>7, <2>1
  <2>3. (Hung(c)' <=> Hung(c)) /\ (Ended(c)' <=> Ended(c)) /\ Taken(c)' = Taken(c) /\ Read(c)' = Read(c)
    BY <1>1, <2>2 DEF Hung, Ended, Taken, Read
  <2>4. CountOf(c)'
    BY <1>5, <2>2, <2>3 DEF CountOf
  <2>5. ~Alone(c)'
    <3>1. ring[k].fd # NoFd
      BY <1>1 DEF Chains, ChainOf
    <3>2. peer[k] # "new"
      BY <3>1 DEF Chains, ChainOf, Unserved
    <3> QED
      BY <1>1, <1>7, <3>2 DEF Alone
  <2> QED
    BY <2>4, <2>5
<1> QED
  BY <1>6, <1>7

LEMMA SubmitCounts ==
  ASSUME SockInv, Chains, Counts, Contents, Submit
  PROVE  Counts' /\ Contents'
<1>1. UNCHANGED <<peer, sent, inq, out, conn, buffer>>
  BY DEF Submit, sockets, net
<1>2. \A c \in Clients :
        /\ ring'[c].type = ring[c].type /\ ring'[c].fd = ring[c].fd /\ ring'[c].n = ring[c].n
        /\ ring[c].stage # "prepared" => ring'[c] = ring[c]
        /\ ring[c].stage = "prepared" =>
             /\ ring'[c].stage = "submitted"
             /\ ring'[c].sock = IF ring[c].fd = NoFd THEN NoClient ELSE conn[ring[c].fd]
  BY SubmitRequests
<1> SUFFICES ASSUME NEW c \in Clients, Solo(c)' PROVE CountOf(c)' /\ (Alone(c)' => ContentOf(c)')
  BY DEF Counts, Contents
<1>3. Solo(c) /\ (Alone(c)' => Alone(c))
  BY <1>1, <1>2 DEF Solo, OneChain, Alone
<1>4. CountOf(c) /\ (Alone(c)' => ContentOf(c))
  BY <1>3 DEF Counts, Contents
<1>5. Read(c)' = Read(c)
  <2>1. CASE ring[c].stage # "prepared"
    BY <1>2, <2>1 DEF Read
  <2>2. CASE ring[c].stage = "prepared"
    BY <1>2, <2>2 DEF Read
  <2> QED
    BY <2>1, <2>2
<1>6. (Hung(c)' <=> Hung(c)) /\ (Ended(c)' <=> Ended(c)) /\ Taken(c)' = Taken(c)
  BY <1>1, <1>2 DEF Hung, Ended, Taken
<1>7. CountOf(c)'
  <2>1. CASE ring[c].stage # "prepared"
    BY <1>1, <1>2, <1>4, <1>5, <1>6, <2>1 DEF CountOf
  <2>2. CASE ring[c].stage = "prepared"
    <3>1. ring[c].fd # NoFd /\ ring'[c].sock = conn[ring[c].fd] /\ ring'[c].stage = "submitted"
      BY <1>2, <1>3, <2>2 DEF Solo
    <3>2. ring'[c].sock = NoClient <=> Hung(c)
      BY <3>1 DEF Hung
    <3> QED
      BY <1>1, <1>2, <1>4, <1>5, <1>6, <3>1, <3>2 DEF CountOf
  <2> QED
    BY <2>1, <2>2
<1>8. Alone(c)' => ContentOf(c)'
  BY <1>1, <1>4, <1>5 DEF ContentOf
<1> QED
  BY <1>7, <1>8

(* The batch closes a descriptor only at the end of its own stream.        *)
LEMMA BatchCounts ==
  ASSUME SockInv, Chains, Counts, Contents, Batch
  PROVE  Counts' /\ Contents'
<1>1. /\ UNCHANGED <<peer, sent, inq, out, buffer>>
      /\ \A c \in Clients : ring'[c].fd = ring[c].fd /\ Read(c)' = Read(c)
  BY BatchRequests, BatchChains DEF Closes, net
<1> SUFFICES ASSUME NEW c \in Clients, Solo(c)' PROVE CountOf(c)' /\ (Alone(c)' => ContentOf(c)')
  BY DEF Counts, Contents
<1>3. Solo(c) /\ (Alone(c)' => Alone(c))
  BY <1>1 DEF Solo, OneChain, Alone
<1>4. CountOf(c) /\ (Alone(c)' => ContentOf(c))
  BY <1>3 DEF Counts, Contents
<1>5. (Ended(c)' <=> Ended(c)) /\ Taken(c)' = Taken(c) /\ Read(c)' = Read(c)
  BY <1>1 DEF Ended, Taken
<1>6. PICK fd \in Fds : fd = ring[c].fd
  BY <1>3 DEF Solo, Chains, RequestSet
<1>7. Hung(c) => Hung(c)'
  BY <1>1, <1>6, BatchRequests DEF Hung
<1>8. Hung(c)' => Ended(c) /\ Read(c) = 0
  <2>1. CASE conn'[fd] = conn[fd]
    BY <1>1, <1>4, <1>6, <2>1 DEF Hung, CountOf
  <2>2. ASSUME NEW d \in Clients, ring[d].type = "read", ring[d].stage = "done", ring[d].fd = fd, ring[d].n = 0
        PROVE  Ended(c) /\ Read(c) = 0
    <3>1. d = c
      BY <1>3, <1>6, <2>2 DEF Solo, OneChain
    <3> QED
      BY <1>4, <2>2, <3>1 DEF CountOf, Read
  <2> QED
    BY <2>1, <2>2, BatchRequests
<1>9. ring[c].n \in Int
  BY DEF Chains, RequestSet
<1>10. CountOf(c)'
  <2>1. CASE ring'[c] = ring[c] /\ ring[c].stage # "done"
    BY <1>1, <1>4, <1>5, <1>7, <1>8, <2>1 DEF CountOf
  <2>2. CASE /\ ring'[c].stage = "prepared"
             /\ IF ring[c].type = "read" THEN ring'[c].type = "write" /\ ring'[c].n = ring[c].n
                                         ELSE ring'[c].type = "read" /\ ring'[c].n = 0
    BY <1>1, <1>4, <1>5, <1>7, <1>8, <1>9, <2>2 DEF CountOf
  <2> QED
    BY <2>1, <2>2, BatchRequests
<1>11. Alone(c)' => ContentOf(c)'
  BY <1>1, <1>4, <1>5 DEF ContentOf
<1> QED
  BY <1>10, <1>11

(* accept starts a chain; where its descriptor was used before, the chains *)
(* of both connections leave what is counted.                              *)
LEMMA AcceptCounts ==
  ASSUME SockInv, Chains, Counts, Contents, DoAccept
  PROVE  Counts' /\ Contents'
<1>1. PICK c, f : c = Head(backlog) /\ f = ClientFd
  OBVIOUS
<1>2. /\ Accepts /\ buffer' = buffer /\ c \in Clients /\ f \in Fds
      /\ ring'[c] = [ring[c] EXCEPT !.fd = f] /\ ring'[c].fd = f
      /\ \A d \in Clients \ {c} : ring'[d] = ring[d]
  BY <1>1, AcceptRequests
<1>3. /\ Unserved(c) /\ conn'[f] = c /\ \A fd \in Fds \ {f} : conn'[fd] = conn[fd]
      /\ \A d \in Clients : Read(d)' = Read(d)
  BY <1>1, <1>2, AcceptsSockets, AcceptChains
<1>4. UNCHANGED <<peer, sent, inq, out, buffer>>
  BY <1>2 DEF Accepts, net
<1> SUFFICES ASSUME NEW d \in Clients, Solo(d)' PROVE CountOf(d)' /\ (Alone(d)' => ContentOf(d)')
  BY DEF Counts, Contents
<1>5. (Ended(d)' <=> Ended(d)) /\ Taken(d)' = Taken(d) /\ Read(d)' = Read(d) /\ out'[d] = out[d]
  BY <1>3, <1>4 DEF Ended, Taken
<1>6. CASE d = c
  <2>1. /\ ring[c].type = "none" /\ ring[c].stage = "none" /\ ring[c].n = 0 /\ ring[c] \in RequestSet
    BY <1>2, <1>3 DEF Chains, ChainOf
  <2>2. ring'[c].type = "none" /\ ring'[c].stage = "none" /\ ring'[c].n = 0
    BY <1>2, <2>1 DEF RequestSet
  <2>3. out[c] = <<>> /\ Taken(c) = 0 /\ Read(c) = 0
    BY <1>2, <1>3, <2>1 DEF SockInv, Untouched, Read
  <2>4. ~Hung(c)'
    BY <1>2, <1>3, NamesAssumption DEF Hung
  <2>5. Len(out'[c]) + Read(c)' = Taken(c)'
    BY <1>5, <1>6, <2>3
  <2>6. CountOf(c)'
    BY <2>2, <2>4, <2>5 DEF CountOf
  <2>7. ContentOf(c)'
    <3>1. SubSeq(buffer', 1, 0) = <<>>
      OBVIOUS
    <3> QED
      BY <1>5, <1>6, <2>3, <3>1, FromEmpty DEF ContentOf
  <2> QED
    BY <1>6, <2>6, <2>7
<1>7. CASE d # c
  <2>1. ring'[d] = ring[d] /\ ring[d].fd # f
    BY <1>2, <1>7 DEF Solo, OneChain
  <2>2. Solo(d)
    <3>1. ring[c].fd = NoFd
      BY <1>2, <1>3 DEF Chains, ChainOf
    <3> QED
      BY <1>2, <1>4, <1>7, <2>1, <3>1 DEF Solo, OneChain
  <2>3. ring[d].fd \in Fds
    BY <2>2 DEF Solo, Chains, RequestSet
  <2>4. Hung(d)' <=> Hung(d)
    BY <1>3, <2>1, <2>3 DEF Hung
  <2>5. CountOf(d) /\ (Alone(d)' => ContentOf(d))
    BY <1>4, <2>2 DEF Counts, Contents, Alone
  <2>6. CountOf(d)'
    BY <1>5, <2>1, <2>4, <2>5 DEF CountOf
  <2>7. Alone(d)' => ContentOf(d)'
    BY <1>4, <1>5, <2>5 DEF ContentOf
  <2> QED
    BY <2>6, <2>7
<1> QED
  BY <1>6, <1>7

LEMMA ActsCounts ==
  ASSUME SockInv, Chains, Counts, Contents, NEW k \in Clients, Acts(k), UNCHANGED uring
  PROVE  Counts' /\ Contents'
<1>1. /\ UNCHANGED <<out, conn, ring, buffer>>
      /\ \A d \in Clients :
              /\ Taken(d)' = Taken(d) /\ (peer'[d] = "new" => peer[d] = "new")
              /\ peer[d] \in {"fin", "reset"} => peer'[d] = peer[d] /\ inq'[d] = inq[d]
  BY ActsSockets DEF uring
<1> SUFFICES ASSUME NEW c \in Clients, Solo(c)' PROVE CountOf(c)' /\ (Alone(c)' => ContentOf(c)')
  BY DEF Counts, Contents
<1>2. Solo(c) /\ (Alone(c)' => Alone(c))
  BY <1>1 DEF Solo, OneChain, Alone
<1>3. CountOf(c) /\ (Alone(c)' => ContentOf(c))
  BY <1>2 DEF Counts, Contents
<1>4. Read(c)' = Read(c) /\ Taken(c)' = Taken(c) /\ (Hung(c)' <=> Hung(c)) /\ (Ended(c) => Ended(c)')
  BY <1>1 DEF Read, Hung, Ended
<1>5. CountOf(c)'
  BY <1>1, <1>3, <1>4 DEF CountOf
<1>6. Alone(c)' => ContentOf(c)'
  BY <1>1, <1>3, <1>4 DEF ContentOf
<1> QED
  BY <1>5, <1>6

(* UringEchoes from the books.                                             *)
LEMMA UringPromise == ASSUME SockInv, Chains, Counts, Contents PROVE UringEchoes
<1> SUFFICES ASSUME NEW c \in Clients, OneChain(c), peer[c] # "reset"
             PROVE  /\ Len(out[c]) + Read(c) + Len(inq[c]) = sent[c]
                    /\ Alone(c) => out[c] \o SubSeq(buffer, 1, Read(c)) \o inq[c] = Bytes(c, sent[c])
  BY DEF UringEchoes, Alone
<1>1. /\ Len(out[c]) \in Nat /\ Len(inq[c]) \in Nat /\ sent[c] \in Nat /\ Taken(c) = sent[c] - Len(inq[c])
      /\ Read(c) \in Nat /\ Read(c) <= Len(buffer) /\ buffer \in Seq(Byte) /\ Len(buffer) \in Nat
  BY Counters, ReadCount DEF Chains
<1>2. Len(out[c]) + Read(c) = Taken(c) /\ (Alone(c) => ContentOf(c))
  <2>1. CASE ring[c].fd = NoFd
    <3>1. out[c] = <<>> /\ Taken(c) = 0
      BY <2>1 DEF Chains, ChainOf, SockInv, Untouched
    <3>2. Read(c) = 0
      BY <2>1 DEF Chains, ChainOf, Read
    <3>3. SubSeq(buffer, 1, 0) = <<>>
      OBVIOUS
    <3>4. Len(out[c]) + Read(c) = Taken(c)
      BY <3>1, <3>2
    <3>5. ContentOf(c)
      BY <3>1, <3>2, <3>3, FromEmpty DEF ContentOf
    <3> QED
      BY <3>4, <3>5
  <2>2. CASE ring[c].fd # NoFd
    BY <2>2 DEF Solo, Counts, Contents, CountOf
  <2> QED
    BY <2>1, <2>2
<1>3. Len(out[c]) + Read(c) + Len(inq[c]) = sent[c]
  BY <1>1, <1>2
<1>4. ASSUME Alone(c) PROVE out[c] \o SubSeq(buffer, 1, Read(c)) \o inq[c] = Bytes(c, sent[c])
  <2>1. PICK m \in Nat : m = Read(c)
    BY <1>1
  <2>2. (\A i \in 1..m : i \in 1..Len(buffer)) /\ m = IF 1 <= m THEN m - 1 + 1 ELSE 0
    BY <1>1, <2>1
  <2>3. \A i \in 1..m : buffer[i] \in Data
    BY <1>1, <2>2 DEF Data
  <2>4. PICK p : p = SubSeq(buffer, 1, m)
    OBVIOUS
  <2>5. p \in Seq(Data) /\ Len(p) = m
    BY <2>2, <2>3, <2>4, SubSeqProperties
  <2>6. From(out[c], c, 0) /\ From(p, c, Len(out[c])) /\ Len(out[c]) + Len(p) = Taken(c)
    BY <1>2, <1>4, <2>1, <2>4, <2>5 DEF ContentOf
  <2> QED
    BY <2>1, <2>4, <2>5, <2>6, ThreeParts
<1> QED
  BY <1>3, <1>4
-----------------------------------------------------------------------------
LEMMA InitInv == ReactorsInit => Inv
<1> SUFFICES ASSUME ReactorsInit PROVE Inv
  OBVIOUS
<1>1. /\ program \in {"echo", "web", "uring"}
      /\ peer = [c \in Clients |-> "new"] /\ sent = [c \in Clients |-> 0]
      /\ inq = [c \in Clients |-> <<>>] /\ sk_err = {} /\ out = [c \in Clients |-> <<>>]
      /\ backlog = <<>> /\ conn = [fd \in Fds |-> NoClient]
      /\ interest = [fd \in Fds |-> "off"] /\ events = {}
      /\ rbuffer = [fd \in Fds |-> <<>>] /\ wbuffer = [fd \in Fds |-> <<>>]
      /\ UringInit
  BY DEF ReactorsInit, WebInit, Init, SocketsInit
<1>2. NoClient \notin Clients /\ Listener \notin Clients /\ Len(<<>>) = 0
  BY NamesAssumption, UringAssumption
<1>3. \A c \in Clients : Taken(c) = 0 /\ Unserved(c) /\ out[c] = <<>> /\ inq[c] = <<>>
  BY <1>1, <1>2 DEF Taken, Unserved
<1>4. SockInv
  <2>1. SockTypes
    BY <1>1 DEF SockTypes
  <2>2. Placed
    BY <1>1, <1>2 DEF Placed
  <2>3. Streams /\ Untouched /\ Errors
    BY <1>1, <1>2, <1>3, FromEmpty DEF Streams, Untouched, Errors
  <2> QED
    BY <2>1, <2>2, <2>3 DEF SockInv
<1>5. EpollInv
  BY <1>1, <1>2 DEF EpollInv, Sound
<1>6. EchoBooks
  BY <1>1, <1>2, <1>3, FromEmpty DEF EchoBooks
<1>7. WebBooks
  BY <1>1, <1>2 DEF WebBooks
<1>8. Chains
  <2>1. ring = [k \in Clients \cup {Listener} |-> IF k = Listener THEN set_accept_event ELSE NoRequest]
    BY <1>1 DEF UringInit
  <2>2. buffer \in Seq(Byte) /\ Len(buffer) \in Nat
    BY <1>1 DEF UringInit
  <2>3. /\ set_accept_event \in RequestSet /\ set_accept_event.type = "accept" /\ set_accept_event.fd = NoFd
        /\ NoRequest \in RequestSet /\ NoRequest.type = "none" /\ NoRequest.fd = NoFd /\ NoRequest.n = 0
        /\ NoRequest.sock = NoClient /\ NoRequest.stage = "none"
    BY DEF set_accept_event, NoRequest, Request, RequestSet
  <2>4. ring[Listener] = set_accept_event /\ \A c \in Clients : ring[c] = NoRequest
    BY <1>2, <2>1
  <2>5. \A c \in Clients : ChainOf(c) /\ Read(c) <= Len(buffer)
    BY <1>3, <2>2, <2>3, <2>4 DEF ChainOf, Read
  <2> QED
    BY <1>1, <1>2, <2>1, <2>2, <2>3, <2>4, <2>5 DEF Chains
<1>9. Counts /\ Contents
  BY <1>3, <1>8 DEF Counts, Contents, Solo, Chains, ChainOf
<1> QED
  BY <1>1, <1>4, <1>5, <1>6, <1>7, <1>8, <1>9 DEF Inv

LEMMA UringInv ==
  ASSUME SockInv, Chains, Counts, Contents,
         UringMain \/ DoAccept \/ \E c \in Clients : UringKernel(c)
  PROVE  SockInv' /\ Chains' /\ Counts' /\ Contents'
<1>1. CASE Submit
  BY <1>1, SubmitChains, SubmitCounts
<1>2. CASE Batch
  BY <1>2, BatchChains, BatchCounts
<1>3. CASE DoAccept
  BY <1>3, AcceptChains, AcceptCounts
<1>4. ASSUME NEW c \in Clients, UringKernel(c) PROVE SockInv' /\ Chains' /\ Counts' /\ Contents'
  BY <1>4, KernelSockets, KernelChains, KernelCounts
<1> QED
  BY <1>1, <1>2, <1>3, <1>4 DEF UringMain

LEMMA NextInv == Inv /\ [ReactorsNext]_allvars => Inv'
<1> SUFFICES ASSUME Inv, [ReactorsNext]_allvars PROVE Inv'
  OBVIOUS
<1>1. CASE EpollStep
  <2>1. UNCHANGED program /\ \/ program = "echo" /\ Server
                             \/ program = "web" /\ WebStep
    BY <1>1 DEF EpollStep
  <2>2. SockInv' /\ EpollInv'
    BY <2>1, EpollStepInv DEF Inv
  <2>3. CASE program = "echo" /\ Server
    BY <2>1, <2>2, <2>3, EchoStepBooks DEF Inv
  <2>4. CASE program = "web" /\ WebStep
    BY <2>1, <2>2, <2>4, WebStepBooks DEF Inv
  <2> QED
    BY <2>1, <2>3, <2>4
<1>2. CASE UringStep(UringMain) \/ UringStep(DoAccept) \/ \E c \in Clients : UringStep(UringKernel(c))
  <2>1. program = "uring" /\ UNCHANGED <<events, program>>
    BY <1>2 DEF UringStep
  <2>2. UringMain \/ DoAccept \/ \E c \in Clients : UringKernel(c)
    BY <1>2 DEF UringStep
  <2> QED
    BY <2>1, <2>2, UringInv DEF Inv
<1>3. ASSUME NEW c \in Clients, ReactorClient(c) PROVE Inv'
  <2>1. Client(c) /\ UNCHANGED <<uring, program>>
    BY <1>3 DEF ReactorClient
  <2>2. Acts(c) /\ UNCHANGED <<interest, rbuffer, wbuffer, events>>
    BY <2>1 DEF Client, Acts
  <2>3. SockInv /\ SockInv'
    BY <2>2, ActsSockets DEF Inv
  <2>4. program # "uring" => EpollInv'
    BY <2>2, <2>3, ActsEpoll DEF Inv
  <2>5. program = "echo" => EchoBooks'
    BY <2>2, <2>3, ActsEcho DEF Inv
  <2>6. program = "web" => WebBooks'
    BY <2>2, <2>3, ActsWeb DEF Inv
  <2>7. program = "uring" => events' = {} /\ Chains' /\ Counts' /\ Contents'
    BY <2>1, <2>2, <2>3, ActsChains, ActsCounts DEF Inv
  <2> QED
    BY <2>1, <2>3, <2>4, <2>5, <2>6, <2>7 DEF Inv
<1>4. CASE UNCHANGED allvars
  <2>1. /\ UNCHANGED <<peer, sent, inq, sk_err, out, backlog, conn, interest, rbuffer, wbuffer, events>>
        /\ UNCHANGED <<ring, buffer, program>>
    BY <1>4 DEF allvars, vars, uring, sockets, net
  <2>2. SockInv'
    BY <2>1, IdlesSockets DEF Inv, Idles
  <2>3. \A c : /\ Taken(c)' = Taken(c) /\ (Unserved(c)' <=> Unserved(c)) /\ Read(c)' = Read(c)
               /\ (Readable(c)' <=> Readable(c))
    BY <2>1 DEF Taken, Unserved, Queued, Read, Readable
  <2>4. EpollInv => EpollInv'
    BY <2>1, <2>3 DEF EpollInv, Sound
  <2>5. EchoBooks => EchoBooks'
    BY <2>1, <2>3 DEF EchoBooks
  <2>6. WebBooks => WebBooks'
    BY <2>1, <2>3 DEF WebBooks
  <2>7. Chains => Chains'
    BY <2>1, <2>3 DEF Chains, ChainOf
  <2>8. Counts => Counts'
    BY <2>1, <2>3 DEF Counts, Solo, OneChain, CountOf, Hung, Ended
  <2>9. Contents => Contents'
    BY <2>1, <2>3 DEF Contents, Solo, OneChain, Alone, ContentOf
  <2> QED
    BY <2>1, <2>2, <2>4, <2>5, <2>6, <2>7, <2>8, <2>9 DEF Inv
<1> QED
  BY <1>1, <1>2, <1>3, <1>4 DEF ReactorsNext

LEMMA Invariance == ReactorsSpec => []Inv
BY InitInv, NextInv, PTL DEF ReactorsSpec

(* No stale event: for any clients and descriptors, when a callback of the *)
(* two epoll loops gets its turn its event still holds, whatever the other *)
(* callbacks of the batch closed, accepted or sent, so that the blocking   *)
(* accept and recv return at once.                                         *)
THEOREM NoStaleEvent == ReactorsSpec => []NoBlockingCall
<1>1. Inv => NoBlockingCall
  <2> SUFFICES ASSUME Inv PROVE NoBlockingCall
    OBVIOUS
  <2>1. CASE program = "uring"
    BY <2>1 DEF Inv, NoBlockingCall
  <2>2. CASE program # "uring"
    <3>1. EpollInv /\ conn \in [Fds -> Clients \cup {NoClient}]
      BY <2>2 DEF Inv, SockInv, SockTypes
    <3>2. ASSUME NEW fd \in Fds, <<fd, "in">> \in events \/ <<fd, "out">> \in events
          PROVE  \E c \in Clients : conn[fd] = c
      <4>1. conn[fd] # NoClient
        BY <3>1, <3>2 DEF EpollInv, Sound
      <4> QED
        BY <3>1, <4>1
    <3> QED
      BY <3>1, <3>2, NamesAssumption DEF NoBlockingCall, EpollInv, Sound
  <2> QED
    BY <2>1, <2>2
<1> QED
  BY <1>1, Invariance, PTL

(* The web server's books: for any clients, descriptors and BUFFER_LENGTH, *)
(* rbuffer of an open descriptor and its receive queue are together the    *)
(* bytes of the client behind it, in order, also where the descriptor and  *)
(* its item were another client's before.                                  *)
THEOREM RequestsHold == ReactorsSpec => []Requests
<1>1. Inv => Requests
  <2>1. CASE program = "web"
    BY <2>1, WebRequests DEF Inv
  <2> QED
    BY <2>1 DEF Requests
<1> QED
  BY <1>1, Invariance, PTL

(* The echo: reactor.c returns every client its own bytes in order, none   *)
(* lost or doubled, and io_uring.c as many bytes as it was sent while the  *)
(* descriptor is not reused, the client's own as long as it is alone; for  *)
(* any clients, descriptors, buffer lengths and order of completions.      *)
THEOREM EchoesHold == ReactorsSpec => []Echoes
<1>1. Inv => Echoes
  BY EchoPromise, UringPromise DEF Inv, Echoes
<1> QED
  BY <1>1, Invariance, PTL

-----------------------------------------------------------------------------
(* The redis-style reactor.  Slots are given out in order, so those after  *)
(* iter are free; the live ones are those that epoll has registered, one   *)
(* for each open descriptor.                                               *)
Slotted ==
    /\ iter \in Slots \ {0} /\ slot \in [Slots -> Sources \cup {1, FreeSlot}]
    /\ live \subseteq 1..iter /\ watched \in [Sources -> Slots \cup {NoSlot}]
    /\ wants_out \subseteq Fds
    /\ \A i \in Slots : i > iter => slot[i] = FreeSlot
    /\ \A fd \in Fds : conn[fd] # NoClient <=> watched[fd] # NoSlot
    /\ watched[Listener] # NoSlot
    /\ \A fd \in Sources : watched[fd] # NoSlot => watched[fd] \in live /\ slot[watched[fd]] = fd
    /\ \A s \in live : slot[s] \in Sources /\ watched[slot[s]] = s

(* The rest of the batch is sound: each event is of a live slot of its     *)
(* own, not the one whose EPOLLOUT half comes next, and can be served.     *)
FireSound ==
    /\ \A e, f \in fire : e.slot = f.slot => e = f
    /\ \A e \in fire : e.slot \in live /\ e.slot # out_due
    /\ \A e \in fire : slot[e.slot] = Listener => backlog # <<>> /\ ~e.out
    /\ \A e \in fire, fd \in Fds, c \in Clients : slot[e.slot] = fd /\ conn[fd] = c /\ e.in => Readable(c)
    /\ out_due \in live => slot[out_due] # Listener

(* EPOLLOUT is asked for, and comes, only after a short write or a reset.  *)
Trouble == short # {} \/ \E c \in Clients : peer[c] = "reset"
Cause ==
    /\ wants_out # {} => Trouble
    /\ \A e \in fire : e.out => Trouble
    /\ out_due # NoSlot => Trouble
    /\ ~intact => Trouble \/ iter = MAX_CONN - 1
RedisInv == SockInv /\ Slotted /\ FireSound /\ Cause

LEMMA SlotNumbers ==
  ASSUME Slotted
  PROVE  /\ MAX_CONN \in Nat /\ iter \in 1..(MAX_CONN - 1) /\ Slots = 0..(MAX_CONN - 1)
         /\ \A s \in live : s \in Slots /\ s \in 1..iter /\ s # NoSlot
BY MaskAssumption DEF Slotted, Slots, NoSlot

(* _get_event_t gives out the next slot; after the last, the one past the  *)
(* array.                                                                  *)
LEMMA NextSlot == ASSUME Slotted PROVE get_event_t = iter + 1
<1>1. /\ MAX_CONN \in Nat /\ iter \in 1..(MAX_CONN - 1) /\ Slots = 0..(MAX_CONN - 1)
      /\ \A i \in Slots : i > iter => slot[i] = FreeSlot
  BY SlotNumbers DEF Slotted
<1> DEFINE P(i) == /\ i % (MAX_CONN + 1) \notin Slots \/ slot[i % (MAX_CONN + 1)] = FreeSlot
                   /\ \A j \in (iter + 1)..(i - 1) : j \in Slots /\ slot[j] # FreeSlot
<1>2. (iter + 1) % (MAX_CONN + 1) = iter + 1
  BY <1>1
<1>3. P(iter + 1) /\ iter + 1 \in (iter + 1)..(iter + MAX_CONN + 1)
  <2>1. iter + 1 \notin Slots \/ slot[iter + 1] = FreeSlot
    BY <1>1
  <2>2. \A j \in (iter + 1)..(iter + 1 - 1) : FALSE
    BY <1>1
  <2>3. iter + 1 \in (iter + 1)..(iter + MAX_CONN + 1)
    BY <1>1
  <2> QED
    BY <1>2, <2>1, <2>2, <2>3
<1>4. ASSUME NEW i \in (iter + 1)..(iter + MAX_CONN + 1), P(i) PROVE i = iter + 1
  <2>1. CASE i # iter + 1
    <3>1. iter + 1 \in (iter + 1)..(i - 1)
      BY <1>1, <2>1
    <3>2. iter + 1 \in Slots /\ slot[iter + 1] # FreeSlot /\ iter + 1 > iter
      BY <1>1, <1>4, <3>1
    <3> QED
      BY <1>1, <3>2
  <2> QED
    BY <2>1
<1>5. get_event_t = CHOOSE i \in (iter + 1)..(iter + MAX_CONN + 1) : P(i)
  BY DEF get_event_t
<1> HIDE DEF P
<1> QED
  BY <1>3, <1>4, <1>5

(* The event that the loop takes next.                                     *)
LEMMA FireTakes ==
  ASSUME RedisInv, NEW e \in fire, Fire(e)
  PROVE  /\ intact /\ fire' = fire \ {e} /\ e.slot \in live /\ slot[e.slot] \in Sources
         /\ out_due' \in {e.slot, NoSlot} /\ (out_due' # NoSlot => e.out /\ Trouble)
         /\ \A f \in fire' : f \in fire /\ f.slot \in live /\ f.slot # e.slot /\ f.slot # out_due'
         /\ out_due' \in live => slot[out_due'] # Listener
<1>1. intact /\ fire' = fire \ {e} /\ out_due' = IF e.out THEN e.slot ELSE NoSlot
  BY DEF Fire
<1>2. /\ \A f \in fire : f.slot \in live /\ (e.slot = f.slot => e = f)
      /\ slot[e.slot] = Listener => ~e.out
  BY DEF RedisInv, FireSound
<1>3. slot[e.slot] \in Sources /\ \A s \in live : s # NoSlot
  BY <1>2, SlotNumbers DEF RedisInv, Slotted
<1>4. e.out => Trouble
  BY DEF RedisInv, Cause
<1> QED
  BY <1>1, <1>2, <1>3, <1>4

(* The connection behind a live slot.                                      *)
LEMMA LiveConn ==
  ASSUME RedisInv, NEW s \in live, slot[s] # Listener
  PROVE  \E fd \in Fds, c \in Clients :
           slot[s] = fd /\ conn[fd] = c /\ watched[fd] = s /\ fd # Listener /\ ~Unserved(c)
<1>1. slot[s] \in Sources /\ watched[slot[s]] = s /\ s # NoSlot
  BY SlotNumbers DEF RedisInv, Slotted
<1>2. PICK fd \in Fds : slot[s] = fd /\ watched[fd] = s /\ fd # Listener
  BY <1>1, NamesAssumption DEF Sources
<1>3. conn[fd] # NoClient
  BY <1>1, <1>2 DEF RedisInv, Slotted
<1>4. PICK c \in Clients : conn[fd] = c
  BY <1>3 DEF RedisInv, SockInv, SockTypes
<1>5. ~Unserved(c)
  BY <1>4 DEF RedisInv, SockInv, Placed
<1> QED
  BY <1>2, <1>4, <1>5

(* del_event and close leave the other events alone.                       *)
LEMMA ReleaseSlotted ==
  ASSUME RedisInv, NEW s \in live, slot[s] # Listener, Release(s), UNCHANGED <<iter, slot>>
  PROVE  /\ Slotted' /\ wants_out' \subseteq wants_out /\ live' = live \ {s}
         /\ conn' \in [Fds -> Clients \cup {NoClient}]
         /\ \A fd \in Fds : conn'[fd] = conn[fd] \/ conn'[fd] = NoClient
<1>1. PICK fd \in Fds, c \in Clients :
        slot[s] = fd /\ conn[fd] = c /\ watched[fd] = s /\ fd # Listener /\ ~Unserved(c)
  BY LiveConn
<1>2. /\ live' = live \ {s} /\ watched' = [watched EXCEPT ![fd] = NoSlot]
      /\ wants_out' = wants_out \ {fd} /\ conn' = [conn EXCEPT ![fd] = NoClient]
  BY <1>1 DEF Release
<1>3. /\ iter \in Slots \ {0} /\ slot \in [Slots -> Sources \cup {1, FreeSlot}]
      /\ live \subseteq 1..iter /\ watched \in [Sources -> Slots \cup {NoSlot}]
      /\ wants_out \subseteq Fds /\ \A i \in Slots : i > iter => slot[i] = FreeSlot
      /\ \A g \in Fds : conn[g] # NoClient <=> watched[g] # NoSlot
      /\ watched[Listener] # NoSlot
      /\ \A g \in Sources : watched[g] # NoSlot => watched[g] \in live /\ slot[watched[g]] = g
      /\ \A t \in live : slot[t] \in Sources /\ watched[slot[t]] = t
      /\ conn \in [Fds -> Clients \cup {NoClient}]
  BY DEF RedisInv, Slotted, SockInv, SockTypes
<1>4. /\ conn' \in [Fds -> Clients \cup {NoClient}] /\ conn'[fd] = NoClient
      /\ \A g \in Fds \ {fd} : conn'[g] = conn[g]
  BY <1>2, <1>3
<1>5. fd \in Sources /\ Listener \in Sources
  BY DEF Sources
<1>6. /\ watched' \in [Sources -> Slots \cup {NoSlot}] /\ watched'[fd] = NoSlot
      /\ \A g \in Sources \ {fd} : watched'[g] = watched[g]
  BY <1>2, <1>3, <1>5
<1>7. \A g \in Sources : watched'[g] # NoSlot => watched'[g] \in live' /\ slot[watched'[g]] = g
  <2> SUFFICES ASSUME NEW g \in Sources, watched'[g] # NoSlot
               PROVE  watched'[g] \in live' /\ slot[watched'[g]] = g
    OBVIOUS
  <2>1. g # fd /\ watched'[g] = watched[g]
    BY <1>6
  <2>2. watched[g] \in live /\ slot[watched[g]] = g
    BY <1>3, <2>1
  <2>3. watched[g] # s
    BY <1>1, <2>1, <2>2
  <2> QED
    BY <1>2, <2>1, <2>2, <2>3
<1>8. \A t \in live' : slot[t] \in Sources /\ watched'[slot[t]] = t
  <2> SUFFICES ASSUME NEW t \in live' PROVE slot[t] \in Sources /\ watched'[slot[t]] = t
    OBVIOUS
  <2>1. t \in live /\ t # s
    BY <1>2
  <2>2. slot[t] \in Sources /\ watched[slot[t]] = t
    BY <1>3, <2>1
  <2>3. slot[t] # fd
    BY <1>1, <2>1, <2>2
  <2> QED
    BY <1>6, <2>2, <2>3
<1>9. \A g \in Fds : conn'[g] # NoClient <=> watched'[g] # NoSlot
  BY <1>3, <1>4, <1>6 DEF Sources
<1>10. watched'[Listener] # NoSlot
  BY <1>1, <1>3, <1>5, <1>6
<1>11. live' \subseteq 1..iter /\ wants_out' \subseteq Fds /\ wants_out' \subseteq wants_out
  BY <1>2, <1>3
<1>12. Slotted'
  BY <1>3, <1>6, <1>7, <1>8, <1>9, <1>10, <1>11 DEF Slotted, Slots, Sources, NoSlot, FreeSlot
<1> QED
  BY <1>2, <1>4, <1>11, <1>12

(* Reading everything and writing some of it back, in one step.            *)
LEMMA EchoesSockets ==
  ASSUME SockInv, NEW c \in Clients, ~Unserved(c), NEW n \in 0..Len(inq[c]),
         Consume(c, Len(inq[c])), out' = [out EXCEPT ![c] = @ \o Received(c, n)],
         UNCHANGED <<peer, sent, sk_err, backlog, conn>>
  PROVE  SockInv' /\ \A d \in Clients \ {c} : inq'[d] = inq[d]
<1>1. /\ inq \in [Clients -> Seq(Byte)] /\ out \in [Clients -> Seq(Data)] /\ sent[c] \in Nat
      /\ Len(inq[c]) \in Nat
  BY Counters DEF SockInv, SockTypes
<1>2. SubSeq(inq[c], Len(inq[c]) + 1, Len(inq[c])) = <<>>
  BY <1>1
<1>3. inq' = [inq EXCEPT ![c] = <<>>]
  BY <1>2 DEF Consume
<1>4. inq' \in [Clients -> Seq(Byte)] /\ inq'[c] = <<>> /\ \A d \in Clients \ {c} : inq'[d] = inq[d]
  BY <1>1, <1>3
<1>5. Received(c, n) \in Seq(Data)
  <2>1. \A i \in 1..n : i \in 1..Len(inq[c])
    BY <1>1
  <2>2. n \in Int /\ \A i \in 1..n : inq[c][i] \in Data
    BY <1>1, <2>1 DEF Data
  <2> QED
    BY <2>2, SubSeqProperties DEF Received
<1>6. out[c] \o Received(c, n) \in Seq(Data)
  BY <1>1, <1>5, ConcatProperties
<1>7. out' \in [Clients -> Seq(Data)] /\ \A d \in Clients \ {c} : out'[d] = out[d]
  BY <1>1, <1>6
<1>8. SockTypes' /\ Placed' /\ Errors'
  BY <1>4, <1>7 DEF SockInv, SockTypes, Placed, Unserved, Queued, Errors
<1>9. \A d \in Clients : (Unserved(d)' <=> Unserved(d)) /\ (d # c => Taken(d)' = Taken(d))
  BY <1>4 DEF Unserved, Queued, Taken
<1>10. Streams'
  <2>1. Len(inq'[c]) <= sent'[c] /\ From(inq'[c], c, Taken(c)')
    BY <1>1, <1>4, FromEmpty
  <2> QED
    BY <1>4, <1>9, <2>1 DEF SockInv, Streams
<1>11. Untouched'
  BY <1>7, <1>9 DEF SockInv, Untouched
<1> QED
  BY <1>4, <1>8, <1>10, <1>11 DEF SockInv

LEMMA WaitInv == ASSUME RedisInv, RedisWait PROVE RedisInv'
<1>1. PICK writable \in SUBSET wants_out :
        fire' = {e \in {Mask(fd, writable) : fd \in Watched} : e.in \/ e.out}
  BY DEF RedisWait
<1>2. /\ intact /\ out_due = NoSlot
      /\ UNCHANGED <<peer, sent, inq, sk_err, out, backlog, conn>>
      /\ UNCHANGED <<iter, slot, live, watched, wants_out, out_due, short, intact>>
  BY DEF RedisWait, sockets, net
<1>3. SockInv'
  BY <1>2, IdlesSockets DEF RedisInv, Idles
<1>4. Slotted'
  BY <1>2 DEF RedisInv, Slotted
<1>5. ASSUME NEW e \in fire'
      PROVE  \E fd \in Sources :
               /\ watched[fd] # NoSlot /\ e = Mask(fd, writable) /\ e.slot = watched[fd]
               /\ e.in => InReady(fd) \/ Both(fd)
               /\ e.out => fd \in writable \/ Both(fd)
               /\ fd = Listener => e.in
  <2>1. PICK fd \in Watched : e = Mask(fd, writable) /\ (e.in \/ e.out)
    BY <1>1
  <2>2. fd \in Sources /\ watched[fd] # NoSlot
    BY DEF Watched
  <2>3. e.slot = watched[fd] /\ (e.in <=> InReady(fd) \/ Both(fd)) /\ (e.out <=> fd \in writable \/ Both(fd))
    BY <2>1 DEF Mask
  <2>4. fd = Listener => ~e.out
    BY <2>3, NamesAssumption DEF RedisInv, Slotted, Both
  <2> QED
    BY <2>1, <2>2, <2>3, <2>4
<1>6. \A fd \in Sources : watched[fd] # NoSlot => watched[fd] \in live /\ slot[watched[fd]] = fd
  BY DEF RedisInv, Slotted
<1>7. ASSUME NEW e \in fire', NEW f \in fire', e.slot = f.slot PROVE e = f
  BY <1>5, <1>6, <1>7
<1>8. ASSUME NEW e \in fire'
      PROVE  /\ e.slot \in live /\ e.slot # out_due /\ (slot[e.slot] = Listener => backlog # <<>> /\ ~e.out)
             /\ (e.out => Trouble)
             /\ \A g \in Fds, c \in Clients : slot[e.slot] = g /\ conn[g] = c /\ e.in => Readable(c)
  <2>1. PICK fd \in Sources :
               /\ watched[fd] # NoSlot /\ e.slot = watched[fd]
               /\ e.in => InReady(fd) \/ Both(fd)
               /\ e.out => fd \in writable \/ Both(fd)
               /\ fd = Listener => e.in
    BY <1>5
  <2>2. e.slot \in live /\ slot[e.slot] = fd
    BY <1>6, <2>1
  <2>3. fd = Listener => backlog # <<>> /\ ~e.out
    BY <2>1, NamesAssumption DEF InReady, Both, RedisInv, Slotted
  <2>4. e.out => Trouble
    <3>1. CASE fd = Listener
      BY <2>3, <3>1
    <3>2. CASE fd # Listener
      <4>1. fd \in Fds
        BY <3>2 DEF Sources
      <4>2. conn[fd] \in Clients
        BY <2>1, <4>1 DEF RedisInv, Slotted, SockInv, SockTypes
      <4> QED
        BY <2>1, <4>2 DEF Both, Trouble, RedisInv, Cause
    <3> QED
      BY <3>1, <3>2
  <2>5. ASSUME NEW g \in Fds, NEW c \in Clients, slot[e.slot] = g, conn[g] = c, e.in PROVE Readable(c)
    BY <2>1, <2>2, <2>5, NamesAssumption DEF InReady, Both, Readable
  <2> QED
    BY <1>2, <2>2, <2>3, <2>4, <2>5, SlotNumbers DEF RedisInv
<1>9. FireSound'
  <2>1. out_due \notin live
    BY <1>2, SlotNumbers DEF RedisInv
  <2>2. \A c \in Clients : Readable(c)' <=> Readable(c)
    BY <1>2 DEF Readable
  <2> QED
    BY <1>2, <1>7, <1>8, <2>1, <2>2 DEF FireSound
<1>10. Cause'
  <2>1. Trouble' <=> Trouble
    BY <1>2 DEF Trouble
  <2> QED
    BY <1>2, <1>8, <2>1 DEF RedisInv, Cause
<1> QED
  BY <1>3, <1>4, <1>9, <1>10 DEF RedisInv

(* Steps that take an event and change nothing else but intact.            *)
LEMMA TakeInv ==
  ASSUME RedisInv, NEW e \in fire, RedisAcceptFails(e) \/ AcceptOverrun(e) \/ NoRead(e)
  PROVE  RedisInv'
<1>1. /\ Fire(e) /\ UNCHANGED <<peer, sent, inq, sk_err, out, backlog, conn>>
      /\ UNCHANGED <<iter, slot, live, watched, wants_out, short>>
  BY DEF RedisAcceptFails, AcceptOverrun, NoRead, Reading, sockets, net
<1>2. /\ intact /\ fire' = fire \ {e} /\ (out_due' # NoSlot => Trouble)
      /\ \A f \in fire' : f \in fire /\ f.slot \in live /\ f.slot # e.slot /\ f.slot # out_due'
      /\ out_due' \in live => slot[out_due'] # Listener
  BY <1>1, FireTakes
<1>3. SockInv' /\ Slotted'
  BY <1>1, IdlesSockets DEF RedisInv, Idles, Slotted
<1>4. FireSound'
  <2>1. \A c \in Clients : Readable(c)' <=> Readable(c)
    BY <1>1 DEF Readable
  <2> QED
    BY <1>1, <1>2, <2>1 DEF RedisInv, FireSound
<1>5. ~intact' => iter = MAX_CONN - 1
  <2>1. CASE AcceptOverrun(e)
    <3>1. get_event_t = iter + 1 /\ get_event_t \notin Slots
      BY <2>1, NextSlot DEF RedisInv, AcceptOverrun
    <3>2. iter + 1 \notin 0..(MAX_CONN - 1) /\ MAX_CONN \in Nat /\ iter \in 1..(MAX_CONN - 1)
      BY <3>1, SlotNumbers DEF RedisInv
    <3> QED
      BY <3>2
  <2>2. CASE RedisAcceptFails(e) \/ NoRead(e)
    BY <1>2, <2>2 DEF RedisAcceptFails, NoRead
  <2> QED
    BY <2>1, <2>2
<1>6. Cause'
  <2>1. Trouble' <=> Trouble
    BY <1>1 DEF Trouble
  <2> QED
    BY <1>1, <1>2, <1>5, <2>1 DEF RedisInv, Cause
<1> QED
  BY <1>3, <1>4, <1>6 DEF RedisInv

(* accept gives the new connection a slot that no event of the batch has.  *)
LEMMA RedisAcceptInv ==
  ASSUME RedisInv, NEW e \in fire, RedisAcceptCb(e)
  PROVE  RedisInv'
<1>1. PICK c, f, s : c = Head(backlog) /\ f = ClientFd /\ s = get_event_t
  OBVIOUS
<1>2. /\ Fire(e) /\ e.in /\ slot[e.slot] = Listener /\ FreeFds # {} /\ s \in Slots /\ Accept
      /\ iter' = s /\ slot' = [slot EXCEPT ![s] = f] /\ live' = live \cup {s}
      /\ watched' = [watched EXCEPT ![f] = s]
      /\ UNCHANGED <<peer, sent, inq, sk_err, out, wants_out, short, intact>>
  BY <1>1 DEF RedisAcceptCb, Reading, Fd, net
<1>3. /\ intact /\ fire' = fire \ {e} /\ e.slot \in live
      /\ \A g \in fire' : g \in fire /\ g.slot \in live /\ g.slot # e.slot /\ g.slot # out_due'
  BY <1>2, FireTakes
<1>4. backlog # <<>> /\ ~e.out
  BY <1>2 DEF RedisInv, FireSound
<1>5. out_due' = NoSlot
  BY <1>2, <1>4 DEF Fire
<1>6. Accepts
  BY <1>2, <1>4 DEF Accepts, net
<1>7. /\ SockInv' /\ c \in Clients /\ f \in Fds /\ conn[f] = NoClient /\ conn'[f] = c
      /\ \A fd \in Fds \ {f} : conn'[fd] = conn[fd]
  BY <1>1, <1>6, AcceptsSockets DEF RedisInv
<1>8. /\ iter \in Slots \ {0} /\ slot \in [Slots -> Sources \cup {1, FreeSlot}]
      /\ live \subseteq 1..iter /\ watched \in [Sources -> Slots \cup {NoSlot}]
      /\ wants_out \subseteq Fds /\ \A i \in Slots : i > iter => slot[i] = FreeSlot
      /\ \A g \in Fds : conn[g] # NoClient <=> watched[g] # NoSlot
      /\ watched[Listener] # NoSlot
      /\ \A g \in Sources : watched[g] # NoSlot => watched[g] \in live /\ slot[watched[g]] = g
      /\ \A t \in live : slot[t] \in Sources /\ watched[slot[t]] = t
  BY DEF RedisInv, Slotted
<1>9. /\ s = iter + 1 /\ MAX_CONN \in Nat /\ iter \in 1..(MAX_CONN - 1) /\ Slots = 0..(MAX_CONN - 1)
      /\ \A t \in live : t \in 1..iter
  BY <1>1, NextSlot, SlotNumbers DEF RedisInv
<1>10. s \in Slots \ {0} /\ s \notin live /\ s # NoSlot /\ live' \subseteq 1..s
  BY <1>2, <1>9 DEF NoSlot
<1>11. f \in Sources /\ Listener \in Sources /\ f # Listener /\ c # NoClient /\ Fds \subseteq Sources
  BY <1>7, NamesAssumption DEF Sources
<1>12. /\ slot' \in [Slots -> Sources \cup {1, FreeSlot}] /\ slot'[s] = f
       /\ \A t \in Slots \ {s} : slot'[t] = slot[t]
  BY <1>2, <1>8, <1>11
<1>13. /\ watched' \in [Sources -> Slots \cup {NoSlot}] /\ watched'[f] = s
       /\ \A g \in Sources \ {f} : watched'[g] = watched[g]
  BY <1>2, <1>8, <1>11
<1>14. \A t \in live : slot'[t] = slot[t] /\ slot[t] # f /\ t \in Slots
  <2>1. watched[f] = NoSlot
    BY <1>7, <1>8
  <2>2. \A t \in live : t \in Slots /\ t # s /\ t # NoSlot
    BY <1>10, SlotNumbers DEF RedisInv
  <2> QED
    BY <1>8, <1>12, <2>1, <2>2
<1>15. Slotted'
  <2>1. \A i \in Slots : i > s => slot'[i] = FreeSlot
    BY <1>8, <1>9, <1>12
  <2>2. \A g \in Fds : conn'[g] # NoClient <=> watched'[g] # NoSlot
    BY <1>7, <1>8, <1>10, <1>11, <1>13
  <2>3. watched'[Listener] # NoSlot
    BY <1>8, <1>11, <1>13
  <2>4. ASSUME NEW g \in Sources, watched'[g] # NoSlot PROVE watched'[g] \in live' /\ slot'[watched'[g]] = g
    <3>1. CASE g = f
      BY <1>2, <1>12, <1>13, <3>1
    <3>2. CASE g # f
      <4>1. watched'[g] = watched[g] /\ watched[g] \in live /\ slot[watched[g]] = g
        BY <1>8, <1>13, <2>4, <3>2
      <4> QED
        BY <1>2, <1>14, <4>1
    <3> QED
      BY <3>1, <3>2
  <2>5. ASSUME NEW t \in live' PROVE slot'[t] \in Sources /\ watched'[slot'[t]] = t
    <3>1. CASE t = s
      BY <1>11, <1>12, <1>13, <3>1
    <3>2. CASE t # s
      <4>1. t \in live /\ slot'[t] = slot[t] /\ slot[t] # f /\ slot[t] \in Sources /\ watched[slot[t]] = t
        BY <1>2, <1>8, <1>14, <3>2
      <4> QED
        BY <1>13, <4>1
    <3> QED
      BY <3>1, <3>2
  <2> QED
    BY <1>2, <1>8, <1>10, <1>12, <1>13, <2>1, <2>2, <2>3, <2>4, <2>5
       DEF Slotted, Slots, Sources, NoSlot, FreeSlot
<1>16. FireSound'
  <2>1. \A g, h \in fire' : g.slot = h.slot => g = h
    BY <1>3 DEF RedisInv, FireSound
  <2>2. \A g \in fire' : g.slot \in live' /\ slot'[g.slot] = slot[g.slot] /\ slot[g.slot] # f
    BY <1>2, <1>3, <1>14
  <2>3. \A g \in fire' : slot[g.slot] # Listener
    <3>1. \A t \in live : slot[t] = Listener => t = watched[Listener]
      BY <1>8
    <3> QED
      BY <1>2, <1>3, <3>1
  <2>4. ASSUME NEW g \in fire', NEW fd \in Fds, NEW d \in Clients, slot'[g.slot] = fd, conn'[fd] = d, g.in
        PROVE  Readable(d)'
    <3>1. slot[g.slot] = fd /\ conn[fd] = d /\ g \in fire
      BY <1>3, <1>7, <2>2, <2>4
    <3>2. Readable(d)
      BY <2>4, <3>1 DEF RedisInv, FireSound
    <3> QED
      BY <1>2, <3>2 DEF Readable
  <2>5. out_due' \notin live'
    BY <1>2, <1>5, <1>10, SlotNumbers DEF RedisInv
  <2> QED
    BY <1>3, <2>1, <2>2, <2>3, <2>4, <2>5 DEF FireSound
<1>17. Cause'
  <2>1. Trouble' <=> Trouble
    BY <1>2 DEF Trouble
  <2> QED
    BY <1>2, <1>3, <1>5, <2>1 DEF RedisInv, Cause, NoSlot
<1> QED
  BY <1>7, <1>15, <1>16, <1>17 DEF RedisInv

LEMMA ReadClosesInv == ASSUME RedisInv, NEW e \in fire, ReadCloses(e) PROVE RedisInv'
<1>1. /\ Fire(e) /\ slot[e.slot] # Listener /\ Release(e.slot) /\ sk_err' \subseteq sk_err
      /\ UNCHANGED <<peer, sent, inq, out, backlog, iter, slot, short, intact>>
  BY DEF ReadCloses, Reading, Fd
<1>2. /\ intact /\ fire' = fire \ {e} /\ e.slot \in live /\ out_due' \in {e.slot, NoSlot}
      /\ (out_due' # NoSlot => Trouble)
      /\ \A f \in fire' : f \in fire /\ f.slot \in live /\ f.slot # e.slot /\ f.slot # out_due'
  BY <1>1, FireTakes
<1>3. /\ Slotted' /\ wants_out' \subseteq wants_out /\ live' = live \ {e.slot}
      /\ conn' \in [Fds -> Clients \cup {NoClient}]
      /\ \A fd \in Fds : conn'[fd] = conn[fd] \/ conn'[fd] = NoClient
  BY <1>1, <1>2, ReleaseSlotted
<1>4. SockInv'
  BY <1>1, <1>3, ClosesSockets DEF RedisInv, Closes
<1>5. FireSound'
  <2>1. \A c \in Clients : Readable(c)' <=> Readable(c)
    BY <1>1 DEF Readable
  <2>2. out_due' \notin live'
    BY <1>2, <1>3, SlotNumbers DEF RedisInv
  <2>3. \A fd \in Fds, c \in Clients : conn'[fd] = c => conn[fd] = c
    BY <1>3, NamesAssumption
  <2> QED
    BY <1>1, <1>2, <1>3, <2>1, <2>2, <2>3 DEF RedisInv, FireSound
<1>6. Cause'
  <2>1. Trouble' <=> Trouble
    BY <1>1 DEF Trouble
  <2> QED
    BY <1>1, <1>2, <1>3, <2>1 DEF RedisInv, Cause, NoSlot
<1> QED
  BY <1>3, <1>4, <1>5, <1>6 DEF RedisInv

(* A client that is still open has data when its event comes, so a write   *)
(* of nothing is a short one.                                              *)
LEMMA ReadEchoesInv == ASSUME RedisInv, NEW e \in fire, ReadEchoes(e) PROVE RedisInv'
<1>1. /\ Fire(e) /\ e.in /\ slot[e.slot] # Listener /\ ~Closing(conn[slot[e.slot]])
      /\ UNCHANGED <<peer, sent, sk_err, backlog, conn, iter, slot, live, watched, intact>>
  BY DEF ReadEchoes, Reading, Fd
<1>2. /\ intact /\ fire' = fire \ {e} /\ e.slot \in live
      /\ (out_due' # NoSlot => Trouble)
      /\ \A f \in fire' : f \in fire /\ f.slot \in live /\ f.slot # e.slot /\ f.slot # out_due'
      /\ out_due' \in live => slot[out_due'] # Listener
  BY <1>1, FireTakes
<1>3. PICK fd \in Fds, c \in Clients :
        slot[e.slot] = fd /\ conn[fd] = c /\ watched[fd] = e.slot /\ fd # Listener /\ ~Unserved(c)
  BY <1>1, <1>2, LiveConn
<1>4. PICK n \in 0..Len(inq[c]) :
        /\ Consume(c, Len(inq[c])) /\ out' = [out EXCEPT ![c] = @ \o Received(c, n)]
        /\ IF Incomplete(n, Len(inq[c])) THEN wants_out' = wants_out \cup {fd} ELSE UNCHANGED wants_out
        /\ short' = IF n < Len(inq[c]) THEN short \cup {c} ELSE short
  BY <1>3 DEF ReadEchoes, Fd, enable_event
<1>5. SockInv' /\ \A d \in Clients \ {c} : inq'[d] = inq[d]
  BY <1>1, <1>3, <1>4, EchoesSockets DEF RedisInv
<1>6. wants_out' \subseteq Fds
  BY <1>3, <1>4 DEF RedisInv, Slotted
<1>7. Slotted'
  BY <1>1, <1>6 DEF RedisInv, Slotted
<1>8. inq[c] # <<>>
  <2>1. Readable(c) /\ peer[c] = "open"
    BY <1>1, <1>3 DEF RedisInv, FireSound, Closing
  <2> QED
    BY <2>1 DEF Readable
<1>9. Len(inq[c]) \in Nat \ {0}
  BY <1>8, Counters, EmptySeq DEF RedisInv
<1>10. Trouble => Trouble'
  BY <1>1, <1>4 DEF Trouble
<1>11. wants_out' # {} => Trouble'
  <2>1. CASE Incomplete(n, Len(inq[c]))
    <3>1. n < Len(inq[c])
      BY <1>9, <2>1 DEF Incomplete
    <3> QED
      BY <1>4, <3>1 DEF Trouble
  <2>2. CASE ~Incomplete(n, Len(inq[c]))
    BY <1>4, <1>10, <2>2 DEF RedisInv, Cause
  <2> QED
    BY <2>1, <2>2
<1>12. Cause'
  BY <1>1, <1>2, <1>10, <1>11 DEF RedisInv, Cause, NoSlot
<1>13. FireSound'
  <2>1. ASSUME NEW f \in fire', NEW g \in Fds, NEW d \in Clients, slot[f.slot] = g, conn[g] = d, f.in
        PROVE  Readable(d)'
    <3>1. Readable(d) /\ f.slot = watched[g]
      BY <1>2, <2>1 DEF RedisInv, FireSound, Slotted
    <3>2. d # c
      BY <1>2, <1>3, <2>1, <3>1 DEF RedisInv, SockInv, Placed
    <3> QED
      BY <1>1, <1>5, <3>1, <3>2 DEF Readable
  <2> QED
    BY <1>1, <1>2, <2>1 DEF RedisInv, FireSound
<1> QED
  BY <1>5, <1>7, <1>12, <1>13 DEF RedisInv

(* The EPOLLOUT half, of a live event or of a freed one.                   *)
LEMMA WriteInv == ASSUME RedisInv, WriteNothing \/ WriteCloses \/ WriteFreed PROVE RedisInv'
<1>1. /\ UNCHANGED <<peer, sent, inq, out, backlog, iter, slot, fire, short>>
      /\ sk_err' \subseteq sk_err /\ out_due' = NoSlot /\ intact
  BY DEF WriteNothing, WriteCloses, WriteFreed, sockets, net
<1>2. (Trouble' <=> Trouble) /\ out_due' \notin live /\ out_due # NoSlot
  <2>1. NoSlot \notin live
    BY SlotNumbers DEF RedisInv
  <2> QED
    BY <1>1, <2>1 DEF Trouble, WriteNothing, WriteCloses, WriteFreed
<1>3. Trouble
  BY <1>2 DEF RedisInv, Cause
<1>4. Cause'
  BY <1>1, <1>2, <1>3 DEF RedisInv, Cause, NoSlot
<1>5. \A c \in Clients : Readable(c)' <=> Readable(c)
  BY <1>1 DEF Readable
<1>6. CASE WriteNothing \/ WriteFreed
  <2>1. UNCHANGED <<conn, live, watched>>
    BY <1>6 DEF WriteNothing, WriteFreed, sockets
  <2>2. wants_out' \subseteq Fds
    <3>1. CASE WriteNothing
      <4>1. out_due \in live /\ wants_out' = wants_out \cup {slot[out_due]}
        BY <3>1 DEF WriteNothing, enable_event
      <4>2. slot[out_due] \in Fds
        BY <4>1 DEF RedisInv, FireSound, Slotted, Sources
      <4> QED
        BY <4>1, <4>2 DEF RedisInv, Slotted
    <3>2. CASE WriteFreed
      BY <3>2 DEF WriteFreed, RedisInv, Slotted
    <3> QED
      BY <1>6, <3>1, <3>2
  <2>3. SockInv' /\ Slotted'
    BY <1>1, <2>1, <2>2, IdlesSockets DEF RedisInv, Idles, Slotted
  <2>4. FireSound'
    <3>1. \A e \in fire : e.slot # NoSlot
      BY SlotNumbers DEF RedisInv, FireSound
    <3> QED
      BY <1>1, <1>2, <1>5, <2>1, <3>1 DEF RedisInv, FireSound
  <2> QED
    BY <1>4, <2>3, <2>4 DEF RedisInv
<1>7. CASE WriteCloses
  <2>1. out_due \in live /\ Release(out_due) /\ slot[out_due] # Listener
    BY <1>7 DEF WriteCloses, RedisInv, FireSound
  <2>2. /\ Slotted' /\ live' = live \ {out_due} /\ conn' \in [Fds -> Clients \cup {NoClient}]
        /\ \A fd \in Fds : conn'[fd] = conn[fd] \/ conn'[fd] = NoClient
    BY <1>1, <2>1, ReleaseSlotted
  <2>3. SockInv'
    BY <1>1, <2>2, ClosesSockets DEF RedisInv, Closes
  <2>4. FireSound'
    <3>1. \A fd \in Fds, c \in Clients : conn'[fd] = c => conn[fd] = c
      BY <2>2, NamesAssumption
    <3>2. \A e \in fire : e.slot \in live' /\ e.slot # NoSlot
      BY <2>2, SlotNumbers DEF RedisInv, FireSound
    <3> QED
      BY <1>1, <1>2, <1>5, <2>2, <3>1, <3>2 DEF RedisInv, FireSound
  <2> QED
    BY <1>4, <2>2, <2>3, <2>4 DEF RedisInv
<1> QED
  BY <1>6, <1>7

LEMMA RedisActsInv == ASSUME RedisInv, NEW c \in Clients, RedisClient(c) PROVE RedisInv'
<1>1. Acts(c) /\ UNCHANGED <<iter, slot, live, watched, wants_out, fire, out_due, short, intact>>
  BY DEF RedisClient, Acts, reactor
<1>2. /\ SockInv' /\ conn' = conn
      /\ \A d \in Clients : /\ peer[d] \in {"fin", "reset"} => peer'[d] = peer[d]
                            /\ inq[d] # <<>> => inq'[d] # <<>>
  BY <1>1, ActsSockets DEF RedisInv
<1>3. backlog # <<>> => backlog' # <<>>
  <2>1. backlog' = backlog \/ backlog' = Append(backlog, c)
    BY <1>1 DEF Acts, Connect, Send, Shutdown, Reset
  <2>2. backlog \in Seq(Clients)
    BY DEF RedisInv, SockInv, SockTypes
  <2>3. Len(Append(backlog, c)) # 0
    BY <2>2, AppendProperties
  <2> QED
    BY <2>1, <2>3, EmptySeq
<1>4. (\A d \in Clients : Readable(d) => Readable(d)') /\ (Trouble => Trouble')
  BY <1>1, <1>2 DEF Readable, Trouble
<1>5. Slotted'
  BY <1>1, <1>2 DEF RedisInv, Slotted
<1>6. FireSound'
  BY <1>1, <1>2, <1>3, <1>4 DEF RedisInv, FireSound
<1>7. Cause'
  BY <1>1, <1>4 DEF RedisInv, Cause
<1> QED
  BY <1>2, <1>5, <1>6, <1>7 DEF RedisInv

LEMMA RedisInitInv == RedisInit => RedisInv
<1> SUFFICES ASSUME RedisInit PROVE RedisInv
  OBVIOUS
<1>1. PICK n \in Served :
        /\ iter = 1 + n
        /\ slot = [i \in Slots |-> IF i = 1 THEN Listener ELSE IF i \in 2..(n + 1) THEN 1 ELSE FreeSlot]
  BY DEF RedisInit
<1>2. /\ peer = [c \in Clients |-> "new"] /\ sent = [c \in Clients |-> 0]
      /\ inq = [c \in Clients |-> <<>>] /\ sk_err = {} /\ out = [c \in Clients |-> <<>>]
      /\ backlog = <<>> /\ conn = [fd \in Fds |-> NoClient]
      /\ live = {1} /\ watched = [fd \in Sources |-> IF fd = Listener THEN 1 ELSE NoSlot]
      /\ wants_out = {} /\ fire = {} /\ out_due = NoSlot /\ short = {} /\ intact
  BY DEF RedisInit, SocketsInit
<1>3. NoClient \notin Clients /\ Len(<<>>) = 0 /\ Listener \notin Fds
  BY NamesAssumption
<1>4. \A c \in Clients : Taken(c) = 0 /\ Unserved(c) /\ out[c] = <<>> /\ inq[c] = <<>>
  BY <1>2, <1>3 DEF Taken, Unserved
<1>5. SockInv
  <2>1. SockTypes
    BY <1>2 DEF SockTypes
  <2>2. Placed
    BY <1>2, <1>3 DEF Placed
  <2>3. Streams /\ Untouched /\ Errors
    BY <1>2, <1>3, <1>4, FromEmpty DEF Streams, Untouched, Errors
  <2> QED
    BY <2>1, <2>2, <2>3 DEF SockInv
<1>6. MAX_CONN \in Nat /\ n \in 0..(MAX_CONN - 2)
  BY MaskAssumption
<1>7. Slotted
  <2>1. iter \in Slots \ {0} /\ 1 \in Slots /\ live \subseteq 1..iter
    BY <1>1, <1>2, <1>6 DEF Slots
  <2>2. slot \in [Slots -> Sources \cup {1, FreeSlot}] /\ slot[1] = Listener
    BY <1>1, <2>1 DEF Sources
  <2>3. \A i \in Slots : i > iter => slot[i] = FreeSlot
    <3> SUFFICES ASSUME NEW i \in Slots, i > iter PROVE slot[i] = FreeSlot
      OBVIOUS
    <3>1. i # 1 /\ i \notin 2..(n + 1)
      BY <1>1, <1>6 DEF Slots
    <3> QED
      BY <1>1, <3>1
  <2>4. NoSlot # 1 /\ Listener \in Sources /\ Fds \subseteq Sources
    BY DEF NoSlot, Sources
  <2>5. /\ watched \in [Sources -> Slots \cup {NoSlot}] /\ watched[Listener] = 1
        /\ \A fd \in Sources : watched[fd] # NoSlot => fd = Listener
    BY <1>2, <2>1, <2>4
  <2>6. \A fd \in Fds : conn[fd] # NoClient <=> watched[fd] # NoSlot
    BY <1>2, <1>3, <2>4, <2>5
  <2> QED
    BY <1>2, <2>1, <2>2, <2>3, <2>4, <2>5, <2>6 DEF Slotted
<1>8. FireSound /\ Cause
  BY <1>2 DEF FireSound, Cause, NoSlot
<1> QED
  BY <1>5, <1>7, <1>8 DEF RedisInv

LEMMA RedisNextInv == RedisInv /\ [RedisNext]_redisvars => RedisInv'
<1> SUFFICES ASSUME RedisInv, [RedisNext]_redisvars PROVE RedisInv'
  OBVIOUS
<1>1. CASE Reactor
  <2>1. CASE RedisWait
    BY <2>1, WaitInv
  <2>2. CASE WriteNothing \/ WriteCloses \/ WriteFreed
    BY <2>2, WriteInv
  <2>3. ASSUME NEW e \in fire, RedisAcceptCb(e) PROVE RedisInv'
    BY <2>3, RedisAcceptInv
  <2>4. ASSUME NEW e \in fire, RedisAcceptFails(e) \/ AcceptOverrun(e) \/ NoRead(e) PROVE RedisInv'
    BY <2>4, TakeInv
  <2>5. ASSUME NEW e \in fire, ReadCloses(e) PROVE RedisInv'
    BY <2>5, ReadClosesInv
  <2>6. ASSUME NEW e \in fire, ReadEchoes(e) PROVE RedisInv'
    BY <2>6, ReadEchoesInv
  <2> QED
    BY <1>1, <2>1, <2>2, <2>3, <2>4, <2>5, <2>6 DEF Reactor
<1>2. ASSUME NEW c \in Clients, RedisClient(c) PROVE RedisInv'
  BY <1>2, RedisActsInv
<1>3. CASE UNCHANGED redisvars
  <2>1. /\ UNCHANGED <<peer, sent, inq, sk_err, out, backlog, conn>>
        /\ UNCHANGED <<iter, slot, live, watched, wants_out, fire, out_due, short, intact>>
    BY <1>3 DEF redisvars, reactor, sockets, net
  <2>2. SockInv'
    BY <2>1, IdlesSockets DEF RedisInv, Idles
  <2>3. Slotted'
    BY <2>1 DEF RedisInv, Slotted
  <2>4. FireSound' /\ Cause'
    BY <2>1 DEF RedisInv, FireSound, Cause, Trouble, Readable
  <2> QED
    BY <2>2, <2>3, <2>4 DEF RedisInv
<1> QED
  BY <1>1, <1>2, <1>3 DEF RedisNext

LEMMA RedisInvariance == RedisSpec => []RedisInv
BY RedisInitInv, RedisNextInv, PTL DEF RedisSpec

(* The redis-style reactor never starts on a freed event: every open       *)
(* descriptor has one live event of its own, and every event of the batch  *)
(* is live when its turn comes, although reading and writing free events   *)
(* inside the batch and freed slots keep their descriptors; for any        *)
(* clients, descriptors and MAX_CONN.                                      *)
THEOREM LiveEvents == RedisSpec => []EventsSound
<1>1. RedisInv => EventsSound
  BY DEF RedisInv, Slotted, FireSound, EventsSound, Watched, Sources
<1> QED
  BY <1>1, RedisInvariance, PTL

(* It outlives clients that neither reset nor stop reading: only a short   *)
(* write or a reset ever asks for EPOLLOUT, and without it no event is     *)
(* freed between its two halves; the array overruns only after its last    *)
(* slot was given out.                                                     *)
THEOREM SurvivesHolds == RedisSpec => []Survives
<1>1. RedisInv => Survives
  BY DEF RedisInv, Cause, Survives, Trouble
<1> QED
  BY <1>1, RedisInvariance, PTL
===============================================================================
