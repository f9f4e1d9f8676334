--------------------------- MODULE DnsClientProofs ---------------------------
(***************************************************************************)
(* Proofs about the asynchronous DNS client for any number of requests,    *)
(* any descriptors and ports, any size of a batch and any number of        *)
(* duplicated answers: a callback is called once at most, on a request     *)
(* that is still registered, and without duplicates it gets its own        *)
(* answer.                                                                 *)
(***************************************************************************)
EXTENDS DnsClient, SequenceTheorems, FiniteSetTheorems, WellFoundedInduction, TLAPS

Answers == Requests \cup {Nobody}

TypeOK ==
    /\ committed \in 0..Cardinality(Requests) /\ step \in {"call", "add"}
    /\ asked \subseteq Requests /\ answers \subseteq Requests \X Ports /\ copied \subseteq Requests
    /\ sock \in [Fds -> Answers] /\ port \in [Requests -> Ports]
    /\ rcvq \in [Requests -> Seq(Answers)] /\ cb \in [Requests -> Seq(Answers)]
    /\ interest \subseteq Requests /\ events \in Seq(Requests)
    /\ alive \in BOOLEAN

(* A request that is not committed yet has left no trace. *)
Future ==
    \A r \in Requests : r > committed =>
        /\ ~Open(r) /\ r \notin asked /\ r \notin interest
        /\ rcvq[r] = <<>> /\ cb[r] = <<>>
        /\ \A a \in answers : a[1] # r

(* main is between sendto and epoll_ctl: the thread cannot have seen the   *)
(* request, whose socket is open.                                          *)
Adding ==
    step = "add" => /\ committed \in Requests /\ committed \notin interest
                    /\ Open(committed) /\ cb[committed] = <<>>

(* A registered request waits for its callback, on an open socket. *)
Registered == \A r \in interest : Open(r) /\ cb[r] = <<>>

(* The batch: registered requests, each once, whose sockets have data. *)
Batch ==
    /\ \A i \in 1..Len(events) : events[i] \in interest /\ rcvq[events[i]] # <<>>
    /\ \A i, j \in 1..Len(events) : events[i] = events[j] => i = j

Calls == \A r \in Requests : Len(cb[r]) <= 1

(* Open sockets have different ports, and an answer goes to the port that  *)
(* its request came from.                                                  *)
PortsOwned ==
    /\ \A r, s \in Requests : Open(r) /\ Open(s) /\ port[r] = port[s] => r = s
    /\ \A a \in answers : a[2] = port[a[1]]

(* Without duplicates, a request is in one place: on its way, or answered  *)
(* and on its way back, or in the receive queue.  So its socket, which is  *)
(* closed only after a datagram was received, stays open until then, and   *)
(* its port is not reused.                                                 *)
OnePlace ==
    copied = {} =>
        /\ \A r \in asked : Open(r) /\ rcvq[r] = <<>> /\ \A a \in answers : a[1] # r
        /\ \A a \in answers : Open(a[1]) /\ rcvq[a[1]] = <<>>

(* What the sockets and the callbacks were given. *)
Own ==
    copied = {} => \A r \in Requests :
        /\ \A i \in 1..Len(rcvq[r]) : rcvq[r][i] \in {r, Nobody}
        /\ \A i \in 1..Len(cb[r]) : cb[r][i] \in {r, Nobody}

IInv ==
    /\ TypeOK /\ Future /\ Adding /\ Registered /\ Batch /\ Calls
    /\ PortsOwned /\ OnePlace /\ Own
-----------------------------------------------------------------------------
(* socket() returns the lowest free descriptor when there is one.          *)
LEMMA LowestFd ==
  ASSUME FreeFds # {}
  PROVE  (CHOOSE f \in FreeFds : \A g \in FreeFds : f <= g) \in FreeFds
<1>1. FreeFds \subseteq Nat
  BY FdsAssumption DEF FreeFds
<1>2. PICK f \in FreeFds : \A g \in FreeFds : ~(<<g, f>> \in OpToRel(<, Nat))
  <2> HIDE DEF FreeFds
  <2> QED
    BY <1>1, NatLessThanWellFounded, WFMin
<1>3. ASSUME NEW x \in Nat, NEW y \in Nat, x < y PROVE <<x, y>> \in OpToRel(<, Nat)
  BY <1>3 DEF OpToRel
<1>4. \A g \in FreeFds : ~(g < f)
  BY <1>1, <1>2, <1>3, Zenon
<1>5. \A g \in FreeFds : f <= g
  BY <1>1, <1>4
<1> QED
  BY <1>5

LEMMA RequestsNumbered == Cardinality(Requests) \in Nat /\ Requests = 1..Cardinality(Requests)
BY RequestsAssumption, FS_CardinalityType

(* Nothing has happened yet.                                               *)
LEMMA InitIInv == Init => IInv
<1> SUFFICES ASSUME Init PROVE IInv
  OBVIOUS
<1>1. (CHOOSE p \in Ports : TRUE) \in Ports
  BY PortsAssumption
<1>2. TypeOK
  BY <1>1, RequestsNumbered DEF Init, TypeOK, Answers
<1>3. \A r \in Requests : ~Open(r)
  BY RequestsAssumption DEF Init, Open
<1> QED
  BY <1>2, <1>3
     DEF Init, IInv, Future, Adding, Registered, Batch, Calls, PortsOwned, OnePlace, Own

(* main takes the next request up: a descriptor and a port that nobody     *)
(* else has, so no other request is touched.                               *)
LEMMA CommitIInv == IInv /\ Commit => IInv'
<1> SUFFICES ASSUME IInv, Commit PROVE IInv'
  OBVIOUS
<1>0. PICK r \in Requests : r = committed + 1
  BY DEF Commit
<1> DEFINE fd == CHOOSE f \in FreeFds : \A g \in FreeFds : f <= g
<1>1. fd \in FreeFds
  BY LowestFd DEF Commit
<1>2. /\ step = "call" /\ r \in Requests /\ committed' = r
      /\ sock' = [sock EXCEPT ![fd] = r]
      /\ asked' = asked \cup {r} /\ step' = "add"
      /\ UNCHANGED <<answers, copied, rcvq, interest, events, cb, alive>>
  BY <1>0 DEF Commit
<1>3. PICK p \in FreePorts : port' = [port EXCEPT ![r] = p]
  BY <1>0 DEF Commit
<1> HIDE DEF fd
<1>4. fd \in Fds /\ sock[fd] = Nobody
  BY <1>1 DEF FreeFds
<1>5. TypeOK
  BY DEF IInv
<1>6. p \in Ports /\ \A s \in Requests : Open(s) => port[s] # p
  BY <1>3 DEF FreePorts
<1>7. TypeOK'
  <2>1. committed' \in 0..Cardinality(Requests) /\ step' \in {"call", "add"}
    BY <1>2, RequestsNumbered
  <2>2. sock' \in [Fds -> Answers]
    BY <1>2, <1>5 DEF TypeOK, Answers
  <2>3. port' \in [Requests -> Ports]
    BY <1>3, <1>5, <1>6 DEF TypeOK
  <2> QED
    BY <1>2, <1>5, <2>1, <2>2, <2>3 DEF TypeOK
<1>8. Open(r)' /\ \A s \in Requests \ {r} : Open(s)' <=> Open(s)
  <2>1. sock'[fd] = r /\ \A f \in Fds \ {fd} : sock'[f] = sock[f]
    BY <1>2, <1>4, <1>5 DEF TypeOK
  <2> QED
    BY <2>1, <1>4, RequestsAssumption DEF Open
<1>9. \A s \in Requests : s # r => port'[s] = port[s]
  BY <1>3, <1>5 DEF TypeOK
<1>10. port'[r] = p
  BY <1>2, <1>3, <1>5 DEF TypeOK
<1>11. /\ ~Open(r) /\ r \notin asked /\ r \notin interest
       /\ rcvq[r] = <<>> /\ cb[r] = <<>> /\ \A a \in answers : a[1] # r
  <2>1. r > committed
    BY <1>0, <1>5 DEF TypeOK
  <2> QED
    BY <1>2, <2>1 DEF IInv, Future
<1>12. \A s \in Requests : s > r => s > committed
  BY <1>0, <1>5, RequestsNumbered DEF TypeOK
<1>13. interest \subseteq Requests /\ asked \subseteq Requests
       /\ \A a \in answers : a[1] \in Requests
  BY <1>5 DEF TypeOK
<1>15. Future'
  <2> SUFFICES ASSUME NEW s \in Requests, s > r
               PROVE  /\ ~Open(s)' /\ s \notin asked' /\ s \notin interest'
                      /\ rcvq'[s] = <<>> /\ cb'[s] = <<>> /\ \A a \in answers' : a[1] # s
    BY <1>2 DEF Future
  <2>1. s # r
    BY RequestsNumbered
  <2> QED
    BY <1>2, <1>8, <1>12, <2>1 DEF IInv, Future
<1>16. Adding'
  BY <1>2, <1>8, <1>11 DEF Adding
<1>17. Registered'
  BY <1>2, <1>8, <1>11, <1>13 DEF IInv, Registered
<1>18. Batch' /\ Calls'
  BY <1>2 DEF IInv, Batch, Calls
<1>19. PortsOwned'
  BY <1>2, <1>6, <1>8, <1>9, <1>10, <1>11, <1>13 DEF IInv, PortsOwned
<1>20. OnePlace'
  BY <1>2, <1>8, <1>11, <1>13 DEF IInv, OnePlace
<1>21. Own'
  BY <1>2 DEF IInv, Own
<1> QED
  BY <1>7, <1>15, <1>16, <1>17, <1>18, <1>19, <1>20, <1>21 DEF IInv

(* The rest of main: an exit, and the two ends of the commit.              *)
LEMMA MainIInv == IInv /\ (CommitExits \/ CommitFails \/ CommitAdds) => IInv'
<1> SUFFICES ASSUME IInv, CommitExits \/ CommitFails \/ CommitAdds PROVE IInv'
  OBVIOUS
<1>1. UNCHANGED <<committed, asked, answers, copied, sock, port, rcvq, events, cb>>
  BY DEF CommitExits, CommitFails, CommitAdds, network
<1>2. \A r : Open(r)' <=> Open(r)
  BY <1>1 DEF Open
<1>3. Calls' /\ PortsOwned' /\ OnePlace' /\ Own'
  BY <1>1, <1>2 DEF IInv, Calls, PortsOwned, OnePlace, Own
<1>4. CASE UNCHANGED interest
  <2>1. step' \in {step, "call"} /\ alive' \in {alive, FALSE}
    BY <1>4 DEF CommitExits, CommitFails, CommitAdds
  <2>2. TypeOK'
    BY <1>1, <1>4, <2>1 DEF IInv, TypeOK
  <2>3. Future' /\ Registered' /\ Batch'
    BY <1>1, <1>2, <1>4 DEF IInv, Future, Registered, Batch
  <2>4. Adding'
    BY <1>1, <1>2, <1>4, <2>1 DEF IInv, Adding
  <2> QED
    BY <1>3, <2>2, <2>3, <2>4 DEF IInv
<1>5. CASE CommitAdds
  <2>1. step = "add" /\ step' = "call" /\ interest' = interest \cup {committed} /\ UNCHANGED alive
    BY <1>5 DEF CommitAdds
  <2>2. committed \in Requests /\ Open(committed) /\ cb[committed] = <<>>
    BY <2>1 DEF IInv, Adding
  <2>3. TypeOK'
    BY <1>1, <2>1, <2>2 DEF IInv, TypeOK
  <2>4. Future'
    BY <1>1, <1>2, <2>1, <2>2, RequestsNumbered DEF IInv, Future
  <2>5. Registered' /\ Batch' /\ Adding'
    BY <1>1, <1>2, <2>1, <2>2 DEF IInv, Registered, Batch, Adding
  <2> QED
    BY <1>3, <2>3, <2>4, <2>5 DEF IInv
<1> QED
  BY <1>4, <1>5 DEF CommitExits, CommitFails

(* epoll_wait returns ready requests, each once, in any order.             *)
LEMMA EpollWaitIInv == IInv /\ EpollWait => IInv'
<1> SUFFICES ASSUME IInv, EpollWait PROVE IInv'
  OBVIOUS
<1>1. PICK batch \in SUBSET Ready : events' \in SetToSeqs(batch)
  BY DEF EpollWait
<1>2. batch \subseteq interest /\ interest \subseteq Requests /\ \A r \in batch : rcvq[r] # <<>>
  BY <1>1 DEF Ready, IInv, TypeOK
<1>3. Cardinality(batch) \in Nat
  BY <1>2, RequestsAssumption, FS_Subset, FS_CardinalityType
<1>4. /\ events' \in [1..Cardinality(batch) -> batch]
      /\ \A i, j \in 1..Cardinality(batch) : i # j => events'[i] # events'[j]
  BY <1>1 DEF SetToSeqs
<1>5. events' \in Seq(batch) /\ Len(events') = Cardinality(batch)
  BY <1>3, <1>4
<1>6. events' \in Seq(Requests)
  BY <1>2, <1>5, SeqMonotonic
<1>7. UNCHANGED <<committed, step, network, sock, port, rcvq, interest, cb, alive>>
  BY DEF EpollWait
<1>8. Batch'
  BY <1>2, <1>4, <1>5, <1>7 DEF Batch
<1> QED
  BY <1>6, <1>7, <1>8
     DEF IInv, TypeOK, network, Open, Future, Adding, Registered, Calls, PortsOwned, OnePlace, Own

(* The thread serves one request of its batch: it is called back for the   *)
(* first time, and neither main nor the rest of the batch knows it.        *)
LEMMA ProcIInv == IInv /\ Proc => IInv'
<1> SUFFICES ASSUME IInv, Proc PROVE IInv'
  OBVIOUS
<1>1. PICK r : r = Head(events)
  OBVIOUS
<1>2. /\ events # <<>> /\ events' = Tail(events)
      /\ rcvq' = [rcvq EXCEPT ![r] = Tail(@)]
      /\ cb' = [cb EXCEPT ![r] = Append(@, Head(rcvq[r]))]
      /\ interest' = interest \ {r}
      /\ sock' = [fd \in Fds |-> IF sock[fd] = r THEN Nobody ELSE sock[fd]]
      /\ UNCHANGED <<committed, step, asked, answers, copied, port, alive>>
  BY <1>1 DEF Proc, Call, network
<1>3. TypeOK
  BY DEF IInv
<1>4. events \in Seq(Requests) /\ Len(events) \in Nat \ {0} /\ r = events[1]
  BY <1>1, <1>2, <1>3, EmptySeq DEF TypeOK
<1>5. /\ r \in interest /\ r \in Requests /\ rcvq[r] # <<>>
      /\ \A i \in 2..Len(events) : events[i] # r
  BY <1>3, <1>4 DEF IInv, Batch, TypeOK
<1>6. Open(r) /\ cb[r] = <<>>
  BY <1>5 DEF IInv, Registered
<1>7. rcvq[r] \in Seq(Answers) /\ Head(rcvq[r]) \in Answers /\ Tail(rcvq[r]) \in Seq(Answers)
  BY <1>3, <1>5, HeadTailProperties DEF TypeOK
<1>8. /\ Tail(events) \in Seq(Requests) /\ Len(Tail(events)) = Len(events) - 1
      /\ \A i \in 1..Len(Tail(events)) : Tail(events)[i] = events[i + 1]
  BY <1>2, <1>4, HeadTailProperties
<1>9. cb'[r] = <<Head(rcvq[r])>> /\ rcvq'[r] = Tail(rcvq[r])
  BY <1>2, <1>3, <1>5, <1>6, <1>7 DEF TypeOK
<1>10. \A s \in Requests \ {r} : cb'[s] = cb[s] /\ rcvq'[s] = rcvq[s]
  BY <1>2, <1>3 DEF TypeOK
<1>11. TypeOK'
  <2>1. cb' \in [Requests -> Seq(Answers)]
    BY <1>2, <1>3, <1>5, <1>7, AppendProperties DEF TypeOK
  <2>2. rcvq' \in [Requests -> Seq(Answers)]
    BY <1>2, <1>3, <1>5, <1>7 DEF TypeOK
  <2>3. sock' \in [Fds -> Answers]
    BY <1>2, <1>3 DEF TypeOK, Answers
  <2> QED
    BY <1>2, <1>3, <1>8, <2>1, <2>2, <2>3 DEF TypeOK
<1>12. ~Open(r)' /\ \A s \in Requests \ {r} : Open(s)' <=> Open(s)
  BY <1>2, <1>5, RequestsAssumption DEF Open
<1>13. r <= committed
  BY <1>3, <1>5, RequestsNumbered DEF IInv, Future, TypeOK
<1>14. Future'
  <2>1. \A s \in Requests : s > committed => s # r
    BY <1>3, <1>13, RequestsNumbered DEF TypeOK
  <2> QED
    BY <1>2, <1>10, <1>12, <2>1 DEF IInv, Future
<1>15. Adding'
  BY <1>2, <1>5, <1>10, <1>12 DEF IInv, Adding
<1>16. Registered'
  BY <1>2, <1>3, <1>10, <1>12 DEF IInv, Registered, TypeOK
<1>17. Batch'
  <2>1. ASSUME NEW i \in 1..Len(events') PROVE events'[i] \in interest' /\ rcvq'[events'[i]] # <<>>
    <3>1. i + 1 \in 2..Len(events) /\ events'[i] = events[i + 1]
      BY <1>2, <1>4, <1>8
    <3>2. events[i + 1] \in interest /\ events[i + 1] # r /\ rcvq[events[i + 1]] # <<>>
      BY <1>4, <1>5, <3>1 DEF IInv, Batch
    <3> QED
      BY <1>2, <1>3, <1>10, <3>1, <3>2 DEF TypeOK
  <2>2. ASSUME NEW i \in 1..Len(events'), NEW j \in 1..Len(events'), events'[i] = events'[j]
        PROVE  i = j
    <3>1. i + 1 \in 1..Len(events) /\ j + 1 \in 1..Len(events) /\ events[i + 1] = events[j + 1]
      BY <1>2, <1>4, <1>8, <2>2
    <3> QED
      BY <3>1 DEF IInv, Batch
  <2> QED
    BY <2>1, <2>2 DEF Batch
<1>18. Calls'
  <2>1. Len(cb'[r]) = 1
    BY <1>9
  <2>2. \A s \in Requests \ {r} : Len(cb'[s]) <= 1
    BY <1>10 DEF IInv, Calls
  <2>3. Len(cb'[r]) <= 1
    BY <2>1
  <2> QED
    BY <2>2, <2>3 DEF Calls
<1>19. PortsOwned'
  BY <1>2, <1>12 DEF IInv, PortsOwned
<1>20. OnePlace'
  BY <1>2, <1>3, <1>5, <1>10, <1>12 DEF IInv, OnePlace, TypeOK
<1>21. Own'
  <2> SUFFICES ASSUME copied = {}, NEW s \in Requests
               PROVE  /\ \A i \in 1..Len(rcvq'[s]) : rcvq'[s][i] \in {s, Nobody}
                      /\ \A i \in 1..Len(cb'[s]) : cb'[s][i] \in {s, Nobody}
    BY <1>2 DEF Own
  <2>1. \A i \in 1..Len(rcvq[s]) : rcvq[s][i] \in {s, Nobody}
    BY DEF IInv, Own
  <2>2. CASE s = r
    <3>1. /\ Len(rcvq[r]) \in Nat \ {0} /\ Head(rcvq[r]) = rcvq[r][1]
          /\ Len(Tail(rcvq[r])) = Len(rcvq[r]) - 1
          /\ \A i \in 1..Len(Tail(rcvq[r])) : Tail(rcvq[r])[i] = rcvq[r][i + 1]
      BY <1>5, <1>7, EmptySeq, HeadTailProperties
    <3>2. Head(rcvq[r]) \in {r, Nobody}
      BY <2>1, <2>2, <3>1
    <3>3. \A i \in 1..Len(Tail(rcvq[r])) : Tail(rcvq[r])[i] \in {r, Nobody}
      BY <2>1, <2>2, <3>1
    <3>4. \A i \in 1..Len(cb'[r]) : cb'[r][i] = Head(rcvq[r])
      BY <1>9
    <3> QED
      BY <1>9, <2>2, <3>2, <3>3, <3>4
  <2>3. CASE s # r
    BY <1>10, <2>3 DEF IInv, Own
  <2> QED
    BY <2>2, <2>3
<1> QED
  BY <1>11, <1>14, <1>15, <1>16, <1>17, <1>18, <1>19, <1>20, <1>21 DEF IInv

(* A request is answered or refused, or something is lost.                 *)
LEMMA LoseIInv == IInv /\ Lose => IInv'
<1> SUFFICES ASSUME IInv, Lose PROVE IInv'
  OBVIOUS
<1>1. /\ asked' \subseteq asked /\ answers' \subseteq answers
      /\ UNCHANGED <<committed, step, copied, sock, port, rcvq, interest, events, cb, alive>>
  BY DEF Lose
<1>2. \A r : Open(r)' <=> Open(r)
  BY <1>1 DEF Open
<1>3. TypeOK'
  BY <1>1 DEF IInv, TypeOK
<1>4. Future' /\ Adding' /\ Registered' /\ Batch' /\ Calls'
  BY <1>1, <1>2 DEF IInv, Future, Adding, Registered, Batch, Calls
<1>5. PortsOwned' /\ OnePlace' /\ Own'
  BY <1>1, <1>2 DEF IInv, PortsOwned, OnePlace, Own
<1> QED
  BY <1>3, <1>4, <1>5 DEF IInv

(* The answer goes to the port that the request came from.                 *)
LEMMA AnswerIInv == ASSUME NEW r \in Requests PROVE IInv /\ Answer(r) => IInv'
<1> SUFFICES ASSUME IInv, Answer(r) PROVE IInv'
  OBVIOUS
<1>1. /\ r \in asked /\ asked' = asked \ {r} /\ answers' = answers \cup {<<r, port[r]>>}
      /\ UNCHANGED <<committed, step, copied, sock, port, rcvq, interest, events, cb, alive>>
  BY DEF Answer
<1>2. \A s : Open(s)' <=> Open(s)
  BY <1>1 DEF Open
<1>3. TypeOK'
  BY <1>1 DEF IInv, TypeOK
<1>4. Future'
  BY <1>1, <1>2 DEF IInv, Future
<1>5. Adding' /\ Registered' /\ Batch' /\ Calls' /\ Own'
  BY <1>1, <1>2 DEF IInv, Adding, Registered, Batch, Calls, Own
<1>6. PortsOwned'
  BY <1>1, <1>2 DEF IInv, PortsOwned
<1>7. OnePlace'
  BY <1>1, <1>2 DEF IInv, OnePlace
<1> QED
  BY <1>3, <1>4, <1>5, <1>6, <1>7 DEF IInv

(* The request is refused: its socket, if it is open, gets an error.       *)
LEMMA RefuseIInv == ASSUME NEW r \in Requests PROVE IInv /\ Refuse(r) => IInv'
<1> SUFFICES ASSUME IInv, Refuse(r) PROVE IInv'
  OBVIOUS
<1>1. /\ r \in asked /\ asked' = asked \ {r}
      /\ rcvq' = [rcvq EXCEPT ![r] = IF Open(r) THEN Append(@, Nobody) ELSE @]
      /\ UNCHANGED <<committed, step, answers, copied, sock, port, interest, events, cb, alive>>
  BY DEF Refuse
<1>2. \A s : Open(s)' <=> Open(s)
  BY <1>1 DEF Open
<1>3. rcvq \in [Requests -> Seq(Answers)] /\ Nobody \in Answers
  BY DEF IInv, TypeOK, Answers
<1>4. /\ rcvq'[r] = IF Open(r) THEN Append(rcvq[r], Nobody) ELSE rcvq[r]
      /\ \A s \in Requests \ {r} : rcvq'[s] = rcvq[s]
  BY <1>1, <1>3
<1>5. /\ rcvq[r] \in Seq(Answers) /\ Append(rcvq[r], Nobody) \in Seq(Answers)
      /\ Append(rcvq[r], Nobody) # <<>>
      /\ Len(Append(rcvq[r], Nobody)) = Len(rcvq[r]) + 1
      /\ \A i \in 1..Len(rcvq[r]) : Append(rcvq[r], Nobody)[i] = rcvq[r][i]
      /\ Append(rcvq[r], Nobody)[Len(rcvq[r]) + 1] = Nobody
  BY <1>3, AppendProperties
<1>6. rcvq' \in [Requests -> Seq(Answers)]
  BY <1>1, <1>3, <1>5
<1>7. TypeOK'
  BY <1>1, <1>6 DEF IInv, TypeOK
<1>8. Future'
  BY <1>1, <1>2, <1>4 DEF IInv, Future
<1>9. Adding' /\ Registered' /\ Calls' /\ PortsOwned'
  BY <1>1, <1>2 DEF IInv, Adding, Registered, Calls, PortsOwned
<1>10. Batch'
  <2>1. \A s \in Requests : rcvq[s] # <<>> => rcvq'[s] # <<>>
    BY <1>4, <1>5
  <2>2. interest \subseteq Requests
    BY DEF IInv, TypeOK
  <2> QED
    BY <1>1, <2>1, <2>2 DEF IInv, Batch
<1>11. OnePlace'
  BY <1>1, <1>2, <1>4 DEF IInv, OnePlace, TypeOK
<1>12. Own'
  <2> SUFFICES ASSUME copied = {}, NEW s \in Requests, NEW i \in 1..Len(rcvq'[s])
               PROVE  rcvq'[s][i] \in {s, Nobody}
    BY <1>1 DEF IInv, Own
  <2>1. \A j \in 1..Len(rcvq[s]) : rcvq[s][j] \in {s, Nobody}
    BY DEF IInv, Own
  <2>2. CASE rcvq'[s] = rcvq[s]
    BY <2>1, <2>2
  <2>3. CASE s = r /\ rcvq'[r] = Append(rcvq[r], Nobody)
    <3>1. Len(rcvq[r]) \in Nat
      BY <1>5, LenProperties
    <3>2. i \in 1..Len(rcvq[r]) \/ i = Len(rcvq[r]) + 1
      BY <1>5, <2>3, <3>1
    <3> QED
      BY <1>5, <2>1, <2>3, <3>2
  <2> QED
    BY <1>4, <2>2, <2>3
<1> QED
  BY <1>7, <1>8, <1>9, <1>10, <1>11, <1>12 DEF IInv

(* A datagram arrives at the open socket that has its port, if there is    *)
(* one; without duplicates that is the socket of its request.              *)
LEMMA DeliverIInv == ASSUME NEW a \in answers PROVE IInv /\ Deliver(a) => IInv'
<1> SUFFICES ASSUME IInv, Deliver(a) PROVE IInv'
  OBVIOUS
<1>1. /\ rcvq' = [r \in Requests |-> IF Open(r) /\ port[r] = a[2] THEN Append(rcvq[r], a[1]) ELSE rcvq[r]]
      /\ UNCHANGED <<committed, step, asked, sock, port, interest, events, cb, alive>>
  BY DEF Deliver
<1>2. answers' \subseteq answers /\ (copied' = {} => copied = {} /\ answers' = answers \ {a})
  BY DEF Deliver
<1>3. a[1] \in Requests /\ a[2] \in Ports
  BY DEF IInv, TypeOK
<1>4. copied' \subseteq Requests
  BY <1>3 DEF Deliver, IInv, TypeOK
<1>5. \A s : Open(s)' <=> Open(s)
  BY <1>1 DEF Open
<1>6. rcvq \in [Requests -> Seq(Answers)] /\ a[1] \in Answers
  BY <1>3 DEF IInv, TypeOK, Answers
<1>7. ASSUME NEW s \in Requests
      PROVE  /\ rcvq[s] \in Seq(Answers) /\ Append(rcvq[s], a[1]) \in Seq(Answers)
             /\ Append(rcvq[s], a[1]) # <<>>
             /\ Len(Append(rcvq[s], a[1])) = Len(rcvq[s]) + 1
             /\ \A i \in 1..Len(rcvq[s]) : Append(rcvq[s], a[1])[i] = rcvq[s][i]
             /\ Append(rcvq[s], a[1])[Len(rcvq[s]) + 1] = a[1]
  BY <1>6, AppendProperties
<1>8. rcvq' \in [Requests -> Seq(Answers)]
  BY <1>1, <1>7
<1>9. TypeOK'
  BY <1>1, <1>2, <1>4, <1>8 DEF IInv, TypeOK
<1>10. Future'
  BY <1>1, <1>2, <1>5 DEF IInv, Future
<1>11. Adding' /\ Registered' /\ Calls' /\ PortsOwned'
  BY <1>1, <1>2, <1>5 DEF IInv, Adding, Registered, Calls, PortsOwned
<1>12. Batch'
  <2>1. \A s \in Requests : rcvq[s] # <<>> => rcvq'[s] # <<>>
    BY <1>1, <1>7
  <2>2. interest \subseteq Requests
    BY DEF IInv, TypeOK
  <2> QED
    BY <1>1, <2>1, <2>2 DEF IInv, Batch
<1>13. ASSUME copied' = {}
       PROVE  /\ \A s \in Requests \ {a[1]} : rcvq'[s] = rcvq[s]
              /\ a[1] \notin asked
              /\ \A b \in answers' : b[1] # a[1]
  <2>1. Open(a[1]) /\ a[2] = port[a[1]]
    BY <1>2, <1>13 DEF IInv, OnePlace, PortsOwned
  <2>2. \A s \in Requests \ {a[1]} : rcvq'[s] = rcvq[s]
    BY <1>1, <1>3, <2>1 DEF IInv, PortsOwned
  <2>3. a[1] \notin asked
    BY <1>2, <1>13 DEF IInv, OnePlace
  <2>4. ASSUME NEW b \in answers', b[1] = a[1] PROVE FALSE
    <3>1. b \in answers /\ b # a
      BY <1>2, <1>13
    <3>2. b[2] = a[2]
      BY <2>1, <2>4, <3>1 DEF IInv, PortsOwned
    <3>3. a = <<a[1], a[2]>> /\ b = <<b[1], b[2]>>
      BY <3>1 DEF IInv, TypeOK
    <3> QED
      BY <2>4, <3>1, <3>2, <3>3
  <2> QED
    BY <2>2, <2>3, <2>4
<1>14. OnePlace'
  BY <1>1, <1>2, <1>5, <1>13 DEF IInv, OnePlace, TypeOK
<1>15. Own'
  <2> SUFFICES ASSUME copied' = {}, NEW s \in Requests, NEW i \in 1..Len(rcvq'[s])
               PROVE  rcvq'[s][i] \in {s, Nobody}
    BY <1>1, <1>2 DEF IInv, Own
  <2>1. \A j \in 1..Len(rcvq[s]) : rcvq[s][j] \in {s, Nobody}
    BY <1>2 DEF IInv, Own
  <2>2. CASE rcvq'[s] = rcvq[s]
    BY <2>1, <2>2
  <2>3. CASE s = a[1] /\ rcvq'[s] = Append(rcvq[s], a[1])
    <3>1. Len(rcvq[s]) \in Nat
      BY <1>7, LenProperties
    <3>2. i \in 1..Len(rcvq[s]) \/ i = Len(rcvq[s]) + 1
      BY <1>7, <2>3, <3>1
    <3> QED
      BY <1>7, <2>1, <2>3, <3>2
  <2> QED
    BY <1>1, <1>13, <2>2, <2>3
<1> QED
  BY <1>9, <1>10, <1>11, <1>12, <1>14, <1>15 DEF IInv

(* Every step of main, of the thread and of the network preserves the      *)
(* invariant.                                                              *)
LEMMA NextIInv == IInv /\ [Next]_vars => IInv'
<1>1. IInv /\ UNCHANGED vars => IInv'
  <2> SUFFICES ASSUME IInv, UNCHANGED vars PROVE IInv'
    OBVIOUS
  <2>1. \A r : Open(r)' <=> Open(r)
    BY DEF vars, Open
  <2> QED
    BY <2>1 DEF vars, network, IInv, TypeOK, Future, Adding, Registered, Batch, Calls,
                PortsOwned, OnePlace, Own
<1> QED
  BY <1>1, CommitIInv, MainIInv, EpollWaitIInv, ProcIInv, AnswerIInv, RefuseIInv, LoseIInv, DeliverIInv
     DEF Next, Main, Thread, Network

(* The invariant holds in every reachable state.                           *)
LEMMA Invariance == Spec => []IInv
  BY InitIInv, NextIInv, PTL DEF Spec

(* dns_async_client_proc calls a callback once at most and never uses a    *)
(* freed ep_arg: an event of its batch is of a request that is registered, *)
(* open and not yet called, whatever main and the network do meanwhile.    *)
THEOREM CalledOnceHolds == Spec => []CalledOnce
<1>1. IInv => CalledOnce
  BY DEF IInv, CalledOnce, Calls, Batch, Registered
<1> QED
  BY <1>1, Invariance, PTL

(* Although parsing compares no ids and ports are reused, a callback is    *)
(* given its own answer or none while the network duplicates nothing.      *)
THEOREM OwnAnswerHolds == Spec => []OwnAnswer
<1>1. IInv => OwnAnswer
  BY DEF IInv, OwnAnswer, Own
<1> QED
  BY <1>1, Invariance, PTL

(* The state keeps its type: what a callback is given is the answer to a   *)
(* committed domain, or the empty list of a failed recvfrom.               *)
THEOREM TypeCorrect == Spec => []TypeOK
<1>1. IInv => TypeOK
  BY DEF IInv
<1> QED
  BY <1>1, Invariance, PTL
=============================================================================
