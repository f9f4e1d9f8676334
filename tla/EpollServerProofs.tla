-------------------------- MODULE EpollServerProofs --------------------------
(***************************************************************************)
(* Proofs about server_mulport_epoll.c.  First its thread pool, for any    *)
(* number of workers and jobs.  Then the server on it, for any clients,    *)
(* descriptors, workers and buffer size: it uses the pool as the pool is   *)
(* meant to be used, no byte is ever in two places, and no edge is lost of *)
(* an accepted connection whose bytes fit the buffer.                      *)
(***************************************************************************)
EXTENDS EpollServer, SequenceTheorems, FiniteSetTheorems, WellFoundedInduction, TLAPS

(* A worker runs a job exactly while its job pointer is set.               *)
RunHasJob == \A w \in Workers : pc[w] = "run" <=> job[w] # None

PoolInv == TypeOK /\ RunHasJob /\ RunOnce /\ SomeoneAwake /\ OneExit

(* The head of a list without repetitions is not in its tail.              *)
LEMMA TakeHead ==
    ASSUME NEW q \in Seq(Jobs), q # <<>>, IsInjective(q)
    PROVE  /\ Head(q) \in Jobs /\ Tail(q) \in Seq(Jobs) /\ IsInjective(Tail(q))
           /\ Head(q) \in Range(q) /\ Head(q) \notin Range(Tail(q))
           /\ Range(Tail(q)) \subseteq Range(q)
<1>1. /\ Head(q) \in Jobs /\ Head(q) = q[1] /\ Tail(q) \in Seq(Jobs) /\ Len(q) \in Nat \ {0}
      /\ Len(Tail(q)) = Len(q) - 1 /\ DOMAIN q = 1..Len(q) /\ DOMAIN Tail(q) = 1..(Len(q) - 1)
      /\ \A i \in 1..(Len(q) - 1) : Tail(q)[i] = q[i + 1] /\ i + 1 \in 1..Len(q) /\ i + 1 # 1
  OBVIOUS
<1>2. IsInjective(Tail(q))
  <2> SUFFICES ASSUME NEW i \in 1..(Len(q) - 1), NEW j \in 1..(Len(q) - 1), Tail(q)[i] = Tail(q)[j]
               PROVE  i = j
    BY <1>1 DEF IsInjective
  <2>1. i + 1 = j + 1
    BY <1>1 DEF IsInjective
  <2> QED
    BY <1>1, <2>1
<1>3. Head(q) \in Range(q)
  BY <1>1 DEF Range
<1>4. Head(q) \notin Range(Tail(q)) /\ Range(Tail(q)) \subseteq Range(q)
  BY <1>1 DEF Range, IsInjective
<1> QED
  BY <1>1, <1>2, <1>3, <1>4

(* A job that is not on the list can be linked in front of it.             *)
LEMMA LinkHead ==
    ASSUME NEW q \in Seq(Jobs), IsInjective(q), NEW j \in Jobs, j \notin Range(q)
    PROVE  /\ <<j>> \o q \in Seq(Jobs) /\ IsInjective(<<j>> \o q)
           /\ Range(<<j>> \o q) = Range(q) \cup {j}
<1> DEFINE p == <<j>> \o q
<1>1. /\ p \in Seq(Jobs) /\ Len(q) \in Nat /\ DOMAIN q = 1..Len(q) /\ DOMAIN p = 1..(Len(q) + 1)
      /\ p[1] = j
      /\ \A i \in 1..Len(q) : p[i + 1] = q[i] /\ i + 1 \in 1..(Len(q) + 1)
      /\ \A i \in 1..(Len(q) + 1) : i # 1 => i - 1 \in 1..Len(q) /\ p[i] = q[i - 1]
  OBVIOUS
<1> HIDE DEF p
<1>2. \A i \in 1..Len(q) : q[i] # j
  BY <1>1 DEF Range
<1>3. IsInjective(p)
  <2> SUFFICES ASSUME NEW i \in 1..(Len(q) + 1), NEW k \in 1..(Len(q) + 1), p[i] = p[k]
               PROVE  i = k
    BY <1>1 DEF IsInjective
  <2>1. CASE i = 1 \/ k = 1
    BY <1>1, <1>2, <2>1
  <2>2. CASE i # 1 /\ k # 1
    <3>1. PICK a \in 1..Len(q), b \in 1..Len(q) : a = i - 1 /\ b = k - 1 /\ q[a] = q[b]
      BY <1>1, <2>2
    <3>2. a = b
      BY <1>1, <3>1 DEF IsInjective
    <3> QED
      BY <1>1, <3>1, <3>2
  <2> QED
    BY <2>1, <2>2
<1>4. Range(p) \subseteq Range(q) \cup {j}
  <2> SUFFICES ASSUME NEW i \in 1..(Len(q) + 1), i # 1 PROVE p[i] \in Range(q)
    BY <1>1 DEF Range
  <2>1. i - 1 \in DOMAIN q /\ p[i] = q[i - 1]
    BY <1>1
  <2> QED
    BY <2>1 DEF Range
<1>5. Range(q) \cup {j} \subseteq Range(p)
  <2>1. j \in Range(p)
    BY <1>1 DEF Range
  <2>2. ASSUME NEW x \in Range(q) PROVE x \in Range(p)
    <3>1. PICK i \in 1..Len(q) : q[i] = x
      BY <1>1, <2>2 DEF Range
    <3> QED
      BY <1>1, <3>1 DEF Range
  <2> QED
    BY <2>1, <2>2
<1> QED
  BY <1>1, <1>3, <1>4, <1>5 DEF p

(* The pool starts with an empty list and every worker at its loop.        *)
LEMMA InitPoolInv == Init => PoolInv
<1> SUFFICES ASSUME Init PROVE PoolInv
  OBVIOUS
<1>1. waiting_jobs \in Seq(Jobs) /\ IsInjective(waiting_jobs)
  BY DEF Init, IsInjective
<1> QED
  BY <1>1 DEF Init, PoolInv, TypeOK, RunHasJob, RunOnce, SomeoneAwake, OneExit

(* Every step of the workers and of the adding thread keeps the invariant. *)
LEMMA NextPoolInv == PoolInv /\ [Next]_vars => PoolInv'
<1> SUFFICES ASSUME PoolInv, [Next]_vars PROVE PoolInv'
  OBVIOUS
<1> USE WorkersAssumption, JobsAssumption
<1>t. /\ waiting_jobs \in Seq(Jobs) /\ job \in [Workers -> Jobs \cup {None}]
      /\ pc \in [Workers -> {"loop", "run", "exited"}] /\ sleeping \subseteq Workers
      /\ IsInjective(waiting_jobs)
  BY DEF PoolInv, TypeOK, RunOnce
<1>1. ASSUME NEW j \in Jobs, AddJob(j) PROVE PoolInv'
  <2>1. /\ waiting_jobs' = <<j>> \o waiting_jobs /\ sleeping' \subseteq sleeping
        /\ mutex' = mutex /\ terminate' = terminate /\ pc' = pc /\ job' = job /\ phase' = phase
        /\ j \notin Range(waiting_jobs) /\ j \notin Range(job)
    BY <1>1 DEF AddJob, Signal, Live
  <2>2. /\ waiting_jobs' \in Seq(Jobs) /\ IsInjective(waiting_jobs')
        /\ Range(waiting_jobs') = Range(waiting_jobs) \cup {j}
    BY <1>t, <2>1, LinkHead
  <2>3. \A w \in Workers : job[w] # j
    BY <1>t, <2>1 DEF Range
  <2>4. sleeping' # Workers
    BY <1>1, <1>t DEF AddJob, Signal
  <2>5. TypeOK'
    BY <2>1, <2>2 DEF PoolInv, TypeOK
  <2>6. RunOnce'
    BY <2>1, <2>2, <2>3 DEF PoolInv, RunOnce
  <2> QED
    BY <2>1, <2>4, <2>5, <2>6 DEF PoolInv, RunHasJob, SomeoneAwake, OneExit
<1>2. ASSUME NEW w \in Workers, Take(w) PROVE PoolInv'
  <2> DEFINE h == Head(waiting_jobs)
  <2>1. /\ pc[w] = "loop" /\ w \notin sleeping /\ waiting_jobs # <<>>
        /\ job' = [job EXCEPT ![w] = h] /\ waiting_jobs' = Tail(waiting_jobs)
        /\ pc' = [pc EXCEPT ![w] = "run"]
        /\ mutex' = mutex /\ sleeping' = sleeping /\ terminate' = terminate /\ phase' = phase
    BY <1>2 DEF Take, CanLock
  <2>2. /\ h \in Jobs /\ waiting_jobs' \in Seq(Jobs) /\ IsInjective(waiting_jobs')
        /\ h \in Range(waiting_jobs) /\ h \notin Range(waiting_jobs')
        /\ Range(waiting_jobs') \subseteq Range(waiting_jobs)
    BY <1>t, <2>1, TakeHead
  <2>3. TypeOK'
    BY <1>t, <2>1, <2>2 DEF PoolInv, TypeOK
  <2>4. RunHasJob'
    BY <1>t, <2>1, <2>2 DEF PoolInv, RunHasJob
  <2>5. RunOnce'
    <3>1. \A v \in Workers : job[v] # None => job[v] # h
      BY <2>2 DEF PoolInv, RunOnce
    <3> QED
      BY <1>t, <2>1, <2>2, <3>1 DEF PoolInv, RunOnce
  <2>6. SomeoneAwake'
    BY <2>1 DEF SomeoneAwake
  <2>7. OneExit'
    BY <1>t, <2>1 DEF PoolInv, OneExit
  <2> QED
    BY <2>3, <2>4, <2>5, <2>6, <2>7 DEF PoolInv
<1>3. ASSUME NEW w \in Workers, Wait(w) PROVE PoolInv'
  BY <1>3, <1>t DEF Wait, CanLock, PoolInv, TypeOK, RunHasJob, RunOnce, SomeoneAwake, OneExit
<1>4. ASSUME NEW w \in Workers, Exit(w) PROVE PoolInv'
  <2>1. /\ pc[w] = "loop" /\ w \notin sleeping /\ mutex = None /\ w \in terminate
        /\ pc' = [pc EXCEPT ![w] = "exited"] /\ mutex' = w
        /\ UNCHANGED <<waiting_jobs, sleeping, terminate, job, phase>>
    BY <1>4 DEF Exit, CanLock
  <2>2. TypeOK' /\ RunHasJob' /\ RunOnce' /\ SomeoneAwake'
    BY <1>t, <2>1 DEF PoolInv, TypeOK, RunHasJob, RunOnce, SomeoneAwake
  <2>3. \A v \in Workers : pc[v] # "exited"
    BY <2>1 DEF PoolInv, OneExit
  <2>4. OneExit'
    BY <1>t, <2>1, <2>3 DEF OneExit
  <2> QED
    BY <2>2, <2>4 DEF PoolInv
<1>5. ASSUME NEW w \in Workers, Finish(w) PROVE PoolInv'
  <2>1. /\ pc[w] = "run" /\ pc' = [pc EXCEPT ![w] = "loop"] /\ job' = [job EXCEPT ![w] = None]
        /\ UNCHANGED <<waiting_jobs, mutex, sleeping, terminate, phase>>
    BY <1>5 DEF Finish
  <2>2. TypeOK' /\ RunHasJob' /\ SomeoneAwake' /\ OneExit'
    BY <1>t, <2>1 DEF PoolInv, TypeOK, RunHasJob, SomeoneAwake, OneExit
  <2>3. RunOnce'
    BY <1>t, <2>1 DEF PoolInv, RunOnce
  <2> QED
    BY <2>2, <2>3 DEF PoolInv
<1>6. ASSUME NEW w \in Workers, SpuriousWakeup(w) PROVE PoolInv'
  BY <1>6, <1>t DEF SpuriousWakeup, PoolInv, TypeOK, RunHasJob, RunOnce, SomeoneAwake, OneExit
<1>7. CASE Flag
  <2>1. /\ terminate' \subseteq Workers /\ phase' \in {"drop", "flag"}
        /\ UNCHANGED <<waiting_jobs, mutex, sleeping, pc, job>>
    BY <1>7 DEF Flag, PoolInv, TypeOK
  <2> QED
    BY <2>1 DEF PoolInv, TypeOK, RunHasJob, RunOnce, SomeoneAwake, OneExit
<1>8. CASE Drop
  <2>1. <<>> \in Seq(Jobs) /\ IsInjective(<<>>) /\ Range(<<>>) = {}
    BY DEF IsInjective, Range
  <2> QED
    BY <1>8, <1>t, <2>1 DEF Drop, PoolInv, TypeOK, RunHasJob, RunOnce, SomeoneAwake, OneExit
<1>9. CASE UNCHANGED vars
  BY <1>9 DEF vars, PoolInv, TypeOK, RunHasJob, RunOnce, SomeoneAwake, OneExit
<1> QED
  BY <1>1, <1>2, <1>3, <1>4, <1>5, <1>6, <1>7, <1>8, <1>9 DEF Next, WorkerStep

(* The invariant holds in every reachable state.                           *)
LEMMA PoolInvariance == Spec => []PoolInv
  BY InitPoolInv, NextPoolInv, PTL DEF Spec

(* The pool's state keeps its type; only workers in their loop sleep.      *)
THEOREM PoolTypeCorrect == Spec => []TypeOK
  BY PoolInvariance, PTL DEF PoolInv

(* No job is ever run twice or by two workers.                             *)
THEOREM JobsRunOnce == Spec => []RunOnce
  BY PoolInvariance, PTL DEF PoolInv

(* One pthread_cond_signal per job never leaves all workers asleep.        *)
THEOREM SignalsSuffice == Spec => []SomeoneAwake
  BY PoolInvariance, PTL DEF PoolInv

(* A shutdown ends one worker at most, whatever their number.              *)
THEOREM ShutdownEndsOne == Spec => []OneExit
  BY PoolInvariance, PTL DEF PoolInv
-----------------------------------------------------------------------------
Spots == {"idle", "inc", "recv", "poll", "send", "dec", "close"}
Byte == Clients \X Nat

(* Where the threads are: a worker is inside client_job while the pool     *)
(* says that it runs a job, whose descriptor it has; main has one while it *)
(* registers or serves; and nobody reads into a full buffer.               *)
Control ==
    /\ waiting_jobs \in Seq(FdJobs) /\ job \in [Workers -> FdJobs \cup {None}]
    /\ at \in [ServerThreads -> Spots] /\ buf \in [ServerThreads -> Seq(Byte)]
    /\ conn \in [Fds -> Clients \cup {NoClient}] /\ backlog \in Seq(Clients)
    /\ \A w \in Workers : at[w] # "inc" /\ (at[w] # "idle" <=> pc[w] = "run")
    /\ at[MainThread] # "idle" => serving \in Fds
    /\ \A t \in ServerThreads :
         /\ at[t] \in {"idle", "inc"} => buf[t] = <<>>
         /\ at[t] \in {"recv", "poll"} => Len(buf[t]) < MAX_BUFFER

(* How many bytes of client c have been read. *)
Taken(c) == sent[c] - Len(inq[c])

(* What is unread is the end of what a client has sent, in order. *)
Streams ==
    /\ sent \in [Clients -> Nat] /\ inq \in [Clients -> Seq(Byte)]
    /\ out \in [Clients -> Seq(Byte \cup {Junk})]
    /\ \A c \in Clients :
         /\ Len(inq[c]) <= sent[c]
         /\ \A i \in 1..Len(inq[c]) : inq[c][i] = <<c, Taken(c) + i>>

(* What a buffer holds, and what was sent back, was read before. *)
ReadBefore ==
    /\ \A t \in ServerThreads : \A i \in 1..Len(buf[t]) :
         buf[t][i][2] \in 1..Taken(buf[t][i][1])
    /\ \A c \in Clients : \A i \in 1..Len(out[c]) :
         out[c][i] # Junk => out[c][i][2] \in 1..Taken(out[c][i][1])

(* A byte that was read is at one position of one buffer or reply.         *)
BufsApart ==
    \A t, u \in ServerThreads : \A i \in 1..Len(buf[t]), j \in 1..Len(buf[u]) :
        buf[t][i] = buf[u][j] => t = u /\ i = j
OutsApart ==
    \A c, d \in Clients : \A i \in 1..Len(out[c]), j \in 1..Len(out[d]) :
        out[c][i] = out[d][j] /\ out[c][i] # Junk => c = d /\ i = j
BufsNotOut ==
    \A t \in ServerThreads, c \in Clients : \A i \in 1..Len(buf[t]), j \in 1..Len(out[c]) :
        buf[t][i] # out[c][j]
Distinct == BufsApart /\ OutsApart /\ BufsNotOut

(* A buffer with the bytes of one client only has no more than were read.  *)
OnlyOf(t, c) == \A i \in 1..Len(buf[t]) : buf[t][i][1] = c
Counted == \A t \in ServerThreads, c \in Clients : OnlyOf(t, c) => Len(buf[t]) <= Taken(c)

(* NoLostEdge in an inductive form.  A thread that will read again counts  *)
(* only if its buffer holds nothing of an earlier connection: then it      *)
(* cannot fill up before the socket is empty.  One that is about to poll   *)
(* does not count: it found the socket empty, and what came since is an    *)
(* edge of its own.                                                        *)
Noted(fd) ==
    \/ fd \in ready \cup events
    \/ \E j \in Range(waiting_jobs) : j[1] = fd
    \/ \E t \in ServerThreads : at[t] \in {"inc", "recv"} /\ Fd(t) = fd /\ OnlyOf(t, conn[fd])
EdgesNoted ==
    running => \A fd \in Fds :
        (conn[fd] # NoClient /\ inq[conn[fd]] # <<>> /\ sent[conn[fd]] <= MAX_BUFFER) => Noted(fd)

BytesInv == Streams /\ ReadBefore /\ Distinct /\ Counted

ServerInv == PoolInv /\ Control /\ BytesInv /\ EdgesNoted

(* What a step of client_job by thread t comes down to.                    *)
Moves(t, place, b) ==
    /\ at' = [at EXCEPT ![t] = place] /\ buf' = [buf EXCEPT ![t] = b]
    /\ IF place # "idle" THEN UNCHANGED <<vars, serving>>
       ELSE IF t = MainThread THEN serving' = None /\ UNCHANGED vars
       ELSE Finish(t) /\ UNCHANGED serving

LEMMA ContinueMoves ==
  ASSUME NEW t, NEW place, NEW b, Continue(t, place, b), place # "idle"
  PROVE  Moves(t, place, b)
BY DEF Continue, Goto, Moves

LEMMA EndMoves == ASSUME NEW t, End(t) PROVE Moves(t, "idle", <<>>)
BY DEF End, Goto, Moves

LEMMA AfterRecvMoves ==
  ASSUME NEW t, NEW b, NEW notconn, AfterRecv(t, b, notconn)
  PROVE  Moves(t, "send", b) \/ Moves(t, "dec", b) \/ Moves(t, "idle", <<>>)
<1>1. CASE Continue(t, "send", b)
  BY <1>1, ContinueMoves
<1>2. CASE Continue(t, "dec", b)
  BY <1>2, ContinueMoves
<1>3. CASE End(t)
  BY <1>3, EndMoves
<1> QED
  BY <1>1, <1>2, <1>3 DEF AfterRecv

(* For the pool, that is nothing or the end of the job.                    *)
LEMMA MovesPool ==
  ASSUME NEW t \in ServerThreads, NEW place, NEW b, Moves(t, place, b)
  PROVE  UNCHANGED vars \/ \E w \in Workers : Finish(w)
BY DEF Moves, ServerThreads

LEMMA JobStepPool ==
  ASSUME NEW t \in ServerThreads, JobStep(t)
  PROVE  UNCHANGED vars \/ \E w \in Workers : Finish(w)
<1>1. \E place, b : Moves(t, place, b)
  <2>1. CASE RecvBytes(t)
    <3>1. PICK b : Continue(t, "recv", b) \/ AfterRecv(t, b, FALSE)
      BY <2>1 DEF RecvBytes
    <3> QED
      BY <3>1, ContinueMoves, AfterRecvMoves
  <2>2. CASE RecvZero(t)
    BY <2>2, AfterRecvMoves DEF RecvZero
  <2>3. CASE RecvFails(t)
    BY <2>3, ContinueMoves DEF RecvFails
  <2>4. CASE Poll(t)
    <3>1. Continue(t, "recv", buf[t]) \/ AfterRecv(t, buf[t], TRUE) \/ AfterRecv(t, buf[t], FALSE)
      BY <2>4 DEF Poll
    <3> QED
      BY <3>1, ContinueMoves, AfterRecvMoves
  <2>5. CASE SendEcho(t)
    BY <2>5, EndMoves DEF SendEcho
  <2>6. CASE ReadCurfds(t)
    BY <2>6, ContinueMoves DEF ReadCurfds
  <2>7. CASE CloseClient(t)
    BY <2>7, EndMoves DEF CloseClient
  <2> QED
    BY <2>1, <2>2, <2>3, <2>4, <2>5, <2>6, <2>7 DEF JobStep
<1> QED
  BY <1>1, MovesPool

(* main and the workers of the server take only steps of the pool.         *)
LEMMA ServerStepPool == [ServerNext]_allvars => [Next]_vars
<1> SUFFICES ASSUME [ServerNext]_allvars PROVE [Next]_vars
  OBVIOUS
<1>1. CASE UNCHANGED allvars
  BY <1>1 DEF allvars
<1>2. ASSUME NEW t \in ServerThreads, JobStep(t) PROVE [Next]_vars
  BY <1>2, JobStepPool DEF Next, WorkerStep
<1>3. ASSUME NEW fd \in Fds, AddClientJob(fd) PROVE [Next]_vars
  <2>1. PICK k \in 1..JobsPerFd : AddJob(<<fd, k>>)
    BY <1>3 DEF AddClientJob
  <2>2. <<fd, k>> \in Jobs
    BY FdJobsAssumption DEF FdJobs
  <2> QED
    BY <2>1, <2>2 DEF Next
<1>4. ASSUME NEW w \in Workers, TakeJob(w) \/ WorkerWait(w) PROVE [Next]_vars
  BY <1>4 DEF TakeJob, WorkerWait, Next, WorkerStep
<1>5. CASE \/ EpollWait \/ EpollFails \/ AcceptClient \/ AcceptFails \/ Register
           \/ \E fd \in Fds : ServeInline(fd)
  BY <1>5 DEF EpollWait, EpollFails, AcceptClient, AcceptFails, Register, ServeInline
<1>6. ASSUME NEW c \in Clients, Client(c) PROVE [Next]_vars
  BY <1>6 DEF Client
<1> QED
  BY <1>1, <1>2, <1>3, <1>4, <1>5, <1>6 DEF ServerNext, MainStep, PoolStep, ServerThreads

(* The server implements the specification of the pool: whatever its       *)
(* clients do, workqueue_add_job is given a job that is not live, and a    *)
(* job that client_job has freed is not touched again.                     *)
THEOREM ServerUsesPool == ServerSpec => Spec
<1>1. ServerInit => Init
  BY DEF ServerInit
<1> QED
  BY <1>1, ServerStepPool, PTL DEF ServerSpec, Spec

(* So no job of the server is run twice, and its workers are never all     *)
(* asleep with a job waiting.                                              *)
THEOREM ServerJobsRunOnce == ServerSpec => [](RunOnce /\ SomeoneAwake)
  BY ServerUsesPool, JobsRunOnce, SignalsSuffice, PTL
-----------------------------------------------------------------------------
(* accept returns the lowest free descriptor when there is one.            *)
LEMMA LowestFd == FreeFds # {} => ClientFd \in FreeFds
<1> SUFFICES ASSUME FreeFds # {} PROVE ClientFd \in FreeFds
  OBVIOUS
<1>1. FreeFds \subseteq Nat
  BY FdsAssumption DEF FreeFds
<1>2. PICK f \in FreeFds : \A g \in FreeFds : ~(<<g, f>> \in OpToRel(<, Nat))
  BY <1>1, NatLessThanWellFounded, WFMin
<1>3. ASSUME NEW x \in Nat, NEW y \in Nat, x < y PROVE <<x, y>> \in OpToRel(<, Nat)
  BY <1>3 DEF OpToRel
<1>4. \A g \in FreeFds : ~(g < f)
  BY <1>1, <1>2, <1>3, Zenon
<1>5. \A g \in FreeFds : f <= g
  BY <1>1, <1>4
<1> QED
  BY <1>5 DEF ClientFd

(* A thread inside a job has a descriptor.                                 *)
LEMMA FdType ==
  ASSUME PoolInv, Control, NEW t \in ServerThreads, at[t] # "idle"
  PROVE  Fd(t) \in Fds
<1>1. CASE t = MainThread
  BY <1>1 DEF Control, Fd
<1>2. CASE t # MainThread
  <2>1. t \in Workers /\ job[t] # None
    BY <1>2 DEF Control, ServerThreads, PoolInv, RunHasJob
  <2>2. job[t] \in Fds \X (1..JobsPerFd)
    BY <2>1 DEF Control, FdJobs
  <2> QED
    BY <1>2, <2>2 DEF Fd
<1> QED
  BY <1>1, <1>2

(* A step of client_job keeps Control.                                     *)
LEMMA MovesControl ==
  ASSUME PoolInv, Control, NEW t \in ServerThreads, at[t] \notin {"idle", "inc"},
         NEW place \in Spots \ {"inc"}, NEW b \in Seq(Byte), Moves(t, place, b),
         place = "idle" => b = <<>>, place \in {"recv", "poll"} => Len(b) < MAX_BUFFER,
         conn' \in [Fds -> Clients \cup {NoClient}], backlog' = backlog
  PROVE  Control'
<1>1. at \in [ServerThreads -> Spots] /\ buf \in [ServerThreads -> Seq(Byte)]
  BY DEF Control
<1>2. at' \in [ServerThreads -> Spots] /\ buf' \in [ServerThreads -> Seq(Byte)]
  BY <1>1 DEF Moves
<1>3. /\ at'[t] = place /\ buf'[t] = b
      /\ \A u \in ServerThreads \ {t} : at'[u] = at[u] /\ buf'[u] = buf[u]
  BY <1>1 DEF Moves
<1>4. \A u \in ServerThreads :
         /\ at'[u] \in {"idle", "inc"} => buf'[u] = <<>>
         /\ at'[u] \in {"recv", "poll"} => Len(buf'[u]) < MAX_BUFFER
  BY <1>3 DEF Control
<1>5. pc \in [Workers -> {"loop", "run", "exited"}]
  BY DEF PoolInv, TypeOK
<1>6. MainThread \in ServerThreads /\ Workers \subseteq ServerThreads /\ MainThread \notin Workers
  BY MainAssumption DEF ServerThreads
<1>7. CASE place # "idle"
  <2>1. UNCHANGED <<waiting_jobs, job, pc, serving>>
    BY <1>7 DEF Moves, vars
  <2>2. at'[MainThread] # "idle" => serving \in Fds
    BY <1>3, <1>6 DEF Control
  <2>3. \A w \in Workers : at'[w] # "inc" /\ (at'[w] # "idle" <=> pc[w] = "run")
    BY <1>3, <1>6, <1>7 DEF Control
  <2> QED
    BY <1>2, <1>4, <2>1, <2>2, <2>3 DEF Control
<1>8. CASE place = "idle" /\ t = MainThread
  <2>1. UNCHANGED <<waiting_jobs, job, pc>>
    BY <1>8 DEF Moves, vars
  <2> QED
    BY <1>2, <1>3, <1>4, <1>6, <1>8, <2>1 DEF Control
<1>9. CASE place = "idle" /\ t # MainThread
  <2>1. /\ t \in Workers /\ pc' = [pc EXCEPT ![t] = "loop"] /\ job' = [job EXCEPT ![t] = None]
        /\ UNCHANGED <<waiting_jobs, serving>>
    BY <1>9 DEF Moves, Finish, ServerThreads
  <2>2. job' \in [Workers -> FdJobs \cup {None}]
    BY <2>1 DEF Control
  <2>3. \A w \in Workers : at'[w] # "inc" /\ (at'[w] # "idle" <=> pc'[w] = "run")
    BY <1>3, <1>5, <1>6, <1>9, <2>1 DEF Control
  <2>4. at'[MainThread] # "idle" => serving' \in Fds
    BY <1>3, <1>6, <1>9, <2>1 DEF Control
  <2> QED
    BY <1>2, <1>4, <2>1, <2>2, <2>3, <2>4 DEF Control
<1> QED
  BY <1>7, <1>8, <1>9

(* What RecvBytes does, for the client behind t's descriptor.              *)
ReadsBytes(t, c, n, b) ==
    /\ at[t] = "recv" /\ Fd(t) \in Fds /\ conn[Fd(t)] = c /\ n \in 1..Len(inq[c])
    /\ b \in Seq(Byte) /\ Len(b) = Len(buf[t]) + n /\ Len(b) <= MAX_BUFFER
    /\ \A i \in 1..Len(buf[t]) : b[i] = buf[t][i]
    /\ \A i \in 1..n : b[Len(buf[t]) + i] = <<c, Taken(c) + i>>
    /\ inq' \in [Clients -> Seq(Byte)] /\ Len(inq'[c]) = Len(inq[c]) - n
    /\ \A i \in 1..Len(inq'[c]) : inq'[c][i] = inq[c][n + i]
    /\ \A d \in Clients \ {c} : inq'[d] = inq[d]
    /\ IF Len(b) < MAX_BUFFER THEN Moves(t, "recv", b)
       ELSE Moves(t, "send", b) \/ Moves(t, "dec", b) \/ Moves(t, "idle", <<>>)
    /\ UNCHANGED <<peer, sent, sk_err, out, backlog, conn, ready, local>>

LEMMA RecvBytesReads ==
  ASSUME PoolInv, Control, Streams, NEW t \in ServerThreads, RecvBytes(t)
  PROVE  \E c \in Clients, n \in Nat, b \in Seq(Byte) : ReadsBytes(t, c, n, b)
<1>1. at[t] = "recv" /\ Fd(t) \in Fds
  BY FdType DEF RecvBytes
<1>2. PICK c \in Clients : c = conn[Fd(t)] /\ inq[c] # <<>>
  BY <1>1 DEF RecvBytes, Peer, Control
<1> DEFINE room == MAX_BUFFER - Len(buf[t])
           n == RecvCount(c, room)
           got == Received(c, n)
           b == buf[t] \o got
<1>3. /\ Consume(c, n)
      /\ IF Len(b) < MAX_BUFFER THEN Continue(t, "recv", b) ELSE AfterRecv(t, b, FALSE)
      /\ UNCHANGED <<peer, sent, sk_err, out, backlog, conn, ready, local>>
  BY <1>2 DEF RecvBytes, Peer
<1>4. buf[t] \in Seq(Byte) /\ Len(buf[t]) \in Nat /\ room \in Nat \ {0}
  BY <1>1, MaxBufferAssumption DEF Control
<1>5. inq[c] \in Seq(Byte) /\ Len(inq[c]) \in Nat \ {0}
  BY <1>2, EmptySeq DEF Streams
<1>6. n \in 1..Len(inq[c]) /\ n <= room
  BY <1>4, <1>5 DEF RecvCount
<1> HIDE DEF n
<1>7. got \in Seq(Byte) /\ Len(got) = n /\ \A i \in 1..n : got[i] = inq[c][i]
  BY <1>5, <1>6, SubSeqProperties DEF Received
<1>8. \A i \in 1..n : got[i] = <<c, Taken(c) + i>>
  <2>1. \A i \in 1..Len(inq[c]) : inq[c][i] = <<c, Taken(c) + i>>
    BY DEF Streams
  <2>2. \A i \in 1..n : i \in 1..Len(inq[c])
    BY <1>5, <1>6
  <2> HIDE DEF got
  <2> QED
    BY <1>7, <2>1, <2>2
<1> HIDE DEF got
<1>9. /\ b \in Seq(Byte) /\ Len(b) = Len(buf[t]) + n
      /\ \A i \in 1..Len(buf[t]) : b[i] = buf[t][i]
      /\ \A i \in 1..n : b[Len(buf[t]) + i] = got[i]
  <2>1. /\ b \in Seq(Byte) /\ Len(b) = Len(buf[t]) + n
        /\ \A i \in 1..Len(buf[t]) + n : b[i] = IF i <= Len(buf[t]) THEN buf[t][i] ELSE got[i - Len(buf[t])]
    <3>1. PICK x \in Seq(Byte), y \in Seq(Byte) : x = buf[t] /\ y = got
      BY <1>4, <1>7
    <3>2. /\ x \o y \in Seq(Byte) /\ Len(x \o y) = Len(x) + Len(y)
          /\ \A i \in 1..Len(x) + Len(y) : (x \o y)[i] = IF i <= Len(x) THEN x[i] ELSE y[i - Len(x)]
      BY ConcatProperties
    <3> QED
      BY <1>7, <3>1, <3>2
  <2>2. \A i \in 1..Len(buf[t]) : b[i] = buf[t][i]
    BY <1>4, <1>6, <2>1
  <2>3. ASSUME NEW i \in 1..n PROVE b[Len(buf[t]) + i] = got[i]
    <3>1. Len(buf[t]) + i \in 1..Len(buf[t]) + n /\ ~(Len(buf[t]) + i <= Len(buf[t]))
      BY <1>4, <1>6
    <3>2. Len(buf[t]) + i - Len(buf[t]) = i
      BY <1>4, <1>6
    <3> QED
      BY <2>1, <3>1, <3>2
  <2> QED
    BY <2>1, <2>2, <2>3
<1> DEFINE rest == SubSeq(inq[c], n + 1, Len(inq[c]))
<1>10. rest \in Seq(Byte) /\ Len(rest) = Len(inq[c]) - n /\ \A i \in 1..Len(rest) : rest[i] = inq[c][n + i]
  <2>1. /\ rest \in Seq(Byte)
        /\ Len(rest) = IF n + 1 <= Len(inq[c]) THEN Len(inq[c]) - (n + 1) + 1 ELSE 0
        /\ \A i \in 1..Len(inq[c]) - (n + 1) + 1 : rest[i] = inq[c][n + 1 + i - 1]
    BY <1>5, <1>6, SubSeqProperties
  <2>2. Len(rest) = Len(inq[c]) - n
    BY <1>5, <1>6, <2>1
  <2>3. ASSUME NEW i \in 1..Len(rest) PROVE rest[i] = inq[c][n + i]
    <3>1. i \in 1..Len(inq[c]) - (n + 1) + 1 /\ n + 1 + i - 1 = n + i
      BY <1>5, <1>6, <2>2
    <3> QED
      BY <2>1, <3>1
  <2> QED
    BY <2>1, <2>2, <2>3
<1>11. /\ inq' = [inq EXCEPT ![c] = rest] /\ inq \in [Clients -> Seq(Byte)]
  BY <1>3 DEF Consume, Streams
<1> HIDE DEF rest, b
<1>12. /\ inq' \in [Clients -> Seq(Byte)] /\ inq'[c] = rest
       /\ \A d \in Clients \ {c} : inq'[d] = inq[d]
  BY <1>10, <1>11
<1>13. IF Len(b) < MAX_BUFFER THEN Moves(t, "recv", b)
       ELSE Moves(t, "send", b) \/ Moves(t, "dec", b) \/ Moves(t, "idle", <<>>)
  BY <1>3, ContinueMoves, AfterRecvMoves DEF b
<1>14. Len(b) <= MAX_BUFFER
  BY <1>4, <1>6, <1>9, MaxBufferAssumption
<1>15. ReadsBytes(t, c, n, b)
  BY <1>1, <1>2, <1>3, <1>6, <1>8, <1>9, <1>10, <1>12, <1>13, <1>14 DEF ReadsBytes
<1>16. n \in Nat /\ b \in Seq(Byte)
  BY <1>6, <1>9
<1> QED
  BY <1>15, <1>16

(* The types of the threads' steps but RecvBytes and SendEcho.             *)
LEMMA JobStepControl ==
  ASSUME PoolInv, Control, Streams, NEW t \in ServerThreads, JobStep(t)
  PROVE  Control'
<1>1. /\ buf[t] \in Seq(Byte) /\ <<>> \in Seq(Byte)
      /\ conn \in [Fds -> Clients \cup {NoClient}]
      /\ at[t] \in {"recv", "poll"} => Len(buf[t]) < MAX_BUFFER
  BY DEF Control
<1>2. at[t] \notin {"idle", "inc"}
  BY DEF JobStep, RecvBytes, RecvZero, RecvFails, Poll, SendEcho, ReadCurfds, CloseClient
<1>3. {"recv", "poll", "send", "dec", "close", "idle"} \subseteq Spots \ {"inc"}
  BY DEF Spots
<1>4. CASE RecvBytes(t)
  <2>1. PICK c \in Clients, n \in Nat, b \in Seq(Byte) : ReadsBytes(t, c, n, b)
    BY <1>4, RecvBytesReads
  <2>2. UNCHANGED <<conn, backlog>>
    BY <2>1 DEF ReadsBytes
  <2>3. CASE Len(b) < MAX_BUFFER
    <3>1. Moves(t, "recv", b)
      BY <2>1, <2>3 DEF ReadsBytes
    <3> QED
      BY <1>1, <1>2, <1>3, <2>2, <2>3, <3>1, MovesControl
  <2>4. CASE ~(Len(b) < MAX_BUFFER)
    <3>1. Moves(t, "send", b) \/ Moves(t, "dec", b) \/ Moves(t, "idle", <<>>)
      BY <2>1, <2>4 DEF ReadsBytes
    <3> QED
      BY <1>1, <1>2, <1>3, <2>2, <3>1, MovesControl
  <2> QED
    BY <2>3, <2>4
<1>5. CASE RecvZero(t) \/ Poll(t) \/ RecvFails(t)
  <2>1. /\ UNCHANGED <<conn, backlog>> /\ at[t] \in {"recv", "poll"}
        /\ \/ Continue(t, "recv", buf[t]) \/ Continue(t, "poll", buf[t])
           \/ AfterRecv(t, buf[t], TRUE) \/ AfterRecv(t, buf[t], FALSE)
    BY <1>5 DEF RecvZero, Poll, RecvFails, sockets
  <2>2. \/ Moves(t, "recv", buf[t]) \/ Moves(t, "poll", buf[t])
        \/ Moves(t, "send", buf[t]) \/ Moves(t, "dec", buf[t]) \/ Moves(t, "idle", <<>>)
    BY <2>1, ContinueMoves, AfterRecvMoves
  <2> QED
    BY <1>1, <1>2, <1>3, <2>1, <2>2, MovesControl
<1>6. CASE SendEcho(t)
  <2>1. UNCHANGED <<conn, backlog>> /\ Moves(t, "idle", <<>>)
    BY <1>6, EndMoves DEF SendEcho
  <2> QED
    BY <1>1, <1>2, <1>3, <2>1, MovesControl
<1>7. CASE ReadCurfds(t)
  <2>1. UNCHANGED <<conn, backlog>> /\ Moves(t, "close", buf[t])
    BY <1>7, ContinueMoves DEF ReadCurfds, sockets
  <2> QED
    BY <1>1, <1>2, <1>3, <2>1, MovesControl
<1>8. CASE CloseClient(t)
  <2>1. UNCHANGED backlog /\ Moves(t, "idle", <<>>) /\ conn' = [conn EXCEPT ![Fd(t)] = NoClient]
    BY <1>8, EndMoves DEF CloseClient
  <2>2. conn' \in [Fds -> Clients \cup {NoClient}]
    BY <1>1, <2>1
  <2> QED
    BY <1>1, <1>2, <1>3, <2>1, <2>2, MovesControl
<1> QED
  BY <1>4, <1>5, <1>6, <1>7, <1>8 DEF JobStep

(* main's own steps, the workers' and the clients'.                        *)
LEMMA ServerControl ==
  ASSUME PoolInv, Control, Streams, [ServerNext]_allvars
  PROVE  Control'
<1> USE MainAssumption
<1>1. MainThread \in ServerThreads /\ Workers \subseteq ServerThreads
  BY DEF ServerThreads
<1>2. CASE UNCHANGED allvars
  BY <1>2 DEF allvars, vars, sockets, server, Control
<1>3. ASSUME NEW t \in ServerThreads, JobStep(t) PROVE Control'
  BY <1>3, JobStepControl
<1>4. ASSUME NEW fd \in Fds, AddClientJob(fd) PROVE Control'
  <2>1. PICK k \in 1..JobsPerFd : AddJob(<<fd, k>>)
    BY <1>4 DEF AddClientJob
  <2>2. waiting_jobs' \in Seq(FdJobs)
    <3>1. <<fd, k>> \in FdJobs
      BY DEF FdJobs
    <3>2. <<(<<fd, k>>)>> \in Seq(FdJobs) /\ waiting_jobs \in Seq(FdJobs)
      BY <3>1 DEF Control
    <3> QED
      BY <2>1, <3>2, ConcatProperties DEF AddJob
  <2>3. UNCHANGED <<job, pc, at, buf, conn, backlog, serving>>
    BY <1>4, <2>1 DEF AddClientJob, AddJob, sockets
  <2> QED
    BY <2>2, <2>3 DEF Control
<1>5. ASSUME NEW w \in Workers, TakeJob(w) PROVE Control'
  <2>1. /\ pc[w] = "loop" /\ waiting_jobs # <<>>
        /\ job' = [job EXCEPT ![w] = Head(waiting_jobs)] /\ waiting_jobs' = Tail(waiting_jobs)
        /\ pc' = [pc EXCEPT ![w] = "run"] /\ at' = [at EXCEPT ![w] = "recv"]
        /\ UNCHANGED <<buf, conn, backlog, serving>>
    BY <1>5 DEF TakeJob, Take, CanLock, Goto, sockets
  <2>2. Head(waiting_jobs) \in FdJobs /\ Tail(waiting_jobs) \in Seq(FdJobs)
    BY <2>1, HeadTailProperties DEF Control
  <2>3. job' \in [Workers -> FdJobs \cup {None}] /\ at' \in [ServerThreads -> Spots]
    BY <2>1, <2>2 DEF Control, Spots
  <2>4. /\ at[w] = "idle" /\ at'[w] = "recv" /\ buf[w] = <<>>
        /\ \A u \in ServerThreads \ {w} : at'[u] = at[u]
    BY <1>1, <2>1 DEF Control
  <2>5. pc \in [Workers -> {"loop", "run", "exited"}]
    BY DEF PoolInv, TypeOK
  <2>6. \A v \in Workers : at'[v] # "inc" /\ (at'[v] # "idle" <=> pc'[v] = "run")
    BY <1>1, <2>1, <2>4, <2>5 DEF Control
  <2>7. \A u \in ServerThreads :
          /\ at'[u] \in {"idle", "inc"} => buf[u] = <<>>
          /\ at'[u] \in {"recv", "poll"} => Len(buf[u]) < MAX_BUFFER
    <3>1. Len(buf[w]) < MAX_BUFFER
      BY <2>4, EmptySeq, MaxBufferAssumption
    <3> QED
      BY <2>4, <3>1 DEF Control
  <2>8. at'[MainThread] # "idle" => serving \in Fds
    BY <1>1, <2>4 DEF Control
  <2> QED
    BY <2>1, <2>2, <2>3, <2>6, <2>7, <2>8 DEF Control
<1>6. ASSUME NEW w \in Workers, WorkerWait(w) PROVE Control'
  BY <1>6 DEF WorkerWait, Wait, sockets, server, Control
<1>7. CASE EpollWait \/ EpollFails \/ AcceptFails
  BY <1>7 DEF EpollWait, EpollFails, AcceptFails, vars, sockets, Control
<1>8. CASE AcceptClient
  <2>1. /\ at[MainThread] = "idle" /\ backlog # <<>> /\ FreeFds # {}
        /\ backlog' = Tail(backlog) /\ conn' = [conn EXCEPT ![ClientFd] = Head(backlog)]
        /\ serving' = ClientFd /\ at' = [at EXCEPT ![MainThread] = "inc"]
        /\ UNCHANGED <<waiting_jobs, job, pc, buf>>
    BY <1>8 DEF AcceptClient, Accept, Goto, vars
  <2>2. ClientFd \in Fds
    BY <2>1, LowestFd DEF FreeFds
  <2>3. Head(backlog) \in Clients /\ backlog' \in Seq(Clients)
    BY <2>1, HeadTailProperties DEF Control
  <2>4. conn' \in [Fds -> Clients \cup {NoClient}] /\ at' \in [ServerThreads -> Spots]
    BY <2>1, <2>3 DEF Control, Spots
  <2>5. at'[MainThread] = "inc" /\ \A u \in ServerThreads \ {MainThread} : at'[u] = at[u]
    BY <1>1, <2>1 DEF Control
  <2> QED
    BY <1>1, <2>1, <2>2, <2>3, <2>4, <2>5 DEF Control
<1>9. CASE Register
  <2>1. /\ at[MainThread] = "inc" /\ at' = [at EXCEPT ![MainThread] = "idle"]
        /\ UNCHANGED <<waiting_jobs, job, pc, buf, conn, backlog>>
    BY <1>9 DEF Register, Goto, vars, sockets
  <2>2. at'[MainThread] = "idle" /\ \A u \in ServerThreads \ {MainThread} : at'[u] = at[u]
    BY <1>1, <2>1 DEF Control
  <2>3. at' \in [ServerThreads -> Spots]
    BY <2>1 DEF Control, Spots
  <2> QED
    BY <1>1, <2>1, <2>2, <2>3 DEF Control
<1>10. ASSUME NEW fd \in Fds, ServeInline(fd) PROVE Control'
  <2>1. /\ at[MainThread] = "idle" /\ at' = [at EXCEPT ![MainThread] = "recv"] /\ serving' = fd
        /\ UNCHANGED <<waiting_jobs, job, pc, buf, conn, backlog>>
    BY <1>10 DEF ServeInline, Goto, vars, sockets
  <2>2. at'[MainThread] = "recv" /\ \A u \in ServerThreads \ {MainThread} : at'[u] = at[u]
    BY <1>1, <2>1 DEF Control
  <2>3. at' \in [ServerThreads -> Spots]
    BY <2>1 DEF Control, Spots
  <2>4. buf[MainThread] = <<>> /\ Len(buf[MainThread]) < MAX_BUFFER
    BY <1>1, <2>1, EmptySeq, MaxBufferAssumption DEF Control
  <2> QED
    BY <1>1, <2>1, <2>2, <2>3, <2>4 DEF Control
<1>11. ASSUME NEW c \in Clients, Client(c) PROVE Control'
  <2>1. UNCHANGED <<waiting_jobs, job, pc, at, buf, serving, conn>>
    BY <1>11 DEF Client, Connect, Send, Shutdown, Reset, vars
  <2>2. backlog' \in Seq(Clients)
    <3>1. backlog' = Append(backlog, c) \/ backlog' = backlog
      BY <1>11 DEF Client, Connect, Send, Shutdown, Reset
    <3>2. backlog \in Seq(Clients)
      BY DEF Control
    <3> QED
      BY <3>1, <3>2, AppendProperties
  <2> QED
    BY <2>1, <2>2 DEF Control
<1> QED
  BY <1>1, <1>2, <1>3, <1>4, <1>5, <1>6, <1>7, <1>8, <1>9, <1>10, <1>11
     DEF ServerNext, MainStep, PoolStep
-----------------------------------------------------------------------------
(* The types behind the invariant of the bytes.                            *)
LEMMA ByteTypes ==
  ASSUME Control, Streams
  PROVE  /\ \A c \in Clients : Taken(c) \in Nat /\ Len(inq[c]) \in Nat /\ Len(out[c]) \in Nat
         /\ \A t \in ServerThreads : Len(buf[t]) \in Nat
         /\ \A t \in ServerThreads : \A i \in 1..Len(buf[t]) :
              buf[t][i] \in Byte /\ buf[t][i][1] \in Clients
<1>1. ASSUME NEW c \in Clients PROVE Taken(c) \in Nat /\ Len(inq[c]) \in Nat /\ Len(out[c]) \in Nat
  <2>1. sent[c] \in Nat /\ inq[c] \in Seq(Byte) /\ out[c] \in Seq(Byte \cup {Junk}) /\ Len(inq[c]) <= sent[c]
    BY DEF Streams
  <2>2. Len(inq[c]) \in Nat /\ Len(out[c]) \in Nat
    BY <2>1, LenProperties
  <2> QED
    BY <2>1, <2>2 DEF Taken
<1>2. ASSUME NEW t \in ServerThreads
      PROVE  /\ Len(buf[t]) \in Nat
             /\ \A i \in 1..Len(buf[t]) : buf[t][i] \in Byte /\ buf[t][i][1] \in Clients
  <2>1. buf[t] \in Seq(Byte)
    BY DEF Control
  <2>2. \A i \in 1..Len(buf[t]) : buf[t][i] \in Byte
    BY <2>1, ElementOfSeq
  <2> QED
    BY <2>1, <2>2, LenProperties DEF Byte
<1> QED
  BY <1>1, <1>2

(* A step that moves no byte, but may forget a buffer.                     *)
LEMMA BytesKept ==
  ASSUME Control, BytesInv, UNCHANGED <<sent, inq, out>>,
         \A u \in ServerThreads : buf'[u] = buf[u] \/ buf'[u] = <<>>
  PROVE  BytesInv'
<1>1. \A c : Taken(c)' = Taken(c)
  BY DEF Taken
<1>2. Len(<<>>) = 0
  OBVIOUS
<1>3. \A u \in ServerThreads : \A i \in 1..Len(buf'[u]) : i \in 1..Len(buf[u]) /\ buf'[u][i] = buf[u][i]
  BY <1>2
<1>4. Streams'
  BY <1>1 DEF BytesInv, Streams
<1>5. ReadBefore'
  BY <1>1, <1>3 DEF BytesInv, ReadBefore
<1>6. Distinct'
  BY <1>3 DEF BytesInv, Distinct, BufsApart, OutsApart, BufsNotOut
<1>7. Counted'
  <2> SUFFICES ASSUME NEW t \in ServerThreads, NEW c \in Clients, OnlyOf(t, c)'
               PROVE  Len(buf'[t]) <= Taken(c)
    BY <1>1 DEF Counted
  <2>1. Taken(c) \in Nat
    BY ByteTypes DEF BytesInv
  <2>2. CASE buf'[t] = buf[t]
    BY <2>2 DEF BytesInv, Counted, OnlyOf
  <2>3. CASE buf'[t] = <<>>
    BY <1>2, <2>1, <2>3
  <2> QED
    BY <2>2, <2>3
<1> QED
  BY <1>4, <1>5, <1>6, <1>7 DEF BytesInv

(* A client's send adds a byte that nobody has.                            *)
LEMMA SendBytes == ASSUME Control, BytesInv, NEW c \in Clients, Send(c), buf' = buf PROVE BytesInv'
<1>1. /\ sent' = [sent EXCEPT ![c] = @ + 1]
      /\ inq' = [inq EXCEPT ![c] = Append(@, <<c, sent[c] + 1>>)] /\ out' = out
  BY DEF Send
<1>2. /\ sent \in [Clients -> Nat] /\ inq \in [Clients -> Seq(Byte)]
      /\ Len(inq[c]) <= sent[c] /\ Len(inq[c]) \in Nat /\ Taken(c) \in Nat
      /\ \A i \in 1..Len(inq[c]) : inq[c][i] = <<c, Taken(c) + i>>
  BY ByteTypes DEF BytesInv, Streams
<1>3. <<c, sent[c] + 1>> \in Byte
  BY <1>2 DEF Byte
<1>4. /\ inq'[c] \in Seq(Byte) /\ Len(inq'[c]) = Len(inq[c]) + 1
      /\ \A i \in 1..Len(inq[c]) : inq'[c][i] = inq[c][i]
      /\ inq'[c][Len(inq[c]) + 1] = <<c, sent[c] + 1>>
  BY <1>1, <1>2, <1>3, AppendProperties
<1>5. /\ sent'[c] = sent[c] + 1
      /\ \A d \in Clients \ {c} : sent'[d] = sent[d] /\ inq'[d] = inq[d]
  BY <1>1, <1>2
<1>6. sent' \in [Clients -> Nat] /\ inq' \in [Clients -> Seq(Byte)]
  BY <1>1, <1>2, <1>4, <1>5
<1>7. \A d \in Clients : Taken(d)' = Taken(d)
  <2>1. sent'[c] - Len(inq'[c]) = sent[c] - Len(inq[c])
    <3>1. sent[c] \in Nat
      BY <1>2
    <3> QED
      BY <1>2, <1>4, <1>5, <3>1
  <2> QED
    BY <1>5, <2>1 DEF Taken
<1>8. Streams'
  <2> SUFFICES ASSUME NEW d \in Clients
               PROVE  /\ Len(inq'[d]) <= sent'[d]
                      /\ \A i \in 1..Len(inq'[d]) : inq'[d][i] = <<d, Taken(d) + i>>
    BY <1>1, <1>6, <1>7 DEF BytesInv, Streams
  <2>1. CASE d = c
    <3>1. Taken(c) + Len(inq[c]) + 1 = sent[c] + 1
      BY <1>2 DEF Taken
    <3>2. \A i \in 1..Len(inq'[c]) : i \in 1..Len(inq[c]) \/ i = Len(inq[c]) + 1
      BY <1>2, <1>4
    <3>3. ASSUME NEW i \in 1..Len(inq'[c]) PROVE inq'[c][i] = <<c, Taken(c) + i>>
      <4>1. CASE i \in 1..Len(inq[c])
        BY <1>2, <1>4, <4>1
      <4>2. CASE i = Len(inq[c]) + 1
        <5>1. Taken(c) + i = sent[c] + 1
          BY <1>2, <3>1, <4>2
        <5> QED
          BY <1>4, <4>2, <5>1
      <4> QED
        BY <3>2, <4>1, <4>2
    <3>4. Len(inq'[c]) <= sent'[c]
      BY <1>2, <1>4, <1>5
    <3> QED
      BY <2>1, <3>3, <3>4
  <2>2. CASE d # c
    <3>1. inq'[d] = inq[d] /\ sent'[d] = sent[d]
      BY <1>5, <2>2
    <3> QED
      BY <3>1 DEF BytesInv, Streams
  <2> QED
    BY <2>1, <2>2
<1>9. ReadBefore'
  <2>1. \A t \in ServerThreads : \A i \in 1..Len(buf[t]) : buf[t][i][1] \in Clients
    BY ByteTypes DEF BytesInv
  <2>2. ASSUME NEW d \in Clients, NEW i \in 1..Len(out[d]), out[d][i] # Junk PROVE out[d][i][1] \in Clients
    <3>1. out[d] \in Seq(Byte \cup {Junk})
      BY DEF BytesInv, Streams
    <3>2. out[d][i] \in Byte
      BY <2>2, <3>1, ElementOfSeq
    <3> QED
      BY <3>2 DEF Byte
  <2> QED
    BY <1>1, <1>7, <2>1, <2>2 DEF BytesInv, ReadBefore
<1>10. Distinct'
  BY <1>1 DEF BytesInv, Distinct, BufsApart, OutsApart, BufsNotOut
<1>11. Counted'
  BY <1>7 DEF BytesInv, Counted, OnlyOf
<1> QED
  BY <1>8, <1>9, <1>10, <1>11 DEF BytesInv

(* recv moves bytes from the socket to one buffer.                         *)
LEMMA RecvBytesKept ==
  ASSUME Control, BytesInv, NEW t \in ServerThreads, NEW c \in Clients, NEW n \in Nat,
         NEW b \in Seq(Byte), ReadsBytes(t, c, n, b)
  PROVE  BytesInv'
<1>1. /\ n \in 1..Len(inq[c]) /\ Len(b) = Len(buf[t]) + n
      /\ \A i \in 1..Len(buf[t]) : b[i] = buf[t][i]
      /\ \A i \in 1..n : b[Len(buf[t]) + i] = <<c, Taken(c) + i>>
      /\ inq' \in [Clients -> Seq(Byte)] /\ Len(inq'[c]) = Len(inq[c]) - n
      /\ \A i \in 1..Len(inq'[c]) : inq'[c][i] = inq[c][n + i]
      /\ \A d \in Clients \ {c} : inq'[d] = inq[d]
      /\ sent' = sent /\ out' = out
  BY DEF ReadsBytes
<1>2. /\ \A d \in Clients : Taken(d) \in Nat /\ Len(inq[d]) \in Nat /\ Len(out[d]) \in Nat
      /\ \A u \in ServerThreads : Len(buf[u]) \in Nat
      /\ \A u \in ServerThreads : \A i \in 1..Len(buf[u]) :
           buf[u][i] \in Byte /\ buf[u][i][1] \in Clients
  BY ByteTypes DEF BytesInv
<1>3. sent \in [Clients -> Nat] /\ Len(inq[c]) <= sent[c]
      /\ \A i \in 1..Len(inq[c]) : inq[c][i] = <<c, Taken(c) + i>>
  BY DEF BytesInv, Streams
<1> DEFINE Now(d) == sent'[d] - Len(inq'[d])
<1>4. Now(c) = Taken(c) + n /\ \A d \in Clients \ {c} : Now(d) = Taken(d)
  <2>1. sent[c] \in Nat /\ Len(inq[c]) \in Nat /\ n \in Nat
    BY <1>2, <1>3
  <2>2. Now(c) = sent[c] - Len(inq[c]) + n
    BY <1>1, <2>1
  <2> QED
    BY <1>1, <2>2 DEF Taken
<1>T. \A d : Taken(d)' = Now(d)
  BY DEF Taken
<1> HIDE DEF Now
<1>5. \A d \in Clients : Now(d) \in Nat /\ Taken(d) <= Now(d)
  BY <1>2, <1>4
<1>6. \A u \in ServerThreads : (buf'[u] = buf[u] /\ u # t) \/ buf'[u] = <<>> \/ (buf'[u] = b /\ u = t)
  <2>1. buf \in [ServerThreads -> Seq(Byte)]
    BY DEF Control
  <2>2. buf' = [buf EXCEPT ![t] = b] \/ buf' = [buf EXCEPT ![t] = <<>>]
    BY DEF ReadsBytes, Moves
  <2> QED
    BY <2>1, <2>2
(* A byte in a buffer is an old one or a new one. *)
<1>7. ASSUME NEW u \in ServerThreads, NEW i \in 1..Len(buf'[u])
      PROVE  \/ i \in 1..Len(buf[u]) /\ buf'[u][i] = buf[u][i]
             \/ u = t /\ \E k \in 1..n : i = Len(buf[t]) + k /\ buf'[u][i] = <<c, Taken(c) + k>>
  <2>1. CASE buf'[u] = buf[u]
    BY <2>1
  <2>2. CASE buf'[u] = <<>>
    BY <2>2
  <2>3. CASE buf'[u] = b /\ u = t
    <3>1. i \in 1..Len(buf[t]) \/ i - Len(buf[t]) \in 1..n
      BY <1>1, <1>2, <2>3
    <3>2. CASE i \in 1..Len(buf[t])
      BY <1>1, <2>3, <3>2
    <3>3. CASE i - Len(buf[t]) \in 1..n
      <4>1. PICK k \in 1..n : i = Len(buf[t]) + k
        <5>1. i = Len(buf[t]) + (i - Len(buf[t]))
          BY <1>2
        <5> QED
          BY <3>3, <5>1
      <4> QED
        BY <1>1, <2>3, <4>1
    <3> QED
      BY <3>1, <3>2, <3>3
  <2> QED
    BY <1>6, <2>1, <2>2, <2>3
<1>8. Streams'
  <2>1. /\ Len(inq'[c]) <= sent[c]
        /\ \A i \in 1..Len(inq'[c]) : inq'[c][i] = <<c, Now(c) + i>>
    <3>1. Len(inq'[c]) <= sent[c]
      BY <1>1, <1>2, <1>3
    <3>2. ASSUME NEW i \in 1..Len(inq'[c]) PROVE inq'[c][i] = <<c, Now(c) + i>>
      <4>1. n + i \in 1..Len(inq[c]) /\ Taken(c) + (n + i) = Now(c) + i
        BY <1>1, <1>2, <1>4
      <4>2. inq[c][n + i] = <<c, Taken(c) + (n + i)>>
        BY <1>3, <4>1
      <4> QED
        BY <1>1, <4>1, <4>2
    <3> QED
      BY <3>1, <3>2
  <2>2. \A d \in Clients \ {c} :
          /\ Len(inq'[d]) <= sent[d]
          /\ \A i \in 1..Len(inq'[d]) : inq'[d][i] = <<d, Now(d) + i>>
    BY <1>1, <1>4 DEF BytesInv, Streams
  <2>3. \A d \in Clients :
          /\ Len(inq'[d]) <= sent[d]
          /\ \A i \in 1..Len(inq'[d]) : inq'[d][i] = <<d, Now(d) + i>>
    BY <2>1, <2>2
  <2> QED
    BY <1>1, <1>T, <2>3 DEF BytesInv, Streams
<1>9. ReadBefore'
  <2>1. ASSUME NEW u \in ServerThreads, NEW i \in 1..Len(buf'[u])
        PROVE  buf'[u][i][2] \in 1..Now(buf'[u][i][1])
    <3>1. CASE i \in 1..Len(buf[u]) /\ buf'[u][i] = buf[u][i]
      <4>1. buf[u][i][1] \in Clients /\ buf[u][i][2] \in 1..Taken(buf[u][i][1])
        BY <1>2, <3>1 DEF BytesInv, ReadBefore
      <4>2. PICK d \in Clients : d = buf[u][i][1]
        BY <4>1
      <4>3. buf[u][i][2] \in 1..Now(d)
        BY <1>2, <1>5, <4>1, <4>2
      <4> QED
        BY <3>1, <4>2, <4>3
    <3>2. ASSUME NEW k \in 1..n, buf'[u][i] = <<c, Taken(c) + k>>
          PROVE  buf'[u][i][2] \in 1..Now(buf'[u][i][1])
      <4>1. Taken(c) + k \in 1..Now(c)
        <5>1. Taken(c) \in Nat /\ Now(c) = Taken(c) + n /\ k \in 1..n
          BY <1>2, <1>4
        <5> QED
          BY <5>1
      <4>2. PICK e : e = buf'[u][i]
        OBVIOUS
      <4>3. e[1] = c /\ e[2] = Taken(c) + k
        BY <3>2, <4>2
      <4> QED
        BY <4>1, <4>2, <4>3
    <3> QED
      BY <1>7, <3>1, <3>2
  <2>2. ASSUME NEW d \in Clients, NEW i \in 1..Len(out[d]), out[d][i] # Junk
        PROVE  out[d][i][2] \in 1..Now(out[d][i][1])
    <3>1. out[d] \in Seq(Byte \cup {Junk})
      BY DEF BytesInv, Streams
    <3>2. PICK e \in Clients : e = out[d][i][1]
      BY <2>2, <3>1, ElementOfSeq DEF Byte
    <3>3. out[d][i][2] \in 1..Taken(e)
      BY <2>2, <3>2 DEF BytesInv, ReadBefore
    <3>4. out[d][i][2] \in 1..Now(e)
      BY <1>2, <1>5, <3>3
    <3> QED
      BY <3>2, <3>4
  <2> QED
    BY <1>1, <2>1, <2>2 DEF ReadBefore, Taken, Now
<1>10. Distinct'
  <2>1. ASSUME NEW u \in ServerThreads, NEW i \in 1..Len(buf[u]), NEW k \in 1..n
        PROVE  buf[u][i] # <<c, Taken(c) + k>>
    <3>1. buf[u][i][2] \in 1..Taken(buf[u][i][1])
      BY DEF BytesInv, ReadBefore
    <3> QED
      BY <1>2, <3>1
  <2>2. ASSUME NEW d \in Clients, NEW j \in 1..Len(out[d]), NEW k \in 1..n
        PROVE  out[d][j] # <<c, Taken(c) + k>>
    <3>1. SUFFICES ASSUME out[d][j] = <<c, Taken(c) + k>> PROVE FALSE
      OBVIOUS
    <3>2. out[d][j] # Junk
      BY <1>2, <3>1 DEF Junk
    <3>3. out[d][j][2] \in 1..Taken(out[d][j][1])
      BY <3>2 DEF BytesInv, ReadBefore
    <3> QED
      BY <1>2, <3>1, <3>3
  <2>3. ASSUME NEW u \in ServerThreads, NEW v \in ServerThreads,
               NEW i \in 1..Len(buf'[u]), NEW j \in 1..Len(buf'[v]), buf'[u][i] = buf'[v][j]
        PROVE  u = v /\ i = j
    <3>1. CASE /\ i \in 1..Len(buf[u]) /\ buf'[u][i] = buf[u][i]
               /\ j \in 1..Len(buf[v]) /\ buf'[v][j] = buf[v][j]
      <4>1. buf[u][i] = buf[v][j]
        BY <2>3, <3>1
      <4> QED
        BY <3>1, <4>1 DEF BytesInv, Distinct, BufsApart, OutsApart, BufsNotOut
    <3>2. CASE /\ i \in 1..Len(buf[u]) /\ buf'[u][i] = buf[u][i]
               /\ \E k \in 1..n : buf'[v][j] = <<c, Taken(c) + k>>
      BY <2>1, <2>3, <3>2
    <3>3. CASE /\ j \in 1..Len(buf[v]) /\ buf'[v][j] = buf[v][j]
               /\ \E k \in 1..n : buf'[u][i] = <<c, Taken(c) + k>>
      BY <2>1, <2>3, <3>3
    <3>4. ASSUME u = t, v = t, NEW k \in 1..n, NEW m \in 1..n,
                 i = Len(buf[t]) + k, buf'[u][i] = <<c, Taken(c) + k>>,
                 j = Len(buf[t]) + m, buf'[v][j] = <<c, Taken(c) + m>>
          PROVE  u = v /\ i = j
      <4>1. Taken(c) + k = Taken(c) + m
        BY <2>3, <3>4
      <4> QED
        BY <1>2, <3>4, <4>1
    <3> QED
      BY <1>7, <3>1, <3>2, <3>3, <3>4
  <2>4. ASSUME NEW u \in ServerThreads, NEW d \in Clients,
               NEW i \in 1..Len(buf'[u]), NEW j \in 1..Len(out[d])
        PROVE  buf'[u][i] # out[d][j]
    <3>1. CASE i \in 1..Len(buf[u]) /\ buf'[u][i] = buf[u][i]
      BY <3>1 DEF BytesInv, Distinct, BufsApart, OutsApart, BufsNotOut
    <3>2. CASE \E k \in 1..n : buf'[u][i] = <<c, Taken(c) + k>>
      BY <2>2, <3>2
    <3> QED
      BY <1>7, <3>1, <3>2
  <2> QED
    <3>1. BufsApart'
      BY <2>3 DEF BufsApart
    <3>2. BufsNotOut'
      BY <1>1, <2>4 DEF BufsNotOut
    <3>3. OutsApart'
      BY <1>1 DEF BytesInv, Distinct, OutsApart
    <3> QED
      BY <3>1, <3>2, <3>3 DEF Distinct
<1>11. Counted'
  <2> SUFFICES ASSUME NEW u \in ServerThreads, NEW d \in Clients, OnlyOf(u, d)'
               PROVE  Len(buf'[u]) <= Now(d)
    BY <1>T DEF Counted
  <2>1. CASE buf'[u] = buf[u]
    <3>1. Len(buf[u]) <= Taken(d)
      BY <2>1 DEF BytesInv, Counted, OnlyOf
    <3> QED
      BY <1>2, <1>5, <2>1, <3>1
  <2>2. CASE buf'[u] = <<>>
    <3>1. Len(buf'[u]) = 0
      BY <2>2
    <3> QED
      BY <1>5, <3>1
  <2>3. CASE buf'[u] = b /\ u = t
    <3>1. Len(buf[t]) + 1 \in 1..Len(b) /\ 1 \in 1..n
      BY <1>1, <1>2
    <3>2. b[Len(buf[t]) + 1] = <<c, Taken(c) + 1>>
      BY <1>1, <3>1
    <3>3. d = c
      BY <2>3, <3>1, <3>2 DEF OnlyOf
    <3>4. OnlyOf(t, c)
      <4>1. \A i \in 1..Len(buf[t]) : i \in 1..Len(b)
        BY <1>1, <1>2
      <4> QED
        BY <1>1, <2>3, <3>3, <4>1 DEF OnlyOf
    <3>5. Len(buf[t]) <= Taken(c)
      BY <3>4 DEF BytesInv, Counted
    <3> QED
      BY <1>1, <1>2, <1>4, <2>3, <3>3, <3>5
  <2> QED
    BY <1>6, <2>1, <2>2, <2>3
<1> QED
  BY <1>8, <1>9, <1>10, <1>11 DEF BytesInv

(* nSend moves the bytes of one buffer to the reply, with a junk byte      *)
(* behind them perhaps.                                                    *)
Replies(t, c, tail) ==
    /\ buf' = [buf EXCEPT ![t] = <<>>] /\ UNCHANGED <<sent, inq>>
    /\ out' = [out EXCEPT ![c] = @ \o (buf[t] \o tail)]

LEMMA RepliesKept ==
  ASSUME Control, BytesInv, NEW t \in ServerThreads, NEW c \in Clients,
         NEW tail \in {<<>>, <<Junk>>}, Replies(t, c, tail)
  PROVE  BytesInv'
<1>0. UNCHANGED <<sent, inq>>
  BY DEF Replies
<1>1. \A d : Taken(d)' = Taken(d)
  BY <1>0 DEF Taken
<1>2. /\ buf[t] \in Seq(Byte \cup {Junk}) /\ tail \in Seq(Byte \cup {Junk})
      /\ Len(tail) \in Nat /\ \A i \in 1..Len(tail) : tail[i] = Junk
  <2>1. buf[t] \in Seq(Byte)
    BY DEF Control
  <2>2. buf[t] \in Seq(Byte \cup {Junk})
    BY <2>1, SeqMonotonic
  <2>3. CASE tail = <<>>
    BY <2>2, <2>3
  <2>4. CASE tail = <<Junk>>
    BY <2>2, <2>4
  <2> QED
    BY <2>3, <2>4
<1>3. /\ out \in [Clients -> Seq(Byte \cup {Junk})] /\ out[c] \in Seq(Byte \cup {Junk})
      /\ Len(out[c]) \in Nat /\ Len(buf[t]) \in Nat
  BY ByteTypes DEF BytesInv, Streams
<1> DEFINE more == buf[t] \o tail
<1>4. /\ more \in Seq(Byte \cup {Junk}) /\ Len(more) = Len(buf[t]) + Len(tail)
      /\ \A i \in 1..Len(more) : more[i] = IF i <= Len(buf[t]) THEN buf[t][i] ELSE tail[i - Len(buf[t])]
  BY <1>2, ConcatProperties
<1>5. /\ out[c] \o more \in Seq(Byte \cup {Junk}) /\ Len(out[c] \o more) = Len(out[c]) + Len(more)
      /\ \A i \in 1..Len(out[c] \o more) :
           (out[c] \o more)[i] = IF i <= Len(out[c]) THEN out[c][i] ELSE more[i - Len(out[c])]
  <2> HIDE DEF more
  <2>1. /\ out[c] \o more \in Seq(Byte \cup {Junk}) /\ Len(out[c] \o more) = Len(out[c]) + Len(more)
        /\ \A i \in 1..Len(out[c]) + Len(more) :
             (out[c] \o more)[i] = IF i <= Len(out[c]) THEN out[c][i] ELSE more[i - Len(out[c])]
    <3>1. more \in Seq(Byte \cup {Junk}) /\ out[c] \in Seq(Byte \cup {Junk})
      BY <1>3, <1>4
    <3> QED
      BY <3>1, ConcatProperties
  <2> QED
    BY <2>1
<1>6. /\ out' \in [Clients -> Seq(Byte \cup {Junk})] /\ out'[c] = out[c] \o more
      /\ \A d \in Clients \ {c} : out'[d] = out[d]
  BY <1>3, <1>5 DEF Replies
<1>7. /\ buf'[t] = <<>> /\ Len(<<>>) = 0
      /\ \A u \in ServerThreads \ {t} : buf'[u] = buf[u]
  BY DEF Control, Replies
<1> HIDE DEF more
(* A byte of a reply was there before, or in t's buffer, or is junk. *)
<1>8. ASSUME NEW d \in Clients, NEW i \in 1..Len(out'[d])
      PROVE  \/ i \in 1..Len(out[d]) /\ out'[d][i] = out[d][i]
             \/ /\ d = c /\ i > Len(out[c]) /\ i - Len(out[c]) \in 1..Len(buf[t])
                /\ out'[d][i] = buf[t][i - Len(out[c])]
             \/ out'[d][i] = Junk
  <2>1. CASE d # c
    BY <1>6, <2>1
  <2>2. CASE d = c /\ i <= Len(out[c])
    <3>1. i \in 1..Len(out[c])
      BY <1>3, <2>2
    <3>2. i \in 1..Len(out[c] \o more)
      BY <1>6, <2>2
    <3>3. (out[c] \o more)[i] = out[c][i]
      BY <1>5, <2>2, <3>2
    <3> QED
      BY <1>6, <2>2, <3>1, <3>3
  <2>3. CASE d = c /\ ~(i <= Len(out[c]))
    <3> DEFINE k == i - Len(out[c])
    <3>1. i \in 1..Len(out[c]) + Len(more)
      BY <1>5, <1>6, <2>3
    <3>2. k \in 1..Len(more)
      BY <1>2, <1>3, <1>4, <2>3, <3>1
    <3>3. out'[d][i] = more[k]
      BY <1>5, <1>6, <2>3
    <3>4. CASE k <= Len(buf[t])
      <4>1. more[k] = buf[t][k] /\ k \in 1..Len(buf[t])
        BY <1>3, <1>4, <3>2, <3>4
      <4>2. i > Len(out[c])
        BY <1>3, <2>3
      <4> QED
        BY <2>3, <3>3, <4>1, <4>2
    <3>5. CASE ~(k <= Len(buf[t]))
      <4>1. more[k] = tail[k - Len(buf[t])]
        BY <1>4, <3>2, <3>5
      <4>2. k - Len(buf[t]) \in 1..Len(tail)
        BY <1>2, <1>3, <1>4, <3>2, <3>5
      <4> QED
        BY <1>2, <3>3, <4>1, <4>2
    <3> QED
      BY <3>4, <3>5
  <2> QED
    BY <2>1, <2>2, <2>3
<1>9. \A u \in ServerThreads : \A i \in 1..Len(buf'[u]) :
         u # t /\ i \in 1..Len(buf[u]) /\ buf'[u][i] = buf[u][i]
  BY <1>7
<1>10. \A u \in ServerThreads : \A i \in 1..Len(buf[u]) : buf[u][i] # Junk
  <2> SUFFICES ASSUME NEW u \in ServerThreads, NEW i \in 1..Len(buf[u]) PROVE buf[u][i] # Junk
    OBVIOUS
  <2>1. buf[u][i][1] \in Clients /\ buf[u][i][2] \in 1..Taken(buf[u][i][1])
    BY ByteTypes DEF BytesInv, ReadBefore
  <2>2. Taken(buf[u][i][1]) \in Nat
    BY <2>1, ByteTypes DEF BytesInv
  <2> QED
    BY <2>1, <2>2 DEF Junk
<1>11. Streams'
  BY <1>0, <1>1, <1>6 DEF BytesInv, Streams
<1>12. ReadBefore'
  <2>1. ASSUME NEW u \in ServerThreads, NEW i \in 1..Len(buf'[u])
        PROVE  buf'[u][i][2] \in 1..Taken(buf'[u][i][1])
    BY <1>9 DEF BytesInv, ReadBefore
  <2>2. ASSUME NEW d \in Clients, NEW i \in 1..Len(out'[d]), out'[d][i] # Junk
        PROVE  out'[d][i][2] \in 1..Taken(out'[d][i][1])
    <3>1. CASE i \in 1..Len(out[d]) /\ out'[d][i] = out[d][i]
      BY <2>2, <3>1 DEF BytesInv, ReadBefore
    <3>2. CASE i - Len(out[c]) \in 1..Len(buf[t]) /\ out'[d][i] = buf[t][i - Len(out[c])]
      BY <3>2 DEF BytesInv, ReadBefore
    <3> QED
      BY <1>8, <2>2, <3>1, <3>2
  <2> QED
    BY <1>0, <1>1, <2>1, <2>2 DEF ReadBefore, Taken
<1>13. Distinct'
  <2>1. ASSUME NEW u \in ServerThreads, NEW v \in ServerThreads,
               NEW i \in 1..Len(buf'[u]), NEW j \in 1..Len(buf'[v]), buf'[u][i] = buf'[v][j]
        PROVE  u = v /\ i = j
    <3>1. i \in 1..Len(buf[u]) /\ j \in 1..Len(buf[v]) /\ buf[u][i] = buf[v][j]
      BY <1>9, <2>1
    <3> QED
      BY <3>1 DEF BytesInv, Distinct, BufsApart, OutsApart, BufsNotOut
  <2>2. ASSUME NEW u \in ServerThreads, NEW d \in Clients,
               NEW i \in 1..Len(buf'[u]), NEW j \in 1..Len(out'[d])
        PROVE  buf'[u][i] # out'[d][j]
    <3>1. u # t /\ i \in 1..Len(buf[u]) /\ buf'[u][i] = buf[u][i]
      BY <1>9
    <3>2. CASE j \in 1..Len(out[d]) /\ out'[d][j] = out[d][j]
      <4>1. buf[u][i] # out[d][j]
        BY <3>1, <3>2 DEF BytesInv, Distinct, BufsNotOut
      <4> QED
        BY <3>1, <3>2, <4>1
    <3>3. CASE j - Len(out[c]) \in 1..Len(buf[t]) /\ out'[d][j] = buf[t][j - Len(out[c])]
      <4>1. buf[u][i] # buf[t][j - Len(out[c])]
        BY <3>1, <3>3 DEF BytesInv, Distinct, BufsApart
      <4> QED
        BY <3>1, <3>3, <4>1
    <3>4. CASE out'[d][j] = Junk
      BY <1>10, <3>1, <3>4
    <3> QED
      BY <1>8, <3>2, <3>3, <3>4
  <2>3. ASSUME NEW d \in Clients, NEW e \in Clients,
               NEW i \in 1..Len(out'[d]), NEW j \in 1..Len(out'[e]),
               out'[d][i] = out'[e][j], out'[d][i] # Junk
        PROVE  d = e /\ i = j
    <3>1. CASE /\ i \in 1..Len(out[d]) /\ out'[d][i] = out[d][i]
               /\ j \in 1..Len(out[e]) /\ out'[e][j] = out[e][j]
      <4>1. out[d][i] = out[e][j] /\ out[d][i] # Junk
        BY <2>3, <3>1
      <4> QED
        BY <3>1, <4>1 DEF BytesInv, Distinct, BufsApart, OutsApart, BufsNotOut
    <3>2. CASE /\ i \in 1..Len(out[d]) /\ out'[d][i] = out[d][i]
               /\ j - Len(out[c]) \in 1..Len(buf[t]) /\ out'[e][j] = buf[t][j - Len(out[c])]
      <4>1. buf[t][j - Len(out[c])] # out[d][i]
        BY <3>2 DEF BytesInv, Distinct, BufsNotOut
      <4> QED
        BY <2>3, <3>2, <4>1
    <3>3. CASE /\ j \in 1..Len(out[e]) /\ out'[e][j] = out[e][j]
               /\ i - Len(out[c]) \in 1..Len(buf[t]) /\ out'[d][i] = buf[t][i - Len(out[c])]
      <4>1. buf[t][i - Len(out[c])] # out[e][j]
        BY <3>3 DEF BytesInv, Distinct, BufsNotOut
      <4> QED
        BY <2>3, <3>3, <4>1
    <3>4. CASE /\ d = c /\ i - Len(out[c]) \in 1..Len(buf[t]) /\ out'[d][i] = buf[t][i - Len(out[c])]
               /\ e = c /\ j - Len(out[c]) \in 1..Len(buf[t]) /\ out'[e][j] = buf[t][j - Len(out[c])]
      <4>1. i - Len(out[c]) = j - Len(out[c])
        <5>1. buf[t][i - Len(out[c])] = buf[t][j - Len(out[c])]
          BY <2>3, <3>4
        <5> QED
          BY <3>4, <5>1 DEF BytesInv, Distinct, BufsApart, OutsApart, BufsNotOut
      <4> QED
        BY <1>3, <3>4, <4>1
    <3> QED
      BY <1>8, <2>3, <3>1, <3>2, <3>3, <3>4
  <2>4. BufsApart'
    BY <2>1 DEF BufsApart
  <2>5. BufsNotOut'
    BY <2>2 DEF BufsNotOut
  <2>6. OutsApart'
    BY <2>3 DEF OutsApart
  <2> QED
    BY <2>4, <2>5, <2>6 DEF Distinct
<1>14. Counted'
  <2> SUFFICES ASSUME NEW u \in ServerThreads, NEW d \in Clients, OnlyOf(u, d)'
               PROVE  Len(buf'[u]) <= Taken(d)
    BY <1>1 DEF Counted
  <2>1. Taken(d) \in Nat
    BY ByteTypes DEF BytesInv
  <2>2. CASE u # t
    BY <1>7, <2>2 DEF BytesInv, Counted, OnlyOf
  <2>3. CASE u = t
    BY <1>7, <2>1, <2>3
  <2> QED
    BY <2>2, <2>3
<1> QED
  BY <1>11, <1>12, <1>13, <1>14 DEF BytesInv

(* A step of client_job either moves bytes or keeps and forgets them.      *)
LEMMA JobStepBytes ==
  ASSUME PoolInv, Control, BytesInv, NEW t \in ServerThreads, JobStep(t)
  PROVE  BytesInv'
<1>1. buf \in [ServerThreads -> Seq(Byte)]
  BY DEF Control
<1>2. ASSUME NEW place, NEW b \in {buf[t], <<>>}, Moves(t, place, b), UNCHANGED <<sent, inq, out>>
      PROVE  BytesInv'
  <2>1. \A u \in ServerThreads : buf'[u] = buf[u] \/ buf'[u] = <<>>
    BY <1>1, <1>2 DEF Moves
  <2> QED
    BY <1>2, <2>1, BytesKept
<1>3. CASE RecvBytes(t)
  <2>1. PICK c \in Clients, n \in Nat, b \in Seq(Byte) : ReadsBytes(t, c, n, b)
    BY <1>3, RecvBytesReads DEF BytesInv
  <2> QED
    BY <2>1, RecvBytesKept
<1>4. CASE RecvZero(t) \/ Poll(t) \/ RecvFails(t)
  <2>1. /\ UNCHANGED <<sent, inq, out>>
        /\ \/ Continue(t, "recv", buf[t]) \/ Continue(t, "poll", buf[t])
           \/ AfterRecv(t, buf[t], TRUE) \/ AfterRecv(t, buf[t], FALSE)
    BY <1>4 DEF RecvZero, Poll, RecvFails, sockets, net
  <2>2. \/ Moves(t, "recv", buf[t]) \/ Moves(t, "poll", buf[t])
        \/ Moves(t, "send", buf[t]) \/ Moves(t, "dec", buf[t]) \/ Moves(t, "idle", <<>>)
    BY <2>1, ContinueMoves, AfterRecvMoves
  <2> QED
    BY <1>2, <2>1, <2>2
<1>5. CASE SendEcho(t)
  <2>1. Moves(t, "idle", <<>>) /\ UNCHANGED <<sent, inq>> /\ at[t] = "send"
    BY <1>5, EndMoves DEF SendEcho
  <2>2. CASE UNCHANGED out
    BY <1>2, <2>1, <2>2
  <2>3. CASE ~UNCHANGED out
    <3>1. PICK tail \in {<<>>, <<Junk>>} : Peer(t) # NoClient /\ Transmit(Peer(t), buf[t] \o tail)
      BY <1>5, <2>3 DEF SendEcho
    <3>2. Peer(t) \in Clients
      BY <2>1, <3>1, FdType DEF Peer, Control
    <3>3. out' = [out EXCEPT ![Peer(t)] = @ \o (buf[t] \o tail)]
      BY <2>3, <3>1 DEF Transmit
    <3>4. buf' = [buf EXCEPT ![t] = <<>>]
      BY <2>1 DEF Moves
    <3> QED
      BY <2>1, <3>2, <3>3, <3>4, RepliesKept DEF Replies
  <2> QED
    BY <2>2, <2>3
<1>6. CASE ReadCurfds(t)
  <2>1. Moves(t, "close", buf[t]) /\ UNCHANGED <<sent, inq, out>>
    BY <1>6, ContinueMoves DEF ReadCurfds, sockets, net
  <2> QED
    BY <1>2, <2>1
<1>7. CASE CloseClient(t)
  <2>1. Moves(t, "idle", <<>>) /\ UNCHANGED <<sent, inq, out>>
    BY <1>7, EndMoves DEF CloseClient, net
  <2> QED
    BY <1>2, <2>1
<1> QED
  BY <1>3, <1>4, <1>5, <1>6, <1>7 DEF JobStep

(* All steps of the server and of its clients.                             *)
LEMMA ServerBytes ==
  ASSUME PoolInv, Control, BytesInv, [ServerNext]_allvars
  PROVE  BytesInv'
<1>1. ASSUME UNCHANGED <<sent, inq, out, buf>> PROVE BytesInv'
  BY <1>1, BytesKept
<1>2. CASE UNCHANGED allvars
  BY <1>1, <1>2 DEF allvars, sockets, net, server
<1>3. ASSUME NEW t \in ServerThreads, JobStep(t) PROVE BytesInv'
  BY <1>3, JobStepBytes
<1>4. CASE \/ EpollWait \/ EpollFails \/ AcceptClient \/ AcceptFails \/ Register
           \/ \E fd \in Fds : ServeInline(fd) \/ AddClientJob(fd)
  BY <1>1, <1>4
     DEF EpollWait, EpollFails, AcceptClient, AcceptFails, Register, ServeInline, AddClientJob, sockets, net
<1>5. ASSUME NEW w \in Workers, TakeJob(w) \/ WorkerWait(w) PROVE BytesInv'
  BY <1>1, <1>5 DEF TakeJob, WorkerWait, sockets, net, server
<1>6. ASSUME NEW c \in Clients, Client(c) PROVE BytesInv'
  <2>1. buf' = buf
    BY <1>6 DEF Client
  <2>2. CASE Send(c)
    BY <2>1, <2>2, SendBytes
  <2>3. CASE Connect(c) \/ Shutdown(c) \/ Reset(c)
    BY <1>1, <2>1, <2>3 DEF Connect, Shutdown, Reset
  <2> QED
    BY <1>6, <2>2, <2>3 DEF Client
<1> QED
  BY <1>2, <1>3, <1>4, <1>5, <1>6 DEF ServerNext, MainStep, PoolStep, ServerThreads

(* The bytes of a client: unread, or read once and kept once.              *)
LEMMA OncePerByte == ASSUME Control, BytesInv PROVE BytesOnce
<1> SUFFICES ASSUME NEW c \in Clients, NEW n \in 1..sent[c]
             PROVE  Cardinality(Places(<<c, n>>)) <= 1
  BY DEF BytesOnce
<1> DEFINE x == <<c, n>>
<1>1. /\ sent[c] \in Nat /\ Taken(c) \in Nat /\ x # Junk
      /\ \A d \in Clients : inq[d] \in Seq(Byte) /\ Taken(d) \in Nat
      /\ \A t \in ServerThreads : buf[t] \in Seq(Byte)
  <2>1. /\ sent[c] \in Nat /\ \A d \in Clients : inq[d] \in Seq(Byte)
        /\ \A t \in ServerThreads : buf[t] \in Seq(Byte)
    BY DEF BytesInv, Streams, Control
  <2>2. \A d \in Clients : Taken(d) \in Nat
    BY ByteTypes DEF BytesInv
  <2>3. n \in Nat \ {0}
    BY <2>1
  <2>4. x[2] # Junk[2]
    BY <2>3 DEF Junk
  <2> QED
    BY <2>1, <2>2, <2>4
<1>2. ASSUME NEW d \in Clients, x \in Range(inq[d]) PROVE d = c /\ n > Taken(c)
  <2>1. PICK i \in 1..Len(inq[d]) : inq[d][i] = x
    BY <1>1, <1>2, RangeEquality
  <2>2. x = <<d, Taken(d) + i>>
    BY <2>1 DEF BytesInv, Streams
  <2> QED
    BY <1>1, <2>2
<1>3. ASSUME NEW t \in ServerThreads, x \in Range(buf[t])
      PROVE  n <= Taken(c) /\ \E i \in 1..Len(buf[t]) : buf[t][i] = x
  <2>1. PICK i \in 1..Len(buf[t]) : buf[t][i] = x
    BY <1>1, <1>3, RangeEquality
  <2>2. x[2] \in 1..Taken(x[1])
    BY <2>1 DEF BytesInv, ReadBefore
  <2> QED
    BY <1>1, <2>1, <2>2
<1>4. ASSUME NEW d \in Clients, NEW i \in 1..Len(out[d]), out[d][i] = x PROVE n <= Taken(c)
  <2>1. x[2] \in 1..Taken(x[1])
    BY <1>1, <1>4 DEF BytesInv, ReadBefore
  <2> QED
    BY <1>1, <2>1
<1> DEFINE unread == {<<"inq", d>> : d \in {e \in Clients : x \in Range(inq[e])}}
           held == {<<"buf", t>> : t \in {u \in ServerThreads : x \in Range(buf[u])}}
           Sent(d) == {<<"out", d, i>> : i \in {k \in 1..Len(out[d]) : out[d][k] = x}}
           replied == UNION {Sent(d) : d \in Clients}
<1>5. Places(x) = unread \cup held \cup replied
  BY DEF Places
<1>6. ASSUME NEW p \in unread, NEW q \in unread PROVE p = q
  BY <1>2
<1>7. ASSUME NEW p \in held, NEW q \in held PROVE p = q
  <2>1. PICK t \in ServerThreads : p = <<"buf", t>> /\ x \in Range(buf[t])
    OBVIOUS
  <2>2. PICK u \in ServerThreads : q = <<"buf", u>> /\ x \in Range(buf[u])
    OBVIOUS
  <2>3. PICK i \in 1..Len(buf[t]) : buf[t][i] = x
    BY <1>3, <2>1
  <2>4. PICK j \in 1..Len(buf[u]) : buf[u][j] = x
    BY <1>3, <2>2
  <2>5. t = u
    BY <2>3, <2>4 DEF BytesInv, Distinct, BufsApart
  <2> QED
    BY <2>1, <2>2, <2>5
<1>8. ASSUME NEW p \in replied, NEW q \in replied PROVE p = q
  <2>1. PICK d \in Clients : \E i \in 1..Len(out[d]) : p = <<"out", d, i>> /\ out[d][i] = x
    OBVIOUS
  <2>2. PICK i \in 1..Len(out[d]) : p = <<"out", d, i>> /\ out[d][i] = x
    BY <2>1
  <2>3. PICK e \in Clients : \E j \in 1..Len(out[e]) : q = <<"out", e, j>> /\ out[e][j] = x
    OBVIOUS
  <2>4. PICK j \in 1..Len(out[e]) : q = <<"out", e, j>> /\ out[e][j] = x
    BY <2>3
  <2>5. out[d][i] = out[e][j] /\ out[d][i] # Junk
    BY <1>1, <2>2, <2>4
  <2>6. d = e /\ i = j
    BY <2>5 DEF BytesInv, Distinct, OutsApart
  <2> QED
    BY <2>2, <2>4, <2>6
<1>9. unread # {} => held = {} /\ replied = {}
  <2> SUFFICES ASSUME unread # {} PROVE held = {} /\ replied = {}
    OBVIOUS
  <2>1. n > Taken(c)
    BY <1>2
  <2>2. ~(n <= Taken(c))
    BY <1>1, <2>1
  <2> QED
    BY <1>3, <1>4, <2>2
<1>10. held # {} => replied = {}
  <2> SUFFICES ASSUME NEW p \in held, NEW q \in replied PROVE FALSE
    OBVIOUS
  <2>1. PICK t \in ServerThreads : x \in Range(buf[t])
    OBVIOUS
  <2>2. PICK i \in 1..Len(buf[t]) : buf[t][i] = x
    BY <1>3, <2>1
  <2>3. PICK d \in Clients : \E j \in 1..Len(out[d]) : out[d][j] = x
    OBVIOUS
  <2>4. PICK j \in 1..Len(out[d]) : out[d][j] = x
    BY <2>3
  <2> QED
    BY <2>2, <2>4 DEF BytesInv, Distinct, BufsNotOut
<1> HIDE DEF unread, held, replied
<1>11. \A p, q \in Places(x) : p = q
  BY <1>5, <1>6, <1>7, <1>8, <1>9, <1>10
<1>12. CASE Places(x) = {}
  BY <1>12, FS_EmptySet
<1>13. CASE Places(x) # {}
  <2>1. PICK p : Places(x) = {p}
    BY <1>11, <1>13
  <2>2. Cardinality({p}) = 1
    BY FS_Singleton
  <2> QED
    BY <2>1, <2>2
<1> QED
  BY <1>12, <1>13
-----------------------------------------------------------------------------
(* What a step of client_job leaves of the reasons to note fd.             *)
LEMMA MovesNoted ==
  ASSUME PoolInv, Control, NEW t \in ServerThreads, at[t] \notin {"idle", "inc"},
         NEW place, NEW b, Moves(t, place, b), NEW fd \in Fds, Noted(fd),
         conn'[fd] = conn[fd], fd \in ready => fd \in ready', events' = events,
         at[t] = "recv" /\ Fd(t) = fd /\ OnlyOf(t, conn[fd]) =>
             place = "recv" /\ \A i \in 1..Len(b) : b[i][1] = conn[fd]
  PROVE  Noted(fd)'
<1>1. /\ at'[t] = place /\ buf'[t] = b
      /\ \A u \in ServerThreads \ {t} : at'[u] = at[u] /\ buf'[u] = buf[u]
  BY DEF Moves, Control
<1>2. waiting_jobs' = waiting_jobs
  BY DEF Moves, vars, Finish
<1>3. \A u \in ServerThreads \ {t} : Fd(u)' = Fd(u)
  <2>1. job \in [Workers -> FdJobs \cup {None}] /\ MainThread \notin Workers
    BY MainAssumption DEF Control
  <2>2. CASE place # "idle"
    BY <2>2 DEF Moves, vars, Fd
  <2>3. CASE place = "idle" /\ t = MainThread
    BY <2>3 DEF Moves, vars, Fd
  <2>4. CASE place = "idle" /\ t # MainThread
    BY <2>1, <2>4 DEF Moves, Finish, Fd, ServerThreads
  <2> QED
    BY <2>2, <2>3, <2>4
<1>4. CASE fd \in ready \cup events
  BY <1>4 DEF Noted
<1>5. CASE \E j \in Range(waiting_jobs) : j[1] = fd
  BY <1>2, <1>5 DEF Noted
<1>6. ASSUME NEW u \in ServerThreads, at[u] \in {"inc", "recv"}, Fd(u) = fd, OnlyOf(u, conn[fd])
      PROVE  Noted(fd)'
  <2>1. CASE u # t
    <3>1. at'[u] \in {"inc", "recv"} /\ Fd(u)' = fd
      BY <1>1, <1>3, <1>6, <2>1
    <3>2. \A i \in 1..Len(buf'[u]) : buf'[u][i][1] = conn'[fd]
      BY <1>1, <1>6, <2>1 DEF OnlyOf
    <3> QED
      BY <3>1, <3>2 DEF Noted, OnlyOf
  <2>2. CASE u = t
    <3>1. place = "recv" /\ \A i \in 1..Len(b) : b[i][1] = conn[fd]
      BY <1>6, <2>2
    <3>2. Fd(t)' = Fd(t)
      BY <3>1 DEF Moves, vars, Fd
    <3> QED
      BY <1>1, <1>6, <2>2, <3>1, <3>2 DEF Noted, OnlyOf
  <2> QED
    BY <2>1, <2>2
<1> QED
  BY <1>4, <1>5, <1>6 DEF Noted

(* There is something to read from fd, and it fits the buffer. *)
Unread(fd) == conn[fd] # NoClient /\ inq[conn[fd]] # <<>> /\ sent[conn[fd]] <= MAX_BUFFER

LEMMA JobStepEdges ==
  ASSUME PoolInv, Control, BytesInv, EdgesNoted, running, NEW t \in ServerThreads, JobStep(t)
  PROVE  EdgesNoted'
<1> SUFFICES ASSUME NEW fd \in Fds, Unread(fd)' PROVE Noted(fd)'
  BY DEF EdgesNoted, Unread
<1>1. at[t] \notin {"idle", "inc"} /\ Fd(t) \in Fds
  <2>1. at[t] \notin {"idle", "inc"}
    BY DEF JobStep, RecvBytes, RecvZero, RecvFails, Poll, SendEcho, ReadCurfds, CloseClient
  <2> QED
    BY <2>1, FdType
<1>2. Unread(fd) => Noted(fd)
  BY DEF EdgesNoted, Unread
<1>3. CASE RecvBytes(t)
  <2>1. PICK c \in Clients, n \in Nat, b \in Seq(Byte) : ReadsBytes(t, c, n, b)
    BY <1>3, RecvBytesReads DEF BytesInv
  <2>2. /\ UNCHANGED <<conn, ready, events, sent>> /\ n \in 1..Len(inq[c])
        /\ conn[Fd(t)] = c /\ Len(b) = Len(buf[t]) + n
        /\ Len(inq'[c]) = Len(inq[c]) - n /\ \A d \in Clients \ {c} : inq'[d] = inq[d]
        /\ \A i \in 1..Len(buf[t]) : b[i] = buf[t][i]
        /\ \A i \in 1..n : b[Len(buf[t]) + i] = <<c, Taken(c) + i>>
        /\ inq' \in [Clients -> Seq(Byte)]
    BY <2>1 DEF ReadsBytes, local
  <2>3. PICK d \in Clients : d = conn[fd] /\ inq'[d] # <<>> /\ sent[d] <= MAX_BUFFER
    BY <2>2 DEF Control, Unread
  <2>4. /\ Len(inq'[d]) \in Nat \ {0} /\ Len(inq[c]) \in Nat /\ Len(buf[t]) \in Nat /\ Taken(c) \in Nat
        /\ sent[c] \in Nat
    BY <2>2, <2>3, EmptySeq, ByteTypes DEF BytesInv, Streams
  <2>5. Noted(fd)
    <3>1. inq[d] # <<>>
      BY <2>2, <2>3, <2>4
    <3> QED
      BY <1>2, <2>2, <2>3, <3>1 DEF Unread
  <2>6. ASSUME Fd(t) = fd, OnlyOf(t, conn[fd]) PROVE Len(b) < MAX_BUFFER
    <3>1. d = c
      BY <2>2, <2>3, <2>6
    <3>2. Len(buf[t]) <= Taken(c)
      BY <2>2, <2>6 DEF BytesInv, Counted
    <3>3. Taken(c) = sent[c] - Len(inq[c])
      BY DEF Taken
    <3>4. n \in Nat /\ Len(inq'[c]) \in Nat \ {0} /\ sent[c] <= MAX_BUFFER
      BY <2>1, <2>3, <2>4, <3>1
    <3>5. Len(b) + Len(inq'[c]) <= sent[c]
      <4>1. Len(b) = Len(buf[t]) + n /\ Len(inq'[c]) = Len(inq[c]) - n
        BY <2>2
      <4>2. Len(inq[c]) \in Nat /\ Len(buf[t]) \in Nat /\ sent[c] \in Nat /\ Taken(c) \in Nat
        BY <2>4
      <4>3. \A k, q, l, m \in Nat, v, r \in Int :
              l = k + n /\ v = q - n /\ k <= r /\ r = m - q => l + v <= m
        BY <3>4
      <4>4. Len(b) \in Nat /\ Len(inq'[c]) \in Int /\ Taken(c) \in Int
        BY <2>1, <3>4, <4>2
      <4> QED
        BY <3>2, <3>3, <4>1, <4>2, <4>3, <4>4
    <3>6. Len(b) \in Nat
      BY <2>1
    <3> QED
      BY <2>4, <3>4, <3>5, <3>6, MaxBufferAssumption
  <2>7. ASSUME OnlyOf(t, conn[fd]), conn[fd] = c, NEW i \in 1..Len(b) PROVE b[i][1] = c
    <3>1. CASE i \in 1..Len(buf[t])
      BY <2>2, <2>7, <3>1 DEF OnlyOf
    <3>2. CASE i \notin 1..Len(buf[t])
      <4>1. i - Len(buf[t]) \in 1..n /\ i = Len(buf[t]) + (i - Len(buf[t]))
        BY <2>2, <2>4, <3>2
      <4>2. b[i] = <<c, Taken(c) + (i - Len(buf[t]))>>
        BY <2>2, <4>1
      <4> QED
        BY <4>2
    <3> QED
      BY <3>1, <3>2
  <2>8. CASE Len(b) < MAX_BUFFER
    <3>1. Moves(t, "recv", b)
      BY <2>1, <2>8 DEF ReadsBytes
    <3>2. Fd(t) = fd /\ OnlyOf(t, conn[fd]) => \A i \in 1..Len(b) : b[i][1] = conn[fd]
      BY <2>2, <2>7
    <3> QED
      BY <1>1, <2>2, <2>5, <3>1, <3>2, MovesNoted
  <2>9. CASE ~(Len(b) < MAX_BUFFER)
    <3>1. Moves(t, "send", b) \/ Moves(t, "dec", b) \/ Moves(t, "idle", <<>>)
      BY <2>1, <2>9 DEF ReadsBytes
    <3> QED
      BY <1>1, <2>2, <2>5, <2>6, <2>9, <3>1, MovesNoted
  <2> QED
    BY <2>8, <2>9
(* In every other step but close the sockets stay, and the thread is not   *)
(* a reason to note fd, or fd is empty.                                    *)
<1>4. ASSUME UNCHANGED <<conn, inq, sent, ready, events>>,
             at[t] = "recv" => conn[Fd(t)] = NoClient \/ inq[conn[Fd(t)]] = <<>>,
             NEW place, NEW b, Moves(t, place, b)
      PROVE  Noted(fd)'
  <2>1. Unread(fd)
    BY <1>4 DEF Unread
  <2>2. ~(at[t] = "recv" /\ Fd(t) = fd)
    BY <1>4, <2>1 DEF Unread
  <2> QED
    BY <1>1, <1>2, <1>4, <2>1, <2>2, MovesNoted
<1>5. CASE RecvZero(t) \/ RecvFails(t) \/ Poll(t)
  <2>1. /\ UNCHANGED <<conn, inq, sent, ready, events>>
        /\ \/ Continue(t, "recv", buf[t]) \/ Continue(t, "poll", buf[t])
           \/ AfterRecv(t, buf[t], TRUE) \/ AfterRecv(t, buf[t], FALSE)
    BY <1>5 DEF RecvZero, RecvFails, Poll, sockets, net, local
  <2>2. \/ Moves(t, "recv", buf[t]) \/ Moves(t, "poll", buf[t])
        \/ Moves(t, "send", buf[t]) \/ Moves(t, "dec", buf[t]) \/ Moves(t, "idle", <<>>)
    BY <2>1, ContinueMoves, AfterRecvMoves
  <2>3. at[t] = "recv" => conn[Fd(t)] = NoClient \/ inq[conn[Fd(t)]] = <<>>
    BY <1>5 DEF RecvZero, RecvFails, Poll, StreamEnd, StreamError, Readable, Peer
  <2> QED
    BY <1>4, <2>1, <2>2, <2>3
<1>6. CASE SendEcho(t)
  <2>1. /\ at[t] = "send" /\ Moves(t, "idle", <<>>)
        /\ UNCHANGED <<conn, inq, sent, ready, events>>
    BY <1>6, EndMoves DEF SendEcho, local
  <2> QED
    BY <1>4, <2>1
<1>7. CASE ReadCurfds(t)
  <2>1. /\ at[t] = "dec" /\ Moves(t, "close", buf[t])
        /\ UNCHANGED <<conn, inq, sent, ready, events>>
    BY <1>7, ContinueMoves DEF ReadCurfds, sockets, net
  <2> QED
    BY <1>4, <2>1
<1>8. CASE CloseClient(t)
  <2>1. /\ at[t] = "close" /\ Moves(t, "idle", <<>>)
        /\ conn' = [conn EXCEPT ![Fd(t)] = NoClient] /\ ready' = ready \ {Fd(t)}
        /\ UNCHANGED <<inq, sent, events>>
    BY <1>8, EndMoves DEF CloseClient, net
  <2>2. fd # Fd(t) /\ conn'[fd] = conn[fd]
    BY <1>1, <2>1 DEF Unread, Control
  <2>3. Unread(fd)
    BY <2>1, <2>2 DEF Unread
  <2> QED
    BY <1>1, <1>2, <2>1, <2>2, <2>3, MovesNoted
<1> QED
  BY <1>3, <1>5, <1>6, <1>7, <1>8 DEF JobStep

(* A reason to note fd is kept when it is not touched.                     *)
LEMMA NotedStays ==
  ASSUME NEW fd \in Fds, Noted(fd), conn'[fd] = conn[fd],
         fd \in ready \cup events => Noted(fd)',
         \A j \in Range(waiting_jobs) : j[1] = fd => Noted(fd)',
         \A t \in ServerThreads : at[t] \in {"inc", "recv"} /\ Fd(t) = fd =>
             (at'[t] \in {"inc", "recv"} /\ Fd(t)' = fd /\ buf'[t] = buf[t]) \/ Noted(fd)'
  PROVE  Noted(fd)'
<1>1. ASSUME NEW t \in ServerThreads, at[t] \in {"inc", "recv"}, Fd(t) = fd, OnlyOf(t, conn[fd]),
             at'[t] \in {"inc", "recv"}, Fd(t)' = fd, buf'[t] = buf[t]
      PROVE  Noted(fd)'
  <2>1. \A i \in 1..Len(buf'[t]) : buf'[t][i][1] = conn'[fd]
    BY <1>1 DEF OnlyOf
  <2> QED
    BY <1>1, <2>1 DEF Noted, OnlyOf
<1> QED
  BY <1>1 DEF Noted

(* The head of a list and its tail are all of it.                          *)
LEMMA HeadOrTail ==
  ASSUME NEW S, NEW q \in Seq(S), q # <<>>, NEW j \in Range(q)
  PROVE  j = Head(q) \/ j \in Range(Tail(q))
<1>1. PICK i \in 1..Len(q) : q[i] = j
  BY RangeEquality
<1>2. /\ Len(q) \in Nat /\ Tail(q) \in Seq(S) /\ Len(Tail(q)) = Len(q) - 1 /\ Head(q) = q[1]
      /\ \A k \in 1..(Len(q) - 1) : Tail(q)[k] = q[k + 1]
  OBVIOUS
<1>3. CASE i = 1
  BY <1>1, <1>2, <1>3
<1>4. CASE i # 1
  <2>1. i - 1 \in 1..Len(Tail(q)) /\ i - 1 \in 1..(Len(q) - 1) /\ (i - 1) + 1 = i
    BY <1>2, <1>4
  <2>2. Tail(q)[i - 1] = j
    BY <1>1, <1>2, <2>1
  <2> QED
    BY <1>2, <2>1, <2>2, RangeEquality
<1> QED
  BY <1>3, <1>4

(* Every step of the server keeps a reason to read what can be read.       *)
LEMMA ServerEdges ==
  ASSUME PoolInv, Control, BytesInv, EdgesNoted, [ServerNext]_allvars
  PROVE  EdgesNoted'
<1> USE MainAssumption
<1>1. MainThread \in ServerThreads /\ Workers \subseteq ServerThreads
  BY DEF ServerThreads
<1>2. CASE UNCHANGED allvars
  BY <1>2 DEF allvars, vars, sockets, net, server, EdgesNoted, Noted, OnlyOf, Fd
<1> SUFFICES ASSUME ServerNext PROVE EdgesNoted'
  BY <1>2
<1>3. running /\ \A fd \in Fds : Unread(fd) => Noted(fd)
  BY DEF ServerNext, EdgesNoted, Unread
<1>4. ASSUME NEW t \in ServerThreads, JobStep(t) PROVE EdgesNoted'
  BY <1>3, <1>4, JobStepEdges
<1>5. CASE EpollFails \/ AcceptFails
  BY <1>5 DEF EpollFails, AcceptFails, EdgesNoted
<1>6. ASSUME \A fd \in Fds : Unread(fd)' => Noted(fd)' PROVE EdgesNoted'
  BY <1>6 DEF EdgesNoted, Unread
<1>7. ASSUME NEW g \in Fds, AddClientJob(g) PROVE EdgesNoted'
  <2>1. PICK k \in 1..JobsPerFd : AddJob(<<g, k>>)
    BY <1>7 DEF AddClientJob
  <2>2. /\ waiting_jobs' = <<(<<g, k>>)>> \o waiting_jobs /\ events' = events \ {g}
        /\ UNCHANGED <<job, at, buf, serving, ready, conn, inq, sent>>
    BY <1>7, <2>1 DEF AddClientJob, AddJob, sockets, net
  <2>3. Range(waiting_jobs') = Range(waiting_jobs) \cup {<<g, k>>}
    <3>1. <<g, k>> \in Jobs
      BY FdJobsAssumption DEF FdJobs
    <3> QED
      BY <2>1, <2>2, <3>1, LinkHead DEF AddJob, Live, PoolInv, TypeOK, RunOnce
  <2> SUFFICES ASSUME NEW fd \in Fds, Unread(fd)' PROVE Noted(fd)'
    BY <1>6
  <2>4. Noted(fd)
    BY <1>3, <2>2 DEF Unread
  <2>5. fd \in ready \cup events => Noted(fd)'
    <3>1. CASE fd = g
      <4>1. <<g, k>>[1] = fd /\ <<g, k>> \in Range(waiting_jobs')
        BY <2>3, <3>1
      <4> QED
        BY <4>1 DEF Noted
    <3>2. CASE fd # g
      BY <2>2, <3>2 DEF Noted
    <3> QED
      BY <3>1, <3>2
  <2>6. \A j \in Range(waiting_jobs) : j[1] = fd => Noted(fd)'
    BY <2>3 DEF Noted
  <2>7. \A t \in ServerThreads : Fd(t)' = Fd(t)
    BY <2>2 DEF Fd
  <2> QED
    BY <2>2, <2>4, <2>5, <2>6, <2>7, NotedStays
<1>8. ASSUME NEW w \in Workers, TakeJob(w) PROVE EdgesNoted'
  <2>1. /\ pc[w] = "loop" /\ waiting_jobs # <<>>
        /\ job' = [job EXCEPT ![w] = Head(waiting_jobs)] /\ waiting_jobs' = Tail(waiting_jobs)
        /\ at' = [at EXCEPT ![w] = "recv"]
        /\ UNCHANGED <<buf, serving, ready, events, conn, inq, sent>>
    BY <1>8 DEF TakeJob, Take, CanLock, Goto, sockets, net
  <2>2. /\ at[w] = "idle" /\ at'[w] = "recv" /\ buf'[w] = <<>> /\ w # MainThread
        /\ \A u \in ServerThreads \ {w} : at'[u] = at[u]
    BY <1>1, <2>1 DEF Control
  <2>3. Fd(w)' = Head(waiting_jobs)[1] /\ \A u \in ServerThreads \ {w} : Fd(u)' = Fd(u)
    BY <2>1, <2>2 DEF Control, Fd, ServerThreads
  <2> SUFFICES ASSUME NEW fd \in Fds, Unread(fd)' PROVE Noted(fd)'
    BY <1>6
  <2>4. Noted(fd)
    BY <1>3, <2>1 DEF Unread
  <2>5. fd \in ready \cup events => Noted(fd)'
    BY <2>1 DEF Noted
  <2>6. \A j \in Range(waiting_jobs) : j[1] = fd => Noted(fd)'
    <3> SUFFICES ASSUME NEW j \in Range(waiting_jobs), j[1] = fd PROVE Noted(fd)'
      OBVIOUS
    <3>1. CASE j = Head(waiting_jobs)
      <4>1. Fd(w)' = fd
        BY <2>3, <3>1
      <4>2. 1..Len(buf'[w]) = {}
        BY <2>2, EmptySeq
      <4> QED
        BY <1>1, <2>2, <4>1, <4>2 DEF Noted, OnlyOf
    <3>2. CASE j \in Range(waiting_jobs')
      BY <3>2 DEF Noted
    <3>3. waiting_jobs \in Seq(FdJobs)
      BY DEF Control
    <3> QED
      BY <2>1, <3>1, <3>2, <3>3, HeadOrTail
  <2>7. \A t \in ServerThreads : at[t] \in {"inc", "recv"} /\ Fd(t) = fd =>
          (at'[t] \in {"inc", "recv"} /\ Fd(t)' = fd /\ buf'[t] = buf[t]) \/ Noted(fd)'
    BY <2>1, <2>2, <2>3
  <2>8. conn'[fd] = conn[fd]
    BY <2>1
  <2> QED
    BY <2>4, <2>5, <2>6, <2>7, <2>8, NotedStays
<1>9. ASSUME NEW w \in Workers, WorkerWait(w) PROVE EdgesNoted'
  <2>1. UNCHANGED <<waiting_jobs, job, at, buf, serving, ready, events, conn, inq, sent>>
    BY <1>9 DEF WorkerWait, Wait, sockets, net, server
  <2> SUFFICES ASSUME NEW fd \in Fds, Unread(fd)' PROVE Noted(fd)'
    BY <1>6
  <2>2. Noted(fd)
    BY <1>3, <2>1 DEF Unread
  <2> QED
    BY <2>1, <2>2 DEF Noted, OnlyOf, Fd
<1>10. CASE EpollWait
  <2>1. /\ ready \cup events \subseteq ready' \cup events'
        /\ UNCHANGED <<waiting_jobs, job, at, buf, serving, conn, inq, sent>>
    BY <1>10 DEF EpollWait, vars, sockets, net
  <2> SUFFICES ASSUME NEW fd \in Fds, Unread(fd)' PROVE Noted(fd)'
    BY <1>6
  <2>2. Noted(fd)
    BY <1>3, <2>1 DEF Unread
  <2> QED
    BY <2>1, <2>2 DEF Noted, OnlyOf, Fd
<1>11. CASE AcceptClient
  <2>1. /\ at[MainThread] = "idle" /\ FreeFds # {} /\ events' = events \ {Listener}
        /\ conn' = [conn EXCEPT ![ClientFd] = Head(backlog)]
        /\ serving' = ClientFd /\ at' = [at EXCEPT ![MainThread] = "inc"]
        /\ UNCHANGED <<waiting_jobs, job, buf, ready, inq, sent>>
    BY <1>11 DEF AcceptClient, Accept, Goto, vars, net
  <2>2. /\ at'[MainThread] = "inc" /\ buf'[MainThread] = <<>> /\ ClientFd \in Fds
        /\ \A u \in ServerThreads \ {MainThread} : at'[u] = at[u]
        /\ \A fd \in Fds \ {ClientFd} : conn'[fd] = conn[fd]
    BY <1>1, <2>1, LowestFd DEF Control, FreeFds
  <2>3. Fd(MainThread)' = ClientFd /\ \A u \in ServerThreads \ {MainThread} : Fd(u)' = Fd(u)
    BY <2>1 DEF Fd
  <2> SUFFICES ASSUME NEW fd \in Fds, Unread(fd)' PROVE Noted(fd)'
    BY <1>6
  <2>4. CASE fd = ClientFd
    <3>1. 1..Len(buf'[MainThread]) = {}
      BY <2>2, EmptySeq
    <3> QED
      BY <1>1, <2>2, <2>3, <2>4, <3>1 DEF Noted, OnlyOf
  <2>5. CASE fd # ClientFd
    <3>1. Noted(fd)
      BY <1>3, <2>1, <2>2, <2>5 DEF Unread
    <3>2. fd \in ready \cup events => Noted(fd)'
      BY <2>1, NamesAssumption DEF Noted
    <3>3. \A j \in Range(waiting_jobs) : j[1] = fd => Noted(fd)'
      BY <2>1 DEF Noted
    <3> QED
      BY <2>1, <2>2, <2>3, <2>5, <3>1, <3>2, <3>3, NotedStays
  <2> QED
    BY <2>4, <2>5
<1>12. CASE Register
  <2>1. /\ at[MainThread] = "inc" /\ at' = [at EXCEPT ![MainThread] = "idle"]
        /\ ready' = IF conn[serving] = NoClient THEN ready ELSE ready \cup {serving}
        /\ UNCHANGED <<waiting_jobs, job, buf, conn, events, inq, sent>>
    BY <1>12 DEF Register, Goto, vars, sockets, net
  <2>2. \A u \in ServerThreads \ {MainThread} : at'[u] = at[u] /\ Fd(u)' = Fd(u)
    BY <2>1 DEF Control, Fd
  <2> SUFFICES ASSUME NEW fd \in Fds, Unread(fd)' PROVE Noted(fd)'
    BY <1>6
  <2>3. Noted(fd) /\ conn[fd] # NoClient
    BY <1>3, <2>1 DEF Unread
  <2>4. fd \in ready \cup events => Noted(fd)'
    BY <2>1 DEF Noted
  <2>5. \A j \in Range(waiting_jobs) : j[1] = fd => Noted(fd)'
    BY <2>1 DEF Noted
  <2>6. Fd(MainThread) = fd => Noted(fd)'
    BY <2>1, <2>3 DEF Noted, Fd
  <2> QED
    BY <2>1, <2>2, <2>3, <2>4, <2>5, <2>6, NotedStays
<1>13. ASSUME NEW g \in Fds, ServeInline(g) PROVE EdgesNoted'
  <2>1. /\ at[MainThread] = "idle" /\ at' = [at EXCEPT ![MainThread] = "recv"] /\ serving' = g
        /\ events' = events \ {g}
        /\ UNCHANGED <<waiting_jobs, job, buf, conn, ready, inq, sent>>
    BY <1>13 DEF ServeInline, Goto, vars, sockets, net
  <2>2. /\ at'[MainThread] = "recv" /\ buf'[MainThread] = <<>> /\ Fd(MainThread)' = g
        /\ \A u \in ServerThreads \ {MainThread} : at'[u] = at[u] /\ Fd(u)' = Fd(u)
    BY <1>1, <2>1 DEF Control, Fd
  <2> SUFFICES ASSUME NEW fd \in Fds, Unread(fd)' PROVE Noted(fd)'
    BY <1>6
  <2>3. Noted(fd)
    BY <1>3, <2>1 DEF Unread
  <2>4. fd \in ready \cup events => Noted(fd)'
    <3>1. CASE fd = g
      <4>1. 1..Len(buf'[MainThread]) = {}
        BY <2>2, EmptySeq
      <4> QED
        BY <1>1, <2>2, <3>1, <4>1 DEF Noted, OnlyOf
    <3>2. CASE fd # g
      BY <2>1, <3>2 DEF Noted
    <3> QED
      BY <3>1, <3>2
  <2>5. \A j \in Range(waiting_jobs) : j[1] = fd => Noted(fd)'
    BY <2>1 DEF Noted
  <2> QED
    BY <2>1, <2>2, <2>3, <2>4, <2>5, NotedStays
<1>14. ASSUME NEW c \in Clients, Client(c) PROVE EdgesNoted'
  <2>1. UNCHANGED <<waiting_jobs, job, at, buf, serving, events, conn>> /\ ready \subseteq ready'
    BY <1>14 DEF Client, Connect, Send, Shutdown, Reset, Edge, vars
  <2> SUFFICES ASSUME NEW fd \in Fds, Unread(fd)' PROVE Noted(fd)'
    BY <1>6
  <2>2. CASE Noted(fd)
    BY <2>1, <2>2 DEF Noted, OnlyOf, Fd
  <2>3. CASE ~Noted(fd)
    <3>1. ~Unread(fd)
      BY <1>3, <2>3
    <3>2. Send(c) /\ Edge(c) /\ conn[fd] = c
      <4>1. CASE Connect(c) \/ Shutdown(c) \/ Reset(c)
        BY <2>1, <3>1, <4>1 DEF Connect, Shutdown, Reset, Unread
      <4>2. CASE Send(c) /\ Edge(c)
        <5>1. sent' = [sent EXCEPT ![c] = @ + 1] /\ inq' = [inq EXCEPT ![c] = Append(@, <<c, sent[c] + 1>>)]
          BY <4>2 DEF Send
        <5>2. \A d \in Clients \ {c} : sent'[d] = sent[d] /\ inq'[d] = inq[d]
          BY <5>1 DEF BytesInv, Streams
        <5>3. conn[fd] \in Clients
          BY <2>1 DEF Control, Unread
        <5> QED
          BY <2>1, <3>1, <4>2, <5>2, <5>3 DEF Unread
      <4> QED
        BY <1>14, <4>1, <4>2 DEF Client
    <3>3. CASE serving = fd /\ at[MainThread] = "inc"
      <4>1. buf'[MainThread] = <<>> /\ at'[MainThread] = "inc" /\ Fd(MainThread)' = fd
        BY <1>1, <2>1, <3>3 DEF Control, Fd
      <4>2. 1..Len(buf'[MainThread]) = {}
        BY <4>1, EmptySeq
      <4> QED
        BY <1>1, <4>1, <4>2 DEF Noted, OnlyOf
    <3>4. CASE ~(serving = fd /\ at[MainThread] = "inc")
      BY <3>2, <3>4 DEF Edge, Noted
    <3> QED
      BY <3>3, <3>4
  <2> QED
    BY <2>2, <2>3
<1> QED
  BY <1>1, <1>4, <1>5, <1>7, <1>8, <1>9, <1>10, <1>11, <1>12, <1>13, <1>14
     DEF ServerNext, MainStep, PoolStep
-----------------------------------------------------------------------------
(* At the start nobody is connected and nothing has been sent.             *)
LEMMA InitServerInv == ServerInit => ServerInv
<1> SUFFICES ASSUME ServerInit PROVE ServerInv
  OBVIOUS
<1> USE DEF ServerInit, SocketsInit
<1>1. PoolInv
  BY InitPoolInv
<1>2. Len(<<>>) = 0 /\ 1..0 = {} /\ <<>> \in Seq(FdJobs) /\ <<>> \in Seq(Byte)
      /\ <<>> \in Seq(Clients) /\ <<>> \in Seq(Byte \cup {Junk})
  OBVIOUS
<1>3. Control
  BY <1>2, MaxBufferAssumption DEF Control, Init, Spots, ServerThreads
<1>4. BytesInv
  <2>1. Streams
    BY <1>2 DEF Streams, Taken
  <2>2. ReadBefore /\ Distinct
    BY <1>2 DEF ReadBefore, Distinct, BufsApart, OutsApart, BufsNotOut
  <2>3. Counted
    BY <1>2 DEF Counted, Taken
  <2> QED
    BY <2>1, <2>2, <2>3 DEF BytesInv
<1>5. EdgesNoted
  BY DEF EdgesNoted
<1> QED
  BY <1>1, <1>3, <1>4, <1>5 DEF ServerInv

LEMMA NextServerInv == ServerInv /\ [ServerNext]_allvars => ServerInv'
<1> SUFFICES ASSUME ServerInv, [ServerNext]_allvars PROVE ServerInv'
  OBVIOUS
<1>1. PoolInv /\ Control /\ BytesInv /\ EdgesNoted
  BY DEF ServerInv
<1>2. PoolInv'
  BY <1>1, NextPoolInv, ServerStepPool
<1>3. Control'
  BY <1>1, ServerControl DEF BytesInv
<1>4. BytesInv' /\ EdgesNoted'
  BY <1>1, ServerBytes, ServerEdges
<1> QED
  BY <1>2, <1>3, <1>4 DEF ServerInv

LEMMA ServerInvariance == ServerSpec => []ServerInv
BY InitServerInv, NextServerInv, PTL DEF ServerSpec

(* client_job and client_data_process never lose or repeat a byte they     *)
(* read, whichever threads read from one descriptor and whether or not it  *)
(* is closed and reused under them: every byte a client has sent is at     *)
(* most once unread, in one buffer, or in one reply.                       *)
THEOREM BytesOnceHolds == ServerSpec => []BytesOnce
<1>1. ServerInv => BytesOnce
  BY OncePerByte DEF ServerInv
<1> QED
  BY <1>1, ServerInvariance, PTL

(* main's edge-triggered loop loses no edge: bytes that fit the buffer and *)
(* that nobody has read are always behind an event, a job, or a thread     *)
(* that is going to read.                                                  *)
THEOREM EdgesKept == ServerSpec => []NoLostEdge
<1>1. ServerInv => NoLostEdge
  BY DEF ServerInv, EdgesNoted, Noted, NoLostEdge
<1> QED
  BY <1>1, ServerInvariance, PTL
=============================================================================
