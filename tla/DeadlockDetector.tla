-------------------------- MODULE DeadlockDetector --------------------------
(***************************************************************************)
(* mycode/deadlock/deadlock.c: the pthread_mutex_lock and _unlock hooks    *)
(* that keep a wait-for graph, the thread that searches it for a cycle,    *)
(* and the sample threads.  lock_before, the real lock, lock_after, the    *)
(* real unlock and unlock_after are separate steps.  Nothing serialises    *)
(* the bodies of the hooks in the code (task_graph.mutex is never used);   *)
(* here each body is one step, as if it were.                              *)
(***************************************************************************)
EXTENDS CycleSearch, SequencesExt

CONSTANTS
    Threads,    \* thread numbers 1..n
    Locks,      \* mutex numbers 1..n
    Program     \* Program[t]: the lock (+r) and unlock (-r) calls of thread t

ASSUME ThreadsAssumption == Program \in Seq(Seq(Int)) /\ Threads = 1..Len(Program)
ASSUME LocksAssumption == Locks \subseteq Nat \ {0}
ASSUME CallsAssumption ==
    \A t \in Threads : \A i \in 1..Len(Program[t]) :
        Program[t][i] \in Locks \/ -Program[t][i] \in Locks

NoThread == 0
NoLock == 0
EmptySlot == [id |-> NoThread, lock_id |-> NoLock, degress |-> 0]

VARIABLES
    owner,      \* owner[r]: the thread that really has mutex r, or NoThread
    ip, stage,  \* each thread's next call, and how far it is in it
    locklist,   \* locklist[0..lockidx-1]; a slot beyond is as malloc left it
    list, edges,\* the vertices in order, and each one's adjacency list
    deadlock,   \* what the last check_dead_lock found
    ordered     \* does sleep(1) let every thread get its first lock first?

vars == <<owner, ip, stage, locklist, list, edges, deadlock, ordered>>

Init ==
    /\ owner = [r \in Locks |-> NoThread]
    /\ ip = [t \in Threads |-> 1]
    /\ stage = [t \in Threads |-> "before"]
    /\ locklist = <<>> /\ list = <<>>
    /\ edges = [t \in Threads |-> <<>>]
    /\ deadlock = FALSE
    /\ ordered \in BOOLEAN

Done(t) == ip[t] > Len(Program[t])
Call(t) == Program[t][ip[t]]
Lock(t) == IF Call(t) > 0 THEN Call(t) ELSE -Call(t)
Locking(t) == ~Done(t) /\ Call(t) > 0
Unlocking(t) == ~Done(t) /\ Call(t) < 0

NextCall(t) ==
    /\ ip' = [ip EXCEPT ![t] = @ + 1]
    /\ stage' = [stage EXCEPT ![t] = "before"]

(* search_lock: the first slot with this lock, 0 for none. *)
SearchLock(r) ==
    IF \E i \in 1..Len(locklist) : locklist[i].lock_id = r
      THEN CHOOSE i \in 1..Len(locklist) :
             locklist[i].lock_id = r /\ \A j \in 1..(i - 1) : locklist[j].lock_id # r
      ELSE 0

(* add_vertex, with its search_vertex. *)
AddVertex(l, t) == IF \E i \in 1..Len(l) : l[i] = t THEN l ELSE Append(l, t)

(* verify_edge starts at the vertex itself, so a self-edge always "exists". *)
VerifyEdge(from, to) == from = to \/ \E i \in 1..Len(edges[from]) : edges[from][i] = to

(* add_edge once the vertices are there: a new last entry.  remove_edge:   *)
(* the first such entry, if any.                                           *)
AddEdge(from, to) == [edges EXCEPT ![from] = Append(@, to)]
RemoveEdge(from, to) == [edges EXCEPT ![from] = RemoveFirst(@, to)]

(* The sample's sleep(1) between the first lock and the second, which the  *)
(* scheduler need not honour.                                              *)
Slept(t) == ordered /\ ip[t] = 2 => \A u \in Threads : ip[u] > 1

(* Mutant: the edge is added without the vertex it points to. *)
LockBeforeNoVertex(t) ==
    LET r == Lock(t)  idx == SearchLock(r) IN
    /\ Locking(t) /\ stage[t] = "before" /\ Slept(t)
    /\ stage' = [stage EXCEPT ![t] = "real"]
    /\ IF idx = 0 THEN UNCHANGED <<locklist, list, edges>>
       ELSE LET to == locklist[idx].id IN
            /\ list' = AddVertex(list, t)
            /\ locklist' = [locklist EXCEPT ![idx].degress = @ + 1]
            /\ edges' = IF VerifyEdge(t, to) THEN edges ELSE AddEdge(t, to)
    /\ UNCHANGED <<owner, ip, deadlock, ordered>>

(* lock_before: if the lock is listed, add the edge to its thread. *)
LockBefore(t) ==
    LET r == Lock(t)  idx == SearchLock(r) IN
    /\ Locking(t) /\ stage[t] = "before" /\ Slept(t)
    /\ stage' = [stage EXCEPT ![t] = "real"]
    /\ IF idx = 0 THEN UNCHANGED <<locklist, list, edges>>
       ELSE LET to == locklist[idx].id IN
            /\ list' = AddVertex(AddVertex(list, t), to)
            /\ locklist' = [locklist EXCEPT ![idx].degress = @ + 1]
            /\ edges' = IF VerifyEdge(t, to) THEN edges ELSE AddEdge(t, to)
    /\ UNCHANGED <<owner, ip, deadlock, ordered>>

RealLock(t) ==
    /\ Locking(t) /\ stage[t] = "real" /\ owner[Lock(t)] = NoThread
    /\ owner' = [owner EXCEPT ![Lock(t)] = t]
    /\ stage' = [stage EXCEPT ![t] = "after"]
    /\ UNCHANGED <<ip, locklist, list, edges, deadlock, ordered>>

(* search_empty_lock: the first slot without a lock, or the next new one. *)
SearchEmptyLock ==
    LET empty == {i \in 1..Len(locklist) : locklist[i].lock_id = NoLock}
    IN  IF empty = {} THEN Len(locklist) + 1 ELSE CHOOSE i \in empty : \A j \in empty : i <= j

(* That slot gets the lock, and lockidx grows by one even when the slot    *)
(* was a reused one.                                                       *)
ListLock(t, r) ==
    locklist' = [Append(locklist, EmptySlot) EXCEPT ![SearchEmptyLock].id = t, ![SearchEmptyLock].lock_id = r]

(* lock_after: list the lock, or take the slot over from its last holder. *)
LockAfter(t) ==
    LET r == Lock(t)  idx == SearchLock(r) IN
    /\ Locking(t) /\ stage[t] = "after"
    /\ IF idx = 0 THEN ListLock(t, r) /\ UNCHANGED <<list, edges>>
       ELSE LET to == locklist[idx].id IN
            /\ list' = AddVertex(AddVertex(list, t), to)
            /\ locklist' = [locklist EXCEPT ![idx].degress = @ - 1, ![idx].id = t]
            /\ edges' = RemoveEdge(t, to)
    /\ NextCall(t)
    /\ UNCHANGED <<owner, deadlock, ordered>>

RealUnlock(t) ==
    /\ Unlocking(t) /\ stage[t] = "before" /\ Slept(t)
    /\ owner' = [owner EXCEPT ![Lock(t)] = NoThread]
    /\ stage' = [stage EXCEPT ![t] = "after"]
    /\ UNCHANGED <<ip, locklist, list, edges, deadlock, ordered>>

(* unlock_after: forget the lock if nobody waits for it.  For a lock that  *)
(* is not listed, locklist[-1] overlays unused memory of list and num.     *)
UnlockAfter(t) ==
    LET idx == SearchLock(Lock(t)) IN
    /\ Unlocking(t) /\ stage[t] = "after"
    /\ locklist' = IF idx # 0 /\ locklist[idx].degress = 0
                     THEN [locklist EXCEPT ![idx].id = NoThread, ![idx].lock_id = NoLock]
                     ELSE locklist
    /\ NextCall(t)
    /\ UNCHANGED <<owner, list, edges, deadlock, ordered>>

(* The graph as search_vertex numbers it; a vertex that is not in the list *)
(* would be number -1, and is left out here.                               *)
VertexIndex(t) == CHOOSE i \in 1..Len(list) : list[i] = t
Graph == [i \in 1..Len(list) |->
            [e \in 1..Len(edges[list[i]]) |-> VertexIndex(edges[list[i]][e])]]

(* thread_routine: the search, at any time. *)
Check ==
    /\ deadlock' = CheckDeadLock(Graph)
    /\ UNCHANGED <<owner, ip, stage, locklist, list, edges, ordered>>

Step(t) == LockBefore(t) \/ RealLock(t) \/ LockAfter(t) \/ RealUnlock(t) \/ UnlockAfter(t)

Next == (\E t \in Threads : Step(t)) \/ Check

Spec == Init /\ [][Next]_vars

(* Every thread runs when it can, the checking thread every 5 seconds. *)
FairSpec == Spec /\ WF_vars(Check) /\ \A t \in Threads : WF_vars(Step(t))
-----------------------------------------------------------------------------
Blocked(t) == Locking(t) /\ stage[t] = "real" /\ owner[Lock(t)] # NoThread
HolderOf(t) == owner[Lock(t)]

(* The real thing: a set of threads each blocked on another of them. *)
RealDeadlock ==
    \E S \in (SUBSET Threads) \ {{}} : \A t \in S : Blocked(t) /\ HolderOf(t) \in S

(* DFS follows every edge to a vertex it knows: search_vertex never        *)
(* returns -1 there, for any interleaving of the hooks.                    *)
EdgesHaveVertices ==
    \A t \in Threads : \A e \in 1..Len(edges[t]) :
        t \in Range(list) /\ edges[t][e] \in Range(list)

(* A reported cycle is a real deadlock: the edges that lock_before adds    *)
(* before a thread blocks, and lock_after removes late, never close a      *)
(* cycle by themselves in the sample.                                      *)
NoFalseAlarm == deadlock => RealDeadlock

(* "if (lockaddr) { tid --> lockaddr.tid; }" (deadlock.c:288-290): a       *)
(* thread that blocks on a mutex has an edge to the thread that holds it.  *)
EdgeToHolder ==
    \A t \in Threads :
        (Blocked(t) /\ stage[HolderOf(t)] # "after") => HolderOf(t) \in Range(edges[t])
=============================================================================
