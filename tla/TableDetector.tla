---------------------------- MODULE TableDetector ----------------------------
(***************************************************************************)
(* mycode/deadlock/deadlock-default.c, the version of the detector that    *)
(* remembers the holders of mutexes in a table, beside deadlock.c.  Real   *)
(* mutexes, threads, vertices and adjacency lists are those of             *)
(* DeadlockDetector.  No hook of the file calls before_lock, after_lock    *)
(* and after_unlock: its pthread_mutex_lock and _unlock only print.  A     *)
(* behaviour is one of deadlock.c ("list"), of the file as it stands       *)
(* ("print"), or of its hooks with the three functions called where their  *)
(* names and comments place them ("table").  As in DeadlockDetector, the   *)
(* body of a hook is one step.                                             *)
(***************************************************************************)
EXTENDS DeadlockDetector

CONSTANT MAX    \* the rows of rela_table

(* In its first k - 1 calls, thread t has locked r and not unlocked it.    *)
LockedBefore(t, r, k) ==
    \E i \in 1..(k - 1) :
        Program[t][i] = r /\ \A j \in (i + 1)..(k - 1) : Program[t][j] # -r

(* A thread locks what it does not hold and unlocks what it holds, and     *)
(* there are rows for every mutex that a thread locks (100 in the code).   *)
Uses(t) == {r \in Locks : \E i \in 1..Len(Program[t]) : Program[t][i] = r}
ASSUME PairedAssumption ==
    \A t \in Threads : \A k \in 1..Len(Program[t]) :
        IF Program[t][k] > 0 THEN ~LockedBefore(t, Program[t][k], k)
        ELSE LockedBefore(t, -Program[t][k], k)
ASSUME RowsAssumption ==
    LET pairs == {p \in Threads \X Locks : p[2] \in Uses(p[1])}
    IN  MAX \in Nat /\ IsFiniteSet(pairs) /\ Cardinality(pairs) <= MAX

VARIABLES
    version,        \* "list", "print" or "table"
    rela_table,     \* rela_table[1..MAX]: a mutex and the thread that locked it, or NoRow
    created,        \* main has created threads 1..created ...
    entered         \* ... and pthread_create has entered 1..entered in the graph

tablevars == <<rela_table, created, entered>>
allvars == <<vars, tablevars, version>>

NoRow == [mtx |-> NoLock, thid |-> NoThread]

TableInit ==
    /\ Init /\ version \in {"list", "print", "table"}
    /\ rela_table = [i \in 1..MAX |-> NoRow]
    /\ created = 0 /\ entered = 0
-----------------------------------------------------------------------------
First(rows) == CHOOSE i \in rows : \A j \in rows : i <= j

(* search_rela_table: the thread of the first row with this mutex. *)
search_rela_table(r) ==
    LET rows == {i \in 1..MAX : rela_table[i].mtx = r}
    IN  IF rows = {} THEN NoThread ELSE rela_table[First(rows)].thid

(* Mutant: the row is found by its mutex alone. *)
del_rela_table_any(r, t) ==
    LET rows == {i \in 1..MAX : rela_table[i].mtx = r}
    IN  IF rows = {} THEN rela_table ELSE [rela_table EXCEPT ![First(rows)] = NoRow]

del_rela_table(r, t) ==
    LET rows == {i \in 1..MAX : rela_table[i] = [mtx |-> r, thid |-> t]}
    IN  IF rows = {} THEN rela_table ELSE [rela_table EXCEPT ![First(rows)] = NoRow]

add_rela_table(r, t) ==
    LET rows == {i \in 1..MAX : rela_table[i] = NoRow}
    IN  IF rows = {} THEN rela_table ELSE [rela_table EXCEPT ![First(rows)] = [mtx |-> r, thid |-> t]]

(* add_edge: both vertices, and one more entry, also if there is one. *)
add_vertices(from, to) == AddVertex(AddVertex(list, from), to)
add_edge(from, to) == [edges EXCEPT ![from] = Append(@, to)]

(* verify_edge and remove_edge: the first such entry, if any. *)
remove_edge(from, to) == [edges EXCEPT ![from] = RemoveFirst(@, to)]

(* before_lock: a holder in the table gets an edge from the caller. *)
before_lock(t, r) ==
    LET otherid == search_rela_table(r)
    IN  IF otherid = NoThread THEN UNCHANGED <<list, edges>>
        ELSE list' = add_vertices(t, otherid) /\ edges' = add_edge(t, otherid)

(* after_lock: drop the edge to the holder in the table, if the table has  *)
(* one still; enter the caller.                                            *)
after_lock(t, r) ==
    LET otherid == search_rela_table(r)
    IN  /\ edges' = IF otherid = NoThread THEN edges ELSE remove_edge(t, otherid)
        /\ rela_table' = add_rela_table(r, t)

after_unlock(t, r) == rela_table' = del_rela_table(r, t)
-----------------------------------------------------------------------------
(* main and its pthread_create: the thread starts, then gets its vertex.   *)
(* (The checking thread gets one as well, which never has an edge.)        *)
CreateThread ==
    /\ created = entered /\ created < Len(Program)
    /\ created' = created + 1
    /\ UNCHANGED <<vars, rela_table, entered>>

EnterVertex ==
    /\ entered < created
    /\ entered' = created
    /\ list' = AddVertex(list, created)
    /\ UNCHANGED <<owner, ip, stage, locklist, edges, deadlock, ordered, rela_table, created>>

(* The hook of pthread_mutex_lock before, at and after the real call. *)
LockHook(t) ==
    /\ t <= created /\ Locking(t) /\ stage[t] = "before" /\ Slept(t)
    /\ stage' = [stage EXCEPT ![t] = "real"]
    /\ IF version = "table" THEN before_lock(t, Lock(t)) ELSE UNCHANGED <<list, edges>>
    /\ UNCHANGED <<owner, ip, locklist, deadlock, ordered, tablevars>>

LockReal(t) == RealLock(t) /\ UNCHANGED tablevars

LockReturn(t) ==
    /\ Locking(t) /\ stage[t] = "after"
    /\ IF version = "table" THEN after_lock(t, Lock(t)) ELSE UNCHANGED <<edges, rela_table>>
    /\ NextCall(t)
    /\ UNCHANGED <<owner, list, locklist, deadlock, ordered, created, entered>>

(* The hook of pthread_mutex_unlock, at and after the real call. *)
UnlockReal(t) == RealUnlock(t) /\ UNCHANGED tablevars

UnlockReturn(t) ==
    /\ Unlocking(t) /\ stage[t] = "after"
    /\ IF version = "table" THEN after_unlock(t, Lock(t)) ELSE UNCHANGED rela_table
    /\ NextCall(t)
    /\ UNCHANGED <<owner, list, edges, locklist, deadlock, ordered, created, entered>>

(* DFS and search_for_cycle from every vertex. *)
SomeCycle == \E idx \in 1..Len(list) : SearchForCycle(Graph, idx)

(* thread_routine: once it runs, all of main's threads are there.  Unlike  *)
(* in deadlock.c, check_dead_lock never takes a report back.               *)
CheckTable ==
    /\ entered = Len(Program)
    /\ deadlock' = (deadlock \/ SomeCycle)
    /\ UNCHANGED <<owner, ip, stage, locklist, list, edges, ordered, tablevars>>

TableStep(t) == LockHook(t) \/ LockReal(t) \/ LockReturn(t) \/ UnlockReal(t) \/ UnlockReturn(t)
Main == CreateThread \/ EnterVertex

ThreadStep(t) ==
    /\ \/ version = "list" /\ Step(t) /\ UNCHANGED tablevars
       \/ version # "list" /\ TableStep(t)
    /\ UNCHANGED version
MainStep == version # "list" /\ Main /\ UNCHANGED version
CheckStep ==
    /\ \/ version = "list" /\ Check /\ UNCHANGED tablevars
       \/ version # "list" /\ CheckTable
    /\ UNCHANGED version

DetectorsNext == (\E t \in Threads : ThreadStep(t)) \/ MainStep \/ CheckStep

(* Every thread runs when it can, main and the checking thread too. *)
DetectorsSpec ==
    /\ TableInit /\ [][DetectorsNext]_allvars
    /\ WF_allvars(MainStep) /\ WF_allvars(CheckStep)
    /\ \A t \in Threads : WF_allvars(ThreadStep(t))
-----------------------------------------------------------------------------
(* t has run after_lock for r and not yet after_unlock. *)
Entered(t, r) == version = "table" /\ LockedBefore(t, r, ip[t])

(* The table has one row for each thread and mutex between after_lock and  *)
(* after_unlock, and no other; a second holder may enter a mutex before    *)
(* the first has left the table, and neither disturbs the other's row.     *)
RowsMatch ==
    \A r \in Locks, t \in Threads :
        LET rows == {i \in 1..MAX : rela_table[i] = [mtx |-> r, thid |-> t]}
        IN  IF Entered(t, r) THEN \E i \in rows : rows = {i} ELSE rows = {}

(* When sleep does what it is meant to, the sample deadlocks.  deadlock.c  *)
(* reports it for good, and so would the table; the file as it stands      *)
(* keeps a graph without edges and never reports anything.                 *)
Reported ==
    ordered => IF version = "print" THEN <>[](RealDeadlock /\ ~deadlock) ELSE <>[]deadlock
=============================================================================
