----------------------------- MODULE CycleSearch -----------------------------
(***************************************************************************)
(* The cycle search of mycode/deadlock/deadlock.c.  A graph is a sequence  *)
(* of adjacency lists: g[i] is the sequence of the vertices that vertex i  *)
(* points to, in list order.  path and k only serve the printout.          *)
(***************************************************************************)
EXTENDS Integers, Sequences, FiniteSets

(* Mutant: a vertex already visited is passed over in silence. *)
DFSBlind(g, first, visited) ==
    LET dfs[x \in Seq(1..Len(g)) \X SUBSET (1..Len(g))] ==
          LET todo == x[1]  seen == x[2] IN
          /\ todo # <<>>
          /\ IF Head(todo) \in seen THEN dfs[<<Tail(todo), seen>>]
             ELSE dfs[<<g[Head(todo)] \o Tail(todo), seen \cup {Head(todo)}>>]
    IN  dfs[<<<<first>>, visited>>]

(* DFS, with the vertices still to be looked at in the order the recursion *)
(* reaches them: is one met again?  visited is never cleared on the way    *)
(* back, so a second way to the same vertex counts as well as a cycle.     *)
DFS(g, first, visited) ==
    LET dfs[x \in Seq(1..Len(g)) \X SUBSET (1..Len(g))] ==
          LET todo == x[1]  seen == x[2] IN
          /\ todo # <<>>
          /\ \/ Head(todo) \in seen
             \/ dfs[<<g[Head(todo)] \o Tail(todo), seen \cup {Head(todo)}>>]
    IN  dfs[<<<<first>>, visited>>]

(* Mutant: the vertices searched before are still marked as visited. *)
SearchForCycleStale(g, idx) == \E e \in 1..Len(g[idx]) : DFS(g, g[idx][e], 1..idx)

(* search_for_cycle: a fresh DFS along every edge of idx, with only idx    *)
(* marked as visited.                                                      *)
SearchForCycle(g, idx) == \E e \in 1..Len(g[idx]) : DFS(g, g[idx][e], {idx})

(* check_dead_lock: stop at the first vertex whose search finds one. *)
CheckDeadLock(g) == \E idx \in 1..Len(g) : SearchForCycle(g, idx)
-----------------------------------------------------------------------------
(* Reference: some set of vertices in which every vertex has a successor. *)
HasCycle(g) ==
    \E S \in (SUBSET (1..Len(g))) \ {{}} : \A v \in S : \E e \in 1..Len(g[v]) : g[v][e] \in S

(* What check_dead_lock may answer: a cycle is never missed, and when each *)
(* thread that is waited for waits for one lock at most itself, what it    *)
(* reports is a cycle.  (Where it comes to a vertex with two edges, a      *)
(* second path to a vertex is reported too.)                               *)
RightAnswer(g, found) ==
    /\ HasCycle(g) => found
    /\ /\ found
       /\ \A v \in 1..Len(g) : \A e \in 1..Len(g[v]) : Len(g[g[v][e]]) <= 1
       => HasCycle(g)
=============================================================================
