------------------------------ MODULE Dijkstra ------------------------------
(***************************************************************************)
(* mycode/algorithm/Dijkstra.cpp: shortest paths from start, with a heap   *)
(* that may hold outdated entries.  One turn of the while loop is a step.  *)
(* A distance only ever gets smaller, so no pair is put in the heap twice  *)
(* and the heap is a set.  INT32_MAX is the constant Infinity; weights are *)
(* not negative and no sum overflows, as the algorithm requires.  There is *)
(* at most one edge from a vertex to another.                              *)
(***************************************************************************)
EXTENDS Integers, Sequences, SequencesExt

CONSTANTS
    Vertices, start,
    Graphs,       \* the inputs: g[u][v] is the weight of the edge from u to v
    NoEdge,       \* g[u][v] when there is none
    Infinity,
    MaxPath       \* bound: the paths that distances are compared with

ASSUME VerticesAssumption == Vertices \subseteq Nat /\ start \in Vertices
ASSUME GraphsAssumption ==
    /\ NoEdge \notin Nat
    /\ Graphs \subseteq [Vertices -> [Vertices -> Nat \cup {NoEdge}]]
ASSUME InfinityAssumption == Infinity \in Nat \ {0}
ASSUME MaxPathAssumption == MaxPath \in Nat

NoVertex == -1

VARIABLES graph, dist, pre, minHeap

dijkstravars == <<graph, dist, pre, minHeap>>

DijkstraInit ==
    /\ graph \in Graphs
    /\ dist = [v \in Vertices |-> IF v = start THEN 0 ELSE Infinity]
    /\ pre = [v \in Vertices |-> NoVertex]
    /\ minHeap = {<<0, start>>}

(* Mutant: any entry of the heap is taken. *)
IsTopAny(e) == TRUE

(* The top of the heap: least distance, then least vertex. *)
IsTop(e) == \A f \in minHeap : e[1] < f[1] \/ (e[1] = f[1] /\ e[2] <= f[2])

(* An entry that was overtaken by a shorter distance is dropped. *)
Skip(e) ==
    /\ e \in minHeap /\ IsTop(e) /\ e[1] > dist[e[2]]
    /\ minHeap' = minHeap \ {e}
    /\ UNCHANGED <<graph, dist, pre>>

(* Mutant: a vertex that has a distance keeps it. *)
ImprovesUnreached(u, v) == graph[u][v] # NoEdge /\ dist[v] = Infinity

Improves(u, v) == graph[u][v] # NoEdge /\ dist[v] > dist[u] + graph[u][v]

(* An entry that is up to date: relax the edges of its vertex. *)
Relax(e) ==
    LET u == e[2]
        better == {v \in Vertices : Improves(u, v)}
    IN  /\ e \in minHeap /\ IsTop(e) /\ e[1] <= dist[u]
        /\ dist' = [v \in Vertices |-> IF v \in better THEN dist[u] + graph[u][v] ELSE dist[v]]
        /\ pre' = [v \in Vertices |-> IF v \in better THEN u ELSE pre[v]]
        /\ minHeap' = (minHeap \ {e}) \cup {<<dist[u] + graph[u][v], v>> : v \in better}
        /\ UNCHANGED graph

DijkstraNext == \E e \in minHeap : Skip(e) \/ Relax(e)

DijkstraSpec == DijkstraInit /\ [][DijkstraNext]_dijkstravars

(* getShortestPath: back from end along pre, no further than start, then   *)
(* reversed.                                                               *)
Backtrack[cur \in Vertices \cup {NoVertex}] ==
    IF cur = NoVertex THEN <<>>
    ELSE IF cur = start THEN <<cur>> ELSE <<cur>> \o Backtrack[pre[cur]]

getShortestPath(end) ==
    LET path == Backtrack[end] IN IF Last(path) # start THEN <<>> ELSE Reverse(path)
-----------------------------------------------------------------------------
(* Reached, and its entry has been taken from the heap. *)
Popped(v) == dist[v] # Infinity /\ <<dist[v], v>> \notin minHeap

(* The comment "取出当前距离起点最近的节点" (Dijkstra.cpp:29): a vertex    *)
(* whose up-to-date entry was taken keeps its distance and predecessor,    *)
(* whatever entries are relaxed later.                                     *)
FinalWhenPopped ==
    [][\A v \in Vertices : Popped(v) => dist'[v] = dist[v] /\ pre'[v] = pre[v]]_dijkstravars

(* Reference: a path along the edges, and its length. *)
IsPath(p) == \A i \in 1..(Len(p) - 1) : graph[p[i]][p[i + 1]] # NoEdge
Lengths(p) ==
    LET sum[i \in 1..Len(p)] == IF i = 1 THEN 0 ELSE sum[i - 1] + graph[p[i - 1]][p[i]] IN sum
Length(p) == Lengths(p)[Len(p)]
Paths(v) ==
    {p \in UNION {[1..n -> Vertices] : n \in 1..MaxPath} :
        p[1] = start /\ p[Len(p)] = v /\ IsPath(p)}

(* When the heap is empty, no path to a vertex is shorter than its dist,   *)
(* and getShortestPath returns a path of that length; for a vertex that no *)
(* path shorter than Infinity leads to, it returns none.                   *)
ShortestAtEnd ==
    minHeap = {} => \A v \in Vertices :
        LET path == getShortestPath(v) IN
        /\ \A p \in Paths(v) : dist[v] <= Length(p)
        /\ IF dist[v] = Infinity THEN path = <<>>
           ELSE /\ path \in Seq(Vertices) /\ path # <<>> /\ path[1] = start /\ path[Len(path)] = v
                /\ IsPath(path) /\ Length(path) = dist[v]
=============================================================================
