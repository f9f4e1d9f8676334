--------------------------- MODULE AlgorithmProofs ---------------------------
(***************************************************************************)
(* Proofs about the algorithms.  Dijkstra.cpp: the paths it returns are    *)
(* shortest on every graph with weights that are not negative.  The        *)
(* deadlock detectors: their wait-for graphs and tables are well formed    *)
(* for every program of lock and unlock calls, and their cycle search      *)
(* answers right.  The string searches: they return the first occurrence.  *)
(***************************************************************************)
EXTENDS Dijkstra, TableDetector, StringMatch, FiniteSetTheorems, SequenceTheorems, WellFoundedInduction, TLAPS

(* A set of numbers that is not empty has a least one.                     *)
LEMMA Least ==
  ASSUME NEW S \in SUBSET Nat, S # {}
  PROVE  \E x \in S : \A y \in S : x <= y
<1>1. PICK x \in S : \A y \in S : ~(<<y, x>> \in OpToRel(<, Nat))
  BY NatLessThanWellFounded, WFMin
<1>2. ASSUME NEW y \in Nat, NEW z \in Nat, y < z PROVE <<y, z>> \in OpToRel(<, Nat)
  BY <1>2 DEF OpToRel
<1>3. \A y \in S : ~(y < x)
  BY <1>1, <1>2, Zenon
<1> QED
  BY <1>3

Types ==
    /\ graph \in [Vertices -> [Vertices -> Nat \cup {NoEdge}]]
    /\ dist \in [Vertices -> 0..Infinity]
    /\ pre \in [Vertices -> Vertices \cup {NoVertex}]
    /\ minHeap \subseteq Nat \X Vertices

(* An entry is never below the distance of its vertex, it is up to date or *)
(* outdated; and its vertex is reached.                                    *)
EntriesAbove == \A e \in minHeap : dist[e[2]] <= e[1] /\ e[1] < Infinity

(* The popped vertices are the nearest ones. *)
PoppedNearest == \A v \in Vertices : Popped(v) => \A e \in minHeap : dist[v] <= e[1]

(* No edge of a popped vertex improves anything any more. *)
PoppedRelaxed == \A u, v \in Vertices : Popped(u) => ~Improves(u, v)

(* A predecessor is a popped vertex whose edge explains the distance. *)
PreExplains ==
    \A v \in Vertices :
        IF pre[v] = NoVertex THEN dist[v] = (IF v = start THEN 0 ELSE Infinity)
        ELSE /\ Popped(pre[v]) /\ graph[pre[v]][v] # NoEdge
             /\ dist[v] = dist[pre[v]] + graph[pre[v]][v]

IInv == Types /\ EntriesAbove /\ PoppedNearest /\ PoppedRelaxed /\ PreExplains

(* A certificate of shortest paths: once the heap is empty, no edge out of *)
(* a reached vertex is shorter than the distances say, and each distance   *)
(* is that of the predecessor plus one edge.                               *)
Certificate ==
    minHeap = {} =>
        /\ \A u, v \in Vertices :
             (dist[u] # Infinity /\ graph[u][v] # NoEdge) => dist[v] <= dist[u] + graph[u][v]
        /\ \A v \in Vertices : (v # start /\ dist[v] # Infinity) =>
             /\ pre[v] # NoVertex /\ graph[pre[v]][v] # NoEdge
             /\ dist[v] = dist[pre[v]] + graph[pre[v]][v]

(* The invariant holds initially: nothing is popped but what is in the     *)
(* heap is the start.                                                      *)
LEMMA InitIInv == DijkstraInit => IInv
  <1> SUFFICES ASSUME DijkstraInit PROVE IInv
    OBVIOUS
  <1> USE VerticesAssumption, GraphsAssumption, InfinityAssumption
  <1>1. Types
    BY DEF DijkstraInit, Types, NoVertex
  <1>2. EntriesAbove
    BY DEF DijkstraInit, EntriesAbove
  <1>3. \A v \in Vertices : ~Popped(v)
    BY DEF DijkstraInit, Popped
  <1>4. PreExplains
    BY DEF DijkstraInit, PreExplains
  <1> QED
    BY <1>1, <1>2, <1>3, <1>4 DEF IInv, PoppedNearest, PoppedRelaxed

(* Dropping an outdated entry changes which vertices are popped for none.  *)
LEMMA SkipIInv == ASSUME IInv, NEW e \in minHeap, Skip(e) PROVE IInv'
  <1>1. minHeap' = minHeap \ {e} /\ graph' = graph /\ dist' = dist /\ pre' = pre
    BY DEF Skip
  <1>2. e[1] > dist[e[2]] /\ e[1] \in Nat /\ e[2] \in Vertices /\ dist[e[2]] \in 0..Infinity
    BY DEF Skip, IInv, Types
  <1>3. ASSUME NEW v \in Vertices PROVE <<dist[v], v>> # e
    BY <1>2
  <1>4. \A v \in Vertices : Popped(v)' <=> Popped(v)
    BY <1>1, <1>3 DEF Popped
  <1>5. Types'
    BY <1>1 DEF IInv, Types
  <1>6. EntriesAbove'
    BY <1>1 DEF IInv, EntriesAbove
  <1>7. PoppedNearest'
    BY <1>1, <1>4 DEF IInv, PoppedNearest
  <1>8. PoppedRelaxed'
    BY <1>1, <1>4 DEF IInv, PoppedRelaxed, Improves
  <1>9. PreExplains'
    BY <1>1, <1>4 DEF IInv, PreExplains, Types
  <1> QED
    BY <1>5, <1>6, <1>7, <1>8, <1>9 DEF IInv

(* An entry of the heap is a pair of a distance and a vertex. *)
LEMMA EntryShape ==
  ASSUME Types, NEW e \in minHeap
  PROVE  e[1] \in Nat /\ e[2] \in Vertices /\ e = <<e[1], e[2]>>
  <1>1. e \in Nat \X Vertices
    BY DEF Types
  <1> QED
    BY <1>1

(* A distance is a number, Infinity at most. *)
LEMMA DistShape ==
  ASSUME Types, NEW v \in Vertices
  PROVE  dist[v] \in Nat /\ dist[v] <= Infinity
  <1>1. dist[v] \in 0..Infinity
    BY DEF Types
  <1> QED
    BY <1>1, InfinityAssumption

(* An edge that is there has a weight. *)
LEMMA EdgeShape ==
  ASSUME Types, NEW u \in Vertices, NEW v \in Vertices, graph[u][v] # NoEdge
  PROVE  graph[u][v] \in Nat
  <1>1. graph[u] \in [Vertices -> Nat \cup {NoEdge}]
    BY DEF Types
  <1>2. graph[u][v] \in Nat \cup {NoEdge}
    BY <1>1
  <1> QED
    BY <1>2

(* An entry that is relaxed is the up-to-date one of its vertex. *)
LEMMA RelaxEntry ==
  ASSUME IInv, NEW e \in minHeap, Relax(e)
  PROVE  \E u \in Vertices : e[2] = u /\ e[1] = dist[u] /\ e = <<dist[u], u>> /\ dist[u] < Infinity
  <1>1. PICK u \in Vertices, d \in Nat : u = e[2] /\ d = e[1] /\ e = <<d, u>>
    BY EntryShape DEF IInv
  <1>2. d <= dist[u] /\ dist[u] <= d /\ d < Infinity
    BY <1>1 DEF Relax, IInv, EntriesAbove
  <1>3. dist[u] \in Nat
    BY DistShape DEF IInv
  <1>4. d = dist[u] /\ dist[u] < Infinity
    BY <1>2, <1>3, InfinityAssumption
  <1> QED
    BY <1>1, <1>4

(* One turn of the loop with an up-to-date entry improves no vertex that   *)
(* is popped by then.                                                      *)
LEMMA RelaxKeeps ==
  ASSUME IInv, NEW e \in minHeap, Relax(e), NEW u \in Vertices, e[2] = u, e[1] = dist[u],
         NEW v \in Vertices, Popped(v) \/ v = u
  PROVE  ~Improves(u, v)
  <1>1. dist[u] \in Nat /\ dist[v] \in Nat
    BY DistShape DEF IInv
  <1>2. dist[v] <= dist[u]
    BY <1>1 DEF IInv, PoppedNearest
  <1>3. CASE graph[u][v] = NoEdge
    BY <1>3 DEF Improves
  <1>4. CASE graph[u][v] # NoEdge
    <2>1. graph[u][v] \in Nat
      BY <1>4, EdgeShape DEF IInv
    <2> QED
      BY <2>1, <1>1, <1>2 DEF Improves
  <1> QED
    BY <1>3, <1>4

(* A vertex that is not improved keeps its distance and predecessor. *)
LEMMA RelaxSame ==
  ASSUME NEW e \in minHeap, Relax(e), NEW u \in Vertices, e[2] = u,
         NEW v \in Vertices, ~Improves(u, v)
  PROVE  dist'[v] = dist[v] /\ pre'[v] = pre[v]
  BY DEF Relax

(* One that is gets a shorter distance, not below that of the entry.       *)
LEMMA RelaxLowers ==
  ASSUME IInv, NEW e \in minHeap, Relax(e), NEW u \in Vertices, e[2] = u,
         NEW v \in Vertices, Improves(u, v)
  PROVE  /\ graph[u][v] \in Nat /\ graph[u][v] # NoEdge
         /\ dist'[v] = dist[u] + graph[u][v] /\ pre'[v] = u
         /\ dist'[v] \in Nat /\ dist[u] <= dist'[v] /\ dist'[v] < dist[v]
  <1>1. dist[u] \in Nat /\ dist[v] \in Nat
    BY DistShape DEF IInv
  <1>2. graph[u][v] # NoEdge /\ dist[v] > dist[u] + graph[u][v]
    BY DEF Improves
  <1>3. graph[u][v] \in Nat
    BY <1>2, EdgeShape DEF IInv
  <1>4. dist'[v] = dist[u] + graph[u][v] /\ pre'[v] = u
    BY DEF Relax
  <1> QED
    BY <1>1, <1>2, <1>3, <1>4

(* After that turn, the vertex of the entry is popped, those popped before *)
(* still are, and no others.                                               *)
LEMMA RelaxPops ==
  ASSUME IInv, NEW e \in minHeap, Relax(e), NEW u \in Vertices,
         e[2] = u, e = <<dist[u], u>>, dist[u] < Infinity, NEW v \in Vertices
  PROVE  Popped(v)' <=> (Popped(v) \/ v = u) /\ ~Improves(u, v)
  <1>1. minHeap' = (minHeap \ {e}) \cup {<<dist[u] + graph[u][w], w>> : w \in {x \in Vertices : Improves(u, x)}}
    BY DEF Relax
  <1>2. CASE Improves(u, v)
    <2>1. dist'[v] = dist[u] + graph[u][v]
      BY <1>2, RelaxLowers
    <2>2. <<dist'[v], v>> \in minHeap'
      BY <1>1, <1>2, <2>1
    <2> QED
      BY <2>2, <1>2 DEF Popped
  <1>3. CASE ~Improves(u, v)
    <2>1. dist'[v] = dist[v]
      BY <1>3, RelaxSame
    <2>2. <<dist[v], v>> \in minHeap' <=> <<dist[v], v>> \in minHeap /\ <<dist[v], v>> # e
      BY <1>1, <1>3
    <2>3. <<dist[v], v>> = e <=> v = u
      OBVIOUS
    <2>4. dist[u] # Infinity
      BY DistShape, InfinityAssumption DEF IInv
    <2> QED
      BY <2>1, <2>2, <2>3, <2>4, <1>3 DEF Popped
  <1> QED
    BY <1>2, <1>3

(* The invariant is kept by that turn. *)
LEMMA RelaxIInv == ASSUME IInv, NEW e \in minHeap, Relax(e) PROVE IInv'
  <1>u. PICK u \in Vertices : e[2] = u /\ e[1] = dist[u] /\ e = <<dist[u], u>> /\ dist[u] < Infinity
    BY RelaxEntry
  <1> DEFINE better == {x \in Vertices : Improves(u, x)}
  <1>1. /\ minHeap' = (minHeap \ {e}) \cup {<<dist[u] + graph[u][w], w>> : w \in better}
        /\ graph' = graph
    BY <1>u DEF Relax
  <1>2. dist[u] \in Nat /\ Types
    BY DistShape DEF IInv
  <1>3. ASSUME NEW v \in Vertices
        PROVE  dist'[v] \in Nat /\ dist[v] \in Nat /\ dist[v] <= Infinity /\ dist'[v] <= dist[v]
    <2>1. dist[v] \in Nat /\ dist[v] <= Infinity
      BY <1>2, DistShape
    <2>2. CASE Improves(u, v)
      BY <2>1, <2>2, <1>u, RelaxLowers
    <2>3. CASE ~Improves(u, v)
      BY <2>1, <2>3, <1>u, RelaxSame
    <2> QED
      BY <2>2, <2>3
  <1>4. Types'
    <2>1. dist' \in [Vertices -> 0..Infinity]
      <3>1. \A v \in Vertices : dist'[v] \in 0..Infinity
        BY <1>3, InfinityAssumption
      <3>2. dist' = [v \in Vertices |-> dist'[v]]
        BY DEF Relax
      <3> QED
        BY <3>1, <3>2
    <2>2. pre' \in [Vertices -> Vertices \cup {NoVertex}]
      BY <1>u DEF Relax, IInv, Types
    <2>3. minHeap' \subseteq Nat \X Vertices
      <3>1. ASSUME NEW w \in better PROVE dist[u] + graph[u][w] \in Nat
        BY <1>u, RelaxLowers
      <3> QED
        BY <1>1, <1>2, <3>1 DEF Types
    <2> QED
      BY <1>1, <1>2, <2>1, <2>2, <2>3 DEF Types
  <1>5. ASSUME NEW f \in minHeap', f \notin minHeap
        PROVE  f[2] \in Vertices /\ f[1] = dist'[f[2]] /\ f[1] \in Nat /\ f[1] >= dist[u] /\ f[1] < Infinity
    <2>1. PICK w \in better : f = <<dist[u] + graph[u][w], w>>
      BY <1>1, <1>5
    <2>2. dist'[w] = dist[u] + graph[u][w] /\ dist'[w] \in Nat /\ dist[u] <= dist'[w] /\ dist'[w] < dist[w]
      BY <1>u, RelaxLowers
    <2>3. dist[w] \in Nat /\ dist[w] <= Infinity
      BY <1>3
    <2> QED
      BY <2>1, <2>2, <2>3, <1>2, InfinityAssumption
  <1>6. EntriesAbove'
    <2> SUFFICES ASSUME NEW f \in minHeap' PROVE dist'[f[2]] <= f[1] /\ f[1] < Infinity
      BY DEF EntriesAbove
    <2>1. CASE f \in minHeap
      <3>1. PICK w \in Vertices, d \in Nat : w = f[2] /\ d = f[1]
        BY <2>1, <1>2, EntryShape
      <3>2. dist[w] <= d /\ d < Infinity
        BY <2>1, <3>1 DEF IInv, EntriesAbove
      <3> QED
        BY <3>1, <3>2, <1>3
    <2>2. CASE f \notin minHeap
      BY <2>2, <1>5
    <2> QED
      BY <2>1, <2>2
  <1>7. PoppedNearest'
    <2> SUFFICES ASSUME NEW v \in Vertices, Popped(v)', NEW f \in minHeap' PROVE dist'[v] <= f[1]
      BY DEF PoppedNearest
    <2>1. (Popped(v) \/ v = u) /\ ~Improves(u, v)
      BY <1>u, RelaxPops
    <2>2. dist'[v] = dist[v] /\ dist[v] \in Nat
      BY <2>1, <1>u, <1>3, RelaxSame
    <2>3. dist[v] <= dist[u]
      BY <2>1, <2>2, <1>u DEF IInv, PoppedNearest
    <2>4. CASE f \in minHeap
      <3>1. f[1] \in Nat
        BY <2>4, <1>2, EntryShape
      <3>2. dist[u] < f[1] \/ dist[u] = f[1]
        BY <2>4, <1>u DEF Relax, IsTop
      <3> QED
        BY <3>1, <3>2, <2>2, <2>3, <1>2
    <2>5. CASE f \notin minHeap
      BY <2>5, <1>5, <2>2, <2>3, <1>2
    <2> QED
      BY <2>4, <2>5
  <1>8. PoppedRelaxed'
    <2> SUFFICES ASSUME NEW t \in Vertices, NEW v \in Vertices, Popped(t)', graph[t][v] # NoEdge
                 PROVE  ~(dist'[v] > dist'[t] + graph[t][v])
      BY <1>1 DEF PoppedRelaxed, Improves
    <2>1. (Popped(t) \/ t = u) /\ ~Improves(u, t)
      BY <1>u, RelaxPops
    <2>2. dist'[t] = dist[t] /\ dist[t] \in Nat
      BY <2>1, <1>u, <1>3, RelaxSame
    <2>3. graph[t][v] \in Nat
      BY <1>2, EdgeShape
    <2>4. dist'[v] \in Nat /\ dist[v] \in Nat /\ dist'[v] <= dist[v]
      BY <1>3
    <2>5. CASE Popped(t)
      <3>1. ~(dist[v] > dist[t] + graph[t][v])
        BY <2>5 DEF IInv, PoppedRelaxed, Improves
      <3> QED
        BY <3>1, <2>2, <2>3, <2>4
    <2>6. CASE t = u
      <3>1. CASE Improves(u, v)
        <4>1. dist'[v] = dist[u] + graph[u][v]
          BY <3>1, <1>u, RelaxLowers
        <4> QED
          BY <4>1, <2>2, <2>3, <2>4, <2>6
      <3>2. CASE ~Improves(u, v)
        <4>1. ~(dist[v] > dist[u] + graph[u][v])
          BY <3>2, <2>6 DEF Improves
        <4> QED
          BY <4>1, <2>2, <2>3, <2>4, <2>6
      <3> QED
        BY <3>1, <3>2
    <2> QED
      BY <2>1, <2>5, <2>6
  <1>9. PreExplains'
    <2> SUFFICES ASSUME NEW v \in Vertices
                 PROVE  IF pre'[v] = NoVertex THEN dist'[v] = (IF v = start THEN 0 ELSE Infinity)
                        ELSE /\ Popped(pre[v])' /\ graph[pre'[v]][v] # NoEdge
                             /\ dist'[v] = dist'[pre'[v]] + graph[pre'[v]][v]
      BY <1>1 DEF PreExplains
    <2>1. u # NoVertex
      BY VerticesAssumption DEF NoVertex
    <2>2. CASE Improves(u, v)
      <3>1. pre'[v] = u /\ graph[u][v] # NoEdge /\ dist'[v] = dist[u] + graph[u][v]
        BY <2>2, <1>u, RelaxLowers
      <3>2. ~Improves(u, u)
        BY <1>u, RelaxKeeps
      <3>3. dist'[u] = dist[u]
        BY <3>2, <1>u, RelaxSame
      <3>4. Popped(u)'
        BY <3>2, <1>u, RelaxPops
      <3>5. Popped(pre[v])'
        BY <3>1, <3>4 DEF Popped
      <3> QED
        BY <2>1, <3>1, <3>3, <3>5
    <2>3. CASE ~Improves(u, v)
      <3>1. pre'[v] = pre[v] /\ dist'[v] = dist[v]
        BY <2>3, <1>u, RelaxSame
      <3>2. CASE pre[v] = NoVertex
        BY <3>1, <3>2 DEF IInv, PreExplains
      <3>3. CASE pre[v] # NoVertex
        <4>1. PICK p \in Vertices : p = pre[v]
          BY <3>3, <1>2 DEF Types
        <4>2. Popped(p) /\ graph[p][v] # NoEdge /\ dist[v] = dist[p] + graph[p][v]
          BY <3>3, <4>1 DEF IInv, PreExplains
        <4>3. ~Improves(u, p)
          BY <4>2, <1>u, RelaxKeeps
        <4>4. dist'[p] = dist[p]
          BY <4>3, <1>u, RelaxSame
        <4>5. Popped(p)'
          BY <4>2, <4>3, <1>u, RelaxPops
        <4>6. Popped(pre[v])'
          BY <3>1, <4>1, <4>5 DEF Popped
        <4> QED
          BY <3>1, <3>3, <4>1, <4>2, <4>4, <4>6
      <3> QED
        BY <3>2, <3>3
    <2> QED
      BY <2>2, <2>3
  <1> QED
    BY <1>4, <1>6, <1>7, <1>8, <1>9 DEF IInv

(* Every turn of the loop keeps the invariant. *)
LEMMA NextIInv == IInv /\ [DijkstraNext]_dijkstravars => IInv'
  <1> SUFFICES ASSUME IInv, [DijkstraNext]_dijkstravars PROVE IInv'
    OBVIOUS
  <1>1. CASE UNCHANGED dijkstravars
    BY <1>1 DEF dijkstravars, IInv, Types, EntriesAbove, PoppedNearest, PoppedRelaxed, PreExplains, Popped, Improves
  <1>2. CASE DijkstraNext
    <2>1. PICK e \in minHeap : Skip(e) \/ Relax(e)
      BY <1>2 DEF DijkstraNext
    <2> QED
      BY <2>1, SkipIInv, RelaxIInv
  <1> QED
    BY <1>1, <1>2

(* The invariant holds throughout. *)
THEOREM Invariance == DijkstraSpec => []IInv
  BY InitIInv, NextIInv, PTL DEF DijkstraSpec

(* A vertex whose up-to-date entry was taken from the heap keeps its       *)
(* distance and its predecessor: Dijkstra.cpp never relaxes into it again. *)
THEOREM PoppedFinal == DijkstraSpec => FinalWhenPopped
  <1>1. IInv /\ [DijkstraNext]_dijkstravars => [\A v \in Vertices : Popped(v) => dist'[v] = dist[v] /\ pre'[v] = pre[v]]_dijkstravars
    <2> SUFFICES ASSUME IInv, DijkstraNext, NEW v \in Vertices, Popped(v)
                 PROVE  dist'[v] = dist[v] /\ pre'[v] = pre[v]
      OBVIOUS
    <2>1. PICK e \in minHeap : Skip(e) \/ Relax(e)
      BY DEF DijkstraNext
    <2>2. CASE Skip(e)
      BY <2>2 DEF Skip
    <2>3. CASE Relax(e)
      <3>1. PICK u \in Vertices : e[2] = u /\ e[1] = dist[u]
        BY <2>3, RelaxEntry
      <3>2. ~Improves(u, v)
        BY <2>3, <3>1, RelaxKeeps
      <3> QED
        BY <2>3, <3>1, <3>2, RelaxSame
    <2> QED
      BY <2>1, <2>2, <2>3
  <1> QED
    BY <1>1, Invariance, PTL DEF DijkstraSpec, FinalWhenPopped

(* When the loop ends, dist and pre are a certificate of shortest paths:   *)
(* no edge shortens a distance, and every distance is explained by an edge *)
(* from the predecessor.                                                   *)
THEOREM ShortestCertificate == DijkstraSpec => []Certificate
  <1>1. IInv => Certificate
    <2> SUFFICES ASSUME IInv, minHeap = {} PROVE Certificate
      BY DEF Certificate
    <2>1. ASSUME NEW u \in Vertices, NEW v \in Vertices, dist[u] # Infinity, graph[u][v] # NoEdge
          PROVE  dist[v] <= dist[u] + graph[u][v]
      <3>1. Popped(u)
        BY <2>1 DEF Popped
      <3>2. ~(dist[v] > dist[u] + graph[u][v])
        BY <2>1, <3>1 DEF IInv, PoppedRelaxed, Improves
      <3>3. dist[u] \in Nat /\ dist[v] \in Nat /\ graph[u][v] \in Nat
        BY <2>1, DistShape, EdgeShape DEF IInv
      <3> QED
        BY <3>2, <3>3
    <2>2. ASSUME NEW v \in Vertices, v # start, dist[v] # Infinity
          PROVE  /\ pre[v] # NoVertex /\ graph[pre[v]][v] # NoEdge
                 /\ dist[v] = dist[pre[v]] + graph[pre[v]][v]
      BY <2>2 DEF IInv, PreExplains
    <2> QED
      BY <2>1, <2>2 DEF Certificate
  <1> QED
    BY <1>1, Invariance, PTL
-----------------------------------------------------------------------------
(* getShortestPath: the predecessors lead back to start.                   *)

(* The way back from v along pre: n vertices from start to v, all but the  *)
(* last popped.                                                            *)
Chain(v, n, p) ==
    /\ p[1] = start /\ p[n] = v
    /\ \A i \in 1..(n - 1) : p[i + 1] # start /\ pre[p[i + 1]] = p[i] /\ Popped(p[i])
Traced ==
    /\ dist[start] = 0
    /\ \A v \in Vertices : pre[v] # NoVertex => dist[v] # Infinity
    /\ \A v \in Vertices : dist[v] # Infinity =>
         \E n \in Nat \ {0} : \E p \in [1..n -> Vertices] : Chain(v, n, p)

(* Only start is reached at first.                                         *)
LEMMA InitTraced == DijkstraInit => Traced
  <1> SUFFICES ASSUME DijkstraInit PROVE Traced
    OBVIOUS
  <1>1. dist[start] = 0 /\ \A v \in Vertices : dist[v] # Infinity => v = start
    BY VerticesAssumption DEF DijkstraInit
  <1>2. PICK p : p = [i \in 1..1 |-> start]
    OBVIOUS
  <1>3. p \in [1..1 -> Vertices] /\ Chain(start, 1, p)
    BY <1>2, VerticesAssumption DEF Chain
  <1>4. \E n \in Nat \ {0} : \E q \in [1..n -> Vertices] : Chain(start, n, q)
    BY <1>3, 1 \in Nat \ {0}
  <1>5. \A v \in Vertices : pre[v] = NoVertex
    BY DEF DijkstraInit
  <1> QED
    BY <1>1, <1>4, <1>5 DEF Traced

(* A popped vertex keeps its predecessor, so a way back stays one.         *)
LEMMA ChainKept ==
  ASSUME IInv, NEW e \in minHeap, Relax(e), NEW u \in Vertices,
         e[2] = u, e = <<dist[u], u>>, dist[u] < Infinity,
         NEW v \in Vertices, ~Improves(u, v),
         NEW n \in Nat \ {0}, NEW p \in [1..n -> Vertices], Chain(v, n, p)
  PROVE  Chain(v, n, p)'
  <1>1. ASSUME NEW w \in Vertices, Popped(w) PROVE Popped(w)' /\ pre'[w] = pre[w]
    <2>1. ~Improves(u, w)
      BY <1>1, RelaxKeeps
    <2> QED
      BY <1>1, <2>1, RelaxPops, RelaxSame
  <1>2. pre'[v] = pre[v]
    BY RelaxSame
  <1>3. ASSUME NEW i \in 1..(n - 1)
        PROVE  p[i + 1] # start /\ pre'[p[i + 1]] = p[i] /\ Popped(p[i])'
    <2>1. /\ i \in 1..n /\ i + 1 \in 1..n /\ p[i] \in Vertices /\ p[i + 1] \in Vertices
          /\ p[i + 1] # start /\ pre[p[i + 1]] = p[i] /\ Popped(p[i])
      BY DEF Chain
    <2>2. pre'[p[i + 1]] = pre[p[i + 1]]
      <3>1. CASE i + 1 = n
        BY <1>2, <3>1 DEF Chain
      <3>2. CASE i + 1 # n
        <4>1. i + 1 \in 1..(n - 1)
          BY <3>2
        <4>2. Popped(p[i + 1])
          BY <4>1 DEF Chain
        <4> QED
          BY <1>1, <2>1, <4>2
      <3> QED
        BY <3>1, <3>2
    <2>3. PICK w \in Vertices : w = p[i]
      BY <2>1
    <2>4. Popped(w)'
      BY <1>1, <2>1, <2>3
    <2>5. Popped(p[i])'
      BY <2>3, <2>4 DEF Popped
    <2> QED
      BY <2>1, <2>2, <2>5
  <1>4. p[1] = start /\ p[n] = v
    BY DEF Chain
  <1> QED
    BY <1>3, <1>4 DEF Chain

(* A relaxed vertex is reached through the vertex just popped.             *)
LEMMA RelaxTraced == ASSUME IInv, Traced, NEW e \in minHeap, Relax(e) PROVE Traced'
  <1>u. PICK u \in Vertices : e[2] = u /\ e[1] = dist[u] /\ e = <<dist[u], u>> /\ dist[u] < Infinity
    BY RelaxEntry
  <1>1. dist[u] \in Nat /\ \A w \in Vertices : dist[w] \in Nat
    BY DistShape DEF IInv
  <1>2. ~Improves(u, start)
    <2> SUFFICES ASSUME Improves(u, start) PROVE FALSE
      OBVIOUS
    <2>1. dist'[start] \in Nat /\ dist'[start] < dist[start]
      BY <1>u, RelaxLowers, VerticesAssumption
    <2> QED
      BY <2>1 DEF Traced
  <1>3. dist'[start] = 0
    BY <1>2, <1>u, RelaxSame, VerticesAssumption DEF Traced
  <1>4. ASSUME NEW v \in Vertices, dist'[v] # Infinity
        PROVE  \E n \in Nat \ {0} : \E p \in [1..n -> Vertices] : Chain(v, n, p)'
    <2>1. CASE ~Improves(u, v)
      <3>1. dist[v] # Infinity
        BY <1>4, <1>u, <2>1, RelaxSame
      <3>2. PICK n \in Nat \ {0} : \E p \in [1..n -> Vertices] : Chain(v, n, p)
        BY <3>1 DEF Traced
      <3>3. PICK p \in [1..n -> Vertices] : Chain(v, n, p)
        BY <3>2
      <3>4. Chain(v, n, p)'
        BY <1>u, <2>1, <3>3, ChainKept
      <3> QED
        BY <3>4
    <2>2. CASE Improves(u, v)
      <3>1. PICK n \in Nat \ {0} : \E p \in [1..n -> Vertices] : Chain(u, n, p)
        BY <1>u, <1>1 DEF Traced
      <3>2. PICK p \in [1..n -> Vertices] : Chain(u, n, p)
        BY <3>1
      <3>3. ~Improves(u, u)
        BY <1>u, RelaxKeeps
      <3>4. Chain(u, n, p)'
        BY <1>u, <3>2, <3>3, ChainKept
      <3>5. pre'[v] = u /\ v # start
        BY <1>u, <1>2, <2>2, RelaxLowers
      <3>6. Popped(u)'
        BY <1>u, <3>3, RelaxPops
      <3>7. PICK q : q = [i \in 1..(n + 1) |-> IF i = n + 1 THEN v ELSE p[i]]
        OBVIOUS
      <3>8. /\ q \in [1..(n + 1) -> Vertices] /\ n + 1 \in Nat \ {0}
            /\ q[n + 1] = v /\ \A i \in 1..n : q[i] = p[i]
        BY <3>7
      <3>9. p[1] = start /\ p[n] = u
        BY <3>2 DEF Chain
      <3>10. ASSUME NEW i \in 1..n PROVE q[i + 1] # start /\ pre'[q[i + 1]] = q[i] /\ Popped(q[i])'
        <4>1. CASE i = n
          <5>1. q[i] = u /\ q[i + 1] = v
            BY <3>8, <3>9, <4>1
          <5>2. Popped(q[i])'
            BY <3>6, <5>1 DEF Popped
          <5> QED
            BY <3>5, <5>1, <5>2
        <4>2. CASE i # n
          <5>1. i \in 1..(n - 1) /\ q[i] = p[i] /\ q[i + 1] = p[i + 1]
            BY <3>8, <4>2
          <5>2. p[i + 1] # start /\ pre'[p[i + 1]] = p[i] /\ Popped(p[i])'
            BY <3>4, <5>1 DEF Chain
          <5>3. Popped(q[i])'
            BY <5>1, <5>2 DEF Popped
          <5> QED
            BY <5>1, <5>2, <5>3
        <4> QED
          BY <4>1, <4>2
      <3>11. q[1] = start
        BY <3>8, <3>9
      <3>12. Chain(v, n + 1, q)'
        BY <3>8, <3>10, <3>11 DEF Chain
      <3> QED
        BY <3>8, <3>12
    <2> QED
      BY <2>1, <2>2
  <1>5. ASSUME NEW v \in Vertices, pre'[v] # NoVertex PROVE dist'[v] # Infinity
    <2>1. CASE Improves(u, v)
      <3>1. dist'[v] \in Nat /\ dist'[v] < dist[v] /\ dist[v] <= Infinity
        BY <1>u, <2>1, RelaxLowers, DistShape DEF IInv
      <3> QED
        BY <1>1, <3>1, InfinityAssumption
    <2>2. CASE ~Improves(u, v)
      BY <1>5, <1>u, <2>2, RelaxSame DEF Traced
    <2> QED
      BY <2>1, <2>2
  <1> QED
    BY <1>3, <1>4, <1>5 DEF Traced

(* Every step keeps the ways back.                                         *)
LEMMA NextTraced == IInv /\ Traced /\ [DijkstraNext]_dijkstravars => Traced'
  <1> SUFFICES ASSUME IInv, Traced, [DijkstraNext]_dijkstravars PROVE Traced'
    OBVIOUS
  <1>1. CASE UNCHANGED dijkstravars
    BY <1>1 DEF dijkstravars, Traced, Chain, Popped
  <1>2. ASSUME NEW e \in minHeap, Skip(e) PROVE Traced'
    <2>1. minHeap' = minHeap \ {e} /\ dist' = dist /\ pre' = pre
      BY <1>2 DEF Skip
    <2>2. \A v \in Vertices : Popped(v) => Popped(v)'
      BY <2>1 DEF Popped
    <2>3. ASSUME NEW v \in Vertices, NEW n \in Nat \ {0}, NEW p \in [1..n -> Vertices], Chain(v, n, p)
          PROVE  Chain(v, n, p)'
      <3>1. \A i \in 1..(n - 1) : p[i] \in Vertices /\ Popped(p[i])
        BY <2>3 DEF Chain
      <3>2. \A i \in 1..(n - 1) : Popped(p[i])'
        BY <2>1, <3>1 DEF Popped
      <3> QED
        BY <2>1, <2>3, <3>2 DEF Chain
    <2> QED
      BY <2>1, <2>3 DEF Traced
  <1> QED
    BY <1>1, <1>2, RelaxTraced DEF DijkstraNext

(* The vertices that getShortestPath visits from v, in that order.         *)
IsTrail(v, s) ==
    /\ s \in Seq(Vertices) /\ s # <<>> /\ s[1] = v /\ s[Len(s)] = start
    /\ \A i \in 1..(Len(s) - 1) : s[i] # start /\ s[i + 1] = pre[s[i]]

(* Every reached vertex has a way back.                                    *)
LEMMA TrailExists ==
  ASSUME Traced, NEW v \in Vertices, dist[v] # Infinity
  PROVE  \E s : IsTrail(v, s)
  <1>1. PICK n \in Nat \ {0} : \E p \in [1..n -> Vertices] : Chain(v, n, p)
    BY DEF Traced
  <1>2. PICK p \in [1..n -> Vertices] : Chain(v, n, p)
    BY <1>1
  <1>3. PICK s : s = [i \in 1..n |-> p[n + 1 - i]]
    OBVIOUS
  <1>4. s \in Seq(Vertices) /\ Len(s) = n /\ \A i \in 1..n : s[i] = p[n + 1 - i]
    <2>1. \A i \in 1..n : n + 1 - i \in 1..n
      OBVIOUS
    <2>2. s \in [1..n -> Vertices]
      BY <1>3, <2>1
    <2>3. s \in Seq(Vertices) /\ Len(s) = n
      BY <2>2
    <2> QED
      BY <1>3, <2>3
  <1>5. p[1] = start /\ p[n] = v
    BY <1>2 DEF Chain
  <1>6. s # <<>> /\ s[1] = v /\ s[n] = start
    <2>1. s[1] = p[n + 1 - 1] /\ s[n] = p[n + 1 - n] /\ n + 1 - 1 = n /\ n + 1 - n = 1
      BY <1>4
    <2> QED
      BY <1>4, <1>5, <2>1
  <1>7. ASSUME NEW i \in 1..(n - 1) PROVE s[i] # start /\ s[i + 1] = pre[s[i]]
    <2>1. PICK k \in 1..(n - 1) : k = n - i
      OBVIOUS
    <2>2. p[k + 1] # start /\ pre[p[k + 1]] = p[k]
      BY <1>2 DEF Chain
    <2>3. n + 1 - i = k + 1 /\ n + 1 - (i + 1) = k /\ i \in 1..n /\ i + 1 \in 1..n
      BY <2>1
    <2>4. s[i] = p[k + 1] /\ s[i + 1] = p[k]
      BY <1>4, <2>3
    <2> QED
      BY <2>2, <2>4
  <1> QED
    BY <1>4, <1>6, <1>7 DEF IsTrail

(* There is one such way.                                                  *)
LEMMA TrailUnique ==
  ASSUME NEW v, NEW s, NEW t, IsTrail(v, s), IsTrail(v, t)
  PROVE  s = t
  <1>1. /\ s \in Seq(Vertices) /\ t \in Seq(Vertices) /\ Len(s) \in Nat \ {0} /\ Len(t) \in Nat \ {0}
        /\ s[1] = v /\ t[1] = v /\ s[Len(s)] = start /\ t[Len(t)] = start
        /\ \A i \in 1..(Len(s) - 1) : s[i] # start /\ s[i + 1] = pre[s[i]]
        /\ \A i \in 1..(Len(t) - 1) : t[i] # start /\ t[i + 1] = pre[t[i]]
    BY EmptySeq DEF IsTrail
  <1> DEFINE D == {k \in Nat : k \in 1..Len(s) /\ k \in 1..Len(t) /\ s[k] # t[k]}
  <1>2. D = {}
    <2> SUFFICES ASSUME D # {} PROVE FALSE
      OBVIOUS
    <2>1. PICK k \in D : \A m \in D : k <= m
      BY Least
    <2>2. k # 1
      BY <1>1, <2>1
    <2>3. PICK j \in Nat : /\ j + 1 = k /\ j \in 1..(Len(s) - 1) /\ j \in 1..(Len(t) - 1)
                           /\ j \in 1..Len(s) /\ j \in 1..Len(t) /\ j \notin D
      <3>1. k \in Nat /\ k \in 1..Len(s) /\ k \in 1..Len(t) /\ Len(s) \in Nat /\ Len(t) \in Nat
        BY <1>1, <2>1
      <3>2. PICK j \in Nat : j + 1 = k /\ j >= 1
        <4>1. k - 1 \in Nat /\ k - 1 + 1 = k /\ k - 1 >= 1
          BY <2>2, <3>1
        <4> QED
          BY <4>1
      <3>3. j \in 1..(Len(s) - 1) /\ j \in 1..(Len(t) - 1) /\ j \in 1..Len(s) /\ j \in 1..Len(t)
        BY <3>1, <3>2
      <3>4. j \notin D
        <4>1. ~(k <= j)
          BY <3>1, <3>2
        <4> HIDE DEF D
        <4> QED
          BY <2>1, <4>1
      <3> QED
        BY <3>2, <3>3, <3>4
    <2>4. s[j] = t[j]
      BY <2>3
    <2>5. s[k] = pre[s[j]] /\ t[k] = pre[t[j]]
      BY <1>1, <2>3
    <2> QED
      BY <2>1, <2>4, <2>5
  <1>3. \A k \in 1..Len(s) : k \in 1..Len(t) => s[k] = t[k]
    BY <1>1, <1>2
  <1> HIDE DEF D
  <1>4. ~(Len(s) < Len(t))
    <2> SUFFICES ASSUME Len(s) < Len(t) PROVE FALSE
      OBVIOUS
    <2>1. Len(s) \in 1..(Len(t) - 1) /\ Len(s) \in 1..Len(t) /\ Len(s) \in 1..Len(s)
      BY <1>1
    <2>2. t[Len(s)] = start
      BY <1>1, <1>3, <2>1
    <2> QED
      BY <1>1, <2>1, <2>2
  <1>5. ~(Len(t) < Len(s))
    <2> SUFFICES ASSUME Len(t) < Len(s) PROVE FALSE
      OBVIOUS
    <2>1. Len(t) \in 1..(Len(s) - 1) /\ Len(t) \in 1..Len(t) /\ Len(t) \in 1..Len(s)
      BY <1>1
    <2>2. s[Len(t)] = start
      BY <1>1, <1>3, <2>1
    <2> QED
      BY <1>1, <2>1, <2>2
  <1>6. Len(s) = Len(t)
    BY <1>1, <1>4, <1>5
  <1> QED
    BY <1>1, <1>3, <1>6, SeqEqual

(* start is all there is of the way back from start.                       *)
LEMMA TrailStart == ASSUME NEW s, IsTrail(start, s) PROVE s = <<start>>
  <1>1. s \in Seq(Vertices) /\ Len(s) \in Nat \ {0} /\ s[1] = start
    BY EmptySeq DEF IsTrail
  <1>2. ~(1 \in 1..(Len(s) - 1)) /\ Len(s) \in Nat /\ Len(s) # 0
    BY <1>1 DEF IsTrail
  <1>3. Len(s) = 1
    <2>1. PICK n \in Nat : n = Len(s)
      BY <1>2
    <2>2. ~(1 \in 1..(n - 1)) /\ n # 0
      BY <1>2, <2>1
    <2>3. n = 1
      BY <2>2
    <2> QED
      BY <2>1, <2>3
  <1> QED
    BY <1>1, <1>3

(* Elsewhere the way back goes on from the predecessor.                    *)
LEMMA TrailStep ==
  ASSUME NEW v \in Vertices, v # start, NEW s, IsTrail(v, s)
  PROVE  /\ pre[v] \in Vertices /\ IsTrail(pre[v], Tail(s)) /\ s = <<v>> \o Tail(s)
         /\ Len(s) \in Nat /\ Len(Tail(s)) < Len(s)
  <1>1. /\ s \in Seq(Vertices) /\ Len(s) \in Nat \ {0} /\ s[1] = v /\ s[Len(s)] = start
        /\ \A i \in 1..(Len(s) - 1) : s[i] # start /\ s[i + 1] = pre[s[i]]
    BY EmptySeq DEF IsTrail
  <1>2. Len(s) # 1 /\ 1 \in 1..(Len(s) - 1)
    BY <1>1
  <1>3. s[2] = pre[v] /\ s[2] \in Vertices
    <2>1. s[1 + 1] = pre[s[1]] /\ 2 \in 1..Len(s)
      BY <1>1, <1>2
    <2> QED
      BY <1>1, <2>1, ElementOfSeq
  <1>4. PICK t \in Seq(Vertices) : /\ t = Tail(s) /\ Len(t) = Len(s) - 1
                                   /\ \A i \in 1..Len(t) : t[i] = s[i + 1]
    <2>1. s # <<>>
      BY <1>1
    <2>2. /\ Tail(s) \in Seq(Vertices) /\ Len(Tail(s)) = Len(s) - 1
          /\ \A i \in 1..Len(Tail(s)) : Tail(s)[i] = s[i + 1]
      BY <1>1, <2>1, HeadTailProperties
    <2> QED
      BY <2>2
  <1>5. t # <<>> /\ t[1] = pre[v] /\ t[Len(t)] = start
    <2>1. 1 \in 1..Len(t) /\ Len(t) \in 1..Len(t) /\ Len(t) + 1 = Len(s) /\ Len(t) # 0
      BY <1>1, <1>2, <1>4
    <2> QED
      BY <1>1, <1>3, <1>4, <2>1
  <1>6. ASSUME NEW i \in 1..(Len(t) - 1) PROVE t[i] # start /\ t[i + 1] = pre[t[i]]
    <2>1. i + 1 \in 1..(Len(s) - 1) /\ i \in 1..Len(t) /\ i + 1 \in 1..Len(t)
      BY <1>1, <1>4
    <2>2. s[i + 1] # start /\ s[i + 1 + 1] = pre[s[i + 1]]
      BY <1>1, <2>1
    <2> QED
      BY <1>4, <2>1, <2>2
  <1>7. IsTrail(pre[v], t)
    BY <1>4, <1>5, <1>6 DEF IsTrail
  <1>8. s = <<v>> \o t
    BY <1>1, <1>4
  <1> QED
    BY <1>1, <1>3, <1>4, <1>7, <1>8

(* One turn of getShortestPath's loop, for a function that does the rest.  *)
Turn(f, cur) ==
    IF cur = NoVertex THEN <<>>
    ELSE IF cur = start THEN <<cur>> ELSE <<cur>> \o f[pre[cur]]

(* If some function does what the loop does, Backtrack is one.             *)
LEMMA BacktrackUnfolds ==
  ASSUME NEW f, f = [cur \in Vertices \cup {NoVertex} |-> Turn(f, cur)]
  PROVE  Backtrack = [cur \in Vertices \cup {NoVertex} |-> Turn(Backtrack, cur)]
  <1>1. Backtrack = CHOOSE g : g = [cur \in Vertices \cup {NoVertex} |-> Turn(g, cur)]
    BY Zenon DEF Backtrack, Turn
  <1> DEFINE P(g) == g = [cur \in Vertices \cup {NoVertex} |-> Turn(g, cur)]
  <1>2. P(f)
    OBVIOUS
  <1>3. P(CHOOSE g : P(g))
    BY <1>2, Zenon
  <1> QED
    BY <1>1, <1>3, Zenon

(* The loop ends from every vertex, so there is one.                       *)
LEMMA LoopEnds ==
  ASSUME IInv, Traced
  PROVE  \E f : f = [cur \in Vertices \cup {NoVertex} |-> Turn(f, cur)]
  <1> DEFINE Trail(v) == CHOOSE s : IsTrail(v, s)
             F(v) == IF v = NoVertex THEN <<>> ELSE IF dist[v] = Infinity THEN <<v>> ELSE Trail(v)
  <1>1. PICK f : f = [cur \in Vertices \cup {NoVertex} |-> F(cur)]
    OBVIOUS
  <1>2. \A v \in Vertices : v # NoVertex /\ (dist[v] # Infinity => IsTrail(v, Trail(v)))
    <2>1. \A v \in Vertices : v # NoVertex
      BY VerticesAssumption DEF NoVertex
    <2> QED
      BY <2>1, TrailExists
  <1>3. f[NoVertex] = <<>> /\ \A v \in Vertices : f[v] = F(v)
    BY <1>1, <1>2
  <1>4. ASSUME NEW v \in Vertices PROVE f[v] = Turn(f, v)
    <2>0. v # NoVertex
      BY <1>2
    <2>1. CASE dist[v] = Infinity
      <3>1. pre[v] = NoVertex /\ v # start
        BY <2>1, InfinityAssumption DEF Traced
      <3>2. Turn(f, v) = <<v>> \o <<>>
        BY <1>3, <2>0, <3>1 DEF Turn
      <3>3. <<v>> \o <<>> = <<v>>
        OBVIOUS
      <3> QED
        BY <1>3, <2>0, <2>1, <3>2, <3>3
    <2>2. CASE dist[v] # Infinity /\ v = start
      <3>1. IsTrail(start, Trail(v))
        BY <1>2, <2>2
      <3>2. Trail(v) = <<start>>
        BY <3>1, TrailStart
      <3> QED
        BY <1>3, <2>0, <2>2, <3>2 DEF Turn
    <2>3. CASE dist[v] # Infinity /\ v # start
      <3>1. PICK s : s = Trail(v) /\ IsTrail(v, s)
        BY <1>2, <2>3
      <3>2. pre[v] \in Vertices /\ IsTrail(pre[v], Tail(s)) /\ s = <<v>> \o Tail(s)
        BY <2>3, <3>1, TrailStep
      <3>3. pre[v] # NoVertex /\ dist[pre[v]] # Infinity
        BY <1>2, <3>2 DEF IInv, PreExplains, Popped
      <3>4. IsTrail(pre[v], Trail(pre[v]))
        BY <1>2, <3>2, <3>3
      <3>5. Trail(pre[v]) = Tail(s)
        BY <3>2, <3>4, TrailUnique
      <3>6. f[pre[v]] = Tail(s)
        BY <1>3, <3>2, <3>3, <3>5
      <3>7. Turn(f, v) = <<v>> \o Tail(s)
        BY <2>0, <2>3, <3>6 DEF Turn
      <3>8. f[v] = s
        BY <1>3, <2>0, <2>3, <3>1
      <3> QED
        BY <3>2, <3>7, <3>8
    <2> QED
      BY <2>1, <2>2, <2>3
  <1>5. f[NoVertex] = Turn(f, NoVertex)
    BY <1>3 DEF Turn
  <1> HIDE DEF F, Trail
  <1>6. \A cur \in Vertices \cup {NoVertex} : f[cur] = Turn(f, cur)
    BY <1>4, <1>5
  <1>7. f = [cur \in Vertices \cup {NoVertex} |-> f[cur]]
    BY <1>1
  <1>8. f = [cur \in Vertices \cup {NoVertex} |-> Turn(f, cur)]
    BY <1>6, <1>7, Zenon
  <1> QED
    BY <1>8

(* What the loop collects.                                                 *)
LEMMA BacktrackTrail ==
  ASSUME IInv, Traced
  PROVE  /\ \A v \in Vertices : \A s : IsTrail(v, s) => Backtrack[v] = s
         /\ \A v \in Vertices : dist[v] = Infinity => Backtrack[v] = <<v>>
  <1>0. NoVertex \notin Vertices
    BY VerticesAssumption DEF NoVertex
  <1>1. Backtrack = [cur \in Vertices \cup {NoVertex} |-> Turn(Backtrack, cur)]
    BY LoopEnds, BacktrackUnfolds
  <1>2. /\ Backtrack[NoVertex] = <<>> /\ (start \in Vertices => Backtrack[start] = <<start>>)
        /\ \A v \in Vertices : v # start => Backtrack[v] = <<v>> \o Backtrack[pre[v]]
    <2>1. \A cur \in Vertices \cup {NoVertex} : Backtrack[cur] = Turn(Backtrack, cur)
      BY <1>1, Zenon
    <2>2. Turn(Backtrack, NoVertex) = <<>>
      BY DEF Turn
    <2>3. \A v \in Vertices : v # start => Turn(Backtrack, v) = <<v>> \o Backtrack[pre[v]]
      BY <1>0 DEF Turn
    <2>4. start \in Vertices => Turn(Backtrack, start) = <<start>>
      BY <1>0 DEF Turn
    <2> QED
      BY <2>1, <2>2, <2>3, <2>4
  <1> DEFINE Bad == {n \in Nat : \E v \in Vertices : \E s : IsTrail(v, s) /\ Len(s) = n /\ Backtrack[v] # s}
  <1>3. Bad = {}
    <2> SUFFICES ASSUME Bad # {} PROVE FALSE
      OBVIOUS
    <2>1. PICK n \in Bad : \A m \in Bad : n <= m
      BY Least
    <2>2. PICK v \in Vertices : \E s : IsTrail(v, s) /\ Len(s) = n /\ Backtrack[v] # s
      BY <2>1
    <2>3. PICK s : IsTrail(v, s) /\ Len(s) = n /\ Backtrack[v] # s
      BY <2>2
    <2>4. CASE v = start
      BY <1>2, <2>3, <2>4, TrailStart
    <2>5. CASE v # start
      <3>1. /\ pre[v] \in Vertices /\ IsTrail(pre[v], Tail(s)) /\ s = <<v>> \o Tail(s)
            /\ Len(s) \in Nat /\ Len(Tail(s)) < Len(s)
        BY <2>3, <2>5, TrailStep
      <3>2. Len(Tail(s)) \in Nat
        BY <3>1 DEF IsTrail
      <3>3. Len(Tail(s)) \notin Bad
        BY <2>1, <2>3, <3>1, <3>2
      <3>4. Backtrack[pre[v]] = Tail(s)
        BY <3>1, <3>2, <3>3
      <3> QED
        BY <1>2, <2>3, <2>5, <3>1, <3>4
    <2> QED
      BY <2>4, <2>5
  <1>4. ASSUME NEW v \in Vertices, NEW s, IsTrail(v, s) PROVE Backtrack[v] = s
    <2>1. Len(s) \in Nat
      BY <1>4 DEF IsTrail
    <2> QED
      BY <1>3, <1>4, <2>1
  <1>5. ASSUME NEW v \in Vertices, dist[v] = Infinity PROVE Backtrack[v] = <<v>>
    <2>1. pre[v] = NoVertex /\ v # start
      BY <1>5, InfinityAssumption DEF Traced
    <2>2. Backtrack[v] = <<v>> \o <<>>
      BY <1>2, <2>1
    <2> QED
      BY <2>2
  <1> QED
    BY <1>4, <1>5

(* The lengths of the prefixes of p are there, and are what they say.      *)
Sums(p, n, s) ==
    s[1] = 0 /\ \A i \in 1..(n - 1) : s[i + 1] = s[i] + graph[p[i]][p[i + 1]]

(* A path has running sums, and they are numbers.                          *)
LEMMA SumsExist ==
  ASSUME Types, NEW p \in Seq(Vertices), Len(p) # 0, IsPath(p)
  PROVE  \E s \in [1..Len(p) -> Nat] : Sums(p, Len(p), s)
  <1>1. Len(p) \in Nat /\ \A i \in 1..Len(p) : p[i] \in Vertices
    BY ElementOfSeq
  <1>2. \A i \in 1..(Len(p) - 1) : graph[p[i]][p[i + 1]] \in Nat
    <2> SUFFICES ASSUME NEW i \in 1..(Len(p) - 1) PROVE graph[p[i]][p[i + 1]] \in Nat
      OBVIOUS
    <2>1. i \in 1..Len(p) /\ i + 1 \in 1..Len(p)
      BY <1>1
    <2>2. PICK u \in Vertices, v \in Vertices : u = p[i] /\ v = p[i + 1]
      BY <1>1, <2>1
    <2>3. graph[u][v] # NoEdge
      BY <2>2 DEF IsPath
    <2> QED
      BY <2>2, <2>3, EdgeShape
  <1> DEFINE None == {m \in Nat : m \in 1..Len(p) /\ ~\E s \in [1..m -> Nat] : Sums(p, m, s)}
  <1>3. None = {}
    <2> SUFFICES ASSUME None # {} PROVE FALSE
      OBVIOUS
    <2>1. PICK m \in None : \A k \in None : m <= k
      BY Least
    <2>2. CASE m = 1
      <3>1. PICK s : s = [i \in 1..1 |-> 0]
        OBVIOUS
      <3>2. s \in [1..1 -> Nat] /\ Sums(p, 1, s)
        BY <3>1 DEF Sums
      <3> QED
        BY <2>1, <2>2, <3>2
    <2>3. CASE m # 1
      <3>1. PICK k \in Nat : k = m - 1 /\ k \in 1..(Len(p) - 1) /\ k \in 1..Len(p) /\ k \notin None
        <4>1. m - 1 \in Nat /\ m - 1 \in 1..(Len(p) - 1) /\ m - 1 \in 1..Len(p) /\ ~(m <= m - 1)
          BY <1>1, <2>1, <2>3
        <4>2. m - 1 \notin None
          BY <2>1, <4>1
        <4> QED
          BY <4>1, <4>2
      <3>2. PICK r \in [1..k -> Nat] : Sums(p, k, r)
        BY <3>1
      <3>3. PICK w \in Nat : w = graph[p[k]][p[k + 1]]
        BY <1>2, <3>1
      <3>4. PICK s : s = [i \in 1..m |-> IF i = m THEN r[k] + w ELSE r[i]]
        OBVIOUS
      <3>5. /\ s \in [1..m -> Nat] /\ s[m] = r[k] + w /\ k + 1 = m
            /\ \A i \in 1..k : s[i] = r[i]
        BY <3>1, <3>4
      <3>6. s[1] = 0
        BY <3>1, <3>2, <3>5 DEF Sums
      <3>7. ASSUME NEW i \in 1..(m - 1) PROVE s[i + 1] = s[i] + graph[p[i]][p[i + 1]]
        <4>1. CASE i = k
          BY <3>1, <3>3, <3>5, <4>1
        <4>2. CASE i # k
          <5>1. i \in 1..(k - 1) /\ i \in 1..k /\ i + 1 \in 1..k
            BY <3>1, <4>2
          <5>2. r[i + 1] = r[i] + graph[p[i]][p[i + 1]]
            BY <3>2, <5>1 DEF Sums
          <5> QED
            BY <3>5, <5>1, <5>2
        <4> QED
          BY <4>1, <4>2
      <3>8. Sums(p, m, s)
        BY <3>6, <3>7 DEF Sums
      <3> QED
        BY <2>1, <3>5, <3>8
    <2> QED
      BY <2>2, <2>3
  <1> QED
    BY <1>1, <1>3

(* One entry of Lengths, from the one before it.                           *)
Add(p, s, i) == IF i = 1 THEN 0 ELSE s[i - 1] + graph[p[i - 1]][p[i]]

(* Lengths computes them.                                                  *)
LEMMA LengthsSums ==
  ASSUME Types, NEW p \in Seq(Vertices), Len(p) # 0, IsPath(p)
  PROVE  Sums(p, Len(p), Lengths(p))
  <1>1. PICK r \in [1..Len(p) -> Nat] : Sums(p, Len(p), r)
    BY SumsExist
  <1>2. Len(p) \in Nat
    OBVIOUS
  <1>3. ASSUME NEW i \in 1..Len(p) PROVE r[i] = Add(p, r, i)
    <2>1. CASE i = 1
      BY <1>1, <2>1 DEF Add, Sums
    <2>2. CASE i # 1
      <3>1. i - 1 \in 1..(Len(p) - 1) /\ i - 1 + 1 = i
        BY <1>2, <2>2
      <3>2. r[i - 1 + 1] = r[i - 1] + graph[p[i - 1]][p[i - 1 + 1]]
        BY <1>1, <3>1 DEF Sums
      <3> QED
        BY <2>2, <3>1, <3>2 DEF Add
    <2> QED
      BY <2>1, <2>2
  <1>4. r = [i \in 1..Len(p) |-> Add(p, r, i)]
    <2>1. r = [i \in 1..Len(p) |-> r[i]]
      OBVIOUS
    <2> QED
      BY <1>3, <2>1, Zenon
  <1>5. Lengths(p) = CHOOSE s : s = [i \in 1..Len(p) |-> Add(p, s, i)]
    BY Zenon DEF Lengths, Add
  <1> DEFINE P(s) == s = [i \in 1..Len(p) |-> Add(p, s, i)]
  <1>6. P(CHOOSE s : P(s))
    BY <1>4, Zenon
  <1>7. PICK s : s = Lengths(p) /\ s = [i \in 1..Len(p) |-> Add(p, s, i)]
    BY <1>5, <1>6, Zenon
  <1>8. \A i \in 1..Len(p) : s[i] = Add(p, s, i)
    BY <1>7, Zenon
  <1>9. s[1] = 0
    BY <1>2, <1>8 DEF Add
  <1>10. ASSUME NEW i \in 1..(Len(p) - 1) PROVE s[i + 1] = s[i] + graph[p[i]][p[i + 1]]
    <2>1. i + 1 \in 1..Len(p) /\ i + 1 # 1 /\ i + 1 - 1 = i
      BY <1>2
    <2>2. s[i + 1] = s[i + 1 - 1] + graph[p[i + 1 - 1]][p[i + 1]]
      BY <1>8, <2>1 DEF Add
    <2> QED
      BY <2>1, <2>2
  <1> QED
    BY <1>7, <1>9, <1>10 DEF Sums

(* No path is shorter than the distance of its end.                        *)
LEMMA NoPathShorter ==
  ASSUME IInv, Traced, Certificate, minHeap = {},
         NEW p \in Seq(Vertices), Len(p) # 0, IsPath(p), p[1] = start
  PROVE  dist[p[Len(p)]] <= Length(p)
  <1>0. Types
    BY DEF IInv
  <1>1. PICK s : s = Lengths(p) /\ Sums(p, Len(p), s)
    BY <1>0, LengthsSums
  <1>2. Len(p) \in Nat /\ (\A i \in 1..Len(p) : p[i] \in Vertices)
        /\ \A v \in Vertices : dist[v] \in Nat /\ dist[v] <= Infinity
    BY <1>0, ElementOfSeq, DistShape
  <1> DEFINE Bad == {m \in Nat : m \in 1..Len(p) /\ ~(s[m] \in Nat /\ dist[p[m]] <= s[m])}
  <1>3. Bad = {}
    <2> SUFFICES ASSUME Bad # {} PROVE FALSE
      OBVIOUS
    <2>1. PICK m \in Bad : \A k \in Bad : m <= k
      BY Least
    <2>2. m # 1
      BY <1>1, <2>1 DEF Sums, Traced
    <2>3. PICK k \in Nat : k + 1 = m /\ k \in 1..(Len(p) - 1) /\ k \in 1..Len(p) /\ k \notin Bad
      <3>1. m - 1 \in Nat /\ m - 1 + 1 = m /\ m - 1 \in 1..(Len(p) - 1) /\ m - 1 \in 1..Len(p) /\ m - 1 \notin Bad
        BY <1>2, <2>1, <2>2
      <3> QED
        BY <3>1
    <2>4. PICK u, v, w : u \in Vertices /\ v \in Vertices /\ u = p[k] /\ v = p[k + 1] /\ w = graph[u][v]
      BY <1>2, <2>1, <2>3
    <2>5. graph[u][v] # NoEdge /\ w \in Nat
      BY <1>0, <2>3, <2>4, EdgeShape DEF IsPath
    <2>6. s[k] \in Nat /\ dist[u] <= s[k]
      BY <2>3, <2>4
    <2>7. s[m] = s[k] + w
      BY <1>1, <2>3, <2>4 DEF Sums
    <2>8. dist[v] <= dist[u] + w \/ dist[u] = Infinity
      BY <2>4, <2>5 DEF Certificate
    <2>9. dist[v] <= s[m] /\ s[m] \in Nat
      <3>1. PICK a \in Nat, b \in Nat, c \in Nat, d \in Nat :
              a = dist[u] /\ b = dist[v] /\ c = s[k] /\ d = w
        BY <1>2, <2>4, <2>5, <2>6
      <3>2. a <= c /\ (b <= a + d \/ a = Infinity) /\ b <= Infinity /\ Infinity \in Nat
        BY <1>2, <2>4, <2>6, <2>8, <3>1, InfinityAssumption
      <3>3. b <= c + d /\ c + d \in Nat
        BY <3>2
      <3> QED
        BY <2>7, <3>1, <3>3
    <2> QED
      BY <2>1, <2>3, <2>4, <2>9
  <1>4. Len(p) \in Nat /\ Len(p) \in 1..Len(p)
    BY <1>2
  <1>5. dist[p[Len(p)]] <= s[Len(p)]
    BY <1>3, <1>4
  <1> QED
    BY <1>1, <1>5 DEF Length

(* What Last and Reverse return.                                           *)
LEMMA LastReverse ==
  ASSUME NEW s \in Seq(Vertices), s # <<>>
  PROVE  /\ Last(s) = s[Len(s)] /\ Reverse(s) \in Seq(Vertices) /\ Len(Reverse(s)) = Len(s)
         /\ Len(s) \in Nat /\ Len(s) # 0
         /\ \A i \in 1..Len(s) : Reverse(s)[i] = s[Len(s) - i + 1]
  <1>1. Len(s) \in Nat /\ Len(s) # 0
    BY EmptySeq
  <1>2. Reverse(s) = [i \in 1..Len(s) |-> s[Len(s) - i + 1]]
    BY DEF Reverse
  <1>3. \A i \in 1..Len(s) : Len(s) - i + 1 \in 1..Len(s)
    BY <1>1
  <1>4. Reverse(s) \in [1..Len(s) -> Vertices]
    BY <1>2, <1>3, ElementOfSeq
  <1>5. Reverse(s) \in Seq(Vertices) /\ Len(Reverse(s)) = Len(s)
    BY <1>1, <1>4
  <1> QED
    BY <1>1, <1>2, <1>5 DEF Last

(* getShortestPath returns a path of that length.                          *)
LEMMA PathReturned ==
  ASSUME IInv, Traced, NEW v \in Vertices, dist[v] # Infinity, NEW p, p = getShortestPath(v)
  PROVE  /\ p \in Seq(Vertices) /\ p # <<>> /\ p[1] = start /\ p[Len(p)] = v
         /\ IsPath(p) /\ Length(p) = dist[v]
  <1>1. PICK s : IsTrail(v, s)
    BY TrailExists
  <1>2. Backtrack[v] = s
    BY <1>1, BacktrackTrail
  <1>3. /\ s \in Seq(Vertices) /\ s # <<>> /\ s[1] = v /\ s[Len(s)] = start
        /\ \A i \in 1..(Len(s) - 1) : s[i] # start /\ s[i + 1] = pre[s[i]]
    BY <1>1 DEF IsTrail
  <1>4. PICK n \in Nat \ {0} : n = Len(s)
    BY <1>3, LastReverse
  <1>5. p = Reverse(s)
    BY <1>2, <1>3, LastReverse DEF getShortestPath
  <1>6. p \in Seq(Vertices) /\ Len(p) = n /\ \A i \in 1..n : p[i] = s[n - i + 1]
    BY <1>3, <1>4, <1>5, LastReverse
  <1>7. p # <<>> /\ p[1] = start /\ p[n] = v
    <2>1. 1 \in 1..n /\ n \in 1..n /\ n - 1 + 1 = n /\ n - n + 1 = 1
      BY <1>4
    <2> QED
      BY <1>3, <1>4, <1>6, <2>1
  <1>8. ASSUME NEW i \in 1..(n - 1)
        PROVE  /\ p[i] \in Vertices /\ p[i + 1] \in Vertices /\ graph[p[i]][p[i + 1]] # NoEdge
               /\ dist[p[i + 1]] = dist[p[i]] + graph[p[i]][p[i + 1]]
    <2>1. PICK k \in 1..(n - 1) : k = n - i
      OBVIOUS
    <2>2. i \in 1..n /\ i + 1 \in 1..n /\ n - i + 1 = k + 1 /\ n - (i + 1) + 1 = k
      BY <1>4, <2>1
    <2>3. p[i] = s[k + 1] /\ p[i + 1] = s[k]
      BY <1>6, <2>2
    <2>4. s[k + 1] = pre[s[k]]
      BY <1>3, <1>4
    <2>5. p[i] \in Vertices /\ p[i + 1] \in Vertices
      BY <1>6, <2>2, ElementOfSeq
    <2>6. PICK a \in Vertices, b \in Vertices : a = p[i] /\ b = p[i + 1]
      BY <2>5
    <2>7. pre[b] = a /\ a # NoVertex
      BY <2>3, <2>4, <2>6, VerticesAssumption DEF NoVertex
    <2>8. graph[a][b] # NoEdge /\ dist[b] = dist[a] + graph[a][b]
      BY <2>7 DEF IInv, PreExplains
    <2> QED
      BY <2>6, <2>8
  <1>9. IsPath(p)
    BY <1>6, <1>8 DEF IsPath
  <1>10. PICK l : l = Lengths(p) /\ Sums(p, n, l)
    <2>1. Types /\ Len(p) # 0
      BY <1>4, <1>6 DEF IInv
    <2> QED
      BY <1>6, <1>9, <2>1, LengthsSums
  <1> DEFINE Bad == {m \in Nat : m \in 1..n /\ l[m] # dist[p[m]]}
  <1>11. Bad = {}
    <2> SUFFICES ASSUME Bad # {} PROVE FALSE
      OBVIOUS
    <2>1. PICK m \in Bad : \A k \in Bad : m <= k
      BY Least
    <2>2. m # 1
      BY <1>7, <1>10, <2>1 DEF Sums, Traced
    <2>3. m - 1 \in Nat /\ m - 1 \in 1..n /\ m - 1 \in 1..(n - 1) /\ m - 1 + 1 = m /\ ~(m <= m - 1)
      BY <2>1, <2>2
    <2>4. m - 1 \notin Bad
      BY <2>1, <2>3
    <2>5. l[m - 1] = dist[p[m - 1]]
      BY <2>3, <2>4
    <2>6. l[m - 1 + 1] = l[m - 1] + graph[p[m - 1]][p[m - 1 + 1]]
      BY <1>10, <2>3 DEF Sums
    <2>7. dist[p[m - 1 + 1]] = dist[p[m - 1]] + graph[p[m - 1]][p[m - 1 + 1]]
      BY <1>8, <2>3
    <2> QED
      BY <2>1, <2>3, <2>5, <2>6, <2>7
  <1>12. n \in Nat /\ n \in 1..n
    BY <1>4
  <1>13. l[n] = dist[p[n]]
    BY <1>11, <1>12
  <1>14. Length(p) = dist[v]
    BY <1>6, <1>7, <1>10, <1>13 DEF Length
  <1> QED
    BY <1>6, <1>7, <1>9, <1>14

(* When Dijkstra's loop has ended, dist is the length of a shortest path   *)
(* and getShortestPath returns one, for every graph with weights that are  *)
(* not negative and for paths of any length.                               *)
THEOREM ShortestPaths == DijkstraSpec => []ShortestAtEnd
  <1>1. IInv /\ Certificate /\ Traced => ShortestAtEnd
    <2> SUFFICES ASSUME IInv, Certificate, Traced, minHeap = {}, NEW v \in Vertices
                 PROVE  /\ \A p \in Paths(v) : dist[v] <= Length(p)
                        /\ dist[v] = Infinity => getShortestPath(v) = <<>>
                        /\ dist[v] # Infinity =>
                             LET path == getShortestPath(v) IN
                             /\ path \in Seq(Vertices) /\ path # <<>> /\ path[1] = start /\ path[Len(path)] = v
                             /\ IsPath(path) /\ Length(path) = dist[v]
      BY DEF ShortestAtEnd
    <2>1. ASSUME NEW p \in Paths(v) PROVE dist[v] <= Length(p)
      <3>1. PICK n \in 1..MaxPath : p \in [1..n -> Vertices]
        BY DEF Paths
      <3>2. p[1] = start /\ p[Len(p)] = v /\ IsPath(p)
        BY DEF Paths
      <3>3. p \in Seq(Vertices) /\ Len(p) # 0
        BY <3>1, MaxPathAssumption
      <3> QED
        BY <3>2, <3>3, NoPathShorter
    <2>2. ASSUME dist[v] = Infinity PROVE getShortestPath(v) = <<>>
      <3>1. Backtrack[v] = <<v>> /\ v # start
        BY <2>2, BacktrackTrail, InfinityAssumption DEF Traced
      <3>2. Last(<<v>>) = v
        BY DEF Last
      <3> QED
        BY <3>1, <3>2 DEF getShortestPath
    <2>3. ASSUME dist[v] # Infinity
          PROVE  LET path == getShortestPath(v) IN
                 /\ path \in Seq(Vertices) /\ path # <<>> /\ path[1] = start /\ path[Len(path)] = v
                 /\ IsPath(path) /\ Length(path) = dist[v]
      BY <2>3, PathReturned
    <2> QED
      BY <2>1, <2>2, <2>3
  <1>2. DijkstraSpec => []Traced
    BY InitTraced, NextTraced, Invariance, PTL DEF DijkstraSpec
  <1> QED
    BY <1>1, <1>2, Invariance, ShortestCertificate, PTL
-----------------------------------------------------------------------------
(* The detectors: types; a listed lock and a row have a thread.            *)
Slot == [id : Threads \cup {NoThread}, lock_id : Locks \cup {NoLock}, degress : Int]
Row == [mtx : Locks, thid : Threads]
DetectorTypes ==
    /\ \A t \in Threads : ip[t] \in 1..(Len(Program[t]) + 1)
    /\ DOMAIN ip = Threads /\ ip \in [Threads -> Nat]
    /\ stage \in [Threads -> {"before", "real", "after"}]
    /\ list \in Seq(Threads) /\ edges \in [Threads -> Seq(Threads)]
    /\ locklist \in Seq(Slot)
    /\ \A i \in 1..Len(locklist) : locklist[i].lock_id # NoLock => locklist[i].id \in Threads
    /\ rela_table \in [1..MAX -> Row \cup {NoRow}]
    /\ entered \in 0..Len(Program) /\ created \in 0..Len(Program)

Listed(l, t) == \E i \in 1..Len(l) : l[i] = t

(* EdgesHaveVertices by position. *)
Known(l, es) ==
    \A t \in Threads : \A e \in 1..Len(es[t]) : Listed(l, t) /\ Listed(l, es[t][e])

(* add_vertex lists the thread and forgets none.                           *)
LEMMA AddVertexProps ==
  ASSUME NEW l \in Seq(Threads), NEW t \in Threads
  PROVE  /\ AddVertex(l, t) \in Seq(Threads) /\ Listed(AddVertex(l, t), t)
         /\ \A u : Listed(l, u) => Listed(AddVertex(l, t), u)
<1>1. CASE \E i \in 1..Len(l) : l[i] = t
  BY <1>1 DEF AddVertex, Listed
<1>2. CASE ~\E i \in 1..Len(l) : l[i] = t
  <2>1. AddVertex(l, t) = Append(l, t)
    BY <1>2 DEF AddVertex
  <2>2. /\ Append(l, t) \in Seq(Threads) /\ Len(Append(l, t)) = Len(l) + 1 /\ Len(l) \in Nat
        /\ Append(l, t)[Len(l) + 1] = t /\ \A i \in 1..Len(l) : Append(l, t)[i] = l[i]
    OBVIOUS
  <2> HIDE <1>2
  <2> QED
    BY <2>1, <2>2 DEF Listed
<1> QED
  BY <1>1, <1>2

(* remove_edge leaves the entries before some place and those behind it. *)
Skipping(k, j) == IF j < k THEN j ELSE j + 1
LEMMA RemoveFirstPlaces ==
  ASSUME NEW S, NEW s \in Seq(S), NEW x
  PROVE  /\ RemoveFirst(s, x) \in Seq(S)
         /\ \E k \in Nat : \A j \in 1..Len(RemoveFirst(s, x)) :
               Skipping(k, j) \in 1..Len(s) /\ RemoveFirst(s, x)[j] = s[Skipping(k, j)]
<1>1. CASE ~\E i \in 1..Len(s) : s[i] = x
  <2>1. RemoveFirst(s, x) = s
    BY <1>1 DEF RemoveFirst
  <2>2. Len(s) + 1 \in Nat /\ \A j \in 1..Len(s) : Skipping(Len(s) + 1, j) = j
    BY DEF Skipping
  <2> QED
    BY <2>1, <2>2
<1>2. CASE \E i \in 1..Len(s) : s[i] = x
  <2> DEFINE I == {i \in 1..Len(s) : s[i] = x}
             k == SelectInSeq(s, LAMBDA v : v = x)
  <2>1. k \in 1..Len(s) /\ k \in Nat /\ Len(s) \in Nat
    <3>1. k = IF I # {} THEN Min(I) ELSE 0
      BY DEF SelectInSeq
    <3>2. I # {}
      BY <1>2
    <3>3. Min(I) \in I
      BY <3>2, Least, I \in SUBSET Nat DEF Min
    <3> QED
      BY <3>1, <3>2, <3>3
  <2>2. RemoveFirst(s, x) = SubSeq(s, 1, k - 1) \o SubSeq(s, k + 1, Len(s))
    BY <1>2 DEF RemoveFirst, RemoveAt
  <2> HIDE DEF k
  <2> DEFINE a == SubSeq(s, 1, k - 1)
             b == SubSeq(s, k + 1, Len(s))
  <2>3. /\ a \in Seq(S) /\ b \in Seq(S) /\ Len(a) = k - 1 /\ Len(b) = Len(s) - k
        /\ \A j \in 1..Len(a) : a[j] = s[j]
        /\ \A j \in 1..Len(b) : b[j] = s[k + j]
    <3> Len(s) \in Nat /\ \A i \in 1..Len(s) : s[i] \in S
      OBVIOUS
    <3>1. /\ a \in Seq(S) /\ Len(a) = IF 1 <= k - 1 THEN k - 1 - 1 + 1 ELSE 0
          /\ \A i \in 1..(k - 1 - 1 + 1) : a[i] = s[1 + i - 1]
      BY <2>1, SubSeqProperties, k - 1 \in Int
    <3>2. /\ b \in Seq(S) /\ Len(b) = IF k + 1 <= Len(s) THEN Len(s) - (k + 1) + 1 ELSE 0
          /\ \A i \in 1..(Len(s) - (k + 1) + 1) : b[i] = s[k + 1 + i - 1]
      BY <2>1, SubSeqProperties, k + 1 \in Int
    <3> HIDE DEF a, b
    <3>3. ASSUME NEW j \in 1..Len(a) PROVE a[j] = s[j]
      BY <3>1, <2>1
    <3>4. ASSUME NEW j \in 1..Len(b) PROVE b[j] = s[k + j]
      BY <3>2, <2>1
    <3>5. Len(a) = k - 1 /\ Len(b) = Len(s) - k
      BY <2>1, <3>1, <3>2
    <3> QED
      BY <3>1, <3>2, <3>3, <3>4, <3>5
  <2>4. /\ a \o b \in Seq(S) /\ Len(a \o b) = Len(a) + Len(b) /\ Len(a) \in Nat /\ Len(b) \in Nat
        /\ \A i \in 1..Len(a) + Len(b) : (a \o b)[i] = IF i <= Len(a) THEN a[i] ELSE b[i - Len(a)]
    <3>1. a \in Seq(S) /\ b \in Seq(S)
      BY <2>3
    <3> HIDE DEF a, b
    <3> QED
      BY <3>1, ConcatProperties
  <2>5. ASSUME NEW j \in 1..Len(a \o b)
        PROVE  Skipping(k, j) \in 1..Len(s) /\ (a \o b)[j] = s[Skipping(k, j)]
    <3> HIDE DEF a, b
    <3>1. CASE j < k
      <4>1. j \in 1..Len(a) /\ j <= Len(a) /\ j \in 1..Len(s) /\ Skipping(k, j) = j
        BY <2>1, <2>3, <2>4, <3>1 DEF Skipping
      <4> QED
        BY <2>3, <2>4, <4>1
    <3>2. CASE ~(j < k)
      <4>1. /\ j - Len(a) \in 1..Len(b) /\ ~(j <= Len(a)) /\ j + 1 \in 1..Len(s)
            /\ Skipping(k, j) = j + 1 /\ k + (j - Len(a)) = j + 1
        BY <2>1, <2>3, <2>4, <3>2 DEF Skipping
      <4>2. (a \o b)[j] = b[j - Len(a)]
        BY <2>4, <4>1
      <4>3. b[j - Len(a)] = s[j + 1]
        BY <2>3, <4>1
      <4> QED
        BY <4>1, <4>2, <4>3
    <3> QED
      BY <3>1, <3>2
  <2> QED
    BY <2>1, <2>2, <2>4, <2>5
<1> QED
  BY <1>1, <1>2

(* So it adds none, and none occurs twice that did not.                    *)
Distinct(s) == \A i, j \in 1..Len(s) : s[i] = s[j] => i = j
LEMMA RemoveFirstProps ==
  ASSUME NEW S, NEW s \in Seq(S), NEW x
  PROVE  /\ RemoveFirst(s, x) \in Seq(S)
         /\ \A j \in 1..Len(RemoveFirst(s, x)) : \E i \in 1..Len(s) : RemoveFirst(s, x)[j] = s[i]
         /\ Distinct(s) => Distinct(RemoveFirst(s, x))
<1> DEFINE r == RemoveFirst(s, x)
<1>1. PICK k \in Nat : \A j \in 1..Len(r) : Skipping(k, j) \in 1..Len(s) /\ r[j] = s[Skipping(k, j)]
  BY RemoveFirstPlaces
<1>2. r \in Seq(S) /\ Len(r) \in Nat
  BY RemoveFirstPlaces
<1> HIDE DEF r
<1>3. ASSUME NEW i \in 1..Len(r), NEW j \in 1..Len(r), Skipping(k, i) = Skipping(k, j) PROVE i = j
  BY <1>2, <1>3 DEF Skipping
<1>4. Distinct(s) => Distinct(r)
  BY <1>1, <1>3 DEF Distinct
<1>5. \A j \in 1..Len(r) : \E i \in 1..Len(s) : r[j] = s[i]
  BY <1>1
<1> QED
  BY <1>2, <1>4, <1>5 DEF r

(* The inductive invariant of the detectors. *)
DetectorInv == DetectorTypes /\ Known(list, edges) /\ RowsMatch

(* The mutex of a thread's next call.                                      *)
LEMMA CallLock ==
  ASSUME DetectorTypes, NEW t \in Threads, ~Done(t)
  PROVE  /\ ip[t] \in 1..Len(Program[t]) /\ Len(Program[t]) \in Nat
         /\ Program[t] \in Seq(Int) /\ Call(t) \in Int /\ Lock(t) \in Locks
         /\ Call(t) > 0 => Lock(t) = Call(t)
         /\ Call(t) < 0 => Lock(t) = -Call(t)
<1>1. Program[t] \in Seq(Int) /\ Len(Program[t]) \in Nat
  BY ThreadsAssumption
<1>2. ip[t] \in 1..Len(Program[t])
  BY <1>1 DEF DetectorTypes, Done
<1>3. Call(t) \in Int
  BY <1>1, <1>2 DEF Call
<1>4. Call(t) \in Locks \/ -Call(t) \in Locks
  BY <1>2, CallsAssumption DEF Call
<1>5. Locks \subseteq Nat \ {0}
  BY LocksAssumption
<1> QED
  BY <1>1, <1>2, <1>3, <1>4, <1>5 DEF Lock

(* The end of a hook keeps the types of ip and stage.                      *)
LEMMA NextCallTypes ==
  ASSUME DetectorTypes, NEW t \in Threads, ~Done(t), NextCall(t)
  PROVE  /\ \A u \in Threads : ip'[u] \in 1..(Len(Program[u]) + 1)
         /\ DOMAIN ip' = Threads /\ ip' \in [Threads -> Nat]
         /\ stage' \in [Threads -> {"before", "real", "after"}]
<1>1. ip[t] \in 1..Len(Program[t]) /\ Len(Program[t]) \in Nat
  BY CallLock
<1>2. /\ ip \in [Threads -> Nat] /\ \A u \in Threads : ip[u] \in 1..(Len(Program[u]) + 1)
      /\ stage \in [Threads -> {"before", "real", "after"}]
  BY DEF DetectorTypes
<1>3. ip' = [ip EXCEPT ![t] = ip[t] + 1] /\ stage' = [stage EXCEPT ![t] = "before"]
  BY DEF NextCall
<1>4. stage' \in [Threads -> {"before", "real", "after"}]
  BY <1>2, <1>3
<1>5. ip[t] + 1 \in Nat /\ ip[t] + 1 \in 1..(Len(Program[t]) + 1)
  BY <1>1
<1>6. DOMAIN ip' = Threads /\ ip' \in [Threads -> Nat]
  BY <1>2, <1>3, <1>5
<1>7. ip'[t] = ip[t] + 1 /\ \A u \in Threads \ {t} : ip'[u] = ip[u]
  BY <1>2, <1>3
<1>8. \A u \in Threads : ip'[u] \in 1..(Len(Program[u]) + 1)
  BY <1>2, <1>5, <1>7
<1> QED
  BY <1>4, <1>6, <1>8

(* search_lock returns a slot of that lock, which has a thread.            *)
LEMMA SearchLockProps ==
  ASSUME DetectorTypes, NEW r \in Locks, SearchLock(r) # 0
  PROVE  /\ SearchLock(r) \in 1..Len(locklist) /\ locklist[SearchLock(r)].lock_id = r
         /\ locklist[SearchLock(r)].id \in Threads
<1> DEFINE I == {i \in 1..Len(locklist) : locklist[i].lock_id = r}
<1>1. I # {} /\ I \in SUBSET Nat
  BY DEF SearchLock
<1>2. PICK i \in I : \A j \in I : i <= j
  BY <1>1, Least
<1>3. \A j \in 1..(i - 1) : locklist[j].lock_id # r
  BY <1>2 DEF DetectorTypes
<1>4. SearchLock(r) \in 1..Len(locklist) /\ locklist[SearchLock(r)].lock_id = r
  BY <1>2, <1>3 DEF SearchLock
<1>5. PICK k \in 1..Len(locklist) : k = SearchLock(r) /\ locklist[k].lock_id = r
  BY <1>4
<1>6. r # NoLock
  BY LocksAssumption DEF NoLock
<1>7. locklist[k].id \in Threads
  BY <1>5, <1>6 DEF DetectorTypes
<1> QED
  BY <1>5, <1>7

(* What a step does to the graph.                                          *)
LEMMA KnownSame ==
  ASSUME Known(list, edges), UNCHANGED <<list, edges>>
  PROVE  Known(list, edges)'
BY DEF Known, Listed

(* add_vertex twice and add_edge.                                          *)
LEMMA GraphAdd ==
  ASSUME DetectorTypes, Known(list, edges), NEW t \in Threads, NEW u \in Threads,
         list' = AddVertex(AddVertex(list, t), u),
         edges' = edges \/ edges' = [edges EXCEPT ![t] = Append(@, u)]
  PROVE  list' \in Seq(Threads) /\ edges' \in [Threads -> Seq(Threads)] /\ Known(list, edges)'
<1>0. list \in Seq(Threads) /\ edges \in [Threads -> Seq(Threads)]
  BY DEF DetectorTypes
<1>1. /\ list' \in Seq(Threads) /\ Listed(list', t) /\ Listed(list', u)
      /\ \A v : Listed(list, v) => Listed(list', v)
  <2>1. AddVertex(list, t) \in Seq(Threads)
    BY <1>0, AddVertexProps
  <2> QED
    BY <1>0, <2>1, AddVertexProps
<1>2. CASE edges' = edges
  BY <1>0, <1>1, <1>2 DEF Known
<1>3. CASE edges' = [edges EXCEPT ![t] = Append(@, u)]
  <2>1. edges' \in [Threads -> Seq(Threads)]
    BY <1>0, <1>3
  <2>2. ASSUME NEW v \in Threads, NEW e \in 1..Len(edges'[v])
        PROVE  Listed(list', v) /\ Listed(list', edges'[v][e])
    <3>1. CASE v # t
      BY <1>0, <1>1, <1>3, <3>1 DEF Known
    <3>2. CASE v = t
      <4>1. edges'[t] = Append(edges[t], u) /\ edges[t] \in Seq(Threads)
        BY <1>0, <1>3
      <4>2. CASE e = Len(edges[t]) + 1
        BY <1>1, <3>2, <4>1, <4>2
      <4>3. CASE e \in 1..Len(edges[t])
        <5>1. edges'[v][e] = edges[t][e]
          BY <3>2, <4>1, <4>3
        <5> QED
          BY <1>1, <3>2, <4>3, <5>1 DEF Known
      <4> QED
        BY <3>2, <4>1, <4>2, <4>3
    <3> QED
      BY <3>1, <3>2
  <2> QED
    BY <1>1, <2>1, <2>2 DEF Known
<1> QED
  BY <1>2, <1>3

(* remove_edge, with the list of vertices only growing.                    *)
LEMMA GraphRemove ==
  ASSUME DetectorTypes, Known(list, edges), NEW t \in Threads, NEW u,
         list' \in Seq(Threads), \A v : Listed(list, v) => Listed(list', v),
         edges' = [edges EXCEPT ![t] = RemoveFirst(@, u)]
  PROVE  edges' \in [Threads -> Seq(Threads)] /\ Known(list, edges)'
<1>0. edges \in [Threads -> Seq(Threads)]
  BY DEF DetectorTypes
<1>1. /\ RemoveFirst(edges[t], u) \in Seq(Threads)
      /\ \A j \in 1..Len(RemoveFirst(edges[t], u)) :
           \E i \in 1..Len(edges[t]) : RemoveFirst(edges[t], u)[j] = edges[t][i]
  <2>1. edges[t] \in Seq(Threads)
    BY <1>0
  <2> QED
    BY <2>1, RemoveFirstProps
<1>2. edges'[t] = RemoveFirst(edges[t], u) /\ \A v \in Threads : v # t => edges'[v] = edges[v]
  BY <1>0
<1>3. edges' \in [Threads -> Seq(Threads)]
  BY <1>0, <1>1
<1>4. ASSUME NEW v \in Threads, NEW e \in 1..Len(edges'[v])
      PROVE  Listed(list', v) /\ Listed(list', edges'[v][e])
  <2>1. CASE v # t
    BY <1>2, <2>1 DEF Known
  <2>2. CASE v = t
    <3>1. PICK i \in 1..Len(edges[t]) : edges'[t][e] = edges[t][i]
      BY <1>1, <1>2, <2>2
    <3> QED
      BY <2>2, <3>1 DEF Known
  <2> QED
    BY <2>1, <2>2
<1> QED
  BY <1>3, <1>4 DEF Known

-----------------------------------------------------------------------------
(* The list of locks. *)
LocksListed(l) ==
    l \in Seq(Slot) /\ \A i \in 1..Len(l) : l[i].lock_id # NoLock => l[i].id \in Threads

(* An assignment to one slot.                                              *)
LEMMA SlotSet ==
  ASSUME NEW l, LocksListed(l), NEW i \in 1..Len(l), NEW m, m \in [1..Len(l) -> Slot],
         \A j \in 1..Len(l) : j # i => m[j] = l[j],
         m[i].lock_id # NoLock => m[i].id \in Threads
  PROVE  LocksListed(m)
<1>1. Len(l) \in Nat
  BY DEF LocksListed
<1>2. m \in Seq(Slot) /\ Len(m) = Len(l)
  BY <1>1
<1> QED
  BY <1>2 DEF LocksListed

(* The three assignments that the hooks make to one slot. *)
Taking(l, i, a, b) == [l EXCEPT ![i].id = a, ![i].lock_id = b]
Counting(l, i, d) == [l EXCEPT ![i].degress = d]
PassingOn(l, i, d, a) == [l EXCEPT ![i].degress = d, ![i].id = a]

LEMMA SlotTaken ==
  ASSUME NEW l \in Seq(Slot), NEW i \in 1..Len(l),
         NEW a \in Threads \cup {NoThread}, NEW b \in Locks \cup {NoLock}, NEW m,
         m = Taking(l, i, a, b)
  PROVE  /\ m \in [1..Len(l) -> Slot] /\ m[i].id = a /\ m[i].lock_id = b
         /\ \A j \in 1..Len(l) : j # i => m[j] = l[j]
<1> DEFINE n == 1..Len(l)
<1>1. l \in [n -> Slot] /\ i \in n
  OBVIOUS
<1> HIDE DEF n
<1>2. m \in [n -> Slot]
  BY <1>1 DEF Slot, Taking
<1>3. m[i] = [l[i] EXCEPT !.id = a, !.lock_id = b] /\ \A j \in n : j # i => m[j] = l[j]
  BY <1>1 DEF Taking
<1> DEFINE s == [l[i] EXCEPT !.id = a]
<1>4. s \in Slot /\ s.id = a
  BY <1>1 DEF Slot
<1>5. m[i] = [s EXCEPT !.lock_id = b]
  BY <1>3
<1> HIDE DEF s
<1>6. m[i].id = a /\ m[i].lock_id = b
  BY <1>4, <1>5 DEF Slot
<1> QED
  BY <1>2, <1>3, <1>6 DEF n

LEMMA SlotCounted ==
  ASSUME NEW l \in Seq(Slot), NEW i \in 1..Len(l), NEW d \in Int, NEW m, m = Counting(l, i, d)
  PROVE  /\ m \in [1..Len(l) -> Slot] /\ m[i].id = l[i].id /\ m[i].lock_id = l[i].lock_id
         /\ \A j \in 1..Len(l) : j # i => m[j] = l[j]
<1> DEFINE n == 1..Len(l)
<1>1. l \in [n -> Slot] /\ i \in n
  OBVIOUS
<1> HIDE DEF n
<1>2. /\ m \in [n -> Slot] /\ m[i].id = l[i].id /\ m[i].lock_id = l[i].lock_id
      /\ \A j \in n : j # i => m[j] = l[j]
  BY <1>1 DEF Slot, Counting
<1> QED
  BY <1>2 DEF n

LEMMA SlotPassedOn ==
  ASSUME NEW l \in Seq(Slot), NEW i \in 1..Len(l),
         NEW a \in Threads \cup {NoThread}, NEW d \in Int, NEW m,
         m = PassingOn(l, i, d, a)
  PROVE  /\ m \in [1..Len(l) -> Slot] /\ m[i].id = a /\ m[i].lock_id = l[i].lock_id
         /\ \A j \in 1..Len(l) : j # i => m[j] = l[j]
<1> DEFINE n == 1..Len(l)
<1>1. l \in [n -> Slot] /\ i \in n
  OBVIOUS
<1> HIDE DEF n
<1>2. m \in [n -> Slot]
  BY <1>1 DEF Slot, PassingOn
<1>3. m[i] = [l[i] EXCEPT !.degress = d, !.id = a] /\ \A j \in n : j # i => m[j] = l[j]
  BY <1>1 DEF PassingOn
<1> DEFINE s == [l[i] EXCEPT !.degress = d]
<1>4. s \in Slot /\ s.lock_id = l[i].lock_id
  BY <1>1 DEF Slot
<1>5. m[i] = [s EXCEPT !.id = a]
  BY <1>3
<1> HIDE DEF s
<1>6. m[i].id = a /\ m[i].lock_id = l[i].lock_id
  BY <1>4, <1>5 DEF Slot
<1> QED
  BY <1>2, <1>3, <1>6 DEF n

(* They keep the threads of the listed locks. *)
LEMMA SlotsListed ==
  ASSUME NEW l, LocksListed(l), NEW i \in 1..Len(l),
         NEW a \in Threads \cup {NoThread}, NEW b \in Locks \cup {NoLock}, NEW d \in Int
  PROVE  /\ (b # NoLock => a \in Threads) => LocksListed([l EXCEPT ![i].id = a, ![i].lock_id = b])
         /\ LocksListed([l EXCEPT ![i].degress = d])
         /\ a \in Threads => LocksListed([l EXCEPT ![i].degress = d, ![i].id = a])
<1>1. l \in Seq(Slot) /\ (l[i].lock_id # NoLock => l[i].id \in Threads)
  BY DEF LocksListed
<1>2. ASSUME NEW m, m = Taking(l, i, a, b), b # NoLock => a \in Threads
      PROVE  LocksListed(m)
  <2>1. /\ m \in [1..Len(l) -> Slot] /\ m[i].id = a /\ m[i].lock_id = b
        /\ \A j \in 1..Len(l) : j # i => m[j] = l[j]
    <3>1. l \in Seq(Slot) /\ m = Taking(l, i, a, b)
      BY <1>1, <1>2
    <3> QED
      BY <3>1, SlotTaken
  <2>2. m[i].lock_id # NoLock => m[i].id \in Threads
    BY <1>2, <2>1
  <2> QED
    BY <2>1, <2>2, SlotSet
<1>3. ASSUME NEW m, m = Counting(l, i, d) PROVE LocksListed(m)
  <2>1. /\ m \in [1..Len(l) -> Slot] /\ m[i].id = l[i].id /\ m[i].lock_id = l[i].lock_id
        /\ \A j \in 1..Len(l) : j # i => m[j] = l[j]
    BY <1>1, <1>3, SlotCounted
  <2>2. m[i].lock_id # NoLock => m[i].id \in Threads
    BY <1>1, <2>1
  <2> QED
    BY <2>1, <2>2, SlotSet
<1>4. ASSUME NEW m, m = PassingOn(l, i, d, a), a \in Threads PROVE LocksListed(m)
  <2>1. /\ m \in [1..Len(l) -> Slot] /\ m[i].id = a /\ m[i].lock_id = l[i].lock_id
        /\ \A j \in 1..Len(l) : j # i => m[j] = l[j]
    BY <1>1, <1>4, SlotPassedOn
  <2>2. m[i].lock_id # NoLock => m[i].id \in Threads
    BY <1>4, <2>1
  <2> QED
    BY <2>1, <2>2, SlotSet
<1> QED
  BY <1>2, <1>3, <1>4 DEF Taking, Counting, PassingOn

(* search_empty_lock finds a slot of the list, which has grown by one.      *)
LEMMA SlotFound ==
  ASSUME LocksListed(locklist)
  PROVE  LET l == Append(locklist, EmptySlot) IN
         /\ l \in Seq(Slot) /\ Len(l) = Len(locklist) + 1 /\ Len(locklist) \in Nat
         /\ l[Len(locklist) + 1] = EmptySlot /\ \A i \in 1..Len(locklist) : l[i] = locklist[i]
         /\ SearchEmptyLock \in 1..Len(l)
<1> DEFINE l == Append(locklist, EmptySlot)
           empty == {i \in 1..Len(locklist) : locklist[i].lock_id = NoLock}
<1>1. EmptySlot \in Slot
  BY DEF EmptySlot, Slot
<1>2. /\ l \in Seq(Slot) /\ Len(l) = Len(locklist) + 1 /\ Len(locklist) \in Nat
      /\ l[Len(locklist) + 1] = EmptySlot /\ \A i \in 1..Len(locklist) : l[i] = locklist[i]
  BY <1>1 DEF LocksListed
<1>3. SearchEmptyLock \in 1..Len(l)
  <2>1. CASE empty = {}
    BY <1>2, <2>1 DEF SearchEmptyLock
  <2>2. CASE empty # {}
    <3>1. \E i \in empty : \A j \in empty : i <= j
      BY <1>2, <2>2, Least, empty \in SUBSET Nat
    <3>2. SearchEmptyLock \in empty
      BY <2>2, <3>1 DEF SearchEmptyLock
    <3> QED
      BY <1>2, <3>2
  <2> QED
    BY <2>1, <2>2
<1> QED
  BY <1>2, <1>3

(* A lock that was not listed gets a slot, a free or a new one.            *)
LEMMA LockListed ==
  ASSUME LocksListed(locklist), NEW t \in Threads, NEW r \in Locks, ListLock(t, r)
  PROVE  LocksListed(locklist')
<1> DEFINE l == Append(locklist, EmptySlot)
           k == SearchEmptyLock
<1>1. EmptySlot \in Slot /\ EmptySlot.lock_id = NoLock
  BY DEF EmptySlot, Slot
<1>2. /\ l \in Seq(Slot) /\ Len(l) = Len(locklist) + 1 /\ Len(locklist) \in Nat
      /\ l[Len(locklist) + 1] = EmptySlot /\ \A i \in 1..Len(locklist) : l[i] = locklist[i]
  BY SlotFound
<1>3. k \in 1..Len(l)
  BY SlotFound
<1>4. locklist' = [l EXCEPT ![k].id = t, ![k].lock_id = r]
  BY DEF ListLock
<1>5. LocksListed(l)
  BY <1>1, <1>2 DEF LocksListed
<1> HIDE DEF l, k
<1> QED
  BY <1>3, <1>4, <1>5, SlotsListed, 0 \in Int

(* The hooks of deadlock.c.                                                *)
LEMMA ListStep ==
  ASSUME DetectorTypes, Known(list, edges), NEW t \in Threads, Step(t)
  PROVE  /\ \A u \in Threads : ip'[u] \in 1..(Len(Program[u]) + 1)
         /\ DOMAIN ip' = Threads /\ ip' \in [Threads -> Nat]
         /\ stage' \in [Threads -> {"before", "real", "after"}]
         /\ list' \in Seq(Threads) /\ edges' \in [Threads -> Seq(Threads)]
         /\ LocksListed(locklist') /\ Known(list, edges)'
<1> DEFINE r == Lock(t)
           idx == SearchLock(r)
           to == locklist[idx].id
<1>0. LocksListed(locklist)
  BY DEF DetectorTypes, LocksListed
<1>1. CASE LockBefore(t)
  <2>1. r \in Locks
    BY <1>1, CallLock DEF LockBefore, Locking
  <2>2. stage' = [stage EXCEPT ![t] = "real"] /\ ip' = ip
    BY <1>1 DEF LockBefore
  <2>3. CASE idx = 0
    <3>1. UNCHANGED <<locklist, list, edges>>
      BY <1>1, <2>3 DEF LockBefore
    <3> QED
      BY <1>0, <2>2, <3>1, KnownSame DEF DetectorTypes
  <2>4. CASE idx # 0
    <3>1. idx \in 1..Len(locklist) /\ to \in Threads
      BY <2>1, <2>4, SearchLockProps
    <3>2. /\ list' = AddVertex(AddVertex(list, t), to)
          /\ locklist' = [locklist EXCEPT ![idx].degress = @ + 1]
          /\ edges' = IF VerifyEdge(t, to) THEN edges ELSE AddEdge(t, to)
      BY <1>1, <2>4 DEF LockBefore
    <3>3. edges' = edges \/ edges' = [edges EXCEPT ![t] = Append(@, to)]
      BY <3>2 DEF AddEdge
    <3> HIDE DEF idx, to
    <3>4. list' \in Seq(Threads) /\ edges' \in [Threads -> Seq(Threads)] /\ Known(list, edges)'
      BY <3>1, <3>2, <3>3, GraphAdd
    <3>5. LocksListed(locklist')
      <4>1. locklist[idx] \in Slot
        BY <1>0, <3>1 DEF LocksListed
      <4>2. locklist[idx].degress + 1 \in Int
        BY <4>1 DEF Slot
      <4> QED
        BY <1>0, <2>1, <3>1, <3>2, <4>2, SlotsListed
    <3> QED
      BY <2>2, <3>4, <3>5 DEF DetectorTypes
  <2> QED
    BY <2>3, <2>4
<1>2. CASE RealLock(t) \/ RealUnlock(t)
  <2>1. UNCHANGED <<ip, locklist, list, edges>> /\ stage' = [stage EXCEPT ![t] = "after"]
    BY <1>2 DEF RealLock, RealUnlock
  <2> QED
    BY <1>0, <2>1, KnownSame DEF DetectorTypes
<1>3. CASE LockAfter(t)
  <2>1. r \in Locks /\ ~Done(t) /\ NextCall(t)
    BY <1>3, CallLock DEF LockAfter, Locking
  <2>2. CASE idx = 0
    <3>1. ListLock(t, r) /\ UNCHANGED <<list, edges>>
      BY <1>3, <2>2 DEF LockAfter
    <3> QED
      BY <1>0, <2>1, <3>1, NextCallTypes, LockListed, KnownSame DEF DetectorTypes
  <2>3. CASE idx # 0
    <3>1. idx \in 1..Len(locklist) /\ to \in Threads
      BY <2>1, <2>3, SearchLockProps
    <3>2. /\ list' = AddVertex(AddVertex(list, t), to)
          /\ locklist' = [locklist EXCEPT ![idx].degress = @ - 1, ![idx].id = t]
          /\ edges' = [edges EXCEPT ![t] = RemoveFirst(@, to)]
      BY <1>3, <2>3 DEF LockAfter, RemoveEdge
    <3> HIDE DEF idx, to
    <3>3. list' \in Seq(Threads) /\ \A v : Listed(list, v) => Listed(list', v)
      <4>1. AddVertex(list, t) \in Seq(Threads) /\ \A v : Listed(list, v) => Listed(AddVertex(list, t), v)
        BY AddVertexProps DEF DetectorTypes
      <4> QED
        BY <3>1, <3>2, <4>1, AddVertexProps
    <3>4. edges' \in [Threads -> Seq(Threads)] /\ Known(list, edges)'
      BY <3>2, <3>3, GraphRemove
    <3>5. LocksListed(locklist')
      <4>1. locklist[idx] \in Slot
        BY <1>0, <3>1 DEF LocksListed
      <4>2. locklist[idx].degress - 1 \in Int
        BY <4>1 DEF Slot
      <4> QED
        BY <1>0, <2>1, <3>1, <3>2, <4>2, SlotsListed
    <3> QED
      BY <2>1, <3>3, <3>4, <3>5, NextCallTypes
  <2> QED
    BY <2>2, <2>3
<1>4. CASE UnlockAfter(t)
  <2>1. r \in Locks /\ ~Done(t) /\ NextCall(t) /\ UNCHANGED <<list, edges>>
    BY <1>4, CallLock DEF UnlockAfter, Unlocking
  <2>2. LocksListed(locklist')
    <3>1. CASE locklist' = locklist
      BY <1>0, <3>1
    <3>2. CASE locklist' # locklist
      <4>1. idx # 0 /\ locklist' = [locklist EXCEPT ![idx].id = NoThread, ![idx].lock_id = NoLock]
        BY <1>4, <3>2 DEF UnlockAfter
      <4>2. idx \in 1..Len(locklist)
        BY <2>1, <4>1, SearchLockProps
      <4> HIDE DEF idx
      <4> QED
        BY <1>0, <4>1, <4>2, SlotsListed, 0 \in Int
    <3> QED
      BY <3>1, <3>2
  <2> QED
    BY <2>1, <2>2, NextCallTypes, KnownSame DEF DetectorTypes
<1> QED
  BY <1>1, <1>2, <1>3, <1>4 DEF Step

-----------------------------------------------------------------------------
(* The table. *)
Holds(i, t, r) == rela_table[i] = [mtx |-> r, thid |-> t]

(* A step that leaves the table, and in its version the calls, alone.      *)
LEMMA RowsKept ==
  ASSUME RowsMatch, UNCHANGED <<version, rela_table>>, version = "table" => UNCHANGED ip
  PROVE  RowsMatch'
BY DEF RowsMatch, Entered

(* The lock and unlock calls of a thread turn Entered on and off.          *)
LEMMA EnteredStep ==
  ASSUME DetectorTypes, NEW t \in Threads, ~Done(t), NextCall(t), version = "table", version' = version,
         NEW u \in Threads, NEW r \in Locks
  PROVE  /\ u # t \/ Lock(t) # r => (Entered(u, r)' <=> Entered(u, r))
         /\ u = t /\ Call(t) = r => ~Entered(t, r) /\ Entered(t, r)'
         /\ u = t /\ Call(t) = -r => Entered(t, r) /\ ~Entered(t, r)'
<1> DEFINE p == Program[t]
           k == ip[t]
<1>1. /\ k \in 1..Len(p) /\ Len(p) \in Nat /\ p \in Seq(Int) /\ p[k] = Call(t) /\ Call(t) \in Int
      /\ Call(t) > 0 => Lock(t) = Call(t)
      /\ Call(t) < 0 => Lock(t) = -Call(t)
      /\ Lock(t) \in Locks
  BY CallLock DEF Call
<1>2. ip'[t] = k + 1 /\ \A v \in Threads : v # t => ip'[v] = ip[v]
  BY DEF NextCall, DetectorTypes
<1>3. r \in Nat \ {0} /\ Lock(t) \in Nat \ {0}
  BY <1>1, LocksAssumption
<1>4. IF p[k] > 0 THEN ~LockedBefore(t, p[k], k) ELSE LockedBefore(t, -p[k], k)
  BY <1>1, PairedAssumption
<1>5. /\ Entered(t, r) <=> LockedBefore(t, r, k)
      /\ Entered(t, r)' <=> LockedBefore(t, r, k + 1)
  BY <1>2 DEF Entered
<1> HIDE DEF k
<1>6. CASE u # t
  BY <1>2, <1>6 DEF Entered
<1>7. CASE u = t /\ Lock(t) # r
  <2>1. p[k] # r /\ p[k] # -r
    BY <1>1, <1>3, <1>7
  <2>2. LockedBefore(t, r, k + 1) <=> LockedBefore(t, r, k)
    <3>1. ASSUME LockedBefore(t, r, k) PROVE LockedBefore(t, r, k + 1)
      BY <1>1, <2>1, <3>1 DEF LockedBefore
    <3>2. ASSUME LockedBefore(t, r, k + 1) PROVE LockedBefore(t, r, k)
      BY <1>1, <2>1, <3>2 DEF LockedBefore
    <3> QED
      BY <3>1, <3>2
  <2> QED
    BY <1>1, <1>3, <1>5, <1>7, <2>2
<1>8. CASE u = t /\ Call(t) = r
  <2>1. LockedBefore(t, r, k + 1)
    BY <1>1, <1>8 DEF LockedBefore
  <2>2. Lock(t) = r /\ Call(t) # -r /\ ~LockedBefore(t, r, k)
    BY <1>1, <1>3, <1>4, <1>8
  <2> QED
    BY <1>5, <1>8, <2>1, <2>2
<1>9. CASE u = t /\ Call(t) = -r
  <2>1. ~LockedBefore(t, r, k + 1)
    <3> SUFFICES ASSUME NEW i \in 1..((k + 1) - 1), Program[t][i] = r
                 PROVE  \E j \in (i + 1)..((k + 1) - 1) : Program[t][j] = -r
      BY DEF LockedBefore
    <3>1. r # -r /\ p[k] = -r /\ i # k
      BY <1>1, <1>3, <1>9
    <3>2. k \in (i + 1)..((k + 1) - 1)
      BY <1>1, <3>1
    <3> QED
      BY <3>1, <3>2
  <2>2. Lock(t) = r /\ Call(t) # r /\ LockedBefore(t, r, k)
    BY <1>1, <1>3, <1>4, <1>9
  <2> QED
    BY <1>5, <1>9, <2>1, <2>2
<1> QED
  BY <1>1, <1>3, <1>6, <1>7, <1>8, <1>9

(* There is a free row for the lock that a thread has just got. *)
LEMMA RowFree ==
  ASSUME DetectorTypes, RowsMatch, NEW t \in Threads, Locking(t), ~Entered(t, Lock(t))
  PROVE  \E i \in 1..MAX : rela_table[i] = NoRow
<1> SUFFICES ASSUME \A i \in 1..MAX : rela_table[i] # NoRow PROVE FALSE
  OBVIOUS
<1> DEFINE pairs == {p \in Threads \X Locks : p[2] \in Uses(p[1])}
           own == <<t, Lock(t)>>
           f == [i \in 1..MAX |-> <<rela_table[i].thid, rela_table[i].mtx>>]
<1>1. MAX \in Nat /\ IsFiniteSet(pairs) /\ Cardinality(pairs) <= MAX
  BY RowsAssumption
<1>2. own \in pairs
  BY CallLock DEF Locking, Uses, Call
<1>3. \A i \in 1..MAX : /\ rela_table[i].thid \in Threads /\ rela_table[i].mtx \in Locks
                        /\ Holds(i, rela_table[i].thid, rela_table[i].mtx)
  BY DEF DetectorTypes, Row, Holds
<1>4. ASSUME NEW u \in Threads, NEW r \in Locks, NEW i \in 1..MAX, Holds(i, u, r)
      PROVE  Entered(u, r) /\ \A j \in 1..MAX : Holds(j, u, r) => j = i
  BY <1>4 DEF RowsMatch, Holds
<1>5. ASSUME NEW u \in Threads, NEW r \in Locks, Entered(u, r) PROVE r \in Uses(u)
  <2>1. PICK i \in 1..(ip[u] - 1) : Program[u][i] = r
    BY <1>5 DEF Entered, LockedBefore
  <2>2. ip[u] \in 1..(Len(Program[u]) + 1) /\ Len(Program[u]) \in Nat
    BY ThreadsAssumption DEF DetectorTypes
  <2> QED
    BY <2>1, <2>2 DEF Uses
<1>6. f \in [1..MAX -> pairs \ {own}]
  <2> SUFFICES ASSUME NEW i \in 1..MAX
               PROVE  <<rela_table[i].thid, rela_table[i].mtx>> \in pairs \ {own}
    OBVIOUS
  <2>1. Entered(rela_table[i].thid, rela_table[i].mtx)
    BY <1>3, <1>4
  <2>2. rela_table[i].mtx \in Uses(rela_table[i].thid)
    BY <1>3, <1>5, <2>1
  <2> QED
    BY <1>3, <2>1, <2>2
<1>7. IsFiniteSet(pairs \ {own}) /\ Cardinality(pairs \ {own}) = Cardinality(pairs) - 1
  BY <1>1, <1>2, FS_RemoveElement
<1>8. IsFiniteSet(1..MAX) /\ Cardinality(1..MAX) = MAX
  BY <1>1, FS_Interval
<1>9. Cardinality(pairs) \in Nat
  BY <1>1, FS_CardinalityType
<1>10. \E i, j \in 1..MAX : i # j /\ f[i] = f[j]
  <2> HIDE DEF pairs, own, f
  <2> QED
    BY <1>1, <1>6, <1>7, <1>8, <1>9, FS_PigeonHole
<1>11. PICK i, j \in 1..MAX : i # j /\ f[i] = f[j]
  BY <1>10
<1>12. rela_table[i].thid = rela_table[j].thid /\ rela_table[i].mtx = rela_table[j].mtx
  BY <1>11
<1> QED
  BY <1>3, <1>4, <1>11, <1>12

(* One row k changes, and it is of the caller and its lock before or after. *)
SetsRow(k, x, t, r) ==
    /\ x \in Row \cup {NoRow} /\ rela_table' = [rela_table EXCEPT ![k] = x]
    /\ x = NoRow \/ x = [mtx |-> r, thid |-> t]
    /\ rela_table[k] = NoRow \/ Holds(k, t, r)
    /\ \A u \in Threads, q \in Locks : u # t \/ q # r => (Entered(u, q)' <=> Entered(u, q))
    /\ Entered(t, r)' => x # NoRow /\ \A i \in 1..MAX : ~Holds(i, t, r)
    /\ ~Entered(t, r)' => x = NoRow /\ \A i \in 1..MAX : Holds(i, t, r) => i = k

(* Such a change of a row keeps the rows right.                            *)
LEMMA RowSet ==
  ASSUME DetectorTypes, RowsMatch, NEW k \in 1..MAX, NEW x,
         NEW t \in Threads, NEW r \in Locks, SetsRow(k, x, t, r)
  PROVE  RowsMatch' /\ rela_table' \in [1..MAX -> Row \cup {NoRow}]
<1>0. /\ x \in Row \cup {NoRow} /\ rela_table' = [rela_table EXCEPT ![k] = x]
      /\ x = NoRow \/ x = [mtx |-> r, thid |-> t]
      /\ rela_table[k] = NoRow \/ Holds(k, t, r)
      /\ \A u \in Threads, q \in Locks : u # t \/ q # r => (Entered(u, q)' <=> Entered(u, q))
      /\ Entered(t, r)' => x # NoRow /\ \A i \in 1..MAX : ~Holds(i, t, r)
      /\ ~Entered(t, r)' => x = NoRow /\ \A i \in 1..MAX : Holds(i, t, r) => i = k
  BY DEF SetsRow
<1>1. /\ rela_table \in [1..MAX -> Row \cup {NoRow}] /\ rela_table' \in [1..MAX -> Row \cup {NoRow}]
      /\ rela_table'[k] = x /\ \A i \in 1..MAX : i # k => rela_table'[i] = rela_table[i]
  BY <1>0 DEF DetectorTypes
<1>2. \A u \in Threads, q \in Locks : [mtx |-> q, thid |-> u] # NoRow
  BY LocksAssumption DEF NoRow, NoLock
<1>3. ASSUME NEW q \in Locks, NEW u \in Threads
      PROVE  LET rows == {i \in 1..MAX : rela_table'[i] = [mtx |-> q, thid |-> u]}
             IN  IF Entered(u, q)' THEN \E i \in rows : rows = {i} ELSE rows = {}
  <2>1. CASE u # t \/ q # r
    <3>1. [mtx |-> q, thid |-> u] # [mtx |-> r, thid |-> t]
      BY <2>1
    <3>2. \A i \in 1..MAX : rela_table'[i] = [mtx |-> q, thid |-> u] <=> rela_table[i] = [mtx |-> q, thid |-> u]
      BY <1>0, <1>1, <1>2, <3>1 DEF Holds
    <3>3. Entered(u, q)' <=> Entered(u, q)
      BY <1>0, <2>1
    <3> QED
      BY <3>2, <3>3 DEF RowsMatch
  <2>2. CASE u = t /\ q = r
    <3> DEFINE rows == {i \in 1..MAX : rela_table'[i] = [mtx |-> r, thid |-> t]}
    <3>1. CASE Entered(t, r)'
      <4>1. k \in rows /\ \A i \in rows : i = k
        BY <1>0, <1>1, <3>1 DEF Holds
      <4> QED
        BY <2>2, <3>1, <4>1
    <3>2. CASE ~Entered(t, r)'
      <4>1. \A i \in 1..MAX : i \notin rows
        BY <1>0, <1>1, <1>2, <3>2 DEF Holds
      <4> QED
        BY <2>2, <3>2, <4>1
    <3> QED
      BY <3>1, <3>2
  <2> QED
    BY <2>1, <2>2
<1> QED
  BY <1>1, <1>3 DEF RowsMatch

(* after_lock enters the caller, in a free row.                            *)
LEMMA RowAdded ==
  ASSUME DetectorTypes, RowsMatch, NEW t \in Threads, Locking(t), NextCall(t),
         version = "table", version' = version, rela_table' = add_rela_table(Lock(t), t)
  PROVE  RowsMatch' /\ rela_table' \in [1..MAX -> Row \cup {NoRow}]
<1>1. PICK r \in Locks : r = Lock(t) /\ ~Done(t) /\ Call(t) = r
  BY CallLock DEF Locking
<1> DEFINE x == [mtx |-> r, thid |-> t]
           free == {i \in 1..MAX : rela_table[i] = NoRow}
<1>2. /\ ~Entered(t, r) /\ Entered(t, r)'
      /\ \A u \in Threads, q \in Locks : u # t \/ q # r => (Entered(u, q)' <=> Entered(u, q))
  BY <1>1, EnteredStep
<1>3. free # {} /\ free \in SUBSET Nat
  BY <1>1, <1>2, RowFree
<1>4. PICK k \in free : k = First(free)
  BY <1>3, Least DEF First
<1>5. rela_table' = [rela_table EXCEPT ![k] = x]
  BY <1>1, <1>3, <1>4 DEF add_rela_table
<1>6. x \in Row /\ x # NoRow /\ x = [mtx |-> r, thid |-> t]
  BY <1>1, LocksAssumption DEF Row, NoRow, NoLock
<1>7. \A i \in 1..MAX : ~Holds(i, t, r)
  BY <1>2 DEF RowsMatch, Holds
<1>8. k \in 1..MAX /\ rela_table[k] = NoRow
  BY <1>4
<1> HIDE DEF x, free
<1>9. x \in Row \cup {NoRow}
  BY <1>6
<1>10. SetsRow(k, x, t, r)
  BY <1>2, <1>5, <1>6, <1>7, <1>8, <1>9 DEF SetsRow
<1> QED
  BY <1>8, <1>10, RowSet

(* after_unlock removes the caller's row and no other.                     *)
LEMMA RowDeleted ==
  ASSUME DetectorTypes, RowsMatch, NEW t \in Threads, Unlocking(t), NextCall(t),
         version = "table", version' = version, rela_table' = del_rela_table(Lock(t), t)
  PROVE  RowsMatch' /\ rela_table' \in [1..MAX -> Row \cup {NoRow}]
<1>1. PICK r \in Locks : r = Lock(t) /\ ~Done(t) /\ Call(t) = -r
  <2>1. Call(t) \in Int /\ Call(t) < 0 /\ ~Done(t) /\ Lock(t) \in Locks /\ Lock(t) = -Call(t)
    BY CallLock DEF Unlocking
  <2> QED
    BY <2>1
<1> DEFINE rows == {i \in 1..MAX : rela_table[i] = [mtx |-> r, thid |-> t]}
<1>2. /\ Entered(t, r) /\ ~Entered(t, r)'
      /\ \A u \in Threads, q \in Locks : u # t \/ q # r => (Entered(u, q)' <=> Entered(u, q))
  BY <1>1, EnteredStep
<1>3. PICK k \in rows : rows = {k}
  BY <1>2 DEF RowsMatch
<1>4. First(rows) = k
  BY <1>3 DEF First
<1>5. rela_table' = [rela_table EXCEPT ![k] = NoRow]
  BY <1>1, <1>3, <1>4 DEF del_rela_table
<1>6. k \in 1..MAX /\ Holds(k, t, r) /\ \A i \in 1..MAX : Holds(i, t, r) => i = k
  BY <1>3 DEF Holds
<1> HIDE DEF rows
<1>7. SetsRow(k, NoRow, t, r)
  BY <1>2, <1>5, <1>6 DEF SetsRow
<1> QED
  BY <1>6, <1>7, RowSet

(* The holder that the table gives is a thread. *)
LEMMA SearchRowProps ==
  ASSUME DetectorTypes, NEW r \in Locks, search_rela_table(r) # NoThread
  PROVE  search_rela_table(r) \in Threads
<1> DEFINE rows == {i \in 1..MAX : rela_table[i].mtx = r}
<1>1. rows # {} /\ search_rela_table(r) = rela_table[First(rows)].thid
  BY DEF search_rela_table
<1>2. First(rows) \in rows
  BY <1>1, Least, rows \in SUBSET Nat DEF First
<1>3. rela_table[First(rows)] \in Row \cup {NoRow} /\ rela_table[First(rows)].mtx = r
  BY <1>2 DEF DetectorTypes
<1> HIDE DEF rows
<1> QED
  BY <1>1, <1>3, LocksAssumption DEF Row, NoRow, NoLock

(* The hooks of deadlock-default.c.                                        *)
LEMMA TableSteps ==
  ASSUME DetectorInv, version # "list", version' = version, NEW t \in Threads, TableStep(t)
  PROVE  DetectorInv'
<1> USE DEF DetectorInv
<1>0. Locking(t) \/ Unlocking(t) => Lock(t) \in Locks /\ ~Done(t)
  BY CallLock DEF Locking, Unlocking
<1>1. CASE LockHook(t)
  <2>1. /\ UNCHANGED <<ip, locklist, tablevars>> /\ stage' = [stage EXCEPT ![t] = "real"]
        /\ Lock(t) \in Locks
    BY <1>0, <1>1 DEF LockHook
  <2>2. RowsMatch'
    BY <2>1, RowsKept DEF tablevars
  <2>3. list' \in Seq(Threads) /\ edges' \in [Threads -> Seq(Threads)] /\ Known(list, edges)'
    <3>1. CASE UNCHANGED <<list, edges>>
      BY <3>1, KnownSame DEF DetectorTypes
    <3>2. CASE ~UNCHANGED <<list, edges>>
      <4>1. before_lock(t, Lock(t))
        BY <1>1, <3>2 DEF LockHook
      <4>2. PICK u : u = search_rela_table(Lock(t))
        OBVIOUS
      <4>3. u # NoThread /\ list' = AddVertex(AddVertex(list, t), u) /\ edges' = [edges EXCEPT ![t] = Append(@, u)]
        BY <3>2, <4>1, <4>2 DEF before_lock, add_vertices, add_edge
      <4>4. u \in Threads
        BY <2>1, <4>2, <4>3, SearchRowProps
      <4> QED
        BY <4>3, <4>4, GraphAdd
    <3> QED
      BY <3>1, <3>2
  <2> QED
    BY <2>1, <2>2, <2>3 DEF DetectorTypes, tablevars
<1>2. CASE LockReal(t) \/ UnlockReal(t)
  <2>1. UNCHANGED <<ip, locklist, list, edges, tablevars>> /\ stage' = [stage EXCEPT ![t] = "after"]
    BY <1>2 DEF LockReal, UnlockReal, RealLock, RealUnlock
  <2>2. RowsMatch' /\ Known(list, edges)'
    BY <2>1, RowsKept, KnownSame DEF tablevars
  <2> QED
    BY <2>1, <2>2 DEF DetectorTypes, tablevars
<1>3. CASE LockReturn(t)
  <2>1. /\ Locking(t) /\ ~Done(t) /\ NextCall(t) /\ Lock(t) \in Locks
        /\ UNCHANGED <<list, locklist, created, entered>>
    BY <1>0, <1>3 DEF LockReturn
  <2>2. edges' \in [Threads -> Seq(Threads)] /\ Known(list, edges)'
    <3>1. CASE edges' = edges
      BY <2>1, <3>1, KnownSame DEF DetectorTypes
    <3>2. CASE edges' # edges
      <4>1. PICK u : u = search_rela_table(Lock(t))
        OBVIOUS
      <4>2. edges' = [edges EXCEPT ![t] = RemoveFirst(@, u)]
        BY <1>3, <3>2, <4>1 DEF LockReturn, after_lock, remove_edge
      <4>3. list' \in Seq(Threads) /\ \A v : Listed(list, v) => Listed(list', v)
        BY <2>1 DEF DetectorTypes
      <4> QED
        BY <4>2, <4>3, GraphRemove
    <3> QED
      BY <3>1, <3>2
  <2>3. RowsMatch' /\ rela_table' \in [1..MAX -> Row \cup {NoRow}]
    <3>1. CASE version = "table"
      <4>1. rela_table' = add_rela_table(Lock(t), t)
        BY <1>3, <3>1 DEF LockReturn, after_lock
      <4> QED
        BY <2>1, <3>1, <4>1, RowAdded
    <3>2. CASE version # "table"
      <4>1. rela_table' = rela_table
        BY <1>3, <3>2 DEF LockReturn
      <4> QED
        BY <3>2, <4>1, RowsKept DEF DetectorTypes
    <3> QED
      BY <3>1, <3>2
  <2> QED
    BY <2>1, <2>2, <2>3, NextCallTypes DEF DetectorTypes
<1>4. CASE UnlockReturn(t)
  <2>1. /\ Unlocking(t) /\ ~Done(t) /\ NextCall(t) /\ Lock(t) \in Locks
        /\ UNCHANGED <<list, edges, locklist, created, entered>>
    BY <1>0, <1>4 DEF UnlockReturn
  <2>2. RowsMatch' /\ rela_table' \in [1..MAX -> Row \cup {NoRow}]
    <3>1. CASE version = "table"
      <4>1. rela_table' = del_rela_table(Lock(t), t)
        BY <1>4, <3>1 DEF UnlockReturn, after_unlock
      <4> QED
        BY <2>1, <3>1, <4>1, RowDeleted
    <3>2. CASE version # "table"
      <4>1. rela_table' = rela_table
        BY <1>4, <3>2 DEF UnlockReturn
      <4> QED
        BY <3>2, <4>1, RowsKept DEF DetectorTypes
    <3> QED
      BY <3>1, <3>2
  <2>3. Known(list, edges)'
    BY <2>1, KnownSame
  <2> QED
    BY <2>1, <2>2, <2>3, NextCallTypes DEF DetectorTypes
<1> QED
  BY <1>1, <1>2, <1>3, <1>4 DEF TableStep

(* main and pthread_create.                                                *)
LEMMA MainSteps ==
  ASSUME DetectorInv, version' = version, Main
  PROVE  DetectorInv'
<1> USE DEF DetectorInv
<1>0. Len(Program) \in Nat /\ Threads = 1..Len(Program)
  BY ThreadsAssumption
<1>1. CASE CreateThread
  <2>1. UNCHANGED <<ip, stage, list, edges, locklist, rela_table, entered>> /\ created' \in 0..Len(Program)
    BY <1>0, <1>1 DEF CreateThread, DetectorTypes, vars
  <2>2. RowsMatch' /\ Known(list, edges)'
    BY <2>1, RowsKept, KnownSame
  <2> QED
    BY <2>1, <2>2 DEF DetectorTypes
<1>2. CASE EnterVertex
  <2>1. /\ UNCHANGED <<ip, stage, locklist, edges, rela_table, created>> /\ entered' = created
        /\ list' = AddVertex(list, created) /\ created \in Threads
    BY <1>0, <1>2 DEF EnterVertex, DetectorTypes
  <2>2. list' \in Seq(Threads) /\ \A v : Listed(list, v) => Listed(list', v)
    BY <2>1, AddVertexProps DEF DetectorTypes
  <2>3. RowsMatch'
    BY <2>1, RowsKept
  <2>4. Known(list, edges)'
    BY <2>1, <2>2 DEF Known
  <2> QED
    BY <2>1, <2>2, <2>3, <2>4 DEF DetectorTypes
<1> QED
  BY <1>1, <1>2 DEF Main

(* The invariant holds at the start.                                       *)
LEMMA DetectorInitInv == TableInit => DetectorInv
<1> SUFFICES ASSUME TableInit PROVE DetectorInv
  OBVIOUS
<1>1. /\ ip = [t \in Threads |-> 1] /\ stage = [t \in Threads |-> "before"]
      /\ locklist = <<>> /\ list = <<>> /\ edges = [t \in Threads |-> <<>>]
      /\ rela_table = [i \in 1..MAX |-> NoRow] /\ created = 0 /\ entered = 0
  BY DEF TableInit, Init
<1>2. DetectorTypes
  <2>1. Len(Program) \in Nat /\ \A t \in Threads : Len(Program[t]) \in Nat
    BY ThreadsAssumption
  <2> QED
    BY <1>1, <2>1 DEF DetectorTypes
<1>3. Known(list, edges)
  BY <1>1 DEF Known
<1>4. RowsMatch
  <2> SUFFICES ASSUME NEW r \in Locks, NEW t \in Threads
               PROVE  /\ ~Entered(t, r)
                      /\ \A i \in 1..MAX : rela_table[i] # [mtx |-> r, thid |-> t]
    BY DEF RowsMatch
  <2>1. ~Entered(t, r)
    BY <1>1 DEF Entered, LockedBefore
  <2>2. NoRow # [mtx |-> r, thid |-> t]
    BY LocksAssumption DEF NoRow, NoLock
  <2> QED
    BY <1>1, <2>1, <2>2
<1> QED
  BY <1>2, <1>3, <1>4 DEF DetectorInv

(* Every step of the program keeps it.                                     *)
LEMMA DetectorNextInv == DetectorInv /\ [DetectorsNext]_allvars => DetectorInv'
<1> SUFFICES ASSUME DetectorInv, [DetectorsNext]_allvars PROVE DetectorInv'
  OBVIOUS
<1>1. CASE UNCHANGED allvars
  <2>1. UNCHANGED <<ip, stage, list, edges, locklist, rela_table, created, entered, version>>
    BY <1>1 DEF allvars, vars, tablevars
  <2>2. RowsMatch' /\ Known(list, edges)'
    BY <2>1, RowsKept, KnownSame DEF DetectorInv
  <2> QED
    BY <2>1, <2>2 DEF DetectorInv, DetectorTypes
<1>2. ASSUME NEW t \in Threads, ThreadStep(t) PROVE DetectorInv'
  <2>1. CASE version = "list" /\ Step(t) /\ UNCHANGED <<tablevars, version>>
    <3>1. RowsMatch'
      BY <2>1, RowsKept DEF DetectorInv, tablevars
    <3> QED
      BY <2>1, <3>1, ListStep DEF DetectorInv, DetectorTypes, LocksListed, tablevars
  <2>2. CASE version # "list" /\ TableStep(t) /\ version' = version
    BY <2>2, TableSteps
  <2> QED
    BY <1>2, <2>1, <2>2 DEF ThreadStep
<1>3. CASE MainStep
  BY <1>3, MainSteps DEF MainStep
<1>4. CASE CheckStep
  <2>1. UNCHANGED <<ip, stage, list, edges, locklist, rela_table, created, entered, version>>
    BY <1>4 DEF CheckStep, Check, CheckTable, tablevars
  <2>2. RowsMatch' /\ Known(list, edges)'
    BY <2>1, RowsKept, KnownSame DEF DetectorInv
  <2> QED
    BY <2>1, <2>2 DEF DetectorInv, DetectorTypes
<1> QED
  BY <1>1, <1>2, <1>3, <1>4 DEF DetectorsNext

(* The invariant holds throughout.                                         *)
LEMMA DetectorInvariance == DetectorsSpec => []DetectorInv
BY DetectorInitInv, DetectorNextInv, PTL DEF DetectorsSpec

(* The cycle search never meets a vertex that it does not know: in both    *)
(* detectors every edge joins two listed threads, for any program of lock  *)
(* and unlock calls and every interleaving of the hooks, main and search.  *)
THEOREM SearchKnowsVertices == DetectorsSpec => []EdgesHaveVertices
<1>1. DetectorInv => EdgesHaveVertices
  <2>1. ASSUME NEW l \in Seq(Threads), NEW x, Listed(l, x) PROVE x \in Range(l)
    BY <2>1 DEF Listed, Range
  <2> QED
    BY <2>1 DEF DetectorInv, DetectorTypes, Known, EdgesHaveVertices
<1> QED
  BY <1>1, DetectorInvariance, PTL

(* The table of deadlock-default.c has exactly the rows it should: after   *)
(* any calls of before_lock, after_lock and after_unlock by any threads,   *)
(* each thread has one row for each mutex that it has entered and not      *)
(* left, as long as there are rows for all mutexes that threads lock.      *)
THEOREM TableRowsMatch == DetectorsSpec => []RowsMatch
  BY DetectorInvariance, PTL DEF DetectorInv
-----------------------------------------------------------------------------
(***************************************************************************)
(* The cycle search of deadlock.c answers right on every graph.            *)
(***************************************************************************)
(* A state of the search: what is still to be looked at, and the visited.  *)
IsGraph(g) == g \in Seq(Seq(1..Len(g)))
Searches(g) == Seq(1..Len(g)) \X SUBSET (1..Len(g))
Onward(g, x) == <<g[Head(x[1])] \o Tail(x[1]), x[2] \cup {Head(x[1])}>>
Visit(g, f, x) == x[1] # <<>> /\ (Head(x[1]) \in x[2] \/ f[Onward(g, x)])

(* A step of the search leads to a state of the search.                    *)
LEMMA OnwardType ==
  ASSUME NEW g, IsGraph(g), NEW x \in Searches(g), x[1] # <<>>
  PROVE  /\ Head(x[1]) \in 1..Len(g) /\ Onward(g, x) \in Searches(g)
         /\ Onward(g, x)[1] = g[Head(x[1])] \o Tail(x[1])
         /\ Onward(g, x)[2] = x[2] \cup {Head(x[1])}
  <1>1. PICK todo \in Seq(1..Len(g)), seen \in SUBSET (1..Len(g)) : x[1] = todo /\ x[2] = seen
    BY DEF Searches
  <1>2. Head(todo) \in 1..Len(g) /\ Tail(todo) \in Seq(1..Len(g))
    BY <1>1, HeadTailProperties
  <1>3. g[Head(todo)] \in Seq(1..Len(g))
    BY <1>2, ElementOfSeq DEF IsGraph
  <1>4. g[Head(todo)] \o Tail(todo) \in Seq(1..Len(g))
    BY <1>2, <1>3, ConcatProperties
  <1>5. seen \cup {Head(todo)} \in SUBSET (1..Len(g))
    BY <1>2
  <1> QED
    BY <1>1, <1>2, <1>4, <1>5 DEF Onward, Searches

(* DFS returns TRUE where some number of steps meets a visited vertex.     *)
Run(g, n, r, x) ==
    /\ r[0] = x
    /\ \A i \in 0..(n - 1) : r[i][1] # <<>> /\ r[i + 1] = Onward(g, r[i])
    /\ r[n][1] # <<>> /\ Head(r[n][1]) \in r[n][2]
Meets(g, x) == \E n \in Nat : \E r \in [0..n -> Searches(g)] : Run(g, n, r, x)

(* Meets unfolds as the search does.                                       *)
LEMMA MeetsStep ==
  ASSUME NEW g, IsGraph(g), NEW x \in Searches(g)
  PROVE  Meets(g, x) <=> x[1] # <<>> /\ (Head(x[1]) \in x[2] \/ Meets(g, Onward(g, x)))
  <1>1. ASSUME Meets(g, x) PROVE x[1] # <<>> /\ (Head(x[1]) \in x[2] \/ Meets(g, Onward(g, x)))
    <2>1. PICK n \in Nat : \E r \in [0..n -> Searches(g)] : Run(g, n, r, x)
      BY <1>1 DEF Meets
    <2>2. PICK r \in [0..n -> Searches(g)] : Run(g, n, r, x)
      BY <2>1
    <2>3. CASE n = 0
      BY <2>2, <2>3 DEF Run
    <2>4. CASE n # 0
      <3>1. n - 1 \in Nat /\ 0 \in 0..(n - 1) /\ 0 + 1 = 1
        BY <2>4
      <3>2. r[0] = x /\ x[1] # <<>> /\ r[1] = Onward(g, x)
        BY <2>2, <3>1 DEF Run
      <3>3. PICK q : q = [i \in 0..(n - 1) |-> r[i + 1]]
        OBVIOUS
      <3>4. \A i \in 0..(n - 1) : i + 1 \in 0..n /\ q[i] = r[i + 1]
        BY <3>3
      <3>5. q \in [0..(n - 1) -> Searches(g)]
        BY <3>3, <3>4
      <3>6. q[0] = Onward(g, x)
        BY <3>1, <3>2, <3>4
      <3>7. ASSUME NEW i \in 0..(n - 1 - 1) PROVE q[i][1] # <<>> /\ q[i + 1] = Onward(g, q[i])
        <4>1. i \in 0..(n - 1) /\ i + 1 \in 0..(n - 1)
          BY <3>1
        <4>2. r[i + 1][1] # <<>> /\ r[i + 1 + 1] = Onward(g, r[i + 1])
          BY <2>2, <4>1 DEF Run
        <4> QED
          BY <3>4, <4>1, <4>2
      <3>8. q[n - 1] = r[n]
        <4>1. n - 1 \in 0..(n - 1) /\ n - 1 + 1 = n
          BY <3>1
        <4> QED
          BY <3>4, <4>1
      <3>9. Run(g, n - 1, q, Onward(g, x))
        BY <2>2, <3>6, <3>7, <3>8 DEF Run
      <3> QED
        BY <3>1, <3>2, <3>5, <3>9 DEF Meets
    <2> QED
      BY <2>3, <2>4
  <1>2. ASSUME x[1] # <<>>, Head(x[1]) \in x[2] PROVE Meets(g, x)
    <2>1. PICK r : r = [i \in 0..0 |-> x]
      OBVIOUS
    <2>2. r \in [0..0 -> Searches(g)] /\ r[0] = x
      BY <2>1
    <2>3. Run(g, 0, r, x)
      BY <1>2, <2>2 DEF Run
    <2> QED
      BY <2>2, <2>3 DEF Meets
  <1>3. ASSUME x[1] # <<>>, Meets(g, Onward(g, x)) PROVE Meets(g, x)
    <2>1. PICK n \in Nat : \E r \in [0..n -> Searches(g)] : Run(g, n, r, Onward(g, x))
      BY <1>3 DEF Meets
    <2>2. PICK r \in [0..n -> Searches(g)] : Run(g, n, r, Onward(g, x))
      BY <2>1
    <2>3. PICK q : q = [i \in 0..(n + 1) |-> IF i = 0 THEN x ELSE r[i - 1]]
      OBVIOUS
    <2>4. q \in [0..(n + 1) -> Searches(g)] /\ q[0] = x /\ \A i \in 0..n : q[i + 1] = r[i]
      <3>1. \A i \in 0..(n + 1) : i # 0 => i - 1 \in 0..n
        OBVIOUS
      <3>2. q \in [0..(n + 1) -> Searches(g)] /\ q[0] = x
        BY <2>3, <3>1
      <3>3. \A i \in 0..n : i + 1 \in 0..(n + 1) /\ i + 1 # 0 /\ i + 1 - 1 = i
        OBVIOUS
      <3> QED
        BY <2>3, <3>2, <3>3
    <2>5. ASSUME NEW i \in 0..(n + 1 - 1) PROVE q[i][1] # <<>> /\ q[i + 1] = Onward(g, q[i])
      <3>1. CASE i = 0
        <4>1. q[0 + 1] = r[0]
          BY <2>4
        <4> QED
          BY <1>3, <2>2, <2>4, <3>1, <4>1 DEF Run
      <3>2. CASE i # 0
        <4>1. PICK k \in 0..(n - 1) : i = k + 1
          <5>1. i - 1 \in 0..(n - 1) /\ i = i - 1 + 1
            BY <3>2
          <5> QED
            BY <5>1
        <4>2. r[k][1] # <<>> /\ r[k + 1] = Onward(g, r[k])
          BY <2>2 DEF Run
        <4>3. k \in 0..n /\ k + 1 \in 0..n
          OBVIOUS
        <4>4. q[i] = r[k] /\ q[i + 1] = r[k + 1]
          BY <2>4, <4>1, <4>3
        <4> QED
          BY <4>2, <4>4
      <3> QED
        BY <3>1, <3>2
    <2>6. q[n + 1] = r[n] /\ n + 1 \in Nat
      BY <2>4
    <2>7. Run(g, n + 1, q, x)
      BY <2>2, <2>4, <2>5, <2>6 DEF Run
    <2> QED
      BY <2>4, <2>6, <2>7 DEF Meets
  <1> QED
    BY <1>1, <1>2, <1>3

(* So DFS is that.                                                         *)
LEMMA DFSFunction ==
  ASSUME NEW g, IsGraph(g)
  PROVE  \E f : /\ f = [x \in Searches(g) |-> Visit(g, f, x)]
                /\ \A first, visited : DFS(g, first, visited) = f[<<<<first>>, visited>>]
  <1> DEFINE P(f) == f = [x \in Searches(g) |-> Visit(g, f, x)]
             h == [x \in Searches(g) |-> Meets(g, x)]
  <1>1. P(h)
    <2>1. \A x \in Searches(g) : h[x] = Meets(g, x)
      BY Zenon
    <2>2. \A x \in Searches(g) : Meets(g, x) = Visit(g, h, x)
      <3> SUFFICES ASSUME NEW x \in Searches(g) PROVE Meets(g, x) = Visit(g, h, x)
        OBVIOUS
      <3>1. CASE x[1] = <<>>
        <4>1. ~Meets(g, x) /\ ~Visit(g, h, x)
          BY <3>1, MeetsStep, Zenon DEF Visit
        <4>2. Meets(g, x) = FALSE /\ Visit(g, h, x) = FALSE
          BY <4>1, Zenon DEF Meets, Visit
        <4> QED
          BY <4>2, Zenon
      <3>2. CASE x[1] # <<>>
        <4>1. Onward(g, x) \in Searches(g)
          BY <3>2, OnwardType
        <4>2. h[Onward(g, x)] = Meets(g, Onward(g, x))
          BY <2>1, <4>1, Zenon
        <4>3. Meets(g, x) <=> Visit(g, h, x)
          BY <3>2, <4>2, MeetsStep, Zenon DEF Visit
        <4> QED
          BY <4>3, Zenon DEF Meets, Visit
      <3> QED
        BY <3>1, <3>2, Zenon
    <2> QED
      BY <2>2, Zenon
  <1>2. P(CHOOSE f : P(f))
    BY <1>1, Zenon
  <1>3. ASSUME NEW first, NEW visited
        PROVE  DFS(g, first, visited) = (CHOOSE f : P(f))[<<<<first>>, visited>>]
    BY Zenon DEF DFS, Visit, Onward, Searches
  <1> QED
    BY <1>2, <1>3, Zenon

(* The vertices that the search has not visited.                           *)
Left(g, x) == Cardinality((1..Len(g)) \ x[2])

(* Each vertex that the search marks leaves fewer.                         *)
LEMMA FewerLeft ==
  ASSUME NEW g, IsGraph(g), NEW x \in Searches(g), x[1] # <<>>, Head(x[1]) \notin x[2]
  PROVE  Left(g, x) \in Nat /\ Left(g, Onward(g, x)) \in Nat /\ Left(g, Onward(g, x)) < Left(g, x)
  <1>1. Head(x[1]) \in 1..Len(g) /\ Onward(g, x)[2] = x[2] \cup {Head(x[1])}
    BY OnwardType
  <1> DEFINE A == (1..Len(g)) \ x[2]
             h == Head(x[1])
  <1>2. Len(g) \in Nat
    BY DEF IsGraph
  <1>3. IsFiniteSet(1..Len(g))
    BY <1>2, FS_Interval, 1 \in Int, Len(g) \in Int
  <1>4. IsFiniteSet(A) /\ h \in A
    BY <1>1, <1>3, FS_Subset
  <1>5. Cardinality(A) \in Nat
    BY <1>4, FS_CardinalityType
  <1>6. IsFiniteSet(A \ {h}) /\ Cardinality(A \ {h}) = Cardinality(A) - 1
    BY <1>4, FS_RemoveElement
  <1>7. Cardinality(A \ {h}) \in Nat
    BY <1>6, FS_CardinalityType
  <1>8. A \ {h} = (1..Len(g)) \ Onward(g, x)[2]
    BY <1>1
  <1>9. Left(g, x) = Cardinality(A) /\ Left(g, Onward(g, x)) = Cardinality(A \ {h})
    BY <1>8 DEF Left
  <1> QED
    BY <1>5, <1>6, <1>7, <1>9

(* Some vertex still to be looked at is on the cycle S.                    *)
Touches(x, S) == \E j \in 1..Len(x[1]) : x[1][j] \in S

(* A vertex of a cycle on the list leads to a report.                      *)
LEMMA CycleMet ==
  ASSUME NEW g, IsGraph(g), NEW f, f = [x \in Searches(g) |-> Visit(g, f, x)],
         NEW S \in SUBSET (1..Len(g)), \A v \in S : \E e \in 1..Len(g[v]) : g[v][e] \in S,
         NEW y \in Searches(g), Touches(y, S)
  PROVE  f[y]
  <1>1. ASSUME NEW x \in Searches(g), Touches(x, S), ~f[x]
        PROVE  /\ x[1] # <<>> /\ Head(x[1]) \notin x[2]
               /\ Touches(Onward(g, x), S) /\ ~f[Onward(g, x)]
    <2>1. PICK todo \in Seq(1..Len(g)) : x[1] = todo
      BY DEF Searches
    <2>2. PICK j \in 1..Len(todo) : todo[j] \in S
      BY <1>1, <2>1 DEF Touches
    <2>3. todo # <<>> /\ Len(todo) \in Nat
      BY <2>2
    <2>4. ~Visit(g, f, x)
      BY <1>1, Zenon
    <2>5. Head(x[1]) \notin x[2] /\ ~f[Onward(g, x)]
      BY <2>1, <2>3, <2>4, Zenon DEF Visit
    <2>6. PICK h \in 1..Len(g), t \in Seq(1..Len(g)) :
            /\ h = Head(todo) /\ t = Tail(todo) /\ todo[1] = h
            /\ Len(t) = Len(todo) - 1 /\ \A i \in 1..Len(t) : t[i] = todo[i + 1]
      <3>1. /\ Head(todo) \in 1..Len(g) /\ Tail(todo) \in Seq(1..Len(g)) /\ todo[1] = Head(todo)
            /\ Len(Tail(todo)) = Len(todo) - 1 /\ \A i \in 1..Len(Tail(todo)) : Tail(todo)[i] = todo[i + 1]
        BY <2>3, HeadTailProperties
      <3> QED
        BY <3>1
    <2>7. PICK r \in Seq(1..Len(g)) : r = g[h]
      BY ElementOfSeq DEF IsGraph
    <2>8. /\ Onward(g, x)[1] = r \o t /\ Len(r) \in Nat /\ Len(t) \in Nat /\ Len(r \o t) = Len(r) + Len(t)
          /\ \A i \in 1..(Len(r) + Len(t)) : (r \o t)[i] = IF i <= Len(r) THEN r[i] ELSE t[i - Len(r)]
      <3>1. Onward(g, x)[1] = g[Head(x[1])] \o Tail(x[1])
        BY <2>1, <2>3, OnwardType
      <3>2. Onward(g, x)[1] = r \o t
        BY <2>1, <2>6, <2>7, <3>1
      <3>3. /\ Len(r \o t) = Len(r) + Len(t)
            /\ \A i \in 1..(Len(r) + Len(t)) : (r \o t)[i] = IF i <= Len(r) THEN r[i] ELSE t[i - Len(r)]
        BY ConcatProperties
      <3>4. Len(r) \in Nat /\ Len(t) \in Nat
        OBVIOUS
      <3> QED
        BY <3>2, <3>3, <3>4
    <2>9. \E i \in 1..Len(r \o t) : (r \o t)[i] \in S
      <3>1. CASE j = 1
        <4>1. PICK e \in 1..Len(r) : r[e] \in S
          BY <2>2, <2>6, <2>7, <3>1
        <4>2. e \in 1..(Len(r) + Len(t)) /\ e <= Len(r)
          BY <2>8
        <4>3. (r \o t)[e] = r[e]
          BY <2>8, <4>2
        <4> QED
          BY <2>8, <4>1, <4>2, <4>3
      <3>2. CASE j # 1
        <4>1. PICK i \in 1..Len(t) : i = j - 1 /\ t[i] = todo[j]
          <5>1. j - 1 \in 1..Len(t) /\ j - 1 + 1 = j
            BY <2>3, <2>6, <3>2
          <5> QED
            BY <2>6, <5>1
        <4>2. Len(r) + i \in 1..(Len(r) + Len(t)) /\ ~(Len(r) + i <= Len(r)) /\ Len(r) + i - Len(r) = i
          BY <2>8
        <4>3. (r \o t)[Len(r) + i] = t[i]
          BY <2>8, <4>2
        <4> QED
          BY <2>2, <2>8, <4>1, <4>2, <4>3
      <3> QED
        BY <3>1, <3>2
    <2> QED
      BY <2>1, <2>3, <2>5, <2>8, <2>9 DEF Touches
  <1> DEFINE Bad == {m \in Nat : \E x \in Searches(g) : Touches(x, S) /\ ~f[x] /\ m = Left(g, x)}
  <1>2. Bad = {}
    <2> SUFFICES ASSUME Bad # {} PROVE FALSE
      OBVIOUS
    <2>1. PICK m \in Bad : \A k \in Bad : m <= k
      BY Least
    <2>2. PICK x \in Searches(g) : Touches(x, S) /\ ~f[x] /\ m = Left(g, x)
      BY <2>1
    <2>3. /\ x[1] # <<>> /\ Head(x[1]) \notin x[2]
          /\ Touches(Onward(g, x), S) /\ ~f[Onward(g, x)]
      BY <1>1, <2>2
    <2>4. Onward(g, x) \in Searches(g)
      BY <2>3, OnwardType
    <2>5. Left(g, x) \in Nat /\ Left(g, Onward(g, x)) \in Nat /\ Left(g, Onward(g, x)) < Left(g, x)
      BY <2>3, FewerLeft
    <2>6. Left(g, Onward(g, x)) \in Bad
      BY <2>3, <2>4, <2>5
    <2>7. m <= Left(g, Onward(g, x))
      BY <2>1, <2>6
    <2> QED
      BY <2>2, <2>5, <2>7
  <1>3. ASSUME ~f[y] PROVE FALSE
    <2>1. y[1] # <<>> /\ Head(y[1]) \notin y[2]
      BY <1>1, <1>3
    <2>2. Left(g, y) \in Nat
      BY <2>1, FewerLeft
    <2>3. Left(g, y) \in Bad
      BY <1>3, <2>2
    <2> QED
      BY <1>2, <2>3
  <1> QED
    BY <1>3

(* Where a vertex that another points to has one edge at most, the visited *)
(* vertices are the way to the one that is looked at.                      *)
OneEdgeAfter(g) == \A v \in 1..Len(g) : \A e \in 1..Len(g[v]) : Len(g[g[v][e]]) <= 1
PointedAt(g, h) == \E v \in 1..Len(g) : \E e \in 1..Len(g[v]) : g[v][e] = h
Along(g, x) ==
    \E h \in 1..Len(g) : /\ x[1] = <<h>> /\ x[2] # {} /\ PointedAt(g, h)
                         /\ \A v \in x[2] : \E e \in 1..Len(g[v]) : g[v][e] \in x[2] \cup {h}

(* Then a vertex met again closes a cycle.                                 *)
LEMMA ReportIsCycle ==
  ASSUME NEW g, IsGraph(g), NEW f, f = [x \in Searches(g) |-> Visit(g, f, x)],
         OneEdgeAfter(g), NEW y \in Searches(g), Along(g, y), f[y]
  PROVE  HasCycle(g)
  <1> SUFFICES ASSUME ~HasCycle(g) PROVE FALSE
    OBVIOUS
  <1>1. ASSUME NEW x \in Searches(g), Along(g, x), f[x]
        PROVE  /\ x[1] # <<>> /\ Head(x[1]) \notin x[2]
               /\ Along(g, Onward(g, x)) /\ f[Onward(g, x)]
    <2>1. PICK h \in 1..Len(g) : /\ x[1] = <<h>> /\ x[2] # {} /\ PointedAt(g, h)
                                 /\ \A v \in x[2] : \E e \in 1..Len(g[v]) : g[v][e] \in x[2] \cup {h}
      BY <1>1 DEF Along
    <2>2. Visit(g, f, x)
      BY <1>1, Zenon
    <2>3. x[1] # <<>> /\ Head(x[1]) = h /\ Tail(x[1]) = <<>> /\ x[2] \in SUBSET (1..Len(g))
      BY <2>1 DEF Searches
    <2>4. h \notin x[2]
      <3> SUFFICES ASSUME h \in x[2] PROVE FALSE
        OBVIOUS
      <3>1. \A v \in x[2] : \E e \in 1..Len(g[v]) : g[v][e] \in x[2]
        BY <2>1
      <3> QED
        BY <2>1, <2>3, <3>1 DEF HasCycle
    <2>5. f[Onward(g, x)]
      BY <2>2, <2>3, <2>4, Zenon DEF Visit
    <2>6. PICK r \in Seq(1..Len(g)) : r = g[h]
      BY ElementOfSeq DEF IsGraph
    <2>7. /\ Onward(g, x) \in Searches(g) /\ Onward(g, x)[1] = r /\ Onward(g, x)[2] = x[2] \cup {h}
      <3>1. /\ Onward(g, x) \in Searches(g) /\ Onward(g, x)[1] = r \o <<>>
            /\ Onward(g, x)[2] = x[2] \cup {h}
        <4>1. /\ Onward(g, x) \in Searches(g) /\ Onward(g, x)[1] = g[Head(x[1])] \o Tail(x[1])
              /\ Onward(g, x)[2] = x[2] \cup {Head(x[1])}
          BY <2>3, OnwardType
        <4> QED
          BY <2>3, <2>6, <4>1
      <3>2. r \o <<>> = r
        BY ConcatEmptySeq
      <3> QED
        BY <3>1, <3>2
    <2>8. r # <<>>
      <3>1. Visit(g, f, Onward(g, x))
        BY <2>5, <2>7, Zenon
      <3>2. Onward(g, x)[1] # <<>>
        BY <3>1, Zenon DEF Visit
      <3> QED
        BY <2>7, <3>2
    <2>9. PICK k \in 1..Len(g) : r = <<k>> /\ Len(r) = 1 /\ r[1] = k
      <3>1. Len(r) <= 1 /\ Len(r) \in Nat /\ Len(r) # 0
        <4>1. Len(g[h]) <= 1
          BY <2>1 DEF OneEdgeAfter, PointedAt
        <4>2. Len(r) <= 1
          BY <2>6, <4>1
        <4>3. Len(r) \in Nat /\ Len(r) # 0
          BY <2>8, EmptySeq
        <4> QED
          BY <4>2, <4>3
      <3>2. Len(r) = 1
        <4>1. \A n \in Nat : n <= 1 /\ n # 0 => n = 1
          OBVIOUS
        <4> QED
          BY <3>1, <4>1, Zenon
      <3>3. r[1] \in 1..Len(g) /\ r = <<r[1]>>
        <4>1. r[1] \in 1..Len(g)
          <5>1. 1 \in 1..1
            OBVIOUS
          <5>2. 1 \in 1..Len(r)
            BY <3>2, <5>1, Zenon
          <5> QED
            BY <5>2, ElementOfSeq, Zenon
        <4>2. r = [i \in 1..1 |-> r[i]]
          BY <3>2
        <4>3. <<r[1]>> = [i \in 1..1 |-> r[1]]
          OBVIOUS
        <4> QED
          BY <4>1, <4>2, <4>3
      <3> QED
        BY <3>2, <3>3
    <2>10. ASSUME NEW v \in x[2] \cup {h}
           PROVE  \E e \in 1..Len(g[v]) : g[v][e] \in x[2] \cup {h} \cup {k}
      <3>1. CASE v = h
        <4>1. g[v] = r /\ Len(r) = 1 /\ r[1] = k
          BY <2>6, <2>9, <3>1, Zenon
        <4>2. 1 \in 1..1
          OBVIOUS
        <4>3. 1 \in 1..Len(g[v]) /\ g[v][1] = k
          BY <4>1, <4>2, Zenon
        <4> QED
          BY <4>3, Zenon
      <3>2. CASE v # h
        BY <2>1, <3>2
      <3> QED
        BY <3>1, <3>2
    <2>11. PointedAt(g, k)
      <3>1. g[h] = r /\ Len(r) = 1 /\ r[1] = k
        BY <2>6, <2>9, Zenon
      <3>2. 1 \in 1..1
        OBVIOUS
      <3>3. 1 \in 1..Len(g[h]) /\ g[h][1] = k
        BY <3>1, <3>2, Zenon
      <3> QED
        BY <3>3, Zenon DEF PointedAt
    <2>12. Along(g, Onward(g, x))
      BY <2>1, <2>7, <2>9, <2>10, <2>11 DEF Along
    <2> QED
      BY <2>3, <2>4, <2>5, <2>12
  <1> DEFINE Bad == {m \in Nat : \E x \in Searches(g) : Along(g, x) /\ f[x] /\ m = Left(g, x)}
  <1>2. Bad = {}
    <2> SUFFICES ASSUME Bad # {} PROVE FALSE
      OBVIOUS
    <2>1. PICK m \in Bad : \A k \in Bad : m <= k
      BY Least
    <2>2. PICK x \in Searches(g) : Along(g, x) /\ f[x] /\ m = Left(g, x)
      BY <2>1
    <2>3. /\ x[1] # <<>> /\ Head(x[1]) \notin x[2]
          /\ Along(g, Onward(g, x)) /\ f[Onward(g, x)]
      BY <1>1, <2>2
    <2>4. Onward(g, x) \in Searches(g)
      BY <2>3, OnwardType
    <2>5. Left(g, x) \in Nat /\ Left(g, Onward(g, x)) \in Nat /\ Left(g, Onward(g, x)) < Left(g, x)
      BY <2>3, FewerLeft
    <2>6. Left(g, Onward(g, x)) \in Bad
      BY <2>3, <2>4, <2>5
    <2>7. m <= Left(g, Onward(g, x))
      BY <2>1, <2>6
    <2> QED
      BY <2>2, <2>5, <2>7
  <1>3. y[1] # <<>> /\ Head(y[1]) \notin y[2]
    BY <1>1
  <1>4. Left(g, y) \in Nat
    BY <1>3, FewerLeft
  <1>5. Left(g, y) \in Bad
    BY <1>4
  <1> QED
    BY <1>2, <1>5

(* check_dead_lock reports every cycle of every wait-for graph, and where  *)
(* each thread that is waited for waits for one lock at most, nothing      *)
(* else: for any number of vertices and any order of the adjacency lists.  *)
THEOREM SearchAnswersRight ==
  ASSUME NEW g, g \in Seq(Seq(1..Len(g)))
  PROVE  RightAnswer(g, CheckDeadLock(g))
  <1>0. IsGraph(g)
    BY DEF IsGraph
  <1>1. PICK f : /\ f = [x \in Searches(g) |-> Visit(g, f, x)]
                 /\ \A first, visited : DFS(g, first, visited) = f[<<<<first>>, visited>>]
    BY <1>0, DFSFunction
  <1>2. \A v \in 1..Len(g) : \A e \in 1..Len(g[v]) :
           /\ g[v][e] \in 1..Len(g) /\ <<<<g[v][e]>>, {v}>> \in Searches(g)
    <2> SUFFICES ASSUME NEW v \in 1..Len(g), NEW e \in 1..Len(g[v])
                 PROVE  g[v][e] \in 1..Len(g) /\ <<<<g[v][e]>>, {v}>> \in Searches(g)
      OBVIOUS
    <2>1. PICK r \in Seq(1..Len(g)) : r = g[v]
      BY ElementOfSeq
    <2>2. r[e] \in 1..Len(g)
      BY <2>1, ElementOfSeq
    <2>3. <<r[e]>> \in Seq(1..Len(g)) /\ {v} \in SUBSET (1..Len(g))
      BY <2>2
    <2> QED
      BY <2>1, <2>2, <2>3 DEF Searches
  <1>3. ASSUME HasCycle(g) PROVE CheckDeadLock(g)
    <2>1. PICK S \in (SUBSET (1..Len(g))) \ {{}} : \A v \in S : \E e \in 1..Len(g[v]) : g[v][e] \in S
      BY <1>3 DEF HasCycle
    <2>2. PICK v \in S : TRUE
      <3>1. S # {}
        BY <2>1, Zenon
      <3> QED
        BY <3>1
    <2>3. PICK e \in 1..Len(g[v]) : g[v][e] \in S
      BY <2>1, <2>2
    <2>4. PICK x : x = <<<<g[v][e]>>, {v}>>
      OBVIOUS
    <2>5. x \in Searches(g) /\ v \in 1..Len(g)
      BY <1>2, <2>1, <2>2, <2>3, <2>4
    <2>6. Touches(x, S)
      BY <2>3, <2>4 DEF Touches
    <2>7. f[x]
      BY <1>0, <1>1, <2>1, <2>5, <2>6, CycleMet
    <2>8. DFS(g, g[v][e], {v})
      BY <1>1, <2>4, <2>7, Zenon
    <2> QED
      BY <2>3, <2>5, <2>8 DEF CheckDeadLock, SearchForCycle
  <1>4. ASSUME CheckDeadLock(g), OneEdgeAfter(g) PROVE HasCycle(g)
    <2>1. PICK v \in 1..Len(g) : \E e \in 1..Len(g[v]) : DFS(g, g[v][e], {v})
      BY <1>4 DEF CheckDeadLock, SearchForCycle
    <2>2. PICK e \in 1..Len(g[v]) : DFS(g, g[v][e], {v})
      BY <2>1
    <2>3. PICK x : x = <<<<g[v][e]>>, {v}>>
      OBVIOUS
    <2>4. x \in Searches(g) /\ g[v][e] \in 1..Len(g)
      BY <1>2, <2>3
    <2>5. f[x]
      BY <1>1, <2>2, <2>3, Zenon
    <2>6. Along(g, x)
      BY <2>2, <2>3, <2>4 DEF Along, PointedAt
    <2> QED
      BY <1>0, <1>1, <1>4, <2>4, <2>5, <2>6, ReportIsCycle
  <1> QED
    BY <1>3, <1>4 DEF RightAnswer, OneEdgeAfter

(* What a check of either detector reports of the wait-for graph as it     *)
(* stands.  deadlock-default.c never takes a report back, so what counts   *)
(* there is the check that makes it.                                       *)
ReportsRight ==
  CheckStep =>
    /\ HasCycle(Graph) => deadlock'
    /\ deadlock' /\ (version = "list" \/ ~deadlock) /\ OneEdgeAfter(Graph) => HasCycle(Graph)

(* The graph of the detectors is one that the search can walk.             *)
LEMMA GraphWalkable ==
  ASSUME DetectorInv
  PROVE  Graph \in Seq(Seq(1..Len(Graph))) /\ Len(Graph) = Len(list)
  <1>1. list \in Seq(Threads) /\ edges \in [Threads -> Seq(Threads)] /\ Known(list, edges)
    BY DEF DetectorInv, DetectorTypes
  <1>2. Len(list) \in Nat /\ \A i \in 1..Len(list) : list[i] \in Threads
    BY <1>1
  <1>3. ASSUME NEW i \in 1..Len(list)
        PROVE  [e \in 1..Len(edges[list[i]]) |-> VertexIndex(edges[list[i]][e])] \in Seq(1..Len(list))
    <2>1. PICK t \in Threads : t = list[i]
      BY <1>2
    <2>2. edges[t] \in Seq(Threads) /\ Len(edges[t]) \in Nat
      BY <1>1
    <2>3. ASSUME NEW e \in 1..Len(edges[t]) PROVE VertexIndex(edges[t][e]) \in 1..Len(list)
      BY <1>1 DEF Known, Listed, VertexIndex
    <2>4. [e \in 1..Len(edges[t]) |-> VertexIndex(edges[t][e])] \in [1..Len(edges[t]) -> 1..Len(list)]
      BY <2>3
    <2> QED
      BY <2>1, <2>2, <2>4
  <1>4. Graph \in Seq(Seq(1..Len(list)))
    BY <1>2, <1>3 DEF Graph
  <1>5. Len(Graph) = Len(list)
    BY <1>2 DEF Graph
  <1> QED
    BY <1>4, <1>5

(* Both detectors, at any moment, for any program of lock and unlock calls *)
(* and every interleaving: a check misses no cycle of the wait-for graph,  *)
(* and reports nothing else where each thread that is waited for waits for *)
(* one lock at most.                                                       *)
THEOREM ChecksAnswerRight == DetectorsSpec => [][ReportsRight]_allvars
  <1>1. DetectorInv /\ [DetectorsNext]_allvars => [ReportsRight]_allvars
    <2> SUFFICES ASSUME DetectorInv, CheckStep PROVE ReportsRight
      BY DEF ReportsRight
    <2>1. Graph \in Seq(Seq(1..Len(Graph))) /\ Len(Graph) = Len(list)
      BY GraphWalkable
    <2>2. RightAnswer(Graph, CheckDeadLock(Graph))
      BY <2>1, SearchAnswersRight
    <2>3. SomeCycle <=> CheckDeadLock(Graph)
      BY <2>1 DEF SomeCycle, CheckDeadLock
    <2>4. CASE version = "list" /\ Check
      BY <2>2, <2>4, Zenon DEF Check, ReportsRight, RightAnswer, OneEdgeAfter
    <2>5. CASE version # "list" /\ CheckTable
      BY <2>2, <2>3, <2>5, Zenon DEF CheckTable, ReportsRight, RightAnswer, OneEdgeAfter
    <2> QED
      BY <2>4, <2>5 DEF CheckStep
  <1> QED
    BY <1>1, DetectorInvariance, PTL DEF DetectorsSpec
-----------------------------------------------------------------------------
(* The sample of deadlock.c, for any number of threads above two: thread t *)
(* locks mutexes t and t + 1, the last one its own and the first, and      *)
(* unlocks them in the opposite order.                                     *)
Succ(t) == IF t = Len(Program) THEN 1 ELSE t + 1
RingProgram ==
    Len(Program) > 2 /\ Program = [t \in 1..Len(Program) |-> <<t, Succ(t), -Succ(t), -t>>]

(* The ring of threads. *)
LEMMA RingFacts ==
  ASSUME RingProgram
  PROVE  /\ Len(Program) \in Nat /\ Len(Program) > 2 /\ Threads = 1..Len(Program)
         /\ \A t \in Threads : t \in Nat \ {0} /\ Succ(t) \in Threads /\ Succ(t) # t /\ Succ(Succ(t)) # t
         /\ \A t, u \in Threads : Succ(t) = Succ(u) => t = u
<1>1. Len(Program) \in Nat /\ Len(Program) > 2 /\ Threads = 1..Len(Program)
  BY ThreadsAssumption DEF RingProgram
<1> QED
  BY <1>1 DEF Succ

(* The calls of a thread of the ring. *)
LEMMA RingCalls ==
  ASSUME RingProgram, NEW t \in Threads
  PROVE  /\ Len(Program[t]) = 4 /\ Program[t][1] = t /\ Program[t][2] = Succ(t)
         /\ Program[t][3] = -Succ(t) /\ Program[t][4] = -t /\ t \in Locks
<1>1. t \in 1..Len(Program) /\ t \in Nat \ {0}
  BY RingFacts
<1>2. Program[t] = <<t, Succ(t), -Succ(t), -t>>
  BY <1>1 DEF RingProgram
<1>3. Len(Program[t]) = 4 /\ Program[t][1] = t /\ Program[t][2] = Succ(t) /\ Program[t][3] = -Succ(t) /\ Program[t][4] = -t
  BY <1>2
<1>4. t \in Locks \/ -t \in Locks
  BY <1>3, CallsAssumption
<1>5. -t \notin Nat \ {0}
  BY <1>1
<1> QED
  BY <1>3, <1>4, <1>5, LocksAssumption

(* A set of threads with the successor of each of its members is all.      *)
LEMMA RingCross ==
  ASSUME RingProgram, NEW S \in SUBSET Threads, S # {}, \A t \in S : Succ(t) \in S
  PROVE  S = Threads
<1> DEFINE n == Len(Program)
<1>1. n \in Nat /\ n > 2 /\ Threads = 1..n
  BY RingFacts
<1>2. PICK m \in S : TRUE
  OBVIOUS
<1>3. ASSUME NEW a \in S, NEW b \in Threads, a <= b PROVE b \in S
  <2> DEFINE Out == {k \in Nat : a <= k /\ k <= n /\ k \notin S}
  <2> SUFFICES ASSUME b \notin S PROVE FALSE
    OBVIOUS
  <2>1. b \in Out
    BY <1>1, <1>3
  <2>2. PICK k \in Out : \A j \in Out : k <= j
    BY <2>1, Least
  <2>3. k # a /\ k \in Nat /\ a \in Nat /\ a > 0 /\ a <= k /\ k <= n /\ k \notin S
    BY <1>1, <2>2
  <2>4. k - 1 \in Nat /\ a <= k - 1 /\ k - 1 <= n /\ ~(k <= k - 1)
    BY <1>1, <2>3
  <2>5. k - 1 \in S
    BY <2>2, <2>4
  <2>6. Succ(k - 1) = k
    BY <1>1, <2>3, <2>4 DEF Succ
  <2> QED
    BY <2>3, <2>5, <2>6
<1>4. n \in S
  BY <1>1, <1>2, <1>3
<1>5. Succ(n) = 1
  BY DEF Succ
<1>6. 1 \in S
  BY <1>4, <1>5
<1>7. ASSUME NEW b \in Threads PROVE b \in S
  <2>1. 1 <= b
    BY <1>1
  <2> QED
    BY <1>3, <1>6, <2>1
<1> QED
  BY <1>7

-----------------------------------------------------------------------------
(* Where a thread is. *)
Mutex(t) == IF ip[t] \in {2, 3} THEN Succ(t) ELSE t
At(t, k, s) == ip[t] = k /\ stage[t] = s
HasFirst(t) == At(t, 1, "after") \/ ip[t] \in {2, 3} \/ At(t, 4, "before")
HasSecond(t) == At(t, 2, "after") \/ At(t, 3, "before")
HasLeft(t) == At(t, 4, "after") \/ ip[t] = 5
Passed(p, u, r) == (r = u /\ p[u] > 1) \/ (r = Succ(u) /\ p[u] > 2)
HasEntered(u, r) == Passed(ip, u, r)
Points(t, u) == \E e \in 1..Len(edges[t]) : edges[t][e] = u
Stuck == \A t \in Threads : At(t, 2, "real")

RingPlaces ==
    /\ owner \in [Locks -> Nat]
    /\ \A t \in Threads : /\ ip[t] \in 1..5 /\ (ip[t] \in {3, 4} => stage[t] # "real")
                          /\ (ip[t] = 5 => stage[t] = "before")
                          /\ stage[t] \in {"before", "real", "after"}
RingHeld ==
    \A t \in Threads : (HasFirst(t) => owner[t] = t) /\ (HasSecond(t) => owner[Succ(t)] = t)
Neighbours == \A t, u \in Threads : Points(t, u) => u = Succ(t) \/ t = Succ(u)
Forward ==
    \A t \in Threads : Points(t, Succ(t)) =>
        /\ ip[t] > 1 /\ ~At(t, 2, "before") /\ ip[Succ(t)] > 1
        /\ ~At(t, 2, "real") => HasLeft(Succ(t))
Backward == \A t \in Threads : Points(Succ(t), t) => ip[t] > 2 /\ ~At(Succ(t), 1, "before")
OneWay == \A t \in Threads : ~(Points(t, Succ(t)) /\ Points(Succ(t), t))
NotRound == \E t \in Threads : ~Points(Succ(t), t)
RoundStuck == (\A t \in Threads : Points(t, Succ(t))) => Stuck
Singly == \A t \in Threads : edges[t] \in Seq(Threads) /\ Distinct(edges[t])

RingInv ==
    /\ RingPlaces /\ RingHeld /\ Neighbours /\ Forward /\ Backward
    /\ OneWay /\ NotRound /\ RoundStuck /\ Singly

(* What a thread's step does in the ring, in every version. *)
Asks(t) ==
    /\ ip[t] \in {1, 2} /\ stage[t] = "before" /\ ip'[t] = ip[t] /\ stage'[t] = "real" /\ owner' = owner
    /\ \/ edges'[t] = edges[t]
       \/ \E u \in Threads : HasEntered(u, Mutex(t)) /\ edges'[t] = Append(edges[t], u)
Gets(t) ==
    /\ ip[t] \in {1, 2} /\ stage[t] = "real" /\ ip'[t] = ip[t] /\ stage'[t] = "after"
    /\ owner[Mutex(t)] = NoThread /\ owner' = [owner EXCEPT ![Mutex(t)] = t] /\ edges'[t] = edges[t]
Goes(t) ==
    /\ ip[t] \in 1..4 /\ stage[t] = "after" /\ ip'[t] = ip[t] + 1 /\ stage'[t] = "before" /\ owner' = owner
    /\ edges'[t] = edges[t] \/ \E u : edges'[t] = RemoveFirst(edges[t], u)
Frees(t) ==
    /\ ip[t] \in {3, 4} /\ stage[t] = "before" /\ ip'[t] = ip[t] /\ stage'[t] = "after"
    /\ owner' = [owner EXCEPT ![Mutex(t)] = NoThread] /\ edges'[t] = edges[t]
Moves(t) ==
    /\ \A v \in Threads \ {t} : ip'[v] = ip[v] /\ stage'[v] = stage[v] /\ edges'[v] = edges[v]
    /\ Asks(t) \/ Gets(t) \/ Goes(t) \/ Frees(t)

(* Entries that a step may add, and those it may not.                      *)
LEMMA RingEdges ==
  ASSUME Singly, NEW t \in Threads, Moves(t)
  PROVE  /\ \A v \in Threads : edges'[v] \in Seq(Threads)
         /\ \A v, u \in Threads : Points(v, u)' => Points(v, u) \/ (v = t /\ Asks(t) /\ HasEntered(u, Mutex(t)))
         /\ \A v \in Threads : \/ Distinct(edges'[v])
                               \/ v = t /\ \E u \in Threads : Asks(t) /\ HasEntered(u, Mutex(t)) /\ Points(t, u)
<1>1. /\ \A v \in Threads \ {t} : edges'[v] = edges[v] /\ edges[v] \in Seq(Threads) /\ Distinct(edges[v])
      /\ edges[t] \in Seq(Threads) /\ Distinct(edges[t])
  BY DEF Moves, Singly
<1>2. \A v \in Threads \ {t} : \A u \in Threads : Points(v, u)' => Points(v, u)
  BY <1>1 DEF Points
<1>3. CASE edges'[t] = edges[t]
  <2>1. \A u \in Threads : Points(t, u)' => Points(t, u)
    BY <1>3 DEF Points
  <2> QED
    BY <1>1, <1>2, <1>3, <2>1
<1>4. CASE \E u : edges'[t] = RemoveFirst(edges[t], u)
  <2>1. PICK x : edges'[t] = RemoveFirst(edges[t], x)
    BY <1>4
  <2>2. /\ edges'[t] \in Seq(Threads) /\ Distinct(edges'[t])
        /\ \A j \in 1..Len(edges'[t]) : \E i \in 1..Len(edges[t]) : edges'[t][j] = edges[t][i]
    BY <1>1, <2>1, RemoveFirstProps
  <2>3. \A u \in Threads : Points(t, u)' => Points(t, u)
    BY <2>2 DEF Points
  <2> QED
    BY <1>1, <1>2, <2>2, <2>3
<1>5. CASE Asks(t) /\ edges'[t] # edges[t]
  <2>1. PICK w \in Threads : HasEntered(w, Mutex(t)) /\ edges'[t] = Append(edges[t], w)
    BY <1>5 DEF Asks
  <2>2. /\ edges'[t] \in Seq(Threads) /\ Len(edges'[t]) = Len(edges[t]) + 1 /\ Len(edges[t]) \in Nat
        /\ edges'[t][Len(edges[t]) + 1] = w /\ \A i \in 1..Len(edges[t]) : edges'[t][i] = edges[t][i]
    BY <1>1, <2>1
  <2>3. \A u \in Threads : Points(t, u)' => Points(t, u) \/ u = w
    BY <2>2 DEF Points
  <2>4. ASSUME ~Points(t, w) PROVE Distinct(edges'[t])
    <3> SUFFICES ASSUME NEW i \in 1..Len(edges'[t]), NEW j \in 1..Len(edges'[t]),
                        edges'[t][i] = edges'[t][j], i < j
                 PROVE  FALSE
      BY <2>2 DEF Distinct
    <3>1. i \in 1..Len(edges[t]) /\ edges'[t][i] = edges[t][i]
      BY <2>2
    <3>2. CASE j = Len(edges[t]) + 1
      BY <2>2, <2>4, <3>1, <3>2 DEF Points
    <3>3. CASE j \in 1..Len(edges[t])
      <4>1. edges'[t][j] = edges[t][j] /\ i # j
        BY <2>2, <3>3
      <4> QED
        BY <1>1, <3>1, <3>3, <4>1 DEF Distinct
    <3> QED
      BY <2>2, <3>2, <3>3
  <2> QED
    BY <1>1, <1>2, <1>5, <2>1, <2>2, <2>3, <2>4
<1> QED
  BY <1>3, <1>4, <1>5 DEF Moves, Asks, Gets, Goes, Frees

(* The thread that a new edge points to. *)
LEMMA RingAsks ==
  ASSUME RingProgram, NEW t \in Threads, NEW u \in Threads, Asks(t), HasEntered(u, Mutex(t))
  PROVE  /\ stage[t] = "before"
         /\ (ip[t] = 1 /\ t = Succ(u) /\ ip[u] > 2) \/ (ip[t] = 2 /\ u = Succ(t) /\ ip[u] > 1)
<1>1. Succ(t) # t /\ (Succ(t) = Succ(u) => t = u)
  BY RingFacts
<1>2. CASE ip[t] = 1
  <2>1. Mutex(t) = t
    BY <1>2 DEF Mutex
  <2> QED
    BY <1>2, <2>1 DEF HasEntered, Passed, Asks
<1>3. CASE ip[t] = 2
  <2>1. Mutex(t) = Succ(t)
    BY <1>3 DEF Mutex
  <2> QED
    BY <1>1, <1>3, <2>1 DEF HasEntered, Passed, Asks
<1> QED
  BY <1>2, <1>3 DEF Asks

(* A step keeps where threads can be ... *)
LEMMA RingPlacesStep ==
  ASSUME RingProgram, RingPlaces, NEW t \in Threads, Moves(t)
  PROVE  RingPlaces'
<1>1. t \in Nat /\ NoThread \in Nat
  BY RingFacts DEF NoThread
<1>2. owner' \in [Locks -> Nat]
  BY <1>1 DEF RingPlaces, Moves, Asks, Gets, Goes, Frees
<1>3. ASSUME NEW v \in Threads
      PROVE  /\ ip'[v] \in 1..5 /\ (ip'[v] \in {3, 4} => stage'[v] # "real")
             /\ (ip'[v] = 5 => stage'[v] = "before")
             /\ stage'[v] \in {"before", "real", "after"}
  <2>1. CASE v # t
    BY <2>1 DEF RingPlaces, Moves
  <2>2. CASE v = t
    BY <2>2 DEF RingPlaces, Moves, Asks, Gets, Goes, Frees
  <2> QED
    BY <2>1, <2>2
<1> QED
  BY <1>2, <1>3 DEF RingPlaces

(* ... and that a thread really has the mutexes it has locked.             *)
LEMMA RingHeldStep ==
  ASSUME RingProgram, RingPlaces, RingHeld, NEW t \in Threads, Moves(t)
  PROVE  RingHeld'
<1>0. /\ \A v \in Threads : v \in Locks /\ v # NoThread /\ Succ(v) \in Threads /\ Succ(v) # v
      /\ \A v, u \in Threads : Succ(v) = Succ(u) => v = u
  BY RingFacts, RingCalls DEF NoThread
<1>1. ASSUME NEW v \in Threads \ {t}
      PROVE  (HasFirst(v)' <=> HasFirst(v)) /\ (HasSecond(v)' <=> HasSecond(v))
  BY DEF Moves, HasFirst, HasSecond, At
<1>2. /\ HasFirst(t)' => HasFirst(t) \/ (Gets(t) /\ Mutex(t) = t)
      /\ HasSecond(t)' => HasSecond(t) \/ (Gets(t) /\ Mutex(t) = Succ(t))
  BY DEF Moves, Asks, Gets, Goes, Frees, HasFirst, HasSecond, At, Mutex, RingPlaces
<1>3. \A v \in Threads : (HasFirst(v) => owner[v] = v) /\ (HasSecond(v) => owner[Succ(v)] = v)
  BY DEF RingHeld
<1>4. CASE owner' = owner
  <2>1. ~Gets(t)
    <3>1. owner[Mutex(t)] = NoThread /\ owner' = [owner EXCEPT ![Mutex(t)] = t] => owner'[Mutex(t)] # owner[Mutex(t)]
      <4>1. Mutex(t) \in Locks
        BY <1>0 DEF Mutex
      <4> QED
        BY <1>0, <4>1 DEF RingPlaces
    <3> QED
      BY <1>4, <3>1 DEF Gets
  <2> QED
    BY <1>1, <1>2, <1>3, <1>4, <2>1 DEF RingHeld
<1>5. CASE Gets(t)
  <2>1. Mutex(t) \in Locks /\ owner[Mutex(t)] = NoThread /\ owner' = [owner EXCEPT ![Mutex(t)] = t]
    BY <1>0, <1>5 DEF Gets, Mutex
  <2>2. owner'[Mutex(t)] = t /\ \A r \in Locks : r # Mutex(t) => owner'[r] = owner[r]
    BY <2>1 DEF RingPlaces
  <2>3. ASSUME NEW v \in Threads, HasFirst(v)' PROVE owner'[v] = v
    <3>1. CASE HasFirst(v)
      BY <1>0, <1>3, <2>1, <2>2, <3>1
    <3>2. CASE v = t /\ Mutex(t) = t
      BY <2>2, <3>2
    <3> QED
      BY <1>1, <1>2, <2>3, <3>1, <3>2
  <2>4. ASSUME NEW v \in Threads, HasSecond(v)' PROVE owner'[Succ(v)] = v
    <3>1. CASE HasSecond(v)
      BY <1>0, <1>3, <2>1, <2>2, <3>1
    <3>2. CASE v = t /\ Mutex(t) = Succ(t)
      BY <2>2, <3>2
    <3> QED
      BY <1>1, <1>2, <2>4, <3>1, <3>2
  <2> QED
    BY <2>3, <2>4 DEF RingHeld
<1>6. CASE Frees(t)
  <2>1. Mutex(t) \in Locks /\ owner' = [owner EXCEPT ![Mutex(t)] = NoThread]
    BY <1>0, <1>6 DEF Frees, Mutex
  <2>2. \A r \in Locks : r # Mutex(t) => owner'[r] = owner[r]
    BY <2>1 DEF RingPlaces
  <2>3. owner[Mutex(t)] = t
    BY <1>3, <1>6 DEF Frees, Mutex, HasFirst, HasSecond, At
  <2>4. ~Gets(t)
    BY <1>6 DEF Frees, Gets
  <2>5. /\ HasFirst(t)' => Mutex(t) # t
        /\ HasSecond(t)' => Mutex(t) # Succ(t)
    BY <1>0, <1>6 DEF Frees, Mutex, HasFirst, HasSecond, At
  <2>6. ASSUME NEW v \in Threads, HasFirst(v)' PROVE owner'[v] = v
    <3>1. HasFirst(v) /\ owner[v] = v
      BY <1>1, <1>2, <1>3, <2>4, <2>6
    <3>2. v # Mutex(t)
      BY <2>3, <2>5, <2>6, <3>1
    <3> QED
      BY <1>0, <2>2, <3>1, <3>2
  <2>7. ASSUME NEW v \in Threads, HasSecond(v)' PROVE owner'[Succ(v)] = v
    <3>1. HasSecond(v) /\ owner[Succ(v)] = v
      BY <1>1, <1>2, <1>3, <2>4, <2>7
    <3>2. Succ(v) # Mutex(t)
      BY <2>3, <2>5, <2>7, <3>1
    <3> QED
      BY <1>0, <2>2, <3>1, <3>2
  <2> QED
    BY <2>6, <2>7 DEF RingHeld
<1> QED
  BY <1>4, <1>5, <1>6 DEF Moves, Asks, Goes

(* The edges of the ring. *)
LEMMA RingGraphStep ==
  ASSUME RingProgram, RingInv, NEW t \in Threads, Moves(t)
  PROVE  Neighbours' /\ Forward' /\ Backward' /\ OneWay' /\ Singly'
<1> USE DEF RingInv
<1>0. /\ \A v \in Threads : v \in Locks /\ v # NoThread /\ Succ(v) \in Threads /\ Succ(v) # v /\ Succ(Succ(v)) # v
      /\ \A v, u \in Threads : Succ(v) = Succ(u) => v = u
  BY RingFacts, RingCalls DEF NoThread
<1> DEFINE Adds(v, u) == /\ v = t /\ Asks(t) /\ stage[t] = "before"
                         /\ (ip[t] = 1 /\ t = Succ(u) /\ ip[u] > 2) \/ (ip[t] = 2 /\ u = Succ(t) /\ ip[u] > 1)
<1>1. \A v, u \in Threads : Points(v, u)' => Points(v, u) \/ Adds(v, u)
  BY RingEdges, RingAsks
<1>2. \A v \in Threads : ip[v] \in 1..5 /\ ip'[v] \in 1..5 /\ ip[v] <= ip'[v]
  BY RingPlacesStep DEF RingPlaces, Moves, Asks, Gets, Goes, Frees
<1>3. \A v \in Threads : HasLeft(v) => HasLeft(v)'
  BY DEF HasLeft, At, Moves, Asks, Gets, Goes, Frees, RingPlaces
<1>4. Neighbours'
  BY <1>1 DEF Neighbours
<1>5. Backward'
  <2> SUFFICES ASSUME NEW v \in Threads, Points(Succ(v), v)'
               PROVE  ip'[v] > 2 /\ ~At(Succ(v), 1, "before")'
    BY DEF Backward
  <2>1. CASE Points(Succ(v), v)
    <3>1. ip[v] > 2 /\ ~At(Succ(v), 1, "before")
      BY <2>1 DEF Backward
    <3>2. ~At(Succ(v), 1, "before")'
      BY <1>0, <3>1 DEF At, Moves, Asks, Gets, Goes, Frees
    <3> QED
      BY <1>2, <3>1, <3>2
  <2>2. CASE Adds(Succ(v), v)
    <3>1. ip[v] > 2
      BY <1>0, <2>2
    <3>2. stage'[t] = "real" /\ Succ(v) = t
      BY <2>2 DEF Asks
    <3> QED
      BY <1>2, <3>1, <3>2 DEF At
  <2> QED
    BY <1>0, <1>1, <2>1, <2>2
<1>6. Forward'
  <2> SUFFICES ASSUME NEW v \in Threads, Points(v, Succ(v))'
               PROVE  /\ ip'[v] > 1 /\ ~At(v, 2, "before")' /\ ip'[Succ(v)] > 1
                      /\ ~At(v, 2, "real")' => HasLeft(Succ(v))'
    BY DEF Forward
  <2>1. CASE Points(v, Succ(v))
    <3>1. /\ ip[v] > 1 /\ ~At(v, 2, "before") /\ ip[Succ(v)] > 1
          /\ ~At(v, 2, "real") => HasLeft(Succ(v))
      BY <2>1 DEF Forward
    <3>2. ip'[v] > 1 /\ ip'[Succ(v)] > 1
      BY <1>0, <1>2, <3>1
    <3>3. ~At(v, 2, "before")'
      BY <1>2, <3>1 DEF At, Moves, Asks, Gets, Goes, Frees
    <3>4. CASE ~At(v, 2, "real")
      BY <1>0, <1>3, <3>1, <3>2, <3>3, <3>4
    <3>5. CASE At(v, 2, "real") /\ v # t
      BY <3>2, <3>3, <3>5 DEF At, Moves
    <3>6. CASE At(v, 2, "real") /\ v = t
      <4>1. Gets(t) /\ Mutex(t) = Succ(t)
        BY <3>6 DEF At, Moves, Asks, Gets, Goes, Frees, Mutex
      <4>2. owner[Succ(t)] = NoThread
        BY <4>1 DEF Gets
      <4>3. ~HasFirst(Succ(t))
        BY <1>0, <4>2 DEF RingHeld
      <4>4. HasLeft(Succ(t))
        BY <1>0, <1>2, <3>1, <3>6, <4>3 DEF HasFirst, HasLeft, At, RingPlaces
      <4> QED
        BY <1>0, <1>3, <3>2, <3>3, <3>6, <4>4
    <3> QED
      BY <3>4, <3>5, <3>6
  <2>2. CASE Adds(v, Succ(v))
    <3>1. v = t /\ ip[t] = 2 /\ ip[Succ(t)] > 1
      BY <1>0, <2>2
    <3>2. ip'[t] = 2 /\ stage'[t] = "real"
      BY <2>2, <3>1 DEF Asks
    <3> QED
      BY <1>0, <1>2, <3>1, <3>2 DEF At
  <2> QED
    BY <1>0, <1>1, <2>1, <2>2
<1>7. OneWay'
  <2> SUFFICES ASSUME NEW v \in Threads, Points(v, Succ(v))', Points(Succ(v), v)' PROVE FALSE
    BY DEF OneWay
  <2>1. CASE Points(v, Succ(v)) /\ Adds(Succ(v), v)
    <3>1. Succ(v) = t /\ ip[t] = 1
      BY <1>0, <2>1
    <3> QED
      BY <2>1, <3>1 DEF Forward
  <2>2. CASE Adds(v, Succ(v)) /\ Points(Succ(v), v)
    <3>1. v = t /\ ip[t] = 2
      BY <1>0, <2>2
    <3> QED
      BY <2>2, <3>1 DEF Backward
  <2>3. CASE Points(v, Succ(v)) /\ Points(Succ(v), v)
    BY <2>3 DEF OneWay
  <2>4. CASE Adds(v, Succ(v)) /\ Adds(Succ(v), v)
    BY <1>0, <2>4
  <2> QED
    BY <1>0, <1>1, <2>1, <2>2, <2>3, <2>4
<1>8. Singly'
  <2> SUFFICES ASSUME NEW u \in Threads, Asks(t), HasEntered(u, Mutex(t)), Points(t, u) PROVE FALSE
    BY RingEdges DEF Singly
  <2>1. CASE ip[t] = 1 /\ t = Succ(u)
    BY <2>1 DEF Backward, At, Asks
  <2>2. CASE ip[t] = 2 /\ u = Succ(t)
    BY <2>2 DEF Forward, At, Asks
  <2> QED
    BY <2>1, <2>2, RingAsks
<1> QED
  BY <1>4, <1>5, <1>6, <1>7, <1>8

(* Threads that stand in a circle stay there. *)
LEMMA StuckStays ==
  ASSUME RingProgram, RingInv, Stuck, NEW t \in Threads, Moves(t)
  PROVE  FALSE
<1>1. At(t, 2, "real") /\ At(Succ(t), 2, "real") /\ Succ(t) \in Threads /\ Succ(t) # NoThread
  BY RingFacts DEF Stuck, NoThread
<1>2. Gets(t) /\ Mutex(t) = Succ(t)
  BY <1>1 DEF At, Moves, Asks, Gets, Goes, Frees, Mutex
<1>3. owner[Succ(t)] = Succ(t)
  BY <1>1 DEF RingInv, RingHeld, HasFirst, At
<1> QED
  BY <1>1, <1>2, <1>3 DEF Gets

(* A step of a thread keeps it all: the edge that would close the circle   *)
(* backwards is never added, and the one that closes it forwards is the    *)
(* last thread's, when every other one waits.                              *)
LEMMA RingMove ==
  ASSUME RingProgram, RingInv, NEW t \in Threads, Moves(t)
  PROVE  RingInv'
<1>0. \A v \in Threads : Succ(v) \in Threads /\ Succ(v) # v
  BY RingFacts
<1>1. RingPlaces' /\ RingHeld' /\ Neighbours' /\ Forward' /\ Backward' /\ OneWay' /\ Singly'
  BY RingPlacesStep, RingHeldStep, RingGraphStep DEF RingInv
<1>2. CASE \A v, u \in Threads : Points(v, u)' => Points(v, u)
  <2>1. NotRound'
    BY <1>0, <1>2 DEF RingInv, NotRound
  <2>2. RoundStuck'
    <3>1. ASSUME \A v \in Threads : Points(v, Succ(v))' PROVE FALSE
      <4>1. Stuck
        BY <1>0, <1>2, <3>1 DEF RingInv, RoundStuck
      <4> QED
        BY <4>1, StuckStays
    <3> QED
      BY <3>1 DEF RoundStuck
  <2> QED
    BY <1>1, <2>1, <2>2 DEF RingInv
<1>3. CASE \E v, u \in Threads : Points(v, u)' /\ ~Points(v, u)
  <2>1. PICK u \in Threads : Asks(t) /\ HasEntered(u, Mutex(t)) /\ ~Points(t, u) /\ Points(t, u)'
    BY <1>3, RingEdges DEF RingInv
  <2>2. ip[t] \in {1, 2} /\ edges'[Succ(t)] = edges[Succ(t)] /\ ip'[t] = ip[t] /\ stage'[t] = "real"
    BY <1>0, <2>1 DEF Asks, Moves
  <2>3. ~Points(Succ(t), t)'
    <3>1. ~Points(Succ(t), t)
      BY <2>2 DEF RingInv, Backward
    <3> QED
      BY <2>2, <3>1 DEF Points
  <2>4. NotRound'
    BY <2>3 DEF NotRound
  <2>5. RoundStuck'
    <3> SUFFICES ASSUME \A v \in Threads : Points(v, Succ(v))' PROVE Stuck'
      BY DEF RoundStuck
    <3> DEFINE S == {v \in Threads : ~At(v, 2, "real")'}
    <3>1. ASSUME NEW v \in S PROVE Succ(v) \in S
      <4>1. HasLeft(Succ(v))'
        BY <1>1 DEF Forward
      <4>2. ~At(Succ(v), 2, "real")'
        BY <4>1 DEF HasLeft, At
      <4> QED
        BY <1>0, <4>2
    <3>2. ip'[t] # 1
      BY <1>1 DEF Forward
    <3>3. t \notin S
      BY <2>2, <3>2 DEF At
    <3>4. S = {}
      <4> HIDE DEF S
      <4>1. S \in SUBSET Threads
        BY DEF S
      <4> QED
        BY <3>1, <3>3, <4>1, RingCross
    <3> QED
      BY <3>4 DEF Stuck
  <2> QED
    BY <1>1, <2>4, <2>5 DEF RingInv
<1> QED
  BY <1>2, <1>3

(* The mutex of a thread's next call in the ring. *)
LEMMA RingCall ==
  ASSUME RingProgram, DetectorTypes, NEW t \in Threads
  PROVE  /\ ip[t] \in 1..5
         /\ Locking(t) => ip[t] \in {1, 2} /\ ~Done(t) /\ Lock(t) = Mutex(t)
         /\ Unlocking(t) => ip[t] \in {3, 4} /\ ~Done(t) /\ Lock(t) = Mutex(t)
         /\ At(t, 2, "real") => Locking(t)
<1>1. t \in Nat \ {0} /\ Succ(t) \in Nat \ {0}
  BY RingFacts
<1>2. /\ Len(Program[t]) = 4 /\ Program[t][1] = t /\ Program[t][2] = Succ(t)
      /\ Program[t][3] = -Succ(t) /\ Program[t][4] = -t
  BY RingCalls
<1>3. ip[t] \in 1..5
  <2>1. ip[t] \in 1..(Len(Program[t]) + 1)
    BY DEF DetectorTypes
  <2> QED
    BY <1>2, <2>1
<1>4. Call(t) = Program[t][ip[t]] /\ (Done(t) <=> ip[t] = 5)
  BY <1>2, <1>3 DEF Call, Done
<1>5. CASE ip[t] = 1
  BY <1>1, <1>2, <1>4, <1>5 DEF Locking, Unlocking, Lock, Mutex, At
<1>6. CASE ip[t] = 2
  BY <1>1, <1>2, <1>4, <1>6 DEF Locking, Unlocking, Lock, Mutex, At
<1>7. CASE ip[t] = 3
  BY <1>1, <1>2, <1>4, <1>7 DEF Locking, Unlocking, Lock, Mutex, At
<1>8. CASE ip[t] = 4
  BY <1>1, <1>2, <1>4, <1>8 DEF Locking, Unlocking, Lock, Mutex, At
<1>9. CASE ip[t] = 5
  BY <1>4, <1>9 DEF Locking, Unlocking, At
<1> QED
  BY <1>3, <1>5, <1>6, <1>7, <1>8, <1>9

(* The end of a hook. *)
LEMMA RingNextCall ==
  ASSUME DetectorTypes, NEW t \in Threads, NextCall(t)
  PROVE  /\ ip'[t] = ip[t] + 1 /\ stage'[t] = "before"
         /\ \A v \in Threads \ {t} : ip'[v] = ip[v] /\ stage'[v] = stage[v]
BY DEF NextCall, DetectorTypes

-----------------------------------------------------------------------------
(* The list names threads that have entered the mutex of their slot. *)
AllPassed(l, p) ==
    \A i \in 1..Len(l) : l[i].lock_id # NoLock => l[i].id \in Threads /\ Passed(p, l[i].id, l[i].lock_id)
NoEarlier(p, q) == \A u \in Threads : p[u] \in Nat /\ q[u] \in Nat /\ p[u] <= q[u]

(* Nobody goes back, so a slot that was right stays right ... *)
LEMMA PassedLater ==
  ASSUME NEW p, NEW q, NoEarlier(p, q), NEW l, AllPassed(l, p)
  PROVE  AllPassed(l, q)
<1>1. ASSUME NEW u \in Threads, NEW r, Passed(p, u, r) PROVE Passed(q, u, r)
  BY <1>1 DEF NoEarlier, Passed
<1> QED
  BY <1>1 DEF AllPassed

(* ... and so does a list with one new right slot. *)
LEMMA PassedSet ==
  ASSUME NEW p, NEW q, NoEarlier(p, q), NEW l \in Seq(Slot), AllPassed(l, p), NEW i \in 1..Len(l),
         NEW m, m \in [1..Len(l) -> Slot], \A j \in 1..Len(l) : j # i => m[j] = l[j],
         m[i].lock_id # NoLock => m[i].id \in Threads /\ Passed(q, m[i].id, m[i].lock_id)
  PROVE  AllPassed(m, q)
<1>1. AllPassed(l, q)
  BY PassedLater
<1>2. Len(m) = Len(l)
  <2>1. Len(l) \in Nat
    OBVIOUS
  <2> QED
    BY <2>1
<1>3. ASSUME NEW j \in 1..Len(l), m[j].lock_id # NoLock
      PROVE  m[j].id \in Threads /\ Passed(q, m[j].id, m[j].lock_id)
  <2>1. CASE j = i
    BY <1>3, <2>1
  <2>2. CASE j # i
    <3>1. m[j] = l[j]
      BY <2>2
    <3> QED
      BY <1>1, <1>3, <3>1 DEF AllPassed
  <2> QED
    BY <2>1, <2>2
<1> QED
  BY <1>2, <1>3 DEF AllPassed

(* An entry that goes. *)
LEMMA PassedEmptied ==
  ASSUME NEW p, NEW q, NoEarlier(p, q), NEW l \in Seq(Slot), AllPassed(l, p), NEW i \in 1..Len(l),
         NEW m, m = Taking(l, i, NoThread, NoLock)
  PROVE  AllPassed(m, q)
<1>1. NoThread \in Threads \cup {NoThread} /\ NoLock \in Locks \cup {NoLock}
  OBVIOUS
<1>2. /\ m \in [1..Len(l) -> Slot] /\ m[i].lock_id = NoLock
      /\ \A j \in 1..Len(l) : j # i => m[j] = l[j]
  BY <1>1, SlotTaken
<1> QED
  BY <1>2, PassedSet

(* A new entry of the list. *)
LEMMA PassedListed ==
  ASSUME LocksListed(locklist), NEW p, NEW q, NoEarlier(p, q), AllPassed(locklist, p),
         NEW t \in Threads, NEW r \in Locks, ListLock(t, r), Passed(q, t, r)
  PROVE  AllPassed(locklist', q)
<1> DEFINE l == Append(locklist, EmptySlot)
           k == SearchEmptyLock
<1>1. EmptySlot.lock_id = NoLock
  BY DEF EmptySlot
<1>2. /\ l \in Seq(Slot) /\ Len(l) = Len(locklist) + 1 /\ Len(locklist) \in Nat
      /\ l[Len(locklist) + 1] = EmptySlot /\ \A i \in 1..Len(locklist) : l[i] = locklist[i]
  BY SlotFound
<1>3. k \in 1..Len(l)
  BY SlotFound
<1>4. PICK m : m = locklist' /\ m = Taking(l, k, t, r)
  BY DEF ListLock, Taking
<1>5. AllPassed(l, p)
  BY <1>1, <1>2 DEF AllPassed
<1> HIDE DEF l, k
<1>6. t \in Threads \cup {NoThread} /\ r \in Locks \cup {NoLock} /\ m = Taking(l, k, t, r)
  BY <1>4
<1>7. /\ m \in [1..Len(l) -> Slot] /\ m[k].id = t /\ m[k].lock_id = r
      /\ \A j \in 1..Len(l) : j # k => m[j] = l[j]
  BY <1>2, <1>3, <1>6, SlotTaken
<1>8. AllPassed(m, q)
  BY <1>2, <1>3, <1>5, <1>7, PassedSet
<1> QED
  BY <1>4, <1>8

-----------------------------------------------------------------------------
(* The hooks of deadlock.c in the ring. *)
LEMMA RingListStep ==
  ASSUME RingProgram, DetectorInv, AllPassed(locklist, ip), NEW t \in Threads, Step(t)
  PROVE  Moves(t) /\ AllPassed(locklist', ip')
<1> DEFINE r == Lock(t)
           idx == SearchLock(r)
           to == locklist[idx].id
<1>0. /\ LocksListed(locklist) /\ locklist \in Seq(Slot) /\ DetectorTypes
      /\ ip \in [Threads -> Nat] /\ stage \in [Threads -> {"before", "real", "after"}]
      /\ edges \in [Threads -> Seq(Threads)]
  BY DEF DetectorInv, DetectorTypes, LocksListed
<1>1. ASSUME NEW q, \A v \in Threads : q[v] = ip[v] \/ q[v] = ip[v] + 1 PROVE NoEarlier(ip, q)
  <2> SUFFICES ASSUME NEW v \in Threads PROVE ip[v] \in Nat /\ q[v] \in Nat /\ ip[v] <= q[v]
    BY DEF NoEarlier
  <2>1. ip[v] \in Nat /\ (q[v] = ip[v] \/ q[v] = ip[v] + 1)
    BY <1>0, <1>1
  <2> QED
    BY <2>1
<1>9. locklist \in Seq(Slot)
  BY <1>0
<1>2. Locking(t) \/ Unlocking(t) => r \in Locks /\ r # NoLock /\ ~Done(t) /\ r = Mutex(t)
  <2>1. ASSUME Locking(t) \/ Unlocking(t) PROVE r \in Locks /\ r # NoLock
    BY <1>0, <2>1, CallLock, LocksAssumption DEF Locking, Unlocking, NoLock
  <2> QED
    BY <1>0, <2>1, RingCall
<1>3. ASSUME r \in Locks, idx # 0
      PROVE  /\ idx \in 1..Len(locklist) /\ to \in Threads
             /\ locklist[idx].lock_id = r /\ locklist[idx] \in Slot /\ locklist[idx].degress \in Int
  <2>1. idx \in 1..Len(locklist) /\ to \in Threads /\ locklist[idx].lock_id = r
    BY <1>0, <1>3, SearchLockProps
  <2> HIDE DEF idx
  <2>2. locklist[idx] \in Slot
    BY <1>0, <2>1
  <2> QED
    BY <2>1, <2>2 DEF Slot
<1>4. CASE LockBefore(t)
  <2>1. /\ Locking(t) /\ stage[t] = "before" /\ stage' = [stage EXCEPT ![t] = "real"] /\ ip' = ip /\ owner' = owner
        /\ r \in Locks /\ r # NoLock /\ r = Mutex(t) /\ ip[t] \in {1, 2}
    BY <1>0, <1>2, <1>4, RingCall DEF LockBefore
  <2>2. CASE idx = 0
    <3>1. UNCHANGED <<locklist, edges>>
      BY <1>4, <2>2 DEF LockBefore
    <3> QED
      BY <1>0, <2>1, <3>1 DEF Moves, Asks
  <2>3. CASE idx # 0
    <3>1. /\ locklist' = [locklist EXCEPT ![idx].degress = @ + 1]
          /\ edges' = edges \/ edges' = [edges EXCEPT ![t] = Append(@, to)]
      BY <1>4, <2>3 DEF LockBefore, AddEdge
    <3>2. /\ idx \in 1..Len(locklist) /\ to \in Threads
          /\ locklist[idx].lock_id = r /\ locklist[idx].degress + 1 \in Int
      BY <1>3, <2>1, <2>3
    <3> HIDE DEF idx
    <3>3. HasEntered(to, Mutex(t))
      BY <2>1, <3>2 DEF AllPassed, Passed, HasEntered
    <3>4. Moves(t)
      BY <1>0, <2>1, <3>1, <3>2, <3>3 DEF Moves, Asks
    <3>5. PICK m : m = locklist' /\ m = Counting(locklist, idx, locklist[idx].degress + 1)
      BY <3>1 DEF Counting
    <3>6. /\ m \in [1..Len(locklist) -> Slot] /\ m[idx].id = to /\ m[idx].lock_id = r
          /\ \A j \in 1..Len(locklist) : j # idx => m[j] = locklist[j]
      <4>1. PICK d \in Int : m = Counting(locklist, idx, d)
        BY <3>2, <3>5
      <4>2. PICK i \in 1..Len(locklist) : i = idx
        BY <3>2
      <4>3. /\ m \in [1..Len(locklist) -> Slot] /\ m[i].id = locklist[i].id /\ m[i].lock_id = locklist[i].lock_id
            /\ \A j \in 1..Len(locklist) : j # i => m[j] = locklist[j]
        <5>1. m = Counting(locklist, i, d)
          BY <4>1, <4>2
        <5> HIDE <4>1, <4>2
        <5> QED
          BY <1>9, <5>1, SlotCounted
      <4> QED
        BY <3>2, <4>2, <4>3
    <3>7. NoEarlier(ip, ip) /\ Passed(ip, to, r)
      BY <1>1, <2>1, <3>2 DEF AllPassed
    <3>8. AllPassed(m, ip)
      <4>1. m[idx].id \in Threads /\ Passed(ip, m[idx].id, m[idx].lock_id)
        BY <3>2, <3>6, <3>7
      <4> QED
        BY <1>9, <3>2, <3>6, <3>7, <4>1, PassedSet
    <3> QED
      BY <2>1, <3>4, <3>5, <3>8
  <2> QED
    BY <2>2, <2>3
<1>5. CASE RealLock(t)
  <2>1. /\ Locking(t) /\ stage[t] = "real" /\ UNCHANGED <<ip, locklist, edges>> /\ stage' = [stage EXCEPT ![t] = "after"]
        /\ owner[Mutex(t)] = NoThread /\ owner' = [owner EXCEPT ![Mutex(t)] = t] /\ ip[t] \in {1, 2}
    BY <1>0, <1>2, <1>5, RingCall DEF RealLock
  <2> QED
    BY <1>0, <2>1 DEF Moves, Gets
<1>6. CASE LockAfter(t)
  <2>1. /\ Locking(t) /\ stage[t] = "after" /\ NextCall(t) /\ owner' = owner
        /\ r \in Locks /\ r # NoLock /\ r = Mutex(t) /\ ip[t] \in {1, 2}
    BY <1>0, <1>2, <1>6, RingCall DEF LockAfter
  <2>2. /\ ip'[t] = ip[t] + 1 /\ stage'[t] = "before"
        /\ \A v \in Threads \ {t} : ip'[v] = ip[v] /\ stage'[v] = stage[v]
    BY <1>0, <2>1, RingNextCall
  <2>3. NoEarlier(ip, ip') /\ Passed(ip', t, r)
    <3>1. Passed(ip', t, r)
      BY <2>1, <2>2 DEF Passed, Mutex
    <3> QED
      BY <1>1, <2>2, <3>1
  <2>4. CASE idx = 0
    <3>1. ListLock(t, r) /\ edges' = edges
      BY <1>6, <2>4 DEF LockAfter
    <3>2. AllPassed(locklist', ip')
      BY <1>0, <2>1, <2>3, <3>1, PassedListed
    <3> QED
      BY <2>1, <2>2, <3>1, <3>2 DEF Moves, Goes
  <2>5. CASE idx # 0
    <3>1. /\ locklist' = [locklist EXCEPT ![idx].degress = @ - 1, ![idx].id = t]
          /\ edges' = [edges EXCEPT ![t] = RemoveFirst(@, to)]
      BY <1>6, <2>5 DEF LockAfter, RemoveEdge
    <3>2. /\ idx \in 1..Len(locklist) /\ locklist[idx].lock_id = r /\ locklist[idx].degress - 1 \in Int
      BY <1>3, <2>1, <2>5
    <3> HIDE DEF idx
    <3>3. edges'[t] = RemoveFirst(edges[t], to) /\ \A v \in Threads \ {t} : edges'[v] = edges[v]
      BY <1>0, <3>1
    <3>4. Moves(t)
      BY <2>1, <2>2, <3>3 DEF Moves, Goes
    <3>5. PICK m : m = locklist' /\ m = PassingOn(locklist, idx, locklist[idx].degress - 1, t)
      BY <3>1 DEF PassingOn
    <3>6. /\ m \in [1..Len(locklist) -> Slot] /\ m[idx].id = t /\ m[idx].lock_id = r
          /\ \A j \in 1..Len(locklist) : j # idx => m[j] = locklist[j]
      <4>1. t \in Threads \cup {NoThread}
        OBVIOUS
      <4> QED
        BY <1>9, <3>2, <3>5, <4>1, SlotPassedOn
    <3>7. AllPassed(m, ip')
      <4>1. PICK q : q = ip' /\ NoEarlier(ip, q) /\ Passed(q, m[idx].id, m[idx].lock_id)
        BY <2>3, <3>6
      <4>2. AllPassed(m, q)
        BY <1>9, <3>2, <3>6, <4>1, PassedSet
      <4> QED
        BY <4>1, <4>2
    <3> QED
      BY <3>4, <3>5, <3>7
  <2> QED
    BY <2>4, <2>5
<1>7. CASE RealUnlock(t)
  <2>1. /\ Unlocking(t) /\ stage[t] = "before" /\ UNCHANGED <<ip, locklist, edges>>
        /\ stage' = [stage EXCEPT ![t] = "after"]
        /\ owner' = [owner EXCEPT ![Mutex(t)] = NoThread] /\ ip[t] \in {3, 4}
    BY <1>0, <1>2, <1>7, RingCall DEF RealUnlock
  <2> QED
    BY <1>0, <2>1 DEF Moves, Frees
<1>8. CASE UnlockAfter(t)
  <2>1. /\ Unlocking(t) /\ stage[t] = "after" /\ NextCall(t) /\ owner' = owner /\ edges' = edges
        /\ r \in Locks /\ ip[t] \in {3, 4}
    BY <1>0, <1>2, <1>8, RingCall DEF UnlockAfter
  <2>2. /\ ip'[t] = ip[t] + 1 /\ stage'[t] = "before"
        /\ \A v \in Threads \ {t} : ip'[v] = ip[v] /\ stage'[v] = stage[v]
    BY <1>0, <2>1, RingNextCall
  <2>3. NoEarlier(ip, ip')
    BY <1>1, <2>2
  <2>4. AllPassed(locklist', ip')
    <3>1. CASE locklist' = locklist
      <4>1. AllPassed(locklist, ip')
        BY <2>3, PassedLater
      <4> QED
        BY <3>1, <4>1
    <3>2. CASE locklist' # locklist
      <4>1. idx # 0 /\ locklist' = [locklist EXCEPT ![idx].id = NoThread, ![idx].lock_id = NoLock]
        BY <1>8, <3>2 DEF UnlockAfter
      <4>2. PICK i \in 1..Len(locklist) : i = idx
        BY <1>3, <2>1, <4>1
      <4>3. PICK m : m = locklist' /\ m = Taking(locklist, i, NoThread, NoLock)
        BY <4>1, <4>2 DEF Taking
      <4>4. PICK q : q = ip' /\ NoEarlier(ip, q)
        BY <2>3
      <4>5. AllPassed(m, q)
        BY <1>9, <4>3, <4>4, PassedEmptied
      <4> QED
        BY <4>3, <4>4, <4>5
    <3> QED
      BY <3>1, <3>2
  <2> QED
    BY <2>1, <2>2, <2>4 DEF Moves, Goes
<1> QED
  BY <1>4, <1>5, <1>6, <1>7, <1>8 DEF Step

(* The rows of the table, too. *)
LEMMA RingRow ==
  ASSUME RingProgram, DetectorInv, NEW r \in Locks, NEW u, u = search_rela_table(r), u # NoThread
  PROVE  u \in Threads /\ HasEntered(u, r)
<1> DEFINE rows == {i \in 1..MAX : rela_table[i].mtx = r}
<1>1. rows # {} /\ u = rela_table[First(rows)].thid
  BY DEF search_rela_table
<1>2. First(rows) \in rows
  BY <1>1, Least, rows \in SUBSET Nat DEF First
<1>3. PICK k \in 1..MAX : k = First(rows) /\ rela_table[k].mtx = r /\ rela_table[k].thid = u
  BY <1>1, <1>2
<1> HIDE DEF rows
<1>4. rela_table[k] \in Row
  <2>1. rela_table[k] \in Row \cup {NoRow}
    BY DEF DetectorInv, DetectorTypes
  <2> QED
    BY <1>3, <2>1, LocksAssumption DEF NoRow, NoLock
<1>5. u \in Threads /\ rela_table[k] = [mtx |-> r, thid |-> u]
  BY <1>3, <1>4 DEF Row
<1>6. Entered(u, r)
  BY <1>5 DEF DetectorInv, RowsMatch
<1>7. PICK i \in 1..(ip[u] - 1) : Program[u][i] = r
  BY <1>6 DEF Entered, LockedBefore
<1>8. ip[u] \in 1..5 /\ u \in Nat \ {0} /\ Succ(u) \in Nat \ {0} /\ r \in Nat \ {0}
  BY <1>5, RingCall, RingFacts, LocksAssumption DEF DetectorInv
<1>9. i \in 1..4 /\ i < ip[u]
  BY <1>7, <1>8
<1>10. /\ Program[u][1] = u /\ Program[u][2] = Succ(u)
       /\ Program[u][3] = -Succ(u) /\ Program[u][4] = -u
  BY <1>5, RingCalls
<1>11. CASE i = 1
  BY <1>5, <1>7, <1>8, <1>9, <1>10, <1>11 DEF HasEntered, Passed
<1>12. CASE i = 2
  BY <1>5, <1>7, <1>8, <1>9, <1>10, <1>12 DEF HasEntered, Passed
<1>13. CASE i = 3
  BY <1>7, <1>8, <1>10, <1>13
<1>14. CASE i = 4
  BY <1>7, <1>8, <1>10, <1>14
<1> QED
  BY <1>9, <1>11, <1>12, <1>13, <1>14

(* The hooks of deadlock-default.c in the ring. *)
LEMMA RingTableStep ==
  ASSUME RingProgram, DetectorInv, NEW t \in Threads, TableStep(t)
  PROVE  Moves(t) /\ locklist' = locklist
<1>0. /\ DetectorTypes /\ ip \in [Threads -> Nat] /\ stage \in [Threads -> {"before", "real", "after"}]
      /\ edges \in [Threads -> Seq(Threads)]
  BY DEF DetectorInv, DetectorTypes
<1>1. Locking(t) \/ Unlocking(t) => Lock(t) \in Locks /\ Lock(t) = Mutex(t)
  <2>1. ASSUME Locking(t) \/ Unlocking(t) PROVE Lock(t) \in Locks
    BY <1>0, <2>1, CallLock DEF Locking, Unlocking
  <2> QED
    BY <1>0, <2>1, RingCall
<1>2. CASE LockHook(t)
  <2>1. /\ Locking(t) /\ stage[t] = "before" /\ stage' = [stage EXCEPT ![t] = "real"] /\ ip' = ip /\ owner' = owner
        /\ Lock(t) \in Locks /\ Lock(t) = Mutex(t) /\ ip[t] \in {1, 2} /\ locklist' = locklist
    BY <1>0, <1>1, <1>2, RingCall DEF LockHook
  <2>2. CASE edges' = edges
    BY <1>0, <2>1, <2>2 DEF Moves, Asks
  <2>3. CASE edges' # edges
    <3>1. before_lock(t, Lock(t))
      BY <1>2, <2>3 DEF LockHook
    <3>2. PICK u : u = search_rela_table(Lock(t))
      OBVIOUS
    <3>3. u # NoThread /\ edges' = [edges EXCEPT ![t] = Append(@, u)]
      BY <2>3, <3>1, <3>2 DEF before_lock, add_edge
    <3>4. u \in Threads /\ HasEntered(u, Mutex(t))
      BY <2>1, <3>2, <3>3, RingRow
    <3> QED
      BY <1>0, <2>1, <3>3, <3>4 DEF Moves, Asks
  <2> QED
    BY <2>2, <2>3
<1>3. CASE LockReal(t)
  <2>1. /\ Locking(t) /\ stage[t] = "real" /\ UNCHANGED <<ip, locklist, edges>> /\ stage' = [stage EXCEPT ![t] = "after"]
        /\ owner[Mutex(t)] = NoThread /\ owner' = [owner EXCEPT ![Mutex(t)] = t] /\ ip[t] \in {1, 2}
    BY <1>0, <1>1, <1>3, RingCall DEF LockReal, RealLock
  <2> QED
    BY <1>0, <2>1 DEF Moves, Gets
<1>4. CASE LockReturn(t)
  <2>1. /\ Locking(t) /\ stage[t] = "after" /\ NextCall(t) /\ owner' = owner /\ locklist' = locklist
        /\ ip[t] \in {1, 2}
    BY <1>0, <1>1, <1>4, RingCall DEF LockReturn
  <2>2. /\ ip'[t] = ip[t] + 1 /\ stage'[t] = "before"
        /\ \A v \in Threads \ {t} : ip'[v] = ip[v] /\ stage'[v] = stage[v]
    BY <1>0, <2>1, RingNextCall
  <2>3. CASE edges' = edges
    BY <2>1, <2>2, <2>3 DEF Moves, Goes
  <2>4. CASE edges' # edges
    <3>1. PICK u : u = search_rela_table(Lock(t))
      OBVIOUS
    <3>2. edges' = [edges EXCEPT ![t] = RemoveFirst(@, u)]
      BY <1>4, <2>4, <3>1 DEF LockReturn, after_lock, remove_edge
    <3>3. edges'[t] = RemoveFirst(edges[t], u) /\ \A v \in Threads \ {t} : edges'[v] = edges[v]
      BY <1>0, <3>2
    <3> QED
      BY <2>1, <2>2, <3>3 DEF Moves, Goes
  <2> QED
    BY <2>3, <2>4
<1>5. CASE UnlockReal(t)
  <2>1. /\ Unlocking(t) /\ stage[t] = "before" /\ UNCHANGED <<ip, locklist, edges>>
        /\ stage' = [stage EXCEPT ![t] = "after"]
        /\ owner' = [owner EXCEPT ![Mutex(t)] = NoThread] /\ ip[t] \in {3, 4}
    BY <1>0, <1>1, <1>5, RingCall DEF UnlockReal, RealUnlock
  <2> QED
    BY <1>0, <2>1 DEF Moves, Frees
<1>6. CASE UnlockReturn(t)
  <2>1. /\ Unlocking(t) /\ stage[t] = "after" /\ NextCall(t) /\ owner' = owner /\ edges' = edges
        /\ locklist' = locklist /\ ip[t] \in {3, 4}
    BY <1>0, <1>1, <1>6, RingCall DEF UnlockReturn
  <2>2. /\ ip'[t] = ip[t] + 1 /\ stage'[t] = "before"
        /\ \A v \in Threads \ {t} : ip'[v] = ip[v] /\ stage'[v] = stage[v]
    BY <1>0, <2>1, RingNextCall
  <2> QED
    BY <2>1, <2>2 DEF Moves, Goes
<1> QED
  BY <1>2, <1>3, <1>4, <1>5, <1>6 DEF TableStep

-----------------------------------------------------------------------------
(* In the ring, a check reports a cycle only of threads that are stuck.    *)
LEMMA RingReport ==
  ASSUME RingProgram, DetectorInv, RingInv, CheckDeadLock(Graph)
  PROVE  Stuck
<1>0. /\ \A v \in Threads : Succ(v) \in Threads /\ Succ(v) # v
      /\ \A v, u \in Threads : Succ(v) = Succ(u) => v = u
  BY RingFacts
<1>1. /\ list \in Seq(Threads) /\ edges \in [Threads -> Seq(Threads)] /\ Known(list, edges)
      /\ Len(list) \in Nat
  BY DEF DetectorInv, DetectorTypes
<1>2. ASSUME NEW i \in 1..Len(list)
      PROVE  /\ list[i] \in Threads /\ Len(edges[list[i]]) \in Nat /\ Len(Graph[i]) = Len(edges[list[i]])
             /\ \A e \in 1..Len(Graph[i]) :
                  /\ Graph[i][e] \in 1..Len(list) /\ list[Graph[i][e]] = edges[list[i]][e]
  <2>1. PICK t \in Threads : t = list[i] /\ edges[t] \in Seq(Threads) /\ Len(edges[t]) \in Nat
    BY <1>1
  <2>2. Graph[i] = [e \in 1..Len(edges[t]) |-> VertexIndex(edges[t][e])]
    BY <2>1 DEF Graph
  <2>3. Len(Graph[i]) = Len(edges[t])
    BY <2>1, <2>2
  <2>4. ASSUME NEW e \in 1..Len(edges[t])
        PROVE  /\ Graph[i][e] \in 1..Len(list) /\ list[Graph[i][e]] = edges[t][e]
    <3>1. \E j \in 1..Len(list) : list[j] = edges[t][e]
      BY <1>1 DEF Known, Listed
    <3>2. VertexIndex(edges[t][e]) \in 1..Len(list) /\ list[VertexIndex(edges[t][e])] = edges[t][e]
      BY <3>1 DEF VertexIndex
    <3> QED
      BY <2>2, <3>2
  <2> QED
    BY <2>1, <2>3, <2>4
<1>3. Graph \in Seq(Seq(1..Len(Graph))) /\ Len(Graph) = Len(list)
  BY GraphWalkable
<1>4. ASSUME NEW t \in Threads, NEW u \in Threads, Points(t, u) PROVE Len(edges[u]) <= 1
  <2> SUFFICES ASSUME Len(edges[u]) > 1 PROVE FALSE
    <3>1. Len(edges[u]) \in Nat
      BY <1>1
    <3> QED
      BY <3>1
  <2>1. 1 \in 1..Len(edges[u]) /\ 2 \in 1..Len(edges[u]) /\ edges[u] \in Seq(Threads)
    BY <1>1
  <2>2. edges[u][1] \in Threads /\ edges[u][2] \in Threads /\ edges[u][1] # edges[u][2]
    BY <2>1 DEF RingInv, Singly, Distinct
  <2>3. Points(u, edges[u][1]) /\ Points(u, edges[u][2])
    BY <2>1 DEF Points
  <2>4. \A v \in Threads : Points(u, v) => (v = Succ(u) \/ u = Succ(v)) /\ v # t
    <3>1. ASSUME Points(u, t) PROVE FALSE
      BY <1>4, <3>1 DEF RingInv, Neighbours, OneWay
    <3> QED
      BY <3>1 DEF RingInv, Neighbours
  <2>5. u = Succ(t) \/ t = Succ(u)
    BY <1>4 DEF RingInv, Neighbours
  <2> QED
    BY <1>0, <2>2, <2>3, <2>4, <2>5
<1>5. OneEdgeAfter(Graph)
  <2> SUFFICES ASSUME NEW v \in 1..Len(Graph), NEW e \in 1..Len(Graph[v])
               PROVE  Len(Graph[Graph[v][e]]) <= 1
    BY DEF OneEdgeAfter
  <2>1. PICK w \in 1..Len(list) : w = Graph[v][e] /\ list[w] = edges[list[v]][e]
    BY <1>2, <1>3
  <2>2. Points(list[v], list[w]) /\ list[v] \in Threads /\ list[w] \in Threads
    BY <1>2, <1>3, <2>1 DEF Points
  <2> QED
    BY <1>2, <1>4, <2>1, <2>2
<1>6. HasCycle(Graph)
  BY <1>3, <1>5, SearchAnswersRight DEF RightAnswer, OneEdgeAfter
<1>7. PICK S \in (SUBSET (1..Len(Graph))) \ {{}} : \A v \in S : \E e \in 1..Len(Graph[v]) : Graph[v][e] \in S
  BY <1>6 DEF HasCycle
<1> DEFINE T == {t \in Threads : \E v \in S : list[v] = t}
<1>8. T # {}
  <2>1. PICK v \in S : v \in 1..Len(list)
    BY <1>3, <1>7
  <2> QED
    BY <1>2, <2>1
<1>9. ASSUME NEW t \in T PROVE \E u \in T : Points(t, u)
  <2>1. PICK v \in S : list[v] = t /\ v \in 1..Len(list)
    BY <1>3, <1>7, <1>9
  <2>2. PICK e \in 1..Len(Graph[v]) : Graph[v][e] \in S
    BY <1>7, <2>1
  <2>3. PICK w \in S : w = Graph[v][e] /\ w \in 1..Len(list) /\ list[w] = edges[list[v]][e] /\ e \in 1..Len(edges[list[v]])
    BY <1>2, <2>1, <2>2
  <2>4. list[w] \in T
    BY <1>2, <2>3
  <2> QED
    BY <2>1, <2>3, <2>4 DEF Points
<1>10. T \in SUBSET Threads
  OBVIOUS
<1> HIDE DEF T
<1> DEFINE F == {t \in T : Points(t, Succ(t)) /\ Succ(t) \in T}
<1>11. F \in SUBSET Threads
  BY <1>10
<1>12. ASSUME NEW t \in F PROVE Succ(t) \in F
  <2>1. t \in Threads /\ Succ(t) \in Threads /\ Succ(t) \in T /\ Points(t, Succ(t))
    BY <1>0, <1>10, <1>12
  <2>2. PICK u \in T : Points(Succ(t), u)
    BY <1>9, <2>1
  <2>3. u # t
    BY <2>1, <2>2 DEF RingInv, OneWay
  <2>4. u = Succ(Succ(t))
    BY <1>0, <1>10, <2>1, <2>2, <2>3 DEF RingInv, Neighbours
  <2> QED
    BY <2>1, <2>2, <2>4
<1>13. CASE F # {}
  <2>1. F = Threads
    <3> HIDE DEF F
    <3> QED
      BY <1>11, <1>12, <1>13, RingCross
  <2> QED
    BY <2>1 DEF RingInv, RoundStuck
<1>14. CASE F = {}
  <2>1. ASSUME NEW t \in T PROVE \E u \in T : Points(t, u) /\ t = Succ(u)
    <3>1. PICK u \in T : Points(t, u)
      BY <1>9
    <3> QED
      BY <1>10, <1>14, <3>1 DEF RingInv, Neighbours
  <2> DEFINE C == Threads \ T
  <2>2. ASSUME NEW t \in C PROVE Succ(t) \in C
    <3>1. ASSUME Succ(t) \in T PROVE FALSE
      <4>1. PICK u \in T : Succ(t) = Succ(u)
        BY <2>1, <3>1
      <4> QED
        BY <1>0, <1>10, <4>1
    <3> QED
      BY <1>0, <3>1
  <2>3. C = {}
    <3>1. C \in SUBSET Threads /\ C # Threads
      BY <1>8, <1>10
    <3> HIDE DEF C
    <3> QED
      BY <2>2, <3>1, RingCross
  <2>4. PICK t \in Threads : ~Points(Succ(t), t)
    BY DEF RingInv, NotRound
  <2>5. PICK u \in T : Points(Succ(t), u) /\ Succ(t) = Succ(u)
    BY <1>0, <2>1, <2>3
  <2> QED
    BY <1>0, <1>10, <2>4, <2>5
<1> QED
  BY <1>13, <1>14

(* What the ring keeps, with the reports. *)
RingAlarm == RingInv /\ AllPassed(locklist, ip) /\ (deadlock => Stuck)

(* At the start nobody has an edge. *)
LEMMA RingInit == RingProgram /\ TableInit => RingAlarm
<1> SUFFICES ASSUME RingProgram, TableInit PROVE RingAlarm
  OBVIOUS
<1>1. /\ owner = [r \in Locks |-> NoThread] /\ ip = [t \in Threads |-> 1] /\ stage = [t \in Threads |-> "before"]
      /\ locklist = <<>> /\ edges = [t \in Threads |-> <<>>] /\ deadlock = FALSE
  BY DEF TableInit, Init
<1>2. /\ \A t \in Threads : Succ(t) \in Threads /\ Succ(t) # t
      /\ 1 \in Threads
  BY RingFacts
<1>3. \A t, u \in Threads : ~Points(t, u)
  BY <1>1 DEF Points
<1>4. RingPlaces
  BY <1>1 DEF RingPlaces, NoThread
<1>5. RingHeld
  BY <1>1 DEF RingHeld, HasFirst, HasSecond, At
<1>6. Neighbours /\ Forward /\ Backward /\ OneWay /\ NotRound /\ RoundStuck
  BY <1>2, <1>3 DEF Neighbours, Forward, Backward, OneWay, NotRound, RoundStuck
<1>7. Singly
  BY <1>1 DEF Singly, Distinct
<1>8. AllPassed(locklist, ip)
  BY <1>1 DEF AllPassed
<1> QED
  BY <1>1, <1>4, <1>5, <1>6, <1>7, <1>8 DEF RingAlarm, RingInv

(* Steps of main and of the checking thread leave the ring alone.          *)
LEMMA RingSame ==
  ASSUME RingInv, UNCHANGED <<owner, ip, stage, edges>>
  PROVE  RingInv' /\ (Stuck' <=> Stuck)
<1>1. /\ \A t \in Threads : HasFirst(t)' = HasFirst(t) /\ HasSecond(t)' = HasSecond(t) /\ HasLeft(t)' = HasLeft(t)
      /\ \A t, u \in Threads : Points(t, u)' = Points(t, u)
      /\ Stuck' = Stuck
  BY DEF HasFirst, HasSecond, HasLeft, At, Points, Stuck
<1>2. RingPlaces' /\ RingHeld'
  BY DEF RingInv, RingPlaces, RingHeld, HasFirst, HasSecond, At
<1>3. Neighbours' /\ OneWay' /\ NotRound'
  BY DEF RingInv, Neighbours, OneWay, NotRound, Points
<1>4. Forward' /\ Backward'
  BY DEF RingInv, Forward, Backward, HasLeft, At, Points
<1>5. RoundStuck' /\ Singly'
  BY DEF RingInv, RoundStuck, Singly, Points, Stuck, At
<1> QED
  BY <1>1, <1>2, <1>3, <1>4, <1>5 DEF RingInv

(* Every step keeps it. *)
LEMMA RingNext == RingProgram /\ DetectorInv /\ RingAlarm /\ [DetectorsNext]_allvars => RingAlarm'
<1> SUFFICES ASSUME RingProgram, DetectorInv, RingAlarm, [DetectorsNext]_allvars PROVE RingAlarm'
  OBVIOUS
<1>0. RingInv /\ AllPassed(locklist, ip) /\ (deadlock => Stuck)
  BY DEF RingAlarm
<1>1. ASSUME UNCHANGED <<owner, ip, stage, edges, locklist>>, deadlock' => Stuck PROVE RingAlarm'
  <2>1. RingInv' /\ (Stuck' <=> Stuck)
    BY <1>0, <1>1, RingSame
  <2>2. AllPassed(locklist', ip')
    BY <1>0, <1>1
  <2> QED
    BY <1>1, <2>1, <2>2 DEF RingAlarm
<1>2. ASSUME NEW t \in Threads, ThreadStep(t) PROVE RingAlarm'
  <2>1. Moves(t) /\ AllPassed(locklist', ip')
    <3>1. CASE version = "list" /\ Step(t)
      BY <1>0, <3>1, RingListStep
    <3>2. CASE version # "list" /\ TableStep(t)
      <4>1. Moves(t) /\ locklist' = locklist
        BY <3>2, RingTableStep
      <4>2. NoEarlier(ip, ip')
        <5>1. \A v \in Threads : ip[v] \in Nat
          BY DEF DetectorInv, DetectorTypes
        <5>2. \A v \in Threads : ip'[v] = ip[v] \/ ip'[v] = ip[v] + 1
          BY <4>1 DEF Moves, Asks, Gets, Goes, Frees
        <5>3. ASSUME NEW v \in Threads PROVE ip[v] \in Nat /\ ip'[v] \in Nat /\ ip[v] <= ip'[v]
          BY <5>1, <5>2
        <5> QED
          BY <5>3 DEF NoEarlier
      <4>3. AllPassed(locklist, ip')
        BY <1>0, <4>2, PassedLater
      <4> QED
        BY <4>1, <4>3
    <3> QED
      BY <1>2, <3>1, <3>2 DEF ThreadStep
  <2>2. RingInv'
    BY <1>0, <2>1, RingMove
  <2>3. ~Stuck
    BY <1>0, <2>1, StuckStays
  <2>4. deadlock' = deadlock
    BY <1>2 DEF ThreadStep, Step, LockBefore, RealLock, LockAfter, RealUnlock, UnlockAfter,
                TableStep, LockHook, LockReal, LockReturn, UnlockReal, UnlockReturn
  <2>5. ~deadlock'
    BY <1>0, <2>3, <2>4
  <2> QED
    BY <2>1, <2>2, <2>5 DEF RingAlarm
<1>3. CASE MainStep
  <2>1. UNCHANGED <<owner, ip, stage, edges, locklist, deadlock>>
    BY <1>3 DEF MainStep, Main, CreateThread, EnterVertex, vars
  <2> QED
    BY <1>0, <1>1, <2>1
<1>4. CASE CheckStep
  <2>1. UNCHANGED <<owner, ip, stage, edges, locklist>>
    BY <1>4 DEF CheckStep, Check, CheckTable
  <2>2. Len(Graph) = Len(list)
    BY GraphWalkable
  <2>3. SomeCycle <=> CheckDeadLock(Graph)
    BY <2>2 DEF SomeCycle, CheckDeadLock
  <2>4. deadlock' => deadlock \/ CheckDeadLock(Graph)
    BY <1>4, <2>3, Zenon DEF CheckStep, Check, CheckTable
  <2>5. deadlock' => Stuck
    BY <1>0, <2>4, RingReport
  <2> QED
    BY <1>1, <2>1, <2>5
<1>5. CASE UNCHANGED allvars
  <2>1. UNCHANGED <<owner, ip, stage, edges, locklist, deadlock>>
    BY <1>5 DEF allvars, vars
  <2> QED
    BY <1>0, <1>1, <2>1
<1> QED
  BY <1>2, <1>3, <1>4, <1>5 DEF DetectorsNext

(* In the sample, with any number of threads above two, every reported     *)
(* cycle is a deadlock: under every interleaving of the hooks of either    *)
(* detector, and however late lock_after or after_lock removes an edge.    *)
THEOREM RingNoFalseAlarm ==
  ASSUME RingProgram
  PROVE  DetectorsSpec => []NoFalseAlarm
<1>1. DetectorInv /\ RingAlarm => NoFalseAlarm
  <2> SUFFICES ASSUME DetectorInv, RingAlarm, deadlock PROVE RealDeadlock
    BY DEF NoFalseAlarm
  <2>1. Stuck
    BY DEF RingAlarm
  <2>2. ASSUME NEW t \in Threads PROVE Blocked(t) /\ HolderOf(t) \in Threads
    <3>1. At(t, 2, "real") /\ At(Succ(t), 2, "real") /\ Succ(t) \in Threads /\ Succ(t) # NoThread
      BY <2>1, RingFacts DEF Stuck, NoThread
    <3>2. Locking(t) /\ Lock(t) = Mutex(t)
      BY <3>1, RingCall DEF DetectorInv
    <3>3. Mutex(t) = Succ(t) /\ stage[t] = "real"
      BY <3>1 DEF Mutex, At
    <3>4. owner[Succ(t)] = Succ(t)
      BY <3>1 DEF RingAlarm, RingInv, RingHeld, HasFirst, At
    <3> QED
      BY <3>1, <3>2, <3>3, <3>4 DEF Blocked, HolderOf
  <2>3. Threads # {}
    BY RingFacts
  <2> QED
    BY <2>2, <2>3 DEF RealDeadlock
<1>2. TableInit => RingAlarm
  BY RingInit
<1>3. DetectorInv /\ RingAlarm /\ [DetectorsNext]_allvars => RingAlarm'
  BY RingNext
<1> QED
  BY <1>1, <1>2, <1>3, DetectorInvariance, PTL DEF DetectorsSpec
-----------------------------------------------------------------------------
(***************************************************************************)
(* The string searches.  What both loops of Knuth-Morris-Pratt keep.       *)
(***************************************************************************)
(* The first k characters of p are the last k of the first n of s.         *)
Ends(p, s, n, k) == k \in 0..n /\ \A x \in 1..k : s[n - k + x] = p[x]

(* Of the prefixes of p below b that end there, l is one, and no longer    *)
(* one goes on with the next character of s.                               *)
Best(p, s, n, b, l) ==
    Ends(p, s, n, l) /\ \A k \in 0..(b - 1) : k > l /\ Ends(p, s, n, k) => s[n + 1] # p[k + 1]

(* c is the longest prefix below b that ends there.                        *)
Longest(p, s, n, b, c) ==
    Ends(p, s, n, c) /\ c < b /\ \A k \in 0..(b - 1) : Ends(p, s, n, k) => k <= c

(* A prefix that ends a prefix that ends there ends there too.             *)
LEMMA EndsTrans ==
  ASSUME NEW p, NEW s, NEW n \in Nat, NEW l \in Nat, NEW k \in Nat, Ends(p, s, n, l), Ends(p, p, l, k)
  PROVE  Ends(p, s, n, k)
  <1>1. l <= n /\ k <= l
    BY DEF Ends
  <1>2. ASSUME NEW x \in 1..k PROVE s[n - k + x] = p[x]
    <2>1. l - k + x \in 1..l /\ n - l + (l - k + x) = n - k + x
      BY <1>1
    <2>2. s[n - l + (l - k + x)] = p[l - k + x]
      BY <2>1 DEF Ends
    <2>3. p[l - k + x] = p[x]
      BY DEF Ends
    <2> QED
      BY <2>1, <2>2, <2>3
  <1> QED
    BY <1>1, <1>2 DEF Ends

(* Of two prefixes that end there the shorter ends the longer.             *)
LEMMA EndsInside ==
  ASSUME NEW p, NEW s, NEW n \in Nat, NEW l \in Nat, NEW k \in Nat, k <= l, Ends(p, s, n, l), Ends(p, s, n, k)
  PROVE  Ends(p, p, l, k)
  <1>1. l <= n
    BY DEF Ends
  <1>2. ASSUME NEW x \in 1..k PROVE p[l - k + x] = p[x]
    <2>1. l - k + x \in 1..l /\ n - l + (l - k + x) = n - k + x
      BY <1>1
    <2>2. s[n - l + (l - k + x)] = p[l - k + x]
      BY <2>1 DEF Ends
    <2>3. s[n - k + x] = p[x]
      BY DEF Ends
    <2> QED
      BY <2>1, <2>2, <2>3
  <1> QED
    BY <1>2 DEF Ends

(* One character more.                                                     *)
LEMMA EndsNext ==
  ASSUME NEW p, NEW s, NEW n \in Nat, NEW k \in Nat
  PROVE  Ends(p, s, n + 1, k + 1) <=> Ends(p, s, n, k) /\ s[n + 1] = p[k + 1]
  <1>1. ASSUME Ends(p, s, n + 1, k + 1) PROVE Ends(p, s, n, k) /\ s[n + 1] = p[k + 1]
    <2>1. k <= n
      BY <1>1 DEF Ends
    <2>2. ASSUME NEW x \in 1..(k + 1) PROVE s[n - k + x] = p[x]
      <3>1. n + 1 - (k + 1) + x = n - k + x
        OBVIOUS
      <3>2. s[n + 1 - (k + 1) + x] = p[x]
        BY <1>1 DEF Ends
      <3> QED
        BY <3>1, <3>2
    <2>3. k + 1 \in 1..(k + 1) /\ n - k + (k + 1) = n + 1 /\ \A x \in 1..k : x \in 1..(k + 1)
      OBVIOUS
    <2>4. s[n + 1] = p[k + 1]
      BY <2>2, <2>3
    <2>5. \A x \in 1..k : s[n - k + x] = p[x]
      BY <2>2, <2>3
    <2> QED
      BY <2>1, <2>4, <2>5 DEF Ends
  <1>2. ASSUME Ends(p, s, n, k), s[n + 1] = p[k + 1] PROVE Ends(p, s, n + 1, k + 1)
    <2>1. k <= n
      BY <1>2 DEF Ends
    <2>2. ASSUME NEW x \in 1..(k + 1) PROVE s[n + 1 - (k + 1) + x] = p[x]
      <3>1. n + 1 - (k + 1) + x = n - k + x
        OBVIOUS
      <3>2. CASE x = k + 1
        <4>1. n - k + x = n + 1
          BY <3>2
        <4> QED
          BY <1>2, <3>1, <3>2, <4>1
      <3>3. CASE x # k + 1
        <4>1. x \in 1..k
          BY <3>3
        <4>2. s[n - k + x] = p[x]
          BY <1>2, <4>1 DEF Ends
        <4> QED
          BY <3>1, <4>2
      <3> QED
        BY <3>2, <3>3
    <2> QED
      BY <2>1, <2>2 DEF Ends
  <1> QED
    BY <1>1, <1>2

(* The while loops fall back to the next candidate.                        *)
LEMMA FallBackBest ==
  ASSUME NEW p, NEW s, NEW n \in Nat, NEW b \in Nat, NEW l \in Nat, NEW c \in Nat,
         Best(p, s, n, b, l), s[n + 1] # p[l + 1], Longest(p, p, l, l, c)
  PROVE  Best(p, s, n, b, c)
  <1>1. Ends(p, s, n, l) /\ Ends(p, p, l, c)
    BY DEF Best, Longest
  <1>2. Ends(p, s, n, c)
    BY <1>1, EndsTrans
  <1>3. ASSUME NEW k \in 0..(b - 1), k > c, Ends(p, s, n, k) PROVE s[n + 1] # p[k + 1]
    <2>0. k \in Nat
      OBVIOUS
    <2>1. CASE k > l
      BY <1>3, <2>1 DEF Best
    <2>2. CASE k = l
      BY <2>2
    <2>3. CASE k < l
      <3>1. Ends(p, p, l, k)
        BY <1>1, <1>3, <2>0, <2>3, EndsInside
      <3>2. k \in 0..(l - 1)
        BY <2>0, <2>3
      <3>3. k <= c
        BY <3>1, <3>2 DEF Longest
      <3> QED
        BY <1>3, <2>0, <3>3
    <2> QED
      BY <2>0, <2>1, <2>2, <2>3
  <1> QED
    BY <1>2, <1>3 DEF Best

(* The longest prefix after the next character.                            *)
LEMMA ExtendLongest ==
  ASSUME NEW p, NEW s, NEW n \in Nat, NEW b \in Nat, NEW l \in Nat, NEW e, l < b,
         Best(p, s, n, b, l), ~(l > 0 /\ s[n + 1] # p[l + 1]),
         e = IF s[n + 1] = p[l + 1] THEN l + 1 ELSE 0
  PROVE  e \in Nat /\ Longest(p, s, n + 1, b + 1, e)
  <1>1. CASE s[n + 1] = p[l + 1]
    <2>1. e = l + 1
      BY <1>1
    <2>2. Ends(p, s, n + 1, l + 1)
      BY <1>1, EndsNext DEF Best
    <2>3. ASSUME NEW k \in 0..b, Ends(p, s, n + 1, k) PROVE k <= l + 1
      <3> SUFFICES ASSUME k > l + 1 PROVE FALSE
        OBVIOUS
      <3>1. k - 1 \in Nat /\ k - 1 + 1 = k /\ k - 1 > l /\ k - 1 \in 0..(b - 1)
        OBVIOUS
      <3>2. Ends(p, s, n, k - 1) /\ s[n + 1] = p[k - 1 + 1]
        BY <2>3, <3>1, EndsNext
      <3> QED
        BY <3>1, <3>2 DEF Best
    <2> QED
      BY <2>1, <2>2, <2>3 DEF Longest
  <1>2. CASE s[n + 1] # p[l + 1]
    <2>1. e = 0 /\ l = 0
      BY <1>2
    <2>2. Ends(p, s, n + 1, 0)
      BY DEF Ends
    <2>3. ASSUME NEW k \in 0..b, Ends(p, s, n + 1, k) PROVE k <= 0
      <3> SUFFICES ASSUME k > 0 PROVE FALSE
        OBVIOUS
      <3>1. k - 1 \in Nat /\ k - 1 + 1 = k /\ k - 1 \in 0..(b - 1)
        OBVIOUS
      <3>2. Ends(p, s, n, k - 1) /\ s[n + 1] = p[k - 1 + 1]
        BY <2>3, <3>1, EndsNext
      <3>3. k - 1 = 0 \/ k - 1 > 0
        BY <3>1
      <3> QED
        BY <1>2, <2>1, <3>1, <3>2, <3>3 DEF Best
    <2> QED
      BY <2>1, <2>2, <2>3 DEF Longest
  <1> QED
    BY <1>1, <1>2

(* After the longest one, every candidate is open again.                   *)
LEMMA LongestBest ==
  ASSUME NEW p, NEW s, NEW n \in Nat, NEW b \in Nat, NEW c \in Nat, NEW d \in Nat, d <= b,
         Longest(p, s, n, b, c)
  PROVE  Best(p, s, n, d, c)
  <1>1. ASSUME NEW k \in 0..(d - 1), k > c, Ends(p, s, n, k) PROVE FALSE
    <2>1. k \in 0..(b - 1)
      OBVIOUS
    <2>2. k <= c
      BY <1>1, <2>1 DEF Longest
    <2> QED
      BY <1>1, <2>2
  <1> QED
    BY <1>1 DEF Best, Longest
-----------------------------------------------------------------------------
(* What the hashing loops compute, while no character is negative.         *)
LEMMA RemNat ==
  ASSUME NEW a \in Nat
  PROVE  Rem(a, Mod) = a % Mod /\ a % Mod \in 0..(Mod - 1) /\ a % Mod \in Nat
  BY HashAssumption DEF Rem

IsLoop(f, h0, s, p, n) ==
    f = [k \in 0..n |-> IF k = 0 THEN h0 ELSE Rem(f[k - 1] * Base + s[p + k], Mod)]
Unsigned(s, p, n) == \A k \in 1..n : s[p + k] \in Nat

(* The loop before its first turn ...                                      *)
LEMMA LoopStart ==
  ASSUME NEW h0 \in Nat, NEW s, NEW p \in Nat, NEW n \in Nat, NEW f, IsLoop(f, h0, s, p, n)
  PROVE  f[0] = h0
  <1>1. 0 \in 0..n /\ \A k \in 1..n : k \in 0..n /\ k # 0
    OBVIOUS
  <1> DEFINE E(k) == IF k = 0 THEN h0 ELSE Rem(f[k - 1] * Base + s[p + k], Mod)
  <1>2. f = [k \in 0..n |-> E(k)]
    BY Zenon DEF IsLoop
  <1> HIDE DEF E
  <1>3. \A k \in 0..n : f[k] = E(k)
    BY <1>2
  <1>4. E(0) = h0 /\ \A k \in 1..n : E(k) = Rem(f[k - 1] * Base + s[p + k], Mod)
    BY <1>1, Zenon DEF E
  <1> QED
    BY <1>1, <1>3, <1>4, Zenon

(* ... and each of its turns.                                              *)
LEMMA LoopTurn ==
  ASSUME NEW h0 \in Nat, NEW s, NEW p \in Nat, NEW n \in Nat, NEW f, IsLoop(f, h0, s, p, n),
         NEW k \in 1..n
  PROVE  f[k] = Rem(f[k - 1] * Base + s[p + k], Mod)
  <1>1. k \in 0..n /\ k # 0
    OBVIOUS
  <1> DEFINE E(x) == IF x = 0 THEN h0 ELSE Rem(f[x - 1] * Base + s[p + x], Mod)
  <1>2. f = [x \in 0..n |-> E(x)]
    BY Zenon DEF IsLoop
  <1> HIDE DEF E
  <1>3. \A x \in 0..n : f[x] = E(x)
    BY <1>2
  <1>4. E(k) = Rem(f[k - 1] * Base + s[p + k], Mod)
    BY <1>1, Zenon DEF E
  <1> QED
    BY <1>1, <1>3, <1>4, Zenon

(* Without negative characters the hash is not negative.                   *)
LEMMA LoopNat ==
  ASSUME NEW h0 \in Nat, NEW s, NEW p \in Nat, NEW n \in Nat, Unsigned(s, p, n), NEW f, IsLoop(f, h0, s, p, n),
         NEW m \in 0..n
  PROVE  f[m] \in Nat
  <1> DEFINE Bad == {k \in Nat : k \in 0..n /\ f[k] \notin Nat}
  <1> SUFFICES ASSUME Bad # {} PROVE FALSE
    OBVIOUS
  <1>1. PICK k \in Bad : \A y \in Bad : k <= y
    BY Least
  <1>2. k # 0
    <2>1. f[0] = h0
      BY LoopStart
    <2> QED
      BY <1>1, <2>1
  <1>3. k \in 1..n /\ k - 1 \in 0..n /\ k - 1 \in Nat
    BY <1>1, <1>2
  <1>4. k - 1 \notin Bad
    BY <1>1, <1>3
  <1>5. f[k - 1] \in Nat
    BY <1>3, <1>4
  <1>6. f[k - 1] * Base + s[p + k] \in Nat
    BY <1>3, <1>5, HashAssumption DEF Unsigned
  <1>7. f[k] = Rem(f[k - 1] * Base + s[p + k], Mod)
    BY <1>3, LoopTurn
  <1>8. f[k] \in Nat
    BY <1>6, <1>7, RemNat
  <1> QED
    BY <1>1, <1>8

(* A loop of fewer turns computes the same up to there.                    *)
LEMMA LoopUnique ==
  ASSUME NEW h0 \in Nat, NEW s, NEW p \in Nat, NEW n \in Nat, NEW f, IsLoop(f, h0, s, p, n),
         NEW m \in Nat, m <= n, NEW g, IsLoop(g, h0, s, p, m)
  PROVE  g[m] = f[m]
  <1> DEFINE Bad == {k \in Nat : k \in 0..m /\ f[k] # g[k]}
  <1> SUFFICES ASSUME Bad # {} PROVE FALSE
    OBVIOUS
  <1>1. PICK k \in Bad : \A y \in Bad : k <= y
    BY Least
  <1>2. f[0] = h0 /\ g[0] = h0
    BY LoopStart
  <1>3. k \in 1..n /\ k \in 1..m /\ k - 1 \in 0..m /\ k - 1 \in Nat
    BY <1>1, <1>2
  <1>4. f[k - 1] = g[k - 1]
    BY <1>1, <1>3
  <1>5. f[k] = Rem(f[k - 1] * Base + s[p + k], Mod)
    BY <1>3, LoopTurn
  <1>6. g[k] = Rem(g[k - 1] * Base + s[p + k], Mod)
    BY <1>3, LoopTurn
  <1> QED
    BY <1>1, <1>4, <1>5, <1>6

(* There is such a function.                                               *)
LEMMA LoopExists ==
  ASSUME NEW h0 \in Nat, NEW s, NEW p \in Nat, NEW n \in Nat
  PROVE  \E f : IsLoop(f, h0, s, p, n)
  <1> DEFINE Bad == {k \in Nat : ~\E f : IsLoop(f, h0, s, p, k)}
  <1> SUFFICES ASSUME Bad # {} PROVE FALSE
    BY Zenon
  <1>1. PICK k \in Bad : \A y \in Bad : k <= y
    BY Least
  <1>2. k # 0
    <2>1. PICK f : f = [x \in 0..0 |-> h0]
      OBVIOUS
    <2>2. IsLoop(f, h0, s, p, 0)
      BY <2>1 DEF IsLoop
    <2> QED
      BY <1>1, <2>2
  <1>3. k - 1 \in Nat /\ k \in Nat /\ k >= 1
    BY <1>1, <1>2
  <1>4. k - 1 \notin Bad
    BY <1>1, <1>3
  <1>5. PICK f : IsLoop(f, h0, s, p, k - 1)
    BY <1>3, <1>4
  <1>6. f[0] = h0 /\ \A x \in 1..(k - 1) : f[x] = Rem(f[x - 1] * Base + s[p + x], Mod)
    BY <1>3, <1>5, LoopStart, LoopTurn
  <1>7. PICK g : g = [x \in 0..k |-> IF x = k THEN Rem(f[k - 1] * Base + s[p + k], Mod) ELSE f[x]]
    OBVIOUS
  <1>8. DOMAIN g = 0..k /\ g = [x \in 0..k |-> g[x]] /\ g[k] = Rem(f[k - 1] * Base + s[p + k], Mod) /\ \A x \in 0..(k - 1) : g[x] = f[x]
    BY <1>3, <1>7
  <1>9. ASSUME NEW x \in 0..k PROVE g[x] = IF x = 0 THEN h0 ELSE Rem(g[x - 1] * Base + s[p + x], Mod)
    <2>1. CASE x = 0
      <3>1. 0 \in 0..(k - 1)
        BY <1>3
      <3>2. g[0] = h0
        BY <1>6, <1>8, <3>1, Zenon
      <3> QED
        BY <2>1, <3>2
    <2>2. CASE x = k
      <3>1. k - 1 \in 0..(k - 1)
        BY <1>3
      <3>2. g[k - 1] = f[k - 1]
        BY <1>8, <3>1, Zenon
      <3>3. g[k] = Rem(g[k - 1] * Base + s[p + k], Mod)
        BY <1>8, <3>2, Zenon
      <3> QED
        BY <1>2, <2>2, <3>3
    <2>3. CASE x # 0 /\ x # k
      <3>1. x \in 1..(k - 1) /\ x \in 0..(k - 1) /\ x - 1 \in 0..(k - 1)
        BY <1>3, <2>3
      <3> QED
        BY <1>6, <1>8, <2>3, <3>1
    <2> QED
      BY <2>1, <2>2, <2>3
  <1>10. IsLoop(g, h0, s, p, k)
    BY <1>8, <1>9 DEF IsLoop
  <1> QED
    BY <1>1, <1>10

(* Horner is what it returns at the end.                                   *)
LEMMA HornerLoop ==
  ASSUME NEW h0 \in Nat, NEW s, NEW p \in Nat, NEW n \in Nat
  PROVE  \E f : IsLoop(f, h0, s, p, n) /\ Horner(h0, s, p, n) = f[n]
  <1>1. IsLoop(CHOOSE f : IsLoop(f, h0, s, p, n), h0, s, p, n)
    BY LoopExists, Zenon
  <1>2. Horner(h0, s, p, n) = (CHOOSE f : IsLoop(f, h0, s, p, n))[n]
    BY Zenon DEF Horner, IsLoop
  <1> QED
    BY <1>1, <1>2, Zenon

(* So Horner has no sign where there are no negative characters,           *)
LEMMA HornerNat ==
  ASSUME NEW h0 \in Nat, NEW s, NEW p \in Nat, NEW n \in Nat, Unsigned(s, p, n)
  PROVE  Horner(h0, s, p, n) \in Nat
  <1>1. PICK f : IsLoop(f, h0, s, p, n) /\ Horner(h0, s, p, n) = f[n]
    BY HornerLoop
  <1>2. n \in 0..n
    OBVIOUS
  <1> QED
    BY <1>1, <1>2, LoopNat

(* does nothing in no turns,                                               *)
LEMMA HornerFirst ==
  ASSUME NEW h0 \in Nat, NEW s, NEW p \in Nat
  PROVE  Horner(h0, s, p, 0) = h0
  <1>0. 0 \in Nat
    OBVIOUS
  <1>1. PICK f : IsLoop(f, h0, s, p, 0) /\ Horner(h0, s, p, 0) = f[0]
    BY <1>0, HornerLoop
  <1> QED
    BY <1>0, <1>1, LoopStart

(* and one turn more multiplies, adds and takes the remainder.             *)
LEMMA HornerStep ==
  ASSUME NEW h0 \in Nat, NEW s, NEW p \in Nat, NEW n \in Nat, Unsigned(s, p, n + 1)
  PROVE  Horner(h0, s, p, n + 1) = (Horner(h0, s, p, n) * Base + s[p + (n + 1)]) % Mod
  <1>0. 0 \in Nat /\ n + 1 \in Nat /\ n + 1 - 1 = n /\ n \in 0..(n + 1) /\ n + 1 \in 1..(n + 1) /\ n <= n + 1
    OBVIOUS
  <1>1. PICK f : IsLoop(f, h0, s, p, n + 1) /\ Horner(h0, s, p, n + 1) = f[n + 1]
    BY <1>0, HornerLoop
  <1>2. PICK g : IsLoop(g, h0, s, p, n) /\ Horner(h0, s, p, n) = g[n]
    BY HornerLoop
  <1>3. g[n] = f[n]
    BY <1>0, <1>1, <1>2, LoopUnique
  <1>4. f[n] \in Nat
    BY <1>0, <1>1, LoopNat
  <1>5. f[n + 1] = Rem(f[n] * Base + s[p + (n + 1)], Mod)
    <2>1. f[n + 1] = Rem(f[n + 1 - 1] * Base + s[p + (n + 1)], Mod)
      BY <1>0, <1>1, LoopTurn
    <2> QED
      BY <1>0, <2>1, Zenon
  <1>6. f[n] * Base + s[p + (n + 1)] \in Nat
    BY <1>0, <1>4, HashAssumption DEF Unsigned
  <1>7. f[n + 1] = (f[n] * Base + s[p + (n + 1)]) % Mod
    BY <1>5, <1>6, RemNat
  <1> QED
    BY <1>1, <1>2, <1>3, <1>7

(* Equal up to multiples of Mod; a number below Mod is then the remainder. *)
LEMMA ModSplit ==
  ASSUME NEW a \in Nat
  PROVE  \E q \in Int : a % Mod = a + q * Mod
  <1>1. a = Mod * (a \div Mod) + (a % Mod) /\ a \div Mod \in Int /\ a % Mod \in Int
    BY HashAssumption
  <1>2. PICK d \in Int : d = a \div Mod
    BY <1>1
  <1>3. PICK r \in Int : r = a % Mod
    BY <1>1
  <1>4. r = a + (-d) * Mod
    BY <1>1, <1>2, <1>3, HashAssumption
  <1> QED
    BY <1>3, <1>4

(* A multiple of Mod other than 0 is at least Mod away from 0.             *)
LEMMA NoMultiple ==
  ASSUME NEW d \in Int, d # 0
  PROVE  d * Mod >= Mod \/ d * Mod <= -Mod
  <1>1. CASE d >= 1
    BY <1>1, HashAssumption
  <1>2. CASE d <= -1
    BY <1>2, HashAssumption
  <1> QED
    BY <1>1, <1>2

(* A remainder is determined by its class.                                 *)
LEMMA ModUnique ==
  ASSUME NEW x \in 0..(Mod - 1), NEW w \in Int, x + w * Mod \in Nat
  PROVE  (x + w * Mod) % Mod = x
  <1>1. PICK r \in Int : r = (x + w * Mod) % Mod /\ r \in 0..(Mod - 1)
    BY HashAssumption
  <1>2. PICK q \in Int : r = x + w * Mod + q * Mod
    BY <1>1, ModSplit
  <1>3. w * Mod + q * Mod = (w + q) * Mod /\ w * Mod \in Int /\ q * Mod \in Int /\ (w + q) * Mod \in Int
    BY HashAssumption
  <1>4. r - x = (w + q) * Mod
    BY <1>2, <1>3, HashAssumption
  <1>5. r - x < Mod /\ r - x > -Mod
    BY <1>1, HashAssumption
  <1>6. w + q = 0
    BY <1>3, <1>4, <1>5, NoMultiple, HashAssumption
  <1>7. r - x = 0
    BY <1>4, <1>6, HashAssumption
  <1> QED
    BY <1>1, <1>7

(* The algebra of one turn: everything but the class drops out.            *)
LEMMA Ring ==
  ASSUME NEW a \in Int, NEW b \in Int, NEW c \in Int, NEW h \in Int, NEW m \in Int, NEW w \in Int,
         NEW z \in Int, NEW z1 \in Int, NEW z2 \in Int, NEW z3 \in Int
  PROVE  (a * w + h + z * m) * b + c + z1 * m
           = a * (w * b + z2 * m) + (h * b + c + z3 * m) + (z * b + z1 - a * z2 - z3) * m
  OBVIOUS

(* The two uses of the loop.                                               *)
LEMMA HashNat ==
  ASSUME NEW s, NEW p \in Nat, NEW n \in Nat, Unsigned(s, p, n)
  PROVE  Hash(s, p, n) \in Nat
  <1>1. 0 \in Nat
    OBVIOUS
  <1> QED
    BY <1>1, HornerNat DEF Hash

(* One character more.                                                     *)
LEMMA HashTurn ==
  ASSUME NEW s, NEW p \in Nat, NEW n \in Nat, Unsigned(s, p, n + 1)
  PROVE  Hash(s, p, n + 1) = (Hash(s, p, n) * Base + s[p + (n + 1)]) % Mod
  <1>1. 0 \in Nat
    OBVIOUS
  <1> QED
    BY <1>1, HornerStep DEF Hash

(* A hash is a remainder.                                                  *)
LEMMA HashBelow ==
  ASSUME NEW s, NEW p \in Nat, NEW n \in Nat, Unsigned(s, p, n)
  PROVE  Hash(s, p, 0) = 0 /\ Hash(s, p, n) \in 0..(Mod - 1)
  <1>0. 0 \in Nat
    OBVIOUS
  <1>1. Hash(s, p, 0) = 0
    BY <1>0, HornerFirst DEF Hash
  <1>2. CASE n = 0
    BY <1>1, <1>2, HashAssumption
  <1>3. CASE n # 0
    <2>1. PICK k \in Nat : n = k + 1
      <3>1. n - 1 \in Nat /\ n = (n - 1) + 1
        BY <1>3
      <3> QED
        BY <3>1
    <2>2. Unsigned(s, p, k + 1)
      BY <2>1
    <2>3. Hash(s, p, k) \in Nat /\ Hash(s, p, k + 1) = (Hash(s, p, k) * Base + s[p + (k + 1)]) % Mod
      <3>1. Unsigned(s, p, k)
        BY <2>2 DEF Unsigned
      <3> QED
        BY <2>2, <3>1, HashNat, HashTurn
    <2>4. k + 1 \in 1..(k + 1)
      OBVIOUS
    <2>5. s[p + (k + 1)] \in Nat
      BY <2>2, <2>4 DEF Unsigned
    <2>6. Hash(s, p, k) * Base + s[p + (k + 1)] \in Nat
      BY <2>3, <2>5, HashAssumption
    <2>7. Hash(s, p, k + 1) \in 0..(Mod - 1)
      BY <2>3, <2>6, RemNat
    <2> QED
      BY <1>1, <2>1, <2>7
  <1> QED
    BY <1>2, <1>3

(* The loop of basePow.                                                    *)
LEMMA PowTurn ==
  ASSUME NEW n \in Nat
  PROVE  BasePow(0) = 1 /\ BasePow(n) \in Nat /\ BasePow(n + 1) = (BasePow(n) * Base) % Mod
  <1> DEFINE Zeros == [k \in Nat |-> 0]
  <1>0. 0 \in Nat /\ 1 \in Nat /\ n + 1 \in Nat /\ 0 + (n + 1) \in Nat
    OBVIOUS
  <1>1. \A k \in Nat : Zeros[k] = 0
    OBVIOUS
  <1>2. Unsigned(Zeros, 0, n + 1)
    BY <1>1 DEF Unsigned
  <1>3. Zeros[0 + (n + 1)] = 0
    BY <1>0, <1>1
  <1> HIDE DEF Zeros
  <1>4. /\ Horner(1, Zeros, 0, 0) = 1 /\ Horner(1, Zeros, 0, n) \in Nat
        /\ Horner(1, Zeros, 0, n + 1) = (Horner(1, Zeros, 0, n) * Base + Zeros[0 + (n + 1)]) % Mod
    <2>1. Unsigned(Zeros, 0, n)
      BY <1>2 DEF Unsigned
    <2> QED
      BY <1>0, <1>2, <2>1, HornerNat, HornerFirst, HornerStep
  <1>5. Horner(1, Zeros, 0, n) * Base + 0 = Horner(1, Zeros, 0, n) * Base
    BY <1>4, HashAssumption
  <1>6. Horner(1, Zeros, 0, n + 1) = (Horner(1, Zeros, 0, n) * Base) % Mod
    BY <1>3, <1>4, <1>5
  <1>7. \A k : BasePow(k) = Horner(1, Zeros, 0, k)
    BY Zenon DEF BasePow, Zeros
  <1> QED
    BY <1>4, <1>6, <1>7

(* The hash of a window without its first character.                       *)
Shifts(s, p, n) ==
    \E z \in Int : Hash(s, p, n + 1) = s[p + 1] * BasePow(n) + Hash(s, p + 1, n) + z * Mod

(* Of one character nothing is left.                                       *)
LEMMA ShiftsFirst ==
  ASSUME NEW s, NEW p \in Nat, Unsigned(s, p, 1)
  PROVE  Shifts(s, p, 0)
  <1>1. 0 \in Nat /\ 0 + 1 = 1 /\ 1 \in 1..1 /\ p + 1 \in Nat
    OBVIOUS
  <1>2. PICK a \in Nat : a = s[p + 1]
    BY <1>1 DEF Unsigned
  <1>3. Unsigned(s, p, 0) /\ Unsigned(s, p + 1, 0) /\ Unsigned(s, p, 0 + 1)
    BY <1>1 DEF Unsigned
  <1>4. Hash(s, p, 0) = 0 /\ Hash(s, p + 1, 0) = 0 /\ BasePow(0) = 1
    BY <1>1, <1>3, HashBelow, PowTurn
  <1>5. Hash(s, p, 0 + 1) = (Hash(s, p, 0) * Base + s[p + (0 + 1)]) % Mod
    BY <1>1, <1>3, HashTurn
  <1>6. 0 * Base + a = a /\ a * 1 + 0 = a
    BY HashAssumption
  <1>7. Hash(s, p, 0 + 1) = a % Mod
    BY <1>1, <1>2, <1>4, <1>5, <1>6
  <1>8. PICK z \in Int : a % Mod = a + z * Mod
    BY ModSplit
  <1>9. s[p + 1] * BasePow(0) + Hash(s, p + 1, 0) + z * Mod = a + z * Mod
    BY <1>2, <1>4, <1>6
  <1> QED
    BY <1>7, <1>8, <1>9 DEF Shifts

(* One character more shifts both windows alike.                           *)
LEMMA ShiftsNext ==
  ASSUME NEW s, NEW p \in Nat, NEW n \in Nat, Unsigned(s, p, n + 1 + 1), Shifts(s, p, n)
  PROVE  Shifts(s, p, n + 1)
  <1>0. /\ p + 1 \in Nat /\ n + 1 \in Nat /\ p + 1 + (n + 1) = p + (n + 1 + 1)
        /\ 1 \in 1..(n + 1 + 1) /\ n + 1 + 1 \in 1..(n + 1 + 1)
    OBVIOUS
  <1>1. Unsigned(s, p, n + 1) /\ Unsigned(s, p + 1, n + 1)
    <2>1. ASSUME NEW k \in 1..(n + 1) PROVE s[p + k] \in Nat /\ s[p + 1 + k] \in Nat
      <3>1. k \in 1..(n + 1 + 1) /\ k + 1 \in 1..(n + 1 + 1) /\ p + 1 + k = p + (k + 1)
        OBVIOUS
      <3> QED
        BY <3>1 DEF Unsigned
    <2> QED
      BY <2>1 DEF Unsigned
  <1>2. PICK a \in Nat, c \in Nat : a = s[p + 1] /\ c = s[p + (n + 1 + 1)]
    BY <1>0 DEF Unsigned
  <1>3. PICK w \in Nat : w = BasePow(n) /\ BasePow(n + 1) = (w * Base) % Mod
    BY PowTurn
  <1>4. PICK h \in Nat : h = Hash(s, p + 1, n) /\ Hash(s, p + 1, n + 1) = (h * Base + c) % Mod
    <2>1. /\ Hash(s, p + 1, n) \in Nat
          /\ Hash(s, p + 1, n + 1) = (Hash(s, p + 1, n) * Base + s[p + 1 + (n + 1)]) % Mod
      <3>1. Unsigned(s, p + 1, n)
        BY <1>1 DEF Unsigned
      <3> QED
        BY <1>0, <1>1, <3>1, HashNat, HashTurn
    <2>2. s[p + 1 + (n + 1)] = c
      BY <1>0, <1>2
    <2> QED
      BY <2>1, <2>2
  <1>5. PICK g \in Nat : g = Hash(s, p, n + 1) /\ Hash(s, p, n + 1 + 1) = (g * Base + c) % Mod
    BY <1>0, <1>1, <1>2, HashNat, HashTurn
  <1>6. PICK z \in Int : g = a * w + h + z * Mod
    BY <1>2, <1>3, <1>4, <1>5 DEF Shifts
  <1>7. w * Base \in Nat /\ h * Base + c \in Nat /\ g * Base + c \in Nat
    BY HashAssumption
  <1>8. PICK z1 \in Int : (g * Base + c) % Mod = g * Base + c + z1 * Mod
    BY <1>7, ModSplit
  <1>9. PICK z2 \in Int : (w * Base) % Mod = w * Base + z2 * Mod
    BY <1>7, ModSplit
  <1>10. PICK z3 \in Int : (h * Base + c) % Mod = h * Base + c + z3 * Mod
    BY <1>7, ModSplit
  <1>11. PICK y \in Int : y = z * Base + z1 - a * z2 - z3
    BY HashAssumption
  <1>12. (a * w + h + z * Mod) * Base + c + z1 * Mod
           = a * (w * Base + z2 * Mod) + (h * Base + c + z3 * Mod) + y * Mod
    BY <1>11, HashAssumption, Ring
  <1>13. Hash(s, p, n + 1 + 1) = a * BasePow(n + 1) + Hash(s, p + 1, n + 1) + y * Mod
    BY <1>3, <1>4, <1>5, <1>6, <1>8, <1>9, <1>10, <1>12
  <1> QED
    BY <1>2, <1>13 DEF Shifts

(* So it holds for every length.                                           *)
LEMMA HashShift ==
  ASSUME NEW s, NEW p \in Nat, NEW n \in Nat, Unsigned(s, p, n + 1)
  PROVE  Shifts(s, p, n)
  <1> DEFINE Bad == {k \in Nat : k <= n /\ ~Shifts(s, p, k)}
  <1> SUFFICES ASSUME Bad # {} PROVE FALSE
    OBVIOUS
  <1>1. PICK k \in Bad : \A y \in Bad : k <= y
    BY Least
  <1>2. \A y \in Nat : y <= n => Unsigned(s, p, y + 1)
    BY DEF Unsigned
  <1>3. CASE k = 0
    <2>1. Unsigned(s, p, 1)
      BY <1>2
    <2> QED
      BY <1>1, <1>3, <2>1, ShiftsFirst
  <1>4. CASE k # 0
    <2>1. PICK j \in Nat : k = j + 1 /\ j <= n /\ j < k
      <3>1. k - 1 \in Nat /\ k = (k - 1) + 1 /\ k - 1 <= n /\ k - 1 < k
        BY <1>1, <1>4
      <3> QED
        BY <3>1
    <2>2. Shifts(s, p, j)
      BY <1>1, <2>1
    <2>3. Unsigned(s, p, j + 1 + 1)
      BY <1>1, <1>2, <2>1
    <2>4. Shifts(s, p, j + 1)
      BY <2>2, <2>3, ShiftsNext
    <2> QED
      BY <1>1, <2>1, <2>4
  <1> QED
    BY <1>3, <1>4

(* Rolling the hash of one window gives that of the next.                  *)
LEMMA HashRolls ==
  ASSUME NEW s, NEW p \in Nat, NEW n \in Nat, Unsigned(s, p, n + 1 + 1), NEW hS, hS = Hash(s, p, n + 1)
  PROVE  Rem(Rem(hS - Rem(s[p + 1] * BasePow(n), Mod) + Mod, Mod) * Base + s[p + (n + 1) + 1], Mod)
           = Hash(s, p + 1, n + 1)
  <1>0. /\ p + 1 \in Nat /\ n + 1 \in Nat /\ p + 1 + (n + 1) = p + (n + 1) + 1
        /\ p + 1 + (n + 1) = p + (n + 1 + 1)
        /\ 1 \in 1..(n + 1 + 1) /\ n + 1 + 1 \in 1..(n + 1 + 1)
    OBVIOUS
  <1>1. Unsigned(s, p, n + 1) /\ Unsigned(s, p + 1, n + 1) /\ Unsigned(s, p + 1, n)
    <2>1. ASSUME NEW k \in 1..(n + 1) PROVE s[p + k] \in Nat /\ s[p + 1 + k] \in Nat
      <3>1. k \in 1..(n + 1 + 1) /\ k + 1 \in 1..(n + 1 + 1) /\ p + 1 + k = p + (k + 1)
        OBVIOUS
      <3> QED
        BY <3>1 DEF Unsigned
    <2>2. \A k \in 1..n : k \in 1..(n + 1)
      OBVIOUS
    <2> QED
      BY <2>1, <2>2 DEF Unsigned
  <1>2. PICK a \in Nat, c \in Nat : a = s[p + 1] /\ c = s[p + (n + 1) + 1]
    BY <1>0 DEF Unsigned
  <1>3. PICK w \in Nat : w = BasePow(n)
    BY PowTurn
  <1>4. PICK h \in 0..(Mod - 1) : h = Hash(s, p + 1, n)
    BY <1>0, <1>1, HashBelow
  <1>5. h \in Nat /\ Hash(s, p + 1, n + 1) = (h * Base + c) % Mod
    BY <1>0, <1>1, <1>2, <1>4, HashTurn
  <1>6. hS \in 0..(Mod - 1)
    BY <1>0, <1>1, HashBelow
  <1>7. PICK z \in Int : hS = a * w + h + z * Mod
    BY <1>1, <1>2, <1>3, <1>4, HashShift DEF Shifts
  <1>8. a * w \in Nat
    OBVIOUS
  <1>9. PICK r \in 0..(Mod - 1) : r = Rem(a * w, Mod) /\ r = (a * w) % Mod
    BY <1>8, RemNat
  <1>10. PICK q \in Int : r = a * w + q * Mod
    BY <1>8, <1>9, ModSplit
  <1>11. hS - r + Mod \in Nat
    BY <1>6, <1>9, HashAssumption
  <1>12. hS - r + Mod = h + (z - q + 1) * Mod
    <2>1. PICK v \in Int : v = a * w
      BY <1>8
    <2>2. hS = v + h + z * Mod /\ r = v + q * Mod
      BY <1>7, <1>10, <2>1
    <2>3. (v + h + z * Mod) - (v + q * Mod) + Mod = h + (z - q + 1) * Mod
      BY <1>5, HashAssumption
    <2> QED
      BY <2>2, <2>3
  <1>13. z - q + 1 \in Int
    OBVIOUS
  <1>14. (h + (z - q + 1) * Mod) % Mod = h
    BY <1>11, <1>12, <1>13, ModUnique
  <1>15. Rem(hS - r + Mod, Mod) = h
    BY <1>11, <1>12, <1>14, RemNat
  <1>16. h * Base + c \in Nat
    BY <1>5, HashAssumption
  <1>17. Rem(h * Base + c, Mod) = (h * Base + c) % Mod
    BY <1>16, RemNat
  <1> QED
    BY <1>2, <1>3, <1>5, <1>9, <1>15, <1>17

(* The hash depends on the characters of the window alone.                 *)
LEMMA HashSame ==
  ASSUME NEW s, NEW p \in Nat, NEW t, NEW o \in Nat, NEW n \in Nat, \A k \in 1..n : s[p + k] = t[o + k]
  PROVE  Hash(s, p, n) = Hash(t, o, n)
  <1>0. 0 \in Nat
    OBVIOUS
  <1>1. PICK f : IsLoop(f, 0, s, p, n) /\ Horner(0, s, p, n) = f[n]
    BY <1>0, HornerLoop
  <1>2. PICK g : IsLoop(g, 0, t, o, n) /\ Horner(0, t, o, n) = g[n]
    BY <1>0, HornerLoop
  <1> DEFINE Bad == {k \in Nat : k \in 0..n /\ f[k] # g[k]}
  <1>3. ASSUME Bad # {} PROVE FALSE
    <2>1. PICK k \in Bad : \A y \in Bad : k <= y
      BY <1>3, Least
    <2>2. f[0] = 0 /\ g[0] = 0
      BY <1>0, <1>1, <1>2, LoopStart
    <2>3. k \in 1..n /\ k - 1 \in 0..n /\ k - 1 \in Nat
      BY <2>1, <2>2
    <2>4. f[k - 1] = g[k - 1]
      BY <2>1, <2>3
    <2>5. f[k] = Rem(f[k - 1] * Base + s[p + k], Mod)
      BY <1>0, <1>1, <2>3, LoopTurn
    <2>6. g[k] = Rem(g[k - 1] * Base + t[o + k], Mod)
      BY <1>0, <1>2, <2>3, LoopTurn
    <2> QED
      BY <2>1, <2>3, <2>4, <2>5, <2>6
  <1>4. n \in 0..n
    OBVIOUS
  <1>5. f[n] = g[n]
    BY <1>3, <1>4
  <1> QED
    BY <1>1, <1>2, <1>5 DEF Hash
-----------------------------------------------------------------------------
(* The positions, and the lengths, are those of the code's loops.          *)
SearchTypes ==
    /\ text \in Seq(Int) /\ pattern \in Seq(Int)
    /\ algo \in {"bf", "kmp", "rk"} /\ at \in {"call", "build", "match", "returned"}
    /\ pos \in Nat /\ len \in Nat /\ next \in Seq(Nat)

AtCall == at = "call" => pos = 0 /\ len = 0
SearchRuns == at \in {"build", "match"} => Len(pattern) > 0 /\ Len(pattern) <= Len(text)

(* bfMatch: the part compared fits, and no occurrence begins before it.    *)
BfInv ==
    In("bf") =>
        /\ pos <= Len(text) /\ len <= Len(pattern)
        /\ Ends(pattern, text, pos, len)
        /\ \A q \in Occurrences : q >= pos - len

(* buildNext: the entries are the longest borders; no border that could    *)
(* grow is longer than len.                                                *)
NextRight(n) ==
    Len(next) = n /\ \A i \in 1..n : Longest(pattern, pattern, i, i, next[i])
BuildInv ==
    at = "build" =>
        /\ algo = "kmp" /\ pos <= Len(pattern) /\ pos >= 1 /\ len < pos
        /\ NextRight(pos) /\ Best(pattern, pattern, pos, pos, len)

(* kmpMatch: the same for the text, where no occurrence has ended yet.     *)
KmpInv ==
    In("kmp") =>
        /\ pos <= Len(text) /\ len < Len(pattern)
        /\ NextRight(Len(pattern)) /\ Best(pattern, text, pos, Len(pattern), len)
        /\ \A q \in Occurrences : q + Len(pattern) > pos

(* rkMatch: the hash is that of the window at pos, and no occurrence       *)
(* begins before it.                                                       *)
RkInv ==
    In("rk") /\ NonNegative(text) /\ NonNegative(pattern) =>
        /\ pos <= Len(text) - Len(pattern) => hashS = Hash(text, pos, Len(pattern))
        /\ \A q \in Occurrences : q >= pos

SearchIInv == SearchTypes /\ AtCall /\ SearchRuns /\ BfInv /\ BuildInv /\ KmpInv /\ RkInv /\ SearchesAgree

(* A least occurrence is the first.                                        *)
LEMMA FirstIs ==
  ASSUME NEW q \in Int, q \in Occurrences, \A r \in Occurrences : q <= r, text \in Seq(Int), pattern \in Seq(Int)
  PROVE  FirstOccurrence = q
  <1>1. Occurrences \subseteq Int
    BY DEF Occurrences
  <1>2. \A p \in Occurrences : (\A r \in Occurrences : p <= r) => p = q
    BY <1>1
  <1>3. Occurrences # {}
    OBVIOUS
  <1>4. (CHOOSE p \in Occurrences : \A r \in Occurrences : p <= r) = q
    BY <1>2
  <1> QED
    BY <1>3, <1>4 DEF FirstOccurrence

(* A search may return the first occurrence, or -1 if there is none.       *)
LEMMA ReturnsFirst ==
  ASSUME SearchTypes, NEW q \in Int, Return(q),
         (q \in Occurrences /\ \A r \in Occurrences : q <= r) \/ (q = -1 /\ Occurrences = {})
  PROVE  SearchIInv'
  <1>1. FirstOccurrence = q
    BY FirstIs DEF FirstOccurrence, SearchTypes
  <1>2. /\ text' = text /\ pattern' = pattern /\ algo' = algo /\ pos' = pos /\ len' = len
        /\ next' = next /\ hashS' = hashS /\ at' = "returned" /\ ret' = q
    BY DEF Return, call
  <1>3. Occurrences' = Occurrences /\ FirstOccurrence' = FirstOccurrence
    BY <1>2 DEF Occurrences, FirstOccurrence
  <1>4. SearchTypes'
    BY <1>2 DEF SearchTypes
  <1>5. AtCall' /\ SearchRuns' /\ BfInv' /\ BuildInv' /\ KmpInv' /\ RkInv'
    BY <1>2 DEF AtCall, SearchRuns, BfInv, BuildInv, KmpInv, RkInv, In
  <1>6. SearchesAgree'
    BY <1>1, <1>2, <1>3 DEF SearchesAgree
  <1> QED
    BY <1>4, <1>5, <1>6 DEF SearchIInv

(* Where the pattern fits, it occurs.                                      *)
LEMMA FitsOccurs ==
  ASSUME SearchTypes, Len(pattern) > 0, NEW p \in Nat, p <= Len(text)
  PROVE  Ends(pattern, text, p, Len(pattern)) <=> (p - Len(pattern) \in Occurrences)
  <1>1. pattern # <<>> /\ Len(pattern) \in Nat /\ Len(text) \in Nat
    BY DEF SearchTypes
  <1>2. ASSUME Ends(pattern, text, p, Len(pattern)) PROVE p - Len(pattern) \in Occurrences
    <2>1. Len(pattern) <= p /\ \A x \in 1..Len(pattern) : text[p - Len(pattern) + x] = pattern[x]
      BY <1>1, <1>2 DEF Ends
    <2>2. p - Len(pattern) \in 0..(Len(text) - Len(pattern))
      BY <1>1, <2>1
    <2> QED
      BY <1>1, <2>1, <2>2 DEF Occurrences
  <1>3. ASSUME p - Len(pattern) \in Occurrences PROVE Ends(pattern, text, p, Len(pattern))
    <2>1. p - Len(pattern) \in 0..(Len(text) - Len(pattern))
      BY <1>3 DEF Occurrences
    <2>2. \A x \in 1..Len(pattern) : text[p - Len(pattern) + x] = pattern[x]
      BY <1>3 DEF Occurrences
    <2>3. Len(pattern) \in 0..p
      BY <1>1, <2>1
    <2> QED
      BY <2>2, <2>3 DEF Ends
  <1> QED
    BY <1>2, <1>3

(* What it is to occur.                                                    *)
LEMMA OccurrenceIn ==
  ASSUME SearchTypes, NEW q \in Occurrences
  PROVE  /\ q \in Nat /\ q + Len(pattern) \in Nat /\ q + Len(pattern) <= Len(text) /\ Len(pattern) > 0
         /\ \A k \in 1..Len(pattern) : text[q + k] = pattern[k]
  <1>1. Len(pattern) \in Nat /\ Len(text) \in Nat /\ (pattern # <<>> => Len(pattern) > 0)
    BY DEF SearchTypes
  <1>2. /\ q \in 0..(Len(text) - Len(pattern)) /\ pattern # <<>>
        /\ \A k \in 1..Len(pattern) : text[q + k] = pattern[k]
    BY DEF Occurrences
  <1> QED
    BY <1>1, <1>2

(* The invariant holds before the search, and each step keeps it.          *)
LEMMA SearchInitInv == SearchInit => SearchIInv
  <1> SUFFICES ASSUME SearchInit PROVE SearchIInv
    OBVIOUS
  <1>1. text \in Seq(Int) /\ pattern \in Seq(Int)
    BY StringsAssumption DEF SearchInit
  <1>2. SearchTypes
    BY <1>1 DEF SearchInit, Called, SearchTypes
  <1>3. at = "call" /\ pos = 0 /\ len = 0
    BY DEF SearchInit, Called
  <1> QED
    BY <1>2, <1>3 DEF SearchIInv, AtCall, SearchRuns, BfInv, BuildInv, KmpInv, RkInv, In, SearchesAgree

LEMMA EarlyInv == SearchIInv /\ ReturnEarly => SearchIInv'
  <1> SUFFICES ASSUME SearchIInv, ReturnEarly PROVE SearchIInv'
    OBVIOUS
  <1>1. SearchTypes
    BY DEF SearchIInv
  <1>2. Return(-1) /\ (Len(pattern) = 0 \/ Len(pattern) > Len(text))
    BY DEF ReturnEarly, NoSearch
  <1>3. ASSUME NEW q \in Occurrences PROVE FALSE
    BY <1>1, <1>2, <1>3, OccurrenceIn DEF SearchTypes
  <1> QED
    BY <1>1, <1>2, <1>3, ReturnsFirst

(* The loops begin with nothing compared.                                  *)
LEMMA EndsNone ==
  ASSUME NEW p, NEW s, NEW n \in Nat, NEW b \in Nat
  PROVE  Ends(p, s, n, 0) /\ (b <= 1 \/ n = 0 => Best(p, s, n, b, 0))
  <1>1. Ends(p, s, n, 0)
    BY DEF Ends
  <1>2. ASSUME b <= 1 \/ n = 0, NEW k \in 0..(b - 1), k > 0, Ends(p, s, n, k) PROVE FALSE
    BY <1>2 DEF Ends
  <1> QED
    BY <1>1, <1>2 DEF Best

LEMMA BfEnterInv == SearchIInv /\ BfEnter => SearchIInv'
  <1> SUFFICES ASSUME SearchIInv, BfEnter PROVE SearchIInv'
    OBVIOUS
  <1>1. SearchTypes /\ pos = 0 /\ len = 0 /\ ~NoSearch /\ algo = "bf"
    BY DEF SearchIInv, AtCall, BfEnter, Enter
  <1>2. /\ text' = text /\ pattern' = pattern /\ algo' = algo /\ pos' = pos /\ len' = len
        /\ next' = next /\ hashS' = hashS /\ at' = "match"
    BY DEF BfEnter, Enter, call
  <1>3. SearchTypes' /\ AtCall'
    BY <1>1, <1>2 DEF SearchTypes, AtCall
  <1>4. Len(pattern) \in Nat /\ Len(text) \in Nat /\ Len(pattern) > 0 /\ Len(pattern) <= Len(text)
    BY <1>1 DEF NoSearch, SearchTypes
  <1>5. SearchRuns'
    BY <1>2, <1>4 DEF SearchRuns
  <1>6. Ends(pattern, text, 0, 0)
    BY EndsNone
  <1>7. Occurrences' = Occurrences /\ \A q \in Occurrences : q >= 0
    BY <1>2 DEF Occurrences
  <1>8. BfInv'
    BY <1>1, <1>2, <1>4, <1>6, <1>7 DEF BfInv
  <1>9. BuildInv' /\ KmpInv' /\ RkInv' /\ SearchesAgree'
    BY <1>1, <1>2 DEF BuildInv, KmpInv, RkInv, In, SearchesAgree
  <1> QED
    BY <1>3, <1>5, <1>8, <1>9 DEF SearchIInv

LEMMA KmpEnterInv == SearchIInv /\ KmpEnter => SearchIInv'
  <1> SUFFICES ASSUME SearchIInv, KmpEnter PROVE SearchIInv'
    OBVIOUS
  <1>1. SearchTypes /\ len = 0 /\ ~NoSearch /\ algo = "kmp"
    BY DEF SearchIInv, AtCall, KmpEnter, Enter
  <1>2. /\ text' = text /\ pattern' = pattern /\ algo' = algo /\ pos' = 1 /\ len' = 0
        /\ next' = <<0>> /\ at' = "build"
    BY <1>1 DEF KmpEnter, Enter, call
  <1>3. SearchTypes' /\ AtCall'
    BY <1>1, <1>2 DEF SearchTypes, AtCall
  <1>4. Len(pattern) \in Nat /\ Len(text) \in Nat /\ Len(pattern) > 0 /\ Len(pattern) <= Len(text)
    BY <1>1 DEF NoSearch, SearchTypes
  <1>5. SearchRuns'
    BY <1>2, <1>4 DEF SearchRuns
  <1>6. Best(pattern, pattern, 1, 1, 0) /\ Ends(pattern, pattern, 1, 0)
    BY EndsNone
  <1>7. Longest(pattern, pattern, 1, 1, 0)
    BY <1>6 DEF Longest
  <1>8. Len(<<0>>) = 1 /\ \A i \in 1..1 : i = 1 /\ <<0>>[i] = 0
    OBVIOUS
  <1>9. NextRight(1)'
    BY <1>2, <1>7, <1>8 DEF NextRight
  <1>10. BuildInv'
    BY <1>1, <1>2, <1>4, <1>6, <1>9 DEF BuildInv
  <1>11. BfInv' /\ KmpInv' /\ RkInv' /\ SearchesAgree'
    BY <1>1, <1>2 DEF BfInv, KmpInv, RkInv, In, SearchesAgree
  <1> QED
    BY <1>3, <1>5, <1>10, <1>11 DEF SearchIInv

LEMMA RkEnterInv == SearchIInv /\ RkEnter => SearchIInv'
  <1> SUFFICES ASSUME SearchIInv, RkEnter PROVE SearchIInv'
    OBVIOUS
  <1>1. SearchTypes /\ pos = 0 /\ len = 0 /\ ~NoSearch /\ algo = "rk"
    BY DEF SearchIInv, AtCall, RkEnter, Enter
  <1>2. /\ text' = text /\ pattern' = pattern /\ algo' = algo /\ pos' = pos /\ len' = len
        /\ next' = next /\ hashS' = Hash(text, 0, Len(pattern)) /\ at' = "match"
    BY DEF RkEnter, Enter, call
  <1>3. SearchTypes' /\ AtCall'
    BY <1>1, <1>2 DEF SearchTypes, AtCall
  <1>4. Len(pattern) \in Nat /\ Len(text) \in Nat /\ Len(pattern) > 0 /\ Len(pattern) <= Len(text)
    BY <1>1 DEF NoSearch, SearchTypes
  <1>5. SearchRuns'
    BY <1>2, <1>4 DEF SearchRuns
  <1>6. Occurrences' = Occurrences /\ \A q \in Occurrences : q >= 0
    BY <1>2 DEF Occurrences
  <1>7. RkInv'
    BY <1>1, <1>2, <1>6 DEF RkInv
  <1>8. BuildInv' /\ KmpInv' /\ BfInv' /\ SearchesAgree'
    BY <1>1, <1>2 DEF BuildInv, KmpInv, BfInv, In, SearchesAgree
  <1> QED
    BY <1>3, <1>5, <1>7, <1>8 DEF SearchIInv

(* bfMatch: where a character differs, nothing begins.                     *)
LEMMA BfTurnInv == SearchIInv /\ BfTurn => SearchIInv'
  <1> SUFFICES ASSUME SearchIInv, BfTurn PROVE SearchIInv'
    OBVIOUS
  <1>1. SearchTypes /\ SearchRuns /\ BfInv
    BY DEF SearchIInv
  <1>2. /\ text' = text /\ pattern' = pattern /\ algo' = "bf" /\ at' = "match" /\ next' = next
        /\ algo = "bf" /\ at = "match" /\ pos < Len(text) /\ len < Len(pattern)
    BY DEF BfTurn, In, call
  <1>3. /\ pos <= Len(text) /\ len <= Len(pattern) /\ Ends(pattern, text, pos, len)
        /\ \A q \in Occurrences : q >= pos - len
    BY <1>1, <1>2 DEF BfInv, In
  <1>4. pos \in Nat /\ len \in Nat /\ len <= pos /\ Len(pattern) \in Nat /\ Len(text) \in Nat
    BY <1>1, <1>3 DEF SearchTypes, Ends
  <1>5. Occurrences' = Occurrences
    BY <1>2 DEF Occurrences
  <1>6. SearchRuns' /\ AtCall' /\ BuildInv' /\ KmpInv' /\ RkInv' /\ SearchesAgree'
    BY <1>1, <1>2 DEF SearchRuns, AtCall, BuildInv, KmpInv, RkInv, In, SearchesAgree
  <1>7. CASE text[pos + 1] = pattern[len + 1]
    <2>1. pos' = pos + 1 /\ len' = len + 1
      BY <1>7 DEF BfTurn
    <2>2. Ends(pattern, text, pos + 1, len + 1)
      BY <1>3, <1>4, <1>7, EndsNext
    <2>3. SearchTypes'
      BY <1>1, <1>2, <2>1 DEF SearchTypes
    <2>4. pos + 1 - (len + 1) = pos - len /\ pos + 1 <= Len(text) /\ len + 1 <= Len(pattern)
      BY <1>2, <1>4
    <2>5. pos' - len' = pos - len
      BY <1>4, <2>1
    <2>6. \A q \in Occurrences' : q >= pos' - len'
      BY <1>3, <1>5, <2>5
    <2>7. Ends(pattern', text', pos', len')
      BY <1>2, <2>1, <2>2
    <2>8. pos' <= Len(text') /\ len' <= Len(pattern')
      BY <1>2, <2>1, <2>4
    <2>9. BfInv'
      BY <2>6, <2>7, <2>8 DEF BfInv
    <2> QED
      BY <1>6, <2>3, <2>9 DEF SearchIInv
  <1>8. CASE text[pos + 1] # pattern[len + 1]
    <2>1. pos' = pos - len + 1 /\ len' = 0
      BY <1>8 DEF BfTurn
    <2>2. pos - len + 1 \in Nat /\ pos - len + 1 <= Len(text) /\ pos - len + 1 - 0 = pos - len + 1
      BY <1>2, <1>4
    <2>3. SearchTypes'
      BY <1>1, <1>2, <2>1, <2>2 DEF SearchTypes
    <2>4. Ends(pattern, text, pos - len + 1, 0)
      BY <2>2, EndsNone
    <2>5. ASSUME NEW q \in Occurrences PROVE q >= pos - len + 1
      <3> SUFFICES ASSUME q = pos - len PROVE FALSE
        <4>1. q \in Nat /\ q >= pos - len
          BY <1>1, <1>3, OccurrenceIn
        <4> QED
          BY <1>4, <4>1
      <3>1. len + 1 \in 1..Len(pattern) /\ pos - len + (len + 1) = pos + 1
        BY <1>2, <1>4
      <3>2. text[q + (len + 1)] = pattern[len + 1]
        BY <1>1, <3>1, OccurrenceIn
      <3> QED
        BY <1>8, <3>1, <3>2
    <2>6. BfInv'
      BY <1>2, <1>4, <1>5, <2>1, <2>2, <2>4, <2>5 DEF BfInv
    <2> QED
      BY <1>6, <2>3, <2>6 DEF SearchIInv
  <1> QED
    BY <1>7, <1>8

LEMMA BfReturnInv == SearchIInv /\ BfReturn => SearchIInv'
  <1> SUFFICES ASSUME SearchIInv, BfReturn PROVE SearchIInv'
    OBVIOUS
  <1>1. SearchTypes /\ SearchRuns /\ BfInv
    BY DEF SearchIInv
  <1>2. /\ algo = "bf" /\ at = "match" /\ ~(pos < Len(text) /\ len < Len(pattern))
        /\ Return(IF len = Len(pattern) THEN pos - len ELSE -1)
    BY DEF BfReturn, In
  <1>3. /\ pos <= Len(text) /\ len <= Len(pattern) /\ Ends(pattern, text, pos, len)
        /\ \A q \in Occurrences : q >= pos - len
    BY <1>1, <1>2 DEF BfInv, In
  <1>4. /\ pos \in Nat /\ len \in Nat /\ len <= pos /\ Len(pattern) \in Nat /\ Len(text) \in Nat
        /\ Len(pattern) > 0
    BY <1>1, <1>2, <1>3 DEF SearchTypes, Ends, SearchRuns
  <1>5. CASE len = Len(pattern)
    <2>1. pos - len \in Occurrences
      BY <1>1, <1>3, <1>4, <1>5, FitsOccurs
    <2>2. Return(pos - len) /\ pos - len \in Int
      BY <1>2, <1>4, <1>5
    <2>3. \A q \in Occurrences : pos - len <= q
      <3> SUFFICES ASSUME NEW q \in Occurrences PROVE pos - len <= q
        OBVIOUS
      <3>1. q \in Nat /\ q >= pos - len
        BY <1>1, <1>3, OccurrenceIn
      <3> QED
        BY <1>4, <3>1
    <2> QED
      BY <1>1, <2>1, <2>2, <2>3, ReturnsFirst
  <1>6. CASE len # Len(pattern)
    <2>1. ASSUME NEW q \in Occurrences PROVE FALSE
      <3>1. q \in Nat /\ q >= pos - len /\ q + Len(pattern) <= Len(text)
        BY <1>1, <1>3, OccurrenceIn
      <3> QED
        BY <1>2, <1>3, <1>4, <1>6, <3>1
    <2>2. Return(-1)
      BY <1>2, <1>6
    <2> QED
      BY <1>1, <2>1, <2>2, ReturnsFirst
  <1> QED
    BY <1>5, <1>6

(* An entry of next is the longest border of its prefix.                   *)
LEMMA EntryLongest ==
  ASSUME SearchTypes, NEW n \in Nat, NextRight(n), NEW l \in 1..n
  PROVE  next[l] \in Nat /\ next[l] < l /\ Longest(pattern, pattern, l, l, next[l])
  <1>1. Len(next) = n /\ Longest(pattern, pattern, l, l, next[l])
    BY DEF NextRight
  <1>2. next[l] \in Nat
    BY <1>1, ElementOfSeq DEF SearchTypes
  <1> QED
    BY <1>1, <1>2 DEF Longest

LEMMA FallBackInv == SearchIInv /\ FallBack => SearchIInv'
  <1> SUFFICES ASSUME SearchIInv, FallBack PROVE SearchIInv'
    OBVIOUS
  <1>1. SearchTypes /\ SearchRuns /\ BuildInv /\ KmpInv
    BY DEF SearchIInv
  <1>2. /\ text' = text /\ pattern' = pattern /\ algo' = "kmp" /\ at' = at /\ next' = next /\ pos' = pos
        /\ algo = "kmp" /\ at \in {"build", "match"} /\ pos < Len(Scanned)
        /\ len > 0 /\ Scanned[pos + 1] # pattern[len + 1] /\ len' = next[len]
    BY DEF FallBack, Scans, Mismatch, Shorter, call
  <1>3. pos \in Nat /\ len \in Nat /\ Len(pattern) \in Nat
    BY <1>1 DEF SearchTypes
  <1>4. Occurrences' = Occurrences
    BY <1>2 DEF Occurrences
  <1>5. SearchRuns' /\ AtCall' /\ BfInv' /\ RkInv' /\ SearchesAgree'
    BY <1>1, <1>2 DEF SearchRuns, AtCall, BfInv, RkInv, In, SearchesAgree
  <1>6. CASE at = "build"
    <2>1. Scanned = pattern
      BY <1>6 DEF Scanned
    <2>2. /\ pos <= Len(pattern) /\ pos >= 1 /\ len < pos
          /\ NextRight(pos) /\ Best(pattern, pattern, pos, pos, len)
      BY <1>1, <1>6 DEF BuildInv
    <2>3. PICK c \in Nat : c = next[len] /\ c < len /\ Longest(pattern, pattern, len, len, c)
      <3>1. len \in 1..pos
        BY <1>2, <1>3, <2>2
      <3> QED
        BY <1>1, <1>3, <2>2, <3>1, EntryLongest
    <2>4. Best(pattern, pattern, pos, pos, c)
      BY <1>2, <1>3, <2>1, <2>2, <2>3, FallBackBest
    <2>5. SearchTypes'
      BY <1>1, <1>2, <2>3 DEF SearchTypes
    <2>6. NextRight(pos)' /\ c < pos
      BY <1>2, <1>3, <2>2, <2>3 DEF NextRight
    <2>7. BuildInv'
      BY <1>2, <2>2, <2>3, <2>4, <2>6 DEF BuildInv
    <2>8. KmpInv'
      BY <1>2, <1>6 DEF KmpInv, In
    <2> QED
      BY <1>5, <2>5, <2>7, <2>8 DEF SearchIInv
  <1>7. CASE at = "match"
    <2>1. Scanned = text
      BY <1>7 DEF Scanned
    <2>2. /\ pos <= Len(text) /\ len < Len(pattern)
          /\ NextRight(Len(pattern)) /\ Best(pattern, text, pos, Len(pattern), len)
          /\ \A q \in Occurrences : q + Len(pattern) > pos
      BY <1>1, <1>2, <1>7 DEF KmpInv, In
    <2>3. PICK c \in Nat : c = next[len] /\ c < len /\ Longest(pattern, pattern, len, len, c)
      <3>1. len \in 1..Len(pattern)
        BY <1>2, <1>3, <2>2
      <3> QED
        BY <1>1, <1>3, <2>2, <3>1, EntryLongest
    <2>4. Best(pattern, text, pos, Len(pattern), c)
      BY <1>2, <1>3, <2>1, <2>2, <2>3, FallBackBest
    <2>5. SearchTypes'
      BY <1>1, <1>2, <2>3 DEF SearchTypes
    <2>6. NextRight(Len(pattern))' /\ c < Len(pattern)
      BY <1>2, <1>3, <2>2, <2>3 DEF NextRight
    <2>7. KmpInv'
      BY <1>2, <1>4, <2>2, <2>3, <2>4, <2>6 DEF KmpInv
    <2>8. BuildInv'
      BY <1>2, <1>7 DEF BuildInv
    <2> QED
      BY <1>5, <2>5, <2>7, <2>8 DEF SearchIInv
  <1> QED
    BY <1>2, <1>6, <1>7

LEMMA BuildTurnInv == SearchIInv /\ BuildTurn => SearchIInv'
  <1> SUFFICES ASSUME SearchIInv, BuildTurn PROVE SearchIInv'
    OBVIOUS
  <1>1. SearchTypes /\ SearchRuns /\ BuildInv
    BY DEF SearchIInv
  <1>2. at = "build" /\ Scanned = pattern
    BY DEF BuildTurn, Scanned
  <1>3. PICK e : e = IF pattern[pos + 1] = pattern[len + 1] THEN len + 1 ELSE 0
    OBVIOUS
  <1>4. /\ text' = text /\ pattern' = pattern /\ algo' = "kmp" /\ at' = "build"
        /\ pos < Len(pattern) /\ ~(len > 0 /\ pattern[pos + 1] # pattern[len + 1])
        /\ len' = e /\ next' = Append(next, e) /\ pos' = pos + 1
    BY <1>2, <1>3 DEF BuildTurn, Scans, Mismatch, Extended, call
  <1>5. /\ pos <= Len(pattern) /\ pos >= 1 /\ len < pos
        /\ NextRight(pos) /\ Best(pattern, pattern, pos, pos, len)
    BY <1>1, <1>2 DEF BuildInv
  <1>6. pos \in Nat /\ len \in Nat /\ Len(pattern) \in Nat /\ next \in Seq(Nat) /\ pos + 1 \in Nat
    BY <1>1 DEF SearchTypes
  <1>7. e \in Nat /\ Longest(pattern, pattern, pos + 1, pos + 1, e)
    BY <1>3, <1>4, <1>5, <1>6, ExtendLongest
  <1>8. e < pos + 1 /\ Best(pattern, pattern, pos + 1, pos + 1, e)
    <2>1. e < pos + 1
      BY <1>7 DEF Longest
    <2>2. Best(pattern, pattern, pos + 1, pos + 1, e)
      BY <1>6, <1>7, LongestBest
    <2> QED
      BY <2>1, <2>2
  <1>9. SearchTypes'
    <2>1. Append(next, e) \in Seq(Nat)
      BY <1>6, <1>7, AppendProperties
    <2> QED
      BY <1>1, <1>4, <1>6, <1>7, <2>1 DEF SearchTypes
  <1>10. NextRight(pos)'
    <2>1. Len(next) = pos /\ \A i \in 1..pos : Longest(pattern, pattern, i, i, next[i])
      BY <1>5 DEF NextRight
    <2>2. /\ Len(Append(next, e)) = pos + 1 /\ Append(next, e)[pos + 1] = e
          /\ \A i \in 1..pos : Append(next, e)[i] = next[i]
      BY <1>6, <1>7, <2>1, AppendProperties
    <2>3. ASSUME NEW i \in 1..(pos + 1) PROVE Longest(pattern, pattern, i, i, Append(next, e)[i])
      <3>1. CASE i = pos + 1
        BY <1>7, <2>2, <3>1
      <3>2. CASE i # pos + 1
        <4>1. i \in 1..pos
          BY <1>6, <3>2
        <4> QED
          BY <2>1, <2>2, <4>1
      <3> QED
        BY <3>1, <3>2
    <2> QED
      BY <1>4, <2>2, <2>3 DEF NextRight
  <1>11. BuildInv'
    BY <1>4, <1>5, <1>6, <1>8, <1>10 DEF BuildInv
  <1>12. SearchRuns' /\ AtCall' /\ BfInv' /\ KmpInv' /\ RkInv' /\ SearchesAgree'
    BY <1>1, <1>2, <1>4 DEF SearchRuns, AtCall, BfInv, KmpInv, RkInv, In, SearchesAgree
  <1> QED
    BY <1>9, <1>11, <1>12 DEF SearchIInv

LEMMA BuildReturnInv == SearchIInv /\ BuildReturn => SearchIInv'
  <1> SUFFICES ASSUME SearchIInv, BuildReturn PROVE SearchIInv'
    OBVIOUS
  <1>1. SearchTypes /\ SearchRuns /\ BuildInv
    BY DEF SearchIInv
  <1>2. /\ text' = text /\ pattern' = pattern /\ algo' = algo /\ at' = "match" /\ next' = next
        /\ at = "build" /\ pos = Len(pattern) /\ pos' = 0 /\ len' = 0
    BY DEF BuildReturn, call
  <1>3. algo = "kmp" /\ NextRight(Len(pattern))
    BY <1>1, <1>2 DEF BuildInv
  <1>4. Len(pattern) \in Nat /\ Len(text) \in Nat /\ Len(pattern) > 0
    BY <1>1, <1>2 DEF SearchTypes, SearchRuns
  <1>5. SearchTypes'
    BY <1>1, <1>2 DEF SearchTypes
  <1>6. Best(pattern, text, 0, Len(pattern), 0)
    BY <1>4, EndsNone
  <1>7. \A q \in Occurrences' : q + Len(pattern) > 0
    <2>1. Occurrences' = Occurrences
      BY <1>2 DEF Occurrences
    <2>2. ASSUME NEW q \in Occurrences PROVE q + Len(pattern) > 0
      <3>1. q \in Nat
        BY <1>1, OccurrenceIn
      <3> QED
        BY <1>4, <3>1
    <2> QED
      BY <2>1, <2>2
  <1>8. NextRight(Len(pattern))'
    BY <1>2, <1>3 DEF NextRight
  <1>9. KmpInv'
    BY <1>2, <1>4, <1>6, <1>7, <1>8 DEF KmpInv
  <1>10. SearchRuns' /\ AtCall' /\ BfInv' /\ BuildInv' /\ RkInv' /\ SearchesAgree'
    BY <1>1, <1>2, <1>3 DEF SearchRuns, AtCall, BfInv, BuildInv, RkInv, In, SearchesAgree
  <1> QED
    BY <1>5, <1>9, <1>10 DEF SearchIInv

LEMMA KmpTurnInv == SearchIInv /\ KmpTurn => SearchIInv'
  <1> SUFFICES ASSUME SearchIInv, KmpTurn PROVE SearchIInv'
    OBVIOUS
  <1>1. SearchTypes /\ SearchRuns /\ KmpInv
    BY DEF SearchIInv
  <1>2. at = "match" /\ Scanned = text
    BY DEF KmpTurn, Scanned
  <1>3. PICK e : e = IF text[pos + 1] = pattern[len + 1] THEN len + 1 ELSE 0
    OBVIOUS
  <1>4. /\ algo = "kmp" /\ pos < Len(text) /\ ~(len > 0 /\ text[pos + 1] # pattern[len + 1])
        /\ IF e = Len(pattern) THEN Return(pos - Len(pattern) + 1)
           ELSE len' = e /\ pos' = pos + 1 /\ UNCHANGED <<call, at, next, hashS, ret>>
    BY <1>2, <1>3 DEF KmpTurn, Scans, Mismatch, Extended
  <1>5. /\ pos <= Len(text) /\ len < Len(pattern)
        /\ NextRight(Len(pattern)) /\ Best(pattern, text, pos, Len(pattern), len)
        /\ \A q \in Occurrences : q + Len(pattern) > pos
    BY <1>1, <1>2, <1>4 DEF KmpInv, In
  <1>6. pos \in Nat /\ len \in Nat /\ Len(pattern) \in Nat /\ Len(text) \in Nat /\ pos + 1 \in Nat /\ Len(pattern) > 0
    BY <1>1, <1>2 DEF SearchTypes, SearchRuns
  <1>7. e \in Nat /\ Longest(pattern, text, pos + 1, Len(pattern) + 1, e)
    BY <1>3, <1>4, <1>5, <1>6, ExtendLongest
  <1>8. pos + 1 <= Len(text) /\ e <= Len(pattern) /\ Ends(pattern, text, pos + 1, e)
    BY <1>4, <1>6, <1>7 DEF Longest
  <1>9. \A q \in Occurrences : q \in Nat /\ q + Len(pattern) >= pos + 1
    <2> SUFFICES ASSUME NEW q \in Occurrences PROVE q \in Nat /\ q + Len(pattern) >= pos + 1
      OBVIOUS
    <2>1. q \in Nat /\ q + Len(pattern) > pos
      BY <1>1, <1>5, OccurrenceIn
    <2> QED
      BY <1>6, <2>1
  <1>10. CASE e = Len(pattern)
    <2>1. PICK o \in Int : o = pos + 1 - Len(pattern) /\ o = pos - Len(pattern) + 1
      BY <1>6
    <2>2. o \in Occurrences
      BY <1>1, <1>6, <1>8, <1>10, <2>1, FitsOccurs
    <2>3. \A q \in Occurrences : o <= q
      BY <1>6, <1>9, <2>1
    <2>4. Return(o)
      BY <1>4, <1>10, <2>1
    <2> QED
      BY <1>1, <2>2, <2>3, <2>4, ReturnsFirst
  <1>11. CASE e # Len(pattern)
    <2>1. /\ text' = text /\ pattern' = pattern /\ algo' = algo /\ at' = at /\ next' = next
          /\ len' = e /\ pos' = pos + 1
      BY <1>4, <1>11 DEF call
    <2>2. SearchTypes'
      BY <1>1, <1>6, <1>7, <2>1 DEF SearchTypes
    <2>3. Best(pattern, text, pos + 1, Len(pattern), e)
      BY <1>6, <1>7, LongestBest
    <2>4. \A q \in Occurrences : q + Len(pattern) > pos + 1
      <3> SUFFICES ASSUME NEW q \in Occurrences, q + Len(pattern) = pos + 1 PROVE FALSE
        BY <1>6, <1>9
      <3>1. pos + 1 - Len(pattern) = q
        BY <1>6, <1>9
      <3>2. Ends(pattern, text, pos + 1, Len(pattern))
        BY <1>1, <1>6, <1>8, <3>1, FitsOccurs
      <3>3. Len(pattern) \in 0..(Len(pattern) + 1 - 1)
        BY <1>6
      <3>4. Len(pattern) <= e
        BY <1>7, <3>2, <3>3 DEF Longest
      <3> QED
        BY <1>6, <1>7, <1>8, <1>11, <3>4
    <2>5. Occurrences' = Occurrences
      BY <2>1 DEF Occurrences
    <2>6. NextRight(Len(pattern))'
      BY <1>5, <2>1 DEF NextRight
    <2>7. e < Len(pattern)
      BY <1>6, <1>7, <1>8, <1>11
    <2>8. KmpInv'
      BY <1>8, <2>1, <2>3, <2>4, <2>5, <2>6, <2>7 DEF KmpInv
    <2>9. SearchRuns' /\ AtCall' /\ BfInv' /\ BuildInv' /\ RkInv' /\ SearchesAgree'
      BY <1>1, <1>2, <1>4, <2>1 DEF SearchRuns, AtCall, BfInv, BuildInv, RkInv, In, SearchesAgree
    <2> QED
      BY <2>2, <2>8, <2>9 DEF SearchIInv
  <1> QED
    BY <1>10, <1>11

LEMMA KmpReturnInv == SearchIInv /\ KmpReturn => SearchIInv'
  <1> SUFFICES ASSUME SearchIInv, KmpReturn PROVE SearchIInv'
    OBVIOUS
  <1>1. SearchTypes /\ KmpInv
    BY DEF SearchIInv
  <1>2. In("kmp") /\ pos = Len(text) /\ Return(-1)
    BY DEF KmpReturn
  <1>3. ASSUME NEW q \in Occurrences PROVE FALSE
    <2>1. q + Len(pattern) > pos
      BY <1>1, <1>2 DEF KmpInv
    <2>2. q + Len(pattern) \in Nat /\ q + Len(pattern) <= Len(text)
      BY <1>1, OccurrenceIn
    <2> QED
      BY <1>1, <1>2, <2>1, <2>2 DEF SearchTypes
  <1> QED
    BY <1>1, <1>2, <1>3, ReturnsFirst

(* Without negative characters, what occurs has the hash of the pattern.   *)
LEMMA OccursHash ==
  ASSUME SearchTypes, NEW q \in Occurrences
  PROVE  Hash(text, q, Len(pattern)) = Hash(pattern, 0, Len(pattern))
  <1>1. 0 \in Nat /\ q \in Nat /\ Len(pattern) \in Nat
    BY OccurrenceIn DEF SearchTypes
  <1>2. \A k \in 1..Len(pattern) : text[q + k] = pattern[k] /\ 0 + k = k
    BY OccurrenceIn
  <1>3. \A k \in 1..Len(pattern) : text[q + k] = pattern[0 + k]
    BY <1>2
  <1> QED
    BY <1>1, <1>3, HashSame

(* The comparison of the characters decides.                               *)
LEMMA WindowOccurs ==
  ASSUME SearchTypes, Len(pattern) > 0, pos <= Len(text) - Len(pattern)
  PROVE  SubSeq(text, pos + 1, pos + Len(pattern)) = pattern <=> pos \in Occurrences
  <1>1. Len(pattern) \in Nat /\ Len(text) \in Nat /\ pos \in Nat /\ pattern # <<>>
        /\ text \in Seq(Int) /\ pattern \in Seq(Int)
    BY DEF SearchTypes
  <1> DEFINE w == SubSeq(text, pos + 1, pos + Len(pattern))
  <1>2. /\ w \in Seq(Int) /\ Len(w) = Len(pattern)
        /\ \A k \in 1..Len(pattern) : w[k] = text[pos + k]
    <2>1. pos + 1 \in 1..(Len(text) + 1) /\ pos + Len(pattern) \in 0..Len(text)
          /\ pos + 1 <= pos + Len(pattern) + 1
      BY <1>1
    <2> QED
      BY <1>1, <2>1, SubSeqProperties
  <1> HIDE DEF w
  <1>3. pos \in 0..(Len(text) - Len(pattern))
    BY <1>1
  <1>4. w = pattern <=> \A k \in 1..Len(pattern) : w[k] = pattern[k]
    BY <1>1, <1>2, SeqEqual
  <1>5. pos \in Occurrences <=> \A k \in 1..Len(pattern) : text[pos + k] = pattern[k]
    BY <1>1, <1>3 DEF Occurrences
  <1>6. w = pattern <=> pos \in Occurrences
    BY <1>2, <1>4, <1>5
  <1> QED
    BY <1>6 DEF w

LEMMA RkTurnInv == SearchIInv /\ RkTurn => SearchIInv'
  <1> SUFFICES ASSUME SearchIInv, RkTurn PROVE SearchIInv'
    OBVIOUS
  <1>1. SearchTypes /\ SearchRuns /\ RkInv
    BY DEF SearchIInv
  <1>2. /\ text' = text /\ pattern' = pattern /\ algo' = algo /\ at' = at /\ next' = next /\ len' = len
        /\ algo = "rk" /\ at = "match" /\ pos <= Len(text) - Len(pattern) /\ ~Found
        /\ pos' = pos + 1 /\ hashS' = IF pos < Len(text) - Len(pattern) THEN Roll ELSE hashS
    BY DEF RkTurn, In, call
  <1>3. pos \in Nat /\ Len(pattern) \in Nat /\ Len(text) \in Nat /\ Len(pattern) > 0
    BY <1>1, <1>2 DEF SearchTypes, SearchRuns
  <1>4. SearchTypes'
    BY <1>1, <1>2, <1>3 DEF SearchTypes
  <1>5. SearchRuns' /\ AtCall' /\ BfInv' /\ BuildInv' /\ KmpInv' /\ SearchesAgree'
    BY <1>1, <1>2 DEF SearchRuns, AtCall, BfInv, BuildInv, KmpInv, In, SearchesAgree
  <1>6. Occurrences' = Occurrences
    BY <1>2 DEF Occurrences
  <1>7. ASSUME NonNegative(text), NonNegative(pattern)
        PROVE  /\ pos + 1 <= Len(text) - Len(pattern) => hashS' = Hash(text, pos + 1, Len(pattern))
               /\ \A q \in Occurrences : q >= pos + 1
    <2>1. hashS = Hash(text, pos, Len(pattern)) /\ \A q \in Occurrences : q >= pos
      BY <1>1, <1>2, <1>7 DEF RkInv, In
    <2>2. ASSUME pos + 1 <= Len(text) - Len(pattern) PROVE hashS' = Hash(text, pos + 1, Len(pattern))
      <3>1. PICK n \in Nat : Len(pattern) = n + 1 /\ Len(pattern) - 1 = n
        <4>1. Len(pattern) - 1 \in Nat /\ Len(pattern) = (Len(pattern) - 1) + 1
          BY <1>3
        <4> QED
          BY <4>1
      <3>2. hashS' = Roll
        BY <1>2, <1>3, <2>2
      <3>3. Unsigned(text, pos, n + 1 + 1)
        <4> SUFFICES ASSUME NEW k \in 1..(n + 1 + 1) PROVE text[pos + k] \in Nat
          BY DEF Unsigned
        <4>1. pos + k \in 1..Len(text)
          BY <1>3, <2>2, <3>1
        <4>2. text[pos + k] \in Int /\ text[pos + k] >= 0
          BY <1>1, <1>7, <4>1, ElementOfSeq DEF NonNegative, SearchTypes
        <4> QED
          BY <4>2
      <3>4. Roll = Rem(Rem(hashS - Rem(text[pos + 1] * BasePow(n), Mod) + Mod, Mod) * Base
                         + text[pos + (n + 1) + 1], Mod)
        BY <3>1 DEF Roll
      <3> QED
        BY <1>3, <2>1, <3>1, <3>2, <3>3, <3>4, HashRolls
    <2>3. ASSUME NEW q \in Occurrences PROVE q >= pos + 1
      <3>1. q \in Nat /\ q >= pos
        BY <1>1, <2>1, OccurrenceIn
      <3> SUFFICES ASSUME q = pos PROVE FALSE
        BY <1>3, <3>1
      <3>2. pos \in Occurrences
        OBVIOUS
      <3>3. SubSeq(text, pos + 1, pos + Len(pattern)) = pattern
        BY <1>1, <1>2, <1>3, <3>2, WindowOccurs
      <3>4. hashS = Hash(pattern, 0, Len(pattern))
        BY <1>1, <2>1, <3>2, OccursHash
      <3> QED
        BY <1>2, <3>3, <3>4 DEF Found
    <2> QED
      BY <2>2, <2>3
  <1>8. RkInv'
    BY <1>2, <1>6, <1>7 DEF RkInv, NonNegative
  <1> QED
    BY <1>4, <1>5, <1>8 DEF SearchIInv

(* rkMatch never invents a match, and without negative characters it       *)
(* returns the first.                                                      *)
LEMMA RkReturnInv == SearchIInv /\ RkReturn => SearchIInv'
  <1> SUFFICES ASSUME SearchIInv, RkReturn PROVE SearchIInv'
    OBVIOUS
  <1>1. SearchTypes /\ SearchRuns /\ RkInv
    BY DEF SearchIInv
  <1>2. algo = "rk" /\ at = "match"
    BY DEF RkReturn, In
  <1>3. pos \in Nat /\ Len(pattern) \in Nat /\ Len(text) \in Nat /\ Len(pattern) > 0
    BY <1>1, <1>2 DEF SearchTypes, SearchRuns
  <1>4. NonNegative(text) /\ NonNegative(pattern) => \A q \in Occurrences : q >= pos
    BY <1>1, <1>2 DEF RkInv, In
  <1>5. PICK v \in Int : /\ Return(v) /\ v \in Occurrences \cup {-1}
                         /\ NonNegative(text) /\ NonNegative(pattern) => v = FirstOccurrence
    <2>1. CASE pos <= Len(text) - Len(pattern) /\ Found /\ Return(pos)
      <3>1. pos \in Occurrences
        BY <1>1, <1>3, <2>1, WindowOccurs DEF Found
      <3>2. ASSUME NonNegative(text), NonNegative(pattern) PROVE pos = FirstOccurrence
        <4>1. pos \in Int /\ text \in Seq(Int) /\ pattern \in Seq(Int)
          BY <1>1, <1>3 DEF SearchTypes
        <4>2. ASSUME NEW q \in Occurrences PROVE pos <= q
          <5>1. q \in Nat /\ q >= pos
            BY <1>1, <1>4, <3>2, OccurrenceIn
          <5> QED
            BY <1>3, <5>1
        <4> QED
          BY <3>1, <4>1, <4>2, FirstIs
      <3> QED
        BY <1>3, <2>1, <3>1, <3>2
    <2>2. CASE pos > Len(text) - Len(pattern) /\ Return(-1)
      <3>1. ASSUME NonNegative(text), NonNegative(pattern) PROVE -1 = FirstOccurrence
        <4>1. ASSUME NEW q \in Occurrences PROVE FALSE
          <5>1. q \in Nat /\ q >= pos /\ q + Len(pattern) <= Len(text)
            BY <1>1, <1>4, <3>1, OccurrenceIn
          <5> QED
            BY <1>3, <2>2, <5>1
        <4> QED
          BY <4>1 DEF FirstOccurrence
      <3> QED
        BY <2>2, <3>1
    <2> QED
      BY <2>1, <2>2 DEF RkReturn
  <1>6. /\ text' = text /\ pattern' = pattern /\ algo' = algo /\ pos' = pos /\ len' = len
        /\ next' = next /\ at' = "returned" /\ ret' = v
    BY <1>5 DEF Return, call
  <1>7. Occurrences' = Occurrences /\ FirstOccurrence' = FirstOccurrence
    BY <1>6 DEF Occurrences, FirstOccurrence
  <1>8. SearchTypes'
    BY <1>1, <1>6 DEF SearchTypes
  <1>9. AtCall' /\ SearchRuns' /\ BfInv' /\ BuildInv' /\ KmpInv' /\ RkInv'
    BY <1>6 DEF AtCall, SearchRuns, BfInv, BuildInv, KmpInv, RkInv, In
  <1>10. SearchesAgree'
    BY <1>2, <1>5, <1>6, <1>7 DEF SearchesAgree, NonNegative
  <1> QED
    BY <1>8, <1>9, <1>10 DEF SearchIInv

LEMMA SearchStutter == SearchIInv /\ UNCHANGED searchvars => SearchIInv'
  <1> SUFFICES ASSUME SearchIInv, UNCHANGED searchvars PROVE SearchIInv'
    OBVIOUS
  <1>1. /\ text' = text /\ pattern' = pattern /\ algo' = algo /\ at' = at /\ pos' = pos /\ len' = len
        /\ next' = next /\ hashS' = hashS /\ ret' = ret
    BY DEF searchvars, call
  <1>2. Occurrences' = Occurrences /\ FirstOccurrence' = FirstOccurrence
    BY <1>1 DEF Occurrences, FirstOccurrence
  <1>3. SearchTypes' /\ AtCall' /\ SearchRuns'
    BY <1>1 DEF SearchIInv, SearchTypes, AtCall, SearchRuns
  <1>4. BfInv' /\ RkInv'
    BY <1>1, <1>2 DEF SearchIInv, BfInv, RkInv, In, NonNegative
  <1>5. BuildInv' /\ KmpInv'
    BY <1>1, <1>2 DEF SearchIInv, BuildInv, KmpInv, NextRight, In
  <1>6. SearchesAgree'
    BY <1>1, <1>2 DEF SearchIInv, SearchesAgree, NonNegative
  <1> QED
    BY <1>3, <1>4, <1>5, <1>6 DEF SearchIInv

(* Brute force and Knuth-Morris-Pratt return the first occurrence of every *)
(* pattern in every text, Rabin-Karp too where no character is negative,   *)
(* for every base and modulus; it never returns what is no occurrence.     *)
THEOREM SearchesRight == SearchSpec => []SearchesAgree
  <1>1. SearchIInv /\ [SearchNext]_searchvars => SearchIInv'
    BY EarlyInv, BfEnterInv, BfTurnInv, BfReturnInv, KmpEnterInv, FallBackInv, BuildTurnInv,
       BuildReturnInv, KmpTurnInv, KmpReturnInv, RkEnterInv, RkTurnInv, RkReturnInv, SearchStutter
       DEF SearchNext
  <1>2. SearchIInv => SearchesAgree
    BY DEF SearchIInv
  <1> QED
    BY SearchInitInv, <1>1, <1>2, PTL DEF SearchSpec
=============================================================================
