----------------------------- MODULE MCDijkstra -----------------------------
(* Dijkstra on all small graphs. *)
EXTENDS Dijkstra

CONSTANT Weights

(* Edges to the start or from a vertex to itself never improve a distance. *)
Edges == {e \in Vertices \X Vertices : e[1] # e[2] /\ e[2] # start}

MCGraphs ==
    {[u \in Vertices |-> [v \in Vertices |-> IF <<u, v>> \in Edges THEN w[<<u, v>>] ELSE NoEdge]] :
        w \in [Edges -> Weights \cup {NoEdge}]}

MCNoEdge == -1
=============================================================================
