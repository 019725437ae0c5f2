----------------------------- MODULE MCDPHyper -----------------------------
(* Small instances of DPHyperRegion for TLC.                               *)
EXTENDS DPHyperRegion

CONSTANTS MaxEdges, MaxComplex

(* An edge is numbered by its sides as bit sets.                           *)
Side(c) == {n \in Nodes : (c \div 2 ^ n) % 2 = 1}
Edge(c) == [left |-> Side(c \div 2 ^ NodeCount), right |-> Side(c % 2 ^ NodeCount), equality |-> TRUE]
Codes ==
    {c \in 0..(4 ^ NodeCount - 1) :
        LET e == Edge(c)
        IN  /\ e.left # {} /\ e.right # {} /\ e.left \cap e.right = {}
            /\ LowestBit(e.left) < LowestBit(e.right)}

(* All sets of at most MaxEdges edges, at most MaxComplex of them          *)
(* hyperedges, in the order of their numbers.                              *)
Complex == {c \in Codes : ~Simple(Edge(c))}
Hyper == {{}} \cup {C \in UNION {{{c, d} : d \in Complex} : c \in Complex} : Cardinality(C) <= MaxComplex}
Sets ==
    {R \in UNION {{S \cup C : S \in SUBSET (Codes \ Complex)} : C \in Hyper} :
        Cardinality(R) \in 2..MaxEdges}
Plain == {LET q == Ascending(R) IN [i \in DOMAIN q |-> Edge(q[i])] : R \in Sets}

(* Those graphs, those of simple edges with the first edge twice, and      *)
(* those with a first edge that is not an equality.                        *)
MCGraphs ==
    Plain \cup {Append(es, es[1]) : es \in {fs \in Plain : \A i \in DOMAIN fs : Simple(fs[i])}}
          \cup {[es EXCEPT ![1].equality = FALSE] : es \in {fs \in Plain : Len(fs) = 3}}

(* Graphs of five nodes: some simple edges and two hyperedges.             *)
MCCuts ==
    {q \o <<[left |-> {0}, right |-> {2, 4}, equality |-> TRUE],
            [left |-> {1, 2}, right |-> {4}, equality |-> TRUE]>> :
        q \in {es \in Plain : Len(es) = 3}}

MCCards == {[n \in Nodes |-> 1 + n], [n \in Nodes |-> NodeCount - n],
            [n \in Nodes |-> (2 * n + 1) % 3]}
=============================================================================
