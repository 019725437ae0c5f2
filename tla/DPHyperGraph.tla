---------------------------- MODULE DPHyperGraph ----------------------------
(***************************************************************************)
(* CDPHyperGraph: the hypergraph of a join region.                         *)
(*                                                                         *)
(* Nodes are the numbers of the relations, sets of them are the CBitSets.  *)
(* A graph is a record of the sequence of undirected edges and the index   *)
(* of every node.  A directed edge is the number of the edge and whether   *)
(* it is reversed.                                                         *)
(***************************************************************************)
EXTENDS Naturals, Sequences, FiniteSets

CONSTANT NodeCount

ASSUME NodeCountAssumption == NodeCount \in Nat \ {0}

Nodes == 0..(NodeCount - 1)

LowestBit(S) == CHOOSE n \in S : \A m \in S : n <= m

EdgesOf(g) == DOMAIN g.edges
PbsUsedNodes(g, k) == g.edges[k].left \cup g.edges[k].right
Simple(e) == Cardinality(e.left) = 1 /\ Cardinality(e.right) = 1
Directed(g, d) ==
    IF d.reverse THEN [left |-> g.edges[d.edge].right, right |-> g.edges[d.edge].left]
    ELSE [left |-> g.edges[d.edge].left, right |-> g.edges[d.edge].right]

(* The direction in which edge k leaves node n.                            *)
From(n, k, e) == [edge |-> k, reverse |-> n \in e.right]

EmptyGraph ==
    [edges |-> <<>>,
     nodes |-> [n \in Nodes |-> [neighbours |-> {}, simple |-> <<>>, complex |-> <<>>]]]

(* CDPHyperGraph::AttachEdgeToNodes.                                       *)
AttachEdgeToNodes(nodes, k, e) ==
    LET other(n) == IF n \in e.right THEN e.left ELSE e.right
    IN  [n \in Nodes |->
            IF n \notin e.left \cup e.right THEN nodes[n]
            ELSE IF Simple(e)
            THEN [nodes[n] EXCEPT !.neighbours = @ \cup other(n),
                                  !.simple = Append(@, From(n, k, e))]
            ELSE [nodes[n] EXCEPT !.complex = Append(@, From(n, k, e))]]

(* std::remove: the list without an element.                               *)
Without(s, d) ==
    LET kept[i \in 0..Len(s)] ==
            IF i = 0 THEN <<>>
            ELSE IF s[i] = d THEN kept[i - 1] ELSE Append(kept[i - 1], s[i])
    IN  kept[Len(s)]

(* Mutation: the other end of a simple edge is taken out of the            *)
(* neighbourhood, which is not rebuilt from the edges that are left.       *)
DetachEdgeFromNodesForgets(g, k) ==
    LET e == g.edges[k]
    IN  [n \in Nodes |->
            IF n \notin e.left \cup e.right THEN g.nodes[n]
            ELSE IF Simple(e)
            THEN [g.nodes[n] EXCEPT !.neighbours = @ \ (e.left \cup e.right),
                                    !.simple = Without(@, From(n, k, e))]
            ELSE [g.nodes[n] EXCEPT !.complex = Without(@, From(n, k, e))]]

(* CDPHyperGraph::DetachEdgeFromNodes and RebuildSimpleNeighborhood.       *)
DetachEdgeFromNodes(g, k) ==
    LET e == g.edges[k]
        simple(n) == Without(g.nodes[n].simple, From(n, k, e))
    IN  [n \in Nodes |->
            IF n \notin e.left \cup e.right THEN g.nodes[n]
            ELSE IF Simple(e)
            THEN [g.nodes[n] EXCEPT
                    !.neighbours = UNION {Directed(g, simple(n)[i]).right : i \in DOMAIN simple(n)},
                    !.simple = simple(n)]
            ELSE [g.nodes[n] EXCEPT !.complex = Without(@, From(n, k, e))]]

AddEdge(g, e) ==
    [edges |-> Append(g.edges, e),
     nodes |-> AttachEdgeToNodes(g.nodes, Len(g.edges) + 1, e)]

ReplaceEdge(g, k, left, right) ==
    LET e == [g.edges[k] EXCEPT !.left = left, !.right = right]
    IN  [edges |-> [g.edges EXCEPT ![k] = e],
         nodes |-> AttachEdgeToNodes(DetachEdgeFromNodes(g, k), k, e)]

(* The graph of a sequence of edges.                                       *)
GraphOf(es) ==
    LET first[i \in 0..Len(es)] == IF i = 0 THEN EmptyGraph ELSE AddEdge(first[i - 1], es[i])
    IN  first[Len(es)]
=============================================================================
