--------------------------- MODULE DPHyperRegion ---------------------------
(***************************************************************************)
(* The simplifier with the enumeration it probes: what holds of the        *)
(* enumeration of every graph the simplifier makes.  The constant          *)
(* Enumeration of DPHyperSimplifier is meant to be Enumerate.              *)
(***************************************************************************)
EXTENDS DPHyper, DPHyperSimplifier

AllPairs == 1000

(* CDPHyperEnumerator::Enumerate: what is found is a pair of the reference *)
(* with an edge between its sides, each side having been found before the  *)
(* pair (the assertions of FoundSubgraphPair), for the graph of the query  *)
(* and for every graph the simplifier makes of it; no pair of a graph of   *)
(* simple edges is lost; and a step of the simplifier only takes join      *)
(* orders away: every pair is one of the query's graph.                    *)
PairsExact ==
    LET plan == Enumerate(graph, AllPairs)
    IN  /\ plan.sound
        /\ Range(plan.pairs) \subseteq JoinPairs(graph) \cap JoinPairs(original)
        /\ \A p \in plan.edges : \E S \in p[1] :
              \A T \in p[1] \ {S} : Connects(graph.edges[p[2]], S, T)
        /\ (\A k \in EdgesOf(graph) : Simple(graph.edges[k]))
              => JoinPairs(graph) \subseteq Range(plan.pairs)

(* CDPHyperEnumerator::Enumerate, as CDPHyperGraphTest.cpp asserts it of   *)
(* hypergraphs: an enumeration within the budget loses no pair.            *)
EveryCut ==
    pc = "whole" => JoinPairs(graph) \subseteq Range(Enumerate(graph, budget).pairs)

(* CDPHyperPlan::FoundSubgraphPair: a budget cuts the enumeration short    *)
(* exactly when there are more pairs, and the pairs until then are the     *)
(* first ones; several edges of one pair count once.                       *)
BudgetExact ==
    LET plan == Enumerate(graph, budget)
        all == Enumerate(graph, AllPairs).pairs
    IN  /\ plan.stop <=> Len(all) > budget
        /\ plan.pairs = SubSeq(all, 1, IF plan.stop THEN budget ELSE Len(all))
=============================================================================
