------------------------------ MODULE DPHyper ------------------------------
(***************************************************************************)
(* The join order enumeration of the DPHyper job: the enumeration of the   *)
(* pairs of connected subgraphs of a hypergraph (CDPHyperEnumerator), and  *)
(* the plan that receives the pairs (CDPHyperPlan).  Everything is a       *)
(* function of the graph; the module DPHyperSimplifier changes the graph.  *)
(*                                                                         *)
(* The filter of pairs is that of regions of inner joins: every pair is    *)
(* applicable.                                                             *)
(***************************************************************************)
EXTENDS DPHyperGraph, SequencesExt

PbsLowerNodes(n) == {m \in Nodes : m < n}
Ascending(S) ==
    [i \in 1..Cardinality(S) |-> CHOOSE n \in S : Cardinality({m \in S : m < n}) = i - 1]

----------------------------------------------------------------------------
(* CDPHyperPlan: the sets seen, the pairs found in their order, each with  *)
(* the edges that connect it, and whether the budget was exhausted, which  *)
(* ends the enumeration.  sound says that its assertions have held.        *)
EmptyPlan(budget) ==
    [seen |-> {}, pairs |-> <<>>, edges |-> {}, budget |-> budget, stop |-> FALSE, sound |-> TRUE]

FoundSingleNode(plan, n) == [plan EXCEPT !.seen = @ \cup {{n}}]

(* Mutation: the budget is one pair too small.                             *)
FoundSubgraphPairEarly(plan, left, right, k) ==
    LET old == {left, right} \in Range(plan.pairs)
    IN  IF plan.stop THEN plan
        ELSE IF ~old /\ Len(plan.pairs) + 1 >= plan.budget THEN [plan EXCEPT !.stop = TRUE]
        ELSE [plan EXCEPT !.pairs = IF old THEN @ ELSE Append(@, {left, right}),
                          !.edges = @ \cup {<<{left, right}, k>>},
                          !.seen = @ \cup {left \cup right}]

FoundSubgraphPair(plan, left, right, k) ==
    LET old == {left, right} \in Range(plan.pairs)
        sound == plan.sound /\ left \cap right = {} /\ {left, right} \subseteq plan.seen
    IN  IF plan.stop THEN plan
        ELSE IF ~old /\ Len(plan.pairs) >= plan.budget
        THEN [plan EXCEPT !.stop = TRUE, !.sound = sound]
        ELSE [plan EXCEPT !.pairs = IF old THEN @ ELSE Append(@, {left, right}),
                          !.edges = @ \cup {<<{left, right}, k>>},
                          !.seen = @ \cup {left \cup right},
                          !.sound = sound]
----------------------------------------------------------------------------
(* CDPHyperEnumerator::EnumerateSubsets: the non-empty subsets, the lowest *)
(* node toggling fastest.                                                  *)
RECURSIVE AllSubsets(_)
AllSubsets(S) ==
    IF S = {} THEN <<{}>>
    ELSE LET n == CHOOSE n \in S : \A m \in S : m <= n
             rest == AllSubsets(S \ {n})
         IN  rest \o [i \in DOMAIN rest |-> rest[i] \cup {n}]
Subsets(S) == Tail(AllSubsets(S))

(* CNeighborhoodCache, made for a neighbourhood.                           *)
NeighborhoodCache(S) ==
    [taboo |-> IF S = {} THEN {} ELSE {LowestBit(S)},
     initialized |-> FALSE, grown |-> {}, near |-> {}, full |-> {}]

(* CNeighborhoodCache::PbsToSearch: what is stored serves larger sets.     *)
Serves(cache, grown) == cache.initialized /\ cache.grown \subseteq grown

Store(cache, grown, found) ==
    IF grown \cap cache.taboo # {} THEN cache
    ELSE [cache EXCEPT !.initialized = TRUE, !.grown = grown, !.near = found.near,
                       !.full = found.full]

(* A complex edge that leaves the subgraph: one representative of its      *)
(* other side, unless there is one, joins the neighbourhood.               *)
AddComplex(acc, e, subgraph, forbidden) ==
    IF ~(e.left \subseteq subgraph) \/ e.right \cap (subgraph \cup forbidden) # {} THEN acc
    ELSE [near |-> IF e.right \cap acc.near = {} THEN acc.near \cup {LowestBit(e.right)}
                   ELSE acc.near,
          full |-> acc.full \cup e.right]

AddNeighbours(g, acc, n, subgraph, forbidden) ==
    FoldLeft(LAMBDA a, d : AddComplex(a, Directed(g, d), subgraph, forbidden),
             [acc EXCEPT !.near = @ \cup g.nodes[n].neighbours], g.nodes[n].complex)

Outside(acc, inside) == [near |-> acc.near \ inside, full |-> acc.full \cup (acc.near \ inside)]
Stored(found, grown, cache) ==
    [near |-> found.near, full |-> found.full, cache |-> Store(cache, grown, found)]

(* CDPHyperEnumerator::PbsNeighborhood: the neighbourhood of what was just *)
(* grown, and the full one with all nodes of the complex edges.            *)
PbsNeighborhood(g, subgraph, forbidden, grown, cache, full) ==
    Stored(Outside(FoldLeft(LAMBDA acc, n : AddNeighbours(g, acc, n, subgraph, forbidden),
                            IF Serves(cache, grown)
                            THEN [near |-> cache.near, full |-> full \cup cache.full]
                            ELSE [near |-> {}, full |-> full],
                            Ascending(IF Serves(cache, grown) THEN grown \ cache.grown ELSE grown)),
                   subgraph \cup forbidden),
           grown, cache)

(* The edges of node n, simple or complex, that connect the two sets.      *)
Connecting(g, n, subgraph, complement) ==
    (IF g.nodes[n].neighbours \cap subgraph = {} THEN <<>>
     ELSE SelectSeq(g.nodes[n].simple, LAMBDA d : Directed(g, d).right \cap subgraph # {}))
    \o SelectSeq(g.nodes[n].complex,
                 LAMBDA d : /\ n = LowestBit(Directed(g, d).left)
                            /\ Directed(g, d).left \subseteq complement
                            /\ Directed(g, d).right \subseteq subgraph)

Connect(g, plan, n, subgraph, complement) ==
    FoldLeft(LAMBDA p, d : FoundSubgraphPair(p, subgraph, complement, d.edge), plan,
             Connecting(g, n, subgraph, complement))

TryConnecting(g, plan, subgraph, full, complement) ==
    FoldLeft(LAMBDA p, n : Connect(g, p, n, subgraph, complement), plan,
             Ascending(complement \cap full))

RECURSIVE ExpandComplement(_, _, _, _, _, _, _)
DeeperComplement(g, plan, subgraph, full, grown, forbidden, nb) ==
    [plan |-> ExpandComplement(g, plan, subgraph, full, grown, nb.near, forbidden),
     cache |-> nb.cache]

GrowComplement(g, acc, subgraph, full, S, grown, forbidden) ==
    IF acc.plan.stop THEN acc
    ELSE DeeperComplement(g, acc.plan, subgraph, full, grown, forbidden,
                          PbsNeighborhood(g, grown, forbidden, S, acc.cache, {}))

TryGrown(g, plan, subgraph, full, grown) ==
    IF ~plan.stop /\ grown \in plan.seen THEN TryConnecting(g, plan, subgraph, full, grown)
    ELSE plan

(* All grown complements are connected before any of them is grown on.     *)
ExpandComplement(g, plan, subgraph, full, complement, near, forbidden) ==
    FoldLeft(LAMBDA acc, S : GrowComplement(g, acc, subgraph, full, S, complement \cup S,
                                            (forbidden \cup near) \ (complement \cup S)),
             [plan |-> FoldLeft(LAMBDA p, S : TryGrown(g, p, subgraph, full, complement \cup S),
                                plan, Subsets(near)),
              cache |-> NeighborhoodCache(near)],
             Subsets(near)).plan

ComplementSeed(g, acc, subgraph, full, n, forbidden) ==
    IF acc.plan.stop THEN acc
    ELSE DeeperComplement(g, Connect(g, acc.plan, n, subgraph, {n}), subgraph, full, {n}, forbidden,
                          PbsNeighborhood(g, {n}, forbidden, {n}, acc.cache, {}))

(* The seeds of the complements, from the highest node down.               *)
EnumerateComplements(g, plan, lowest, subgraph, full, inputNear) ==
    FoldLeft(LAMBDA acc, n :
                 ComplementSeed(g, acc, subgraph, full, n,
                                PbsLowerNodes(lowest) \cup subgraph
                                \cup (PbsLowerNodes(n) \cap (inputNear \ subgraph))),
             [plan |-> plan, cache |-> NeighborhoodCache(inputNear \ subgraph)],
             Reverse(Ascending(inputNear \ subgraph))).plan

(* Mutation: what was forbidden for the subgraph stays out of the          *)
(* complements.                                                            *)
ComplementNearForbidden(near, neighborhood, lowest, forbidden) == near \cup neighborhood

(* The complements of a grown subgraph may contain what was forbidden for  *)
(* the subgraph.                                                           *)
ComplementNear(near, neighborhood, lowest, forbidden) ==
    near \cup neighborhood \cup (forbidden \ PbsLowerNodes(lowest))

ComplementsOf(g, plan, lowest, grown, near, forbidden, nb) ==
    [plan |-> EnumerateComplements(g, plan, lowest, grown, nb.full,
                                   ComplementNear(nb.near, near, lowest, forbidden)),
     cache |-> nb.cache]

GrownComplements(g, acc, lowest, full, S, grown, near, forbidden) ==
    IF acc.plan.stop \/ grown \notin acc.plan.seen THEN acc
    ELSE ComplementsOf(g, acc.plan, lowest, grown, near, forbidden,
                       PbsNeighborhood(g, grown, forbidden, S, acc.cache, full))

RECURSIVE ExpandSubgraph(_, _, _, _, _, _, _)
DeeperSubgraph(g, plan, lowest, grown, forbidden, nb) ==
    [plan |-> ExpandSubgraph(g, plan, lowest, grown, nb.full, nb.near, forbidden),
     cache |-> nb.cache]

GrowSubgraph(g, acc, lowest, full, S, grown, forbidden) ==
    IF acc.plan.stop THEN acc
    ELSE DeeperSubgraph(g, acc.plan, lowest, grown, forbidden,
                        PbsNeighborhood(g, grown, forbidden, S, acc.cache, full))

(* All grown subgraphs get their complements before any is grown on, with  *)
(* one cache for both.                                                     *)
ExpandSubgraph(g, plan, lowest, subgraph, full, near, forbidden) ==
    FoldLeft(LAMBDA acc, S : GrowSubgraph(g, acc, lowest, full, S, subgraph \cup S,
                                          (forbidden \cup near) \ (subgraph \cup S)),
             FoldLeft(LAMBDA acc, S : GrownComplements(g, acc, lowest, full, S, subgraph \cup S,
                                                       near, forbidden),
                      [plan |-> plan, cache |-> NeighborhoodCache(near)], Subsets(near)),
             Subsets(near)).plan

SubgraphSeed(g, plan, n, nb) ==
    ExpandSubgraph(g, EnumerateComplements(g, plan, n, {n}, nb.full, nb.near), n, {n},
                   nb.full, nb.near, PbsLowerNodes(n) \cup {n})

(* CDPHyperEnumerator::Enumerate, from the highest node down.              *)
Enumerate(g, budget) ==
    FoldLeft(LAMBDA plan, n :
                 IF plan.stop THEN plan
                 ELSE SubgraphSeed(g, FoundSingleNode(plan, n), n,
                                   PbsNeighborhood(g, {n}, PbsLowerNodes(n), {n},
                                                   NeighborhoodCache({}), {})),
             EmptyPlan(budget), Reverse(Ascending(Nodes)))
----------------------------------------------------------------------------
(* The reference: two disjoint sets, each of which can be joined, and an   *)
(* edge between them.                                                      *)
Connects(e, S, T) ==
    \/ e.left \subseteq S /\ e.right \subseteq T
    \/ e.left \subseteq T /\ e.right \subseteq S

Joins(g, S, T) == \E k \in DOMAIN g.edges : Connects(g.edges[k], S, T)

(* Smaller sets come before larger ones.                                   *)
Joinable(g) ==
    FoldLeft(LAMBDA J, S : IF \/ Cardinality(S) = 1
                              \/ \E T \in J : T \subseteq S /\ S \ T \in J /\ Joins(g, T, S \ T)
                           THEN J \cup {S} ELSE J,
             {}, Subsets(Nodes))

JoinPairs(g) ==
    {{p[1], p[2]} : p \in {q \in Joinable(g) \X Joinable(g) :
                              q[1] \cap q[2] = {} /\ Joins(g, q[1], q[2])}}
=============================================================================
