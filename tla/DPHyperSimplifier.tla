------------------------- MODULE DPHyperSimplifier -------------------------
(***************************************************************************)
(* CDPHyperGraphSimplifier: when a join graph has more pairs than the      *)
(* budget allows, edges are replaced by hyperedges that put one join       *)
(* before another, best benefit first, until an enumeration fits; a binary *)
(* search then looks for the least number of such steps.                   *)
(*                                                                         *)
(* The graph, the budget and the cardinalities are chosen at the start.    *)
(* The cost of a join, which the simplifier gets from a callback, only     *)
(* decides which steps there are and which of them comes first: it is that *)
(* of CDPHyperJoinCostCache::Cost for joins with an equality predicate,    *)
(* without the costs of the inputs, and a cardinality of 0 stands for      *)
(* joins whose cost the callback does not know.  Steps of equal benefit    *)
(* come in any order.                                                      *)
(***************************************************************************)
EXTENDS DPHyperGraph

CONSTANTS Graphs,     \* sequences of edges: left, right, and whether an equality
          Budgets,    \* m_pair_budget
          Cards,      \* the cardinalities of the relations, a set of functions
          Enumeration(_, _)   \* CDPHyperEnumerator::Enumerate: the plan of a graph and a budget

(* What AddEdge and ReplaceEdge assert of an edge.                         *)
Edges == {e \in [left : SUBSET Nodes, right : SUBSET Nodes, equality : BOOLEAN] :
             e.left # {} /\ e.right # {} /\ e.left \cap e.right = {}}

ASSUME GraphsAssumption == Graphs \subseteq Seq(Edges)

VARIABLES
    graph,      \* m_graph
    original,   \* the graph before the first step
    budget,     \* m_pair_budget
    card,       \* the cardinality of every relation
    reachable,  \* CDPHyperOrderConstraints::m_reachable
    best,       \* m_best of every edge
    applied,    \* m_applied, the last step first
    unapplied,  \* m_unapplied, the last step first
    pc, lower, upper   \* CDPHyperGraphSimplifier::Simplify

vars == <<graph, original, budget, card, reachable, best, applied, unapplied, pc, lower, upper>>

None == 0
----------------------------------------------------------------------------
(* CDPHyperOrderConstraints.                                               *)
WouldCreateCycle(r, before, after) == before \in r[after]

(* Mutation: only the edge after is reached, not what it reaches.          *)
TryAddOne(r, before, after) ==
    IF WouldCreateCycle(r, before, after) THEN r
    ELSE [k \in DOMAIN r |-> IF before \in r[k] THEN r[k] \cup {after} ELSE r[k]]

TryAdd(r, before, after) ==
    IF WouldCreateCycle(r, before, after) THEN r
    ELSE [k \in DOMAIN r |-> IF before \in r[k] THEN r[k] \cup r[after] ELSE r[k]]

Nested(S, T) == S \subseteq T \/ T \subseteq S

Superset(S, T) == IF S \subseteq T THEN T ELSE S

(* CDPHyperGraphSimplifier::ExtractJoinDependencies: the join of an edge   *)
(* whose nodes are nodes of another edge comes first.                      *)
Depend(g, r, k, l) ==
    IF PbsUsedNodes(g, k) \subseteq PbsUsedNodes(g, l) THEN TryAdd(r, k, l)
    ELSE IF PbsUsedNodes(g, l) \subseteq PbsUsedNodes(g, k) THEN TryAdd(r, l, k)
    ELSE r

DependOnLater(g, r, k) ==
    LET added[l \in k..Len(g.edges)] == IF l = k THEN r ELSE Depend(g, added[l - 1], k, l)
    IN  added[Len(g.edges)]

ExtractJoinDependencies(g) ==
    LET added[k \in 0..Len(g.edges)] ==
            IF k = 0 THEN [l \in EdgesOf(g) |-> {l}] ELSE DependOnLater(g, added[k - 1], k)
    IN  added[Len(g.edges)]
----------------------------------------------------------------------------
Rows(S) ==
    LET times[T \in SUBSET S] ==
            IF T = {} THEN 1 ELSE LET n == LowestBit(T) IN card[n] * times[T \ {n}]
    IN  times[S]
Cost(S, T) == 2 * (Rows(S) + Rows(T)) + Rows(S \cup T)
Known(S) == \A n \in S : card[n] # 0

(* A step that has the join of edge before come before that of edge after: *)
(* the edge after gets new sides.  There is none if the three sets overlap *)
(* or a cost is not known.                                                 *)
Step(g, before, after, left, right, three) ==
    IF (\A i, j \in 1..3 : i < j => three[i] \cap three[j] = {}) /\ Known(left \cup right)
    THEN {[cost |-> Cost(left, right), benefit |-> <<0, 1>>, before |-> before, after |-> after,
           oldLeft |-> g.edges[after].left, oldRight |-> g.edges[after].right,
           left |-> left, right |-> right]}
    ELSE {}

ThreeLeftJoin(g, set1, edge1, set2, edge2, set3) ==
    Step(g, edge1, edge2, set1 \cup set2, set3, <<set1, set2, set3>>)

ThreeRightJoin(g, set1, edge1, set2, edge2, set3) ==
    Step(g, edge2, edge1, set1, set2 \cup set3, <<set1, set2, set3>>)

(* The cheaper of the two; the benefit is the quotient of the costs.       *)
OrderJoin(first, second) ==
    LET sel == IF first.cost < second.cost THEN first ELSE second
        low == IF first.cost < second.cost THEN first.cost ELSE second.cost
        high == IF first.cost < second.cost THEN second.cost ELSE first.cost
    IN  [sel EXCEPT !.benefit = <<high, low>>]

NoWorse(b, c) == b[1] * c[2] <= c[1] * b[2]

(* CDPHyperGraphSimplifier::MakeStep: the steps for a pair of edges, none  *)
(* or one.                                                                 *)
MakeStep(g, r, k, l) ==
    LET e == g.edges[k]
        f == g.edges[l]
        options ==
            IF Nested(e.left, f.left) /\ e.right \cap f.right = {}
            THEN LET c == Superset(e.left, f.left)
                 IN  ThreeLeftJoin(g, c, k, e.right, l, f.right)
                     \X ThreeLeftJoin(g, c, l, f.right, k, e.right)
            ELSE IF Nested(e.left, f.right) /\ f.left \cap e.right = {}
            THEN LET c == Superset(e.left, f.right)
                 IN  ThreeRightJoin(g, f.left, l, c, k, e.right)
                     \X ThreeLeftJoin(g, f.left, l, c, k, e.right)
            ELSE IF Nested(e.right, f.left) /\ e.left \cap f.right = {}
            THEN LET c == Superset(e.right, f.left)
                 IN  ThreeLeftJoin(g, e.left, k, c, l, f.right)
                     \X ThreeRightJoin(g, e.left, k, c, l, f.right)
            ELSE IF Nested(e.right, f.right) /\ e.left \cap f.left = {}
            THEN LET c == Superset(e.right, f.right)
                 IN  ThreeRightJoin(g, f.left, l, e.left, k, c)
                     \X ThreeRightJoin(g, e.left, k, f.left, l, c)
            ELSE {}
    IN  IF \/ Nested(PbsUsedNodes(g, k), PbsUsedNodes(g, l))
           \/ WouldCreateCycle(r, k, l) \/ WouldCreateCycle(r, l, k)
           \/ ~e.equality \/ ~f.equality
        THEN {}
        ELSE {OrderJoin(o[1], o[2]) : o \in options}
----------------------------------------------------------------------------
(* The best step of an edge with an edge that comes after it, and whether  *)
(* it is in the queue.  TrySetStep sets it if it is no worse.              *)
NoBest == [neighbor |-> None, steps |-> {}, queued |-> FALSE]
Benefit(b) == (CHOOSE s \in b.steps : TRUE).benefit

Settable(b, steps) ==
    /\ steps # {}
    /\ \/ b.neighbor = None \/ ~b.queued
       \/ NoWorse(Benefit(b), (CHOOSE s \in steps : TRUE).benefit)
TrySetStep(b, steps, neighbor) ==
    IF Settable(b, steps) THEN [neighbor |-> neighbor, steps |-> steps, queued |-> TRUE] ELSE b

(* CDPHyperGraphSimplifier::ProcessNeighbors for edge k, whose own best    *)
(* step is made anew with the edges after it,                              *)
ProcessAbove(g, r, b, k) ==
    LET last[l \in k..Len(g.edges)] ==
            IF l = k THEN [b EXCEPT !.neighbor = None]
            ELSE TrySetStep(last[l - 1], MakeStep(g, r, k, l), l)
        found == last[Len(g.edges)]
    IN  [found EXCEPT !.queued = found.neighbor # None]

(* and, in the first loop, the best step of an edge l before it.           *)
ProcessBelow(g, r, b, k, l) ==
    IF Settable(b, MakeStep(g, r, k, l)) THEN TrySetStep(b, MakeStep(g, r, k, l), k)
    ELSE IF b.neighbor = k THEN ProcessAbove(g, r, b, l)
    ELSE b

ProcessNeighbors(g, r, bs, k) ==
    [l \in DOMAIN bs |-> IF l < k THEN ProcessBelow(g, r, bs[l], k, l)
                         ELSE IF l = k THEN ProcessAbove(g, r, bs[l], k)
                         ELSE bs[l]]

InitFirstStep(g, r) == [k \in EdgesOf(g) |-> ProcessAbove(g, r, NoBest, k)]

Complete(plan) == ~plan.stop /\ Nodes \in plan.seen

(* CDPHyperGraphSimplifier::EnumerationExceedsBudget.                      *)
Exceeds(g) == ~Complete(Enumeration(g, budget))

ModifyEdge(g, step, apply) ==
    IF apply THEN ReplaceEdge(g, step.after, step.left, step.right)
    ELSE ReplaceEdge(g, step.after, step.oldLeft, step.oldRight)

----------------------------------------------------------------------------
Init ==
    /\ card = [n \in Nodes |-> 0]
    /\ budget \in Budgets
    /\ \E es \in Graphs : graph = GraphOf(es)
    /\ original = graph
    /\ reachable = <<>> /\ best = <<>>
    /\ applied = <<>> /\ unapplied = <<>>
    /\ pc = "enumerate" /\ lower = 0 /\ upper = 1

(* CJobJoinEnumeration::FEnumerateRegion enumerates all pairs first and    *)
(* makes a simplifier when the budget was exhausted.                       *)
EnumerateRegion ==
    /\ pc = "enumerate"
    /\ IF Enumeration(graph, budget).stop
       THEN pc' = "simplify" /\ card' \in Cards
       ELSE pc' = "whole" /\ UNCHANGED card
    /\ UNCHANGED <<graph, original, budget, reachable, best, applied, unapplied, lower, upper>>

MakeSimplifier ==
    /\ pc = "simplify" /\ pc' = "grow"
    /\ reachable' = ExtractJoinDependencies(graph)
    /\ best' = InitFirstStep(graph, reachable')
    /\ UNCHANGED <<graph, original, budget, card, applied, unapplied, lower, upper>>

Queue == {k \in DOMAIN best : best[k].queued}

(* CDPHyperGraphSimplifier::FetchStep takes a best step.  A step that does *)
(* not agree with the order is dropped, one that does is applied; in both  *)
(* cases the steps of the edge after are made anew.                        *)
FetchStep(k) ==
    /\ \A l \in Queue : NoWorse(Benefit(best[l]), Benefit(best[k]))
    /\ \E step \in best[k].steps :
          LET fits == ~WouldCreateCycle(reachable, step.before, step.after)
          IN  /\ reachable' = TryAdd(reachable, step.before, step.after)
              /\ graph' = IF fits THEN ModifyEdge(graph, step, TRUE) ELSE graph
              /\ applied' = IF fits THEN <<step>> \o applied ELSE applied
              /\ best' = ProcessNeighbors(graph', reachable', [best EXCEPT ![k].queued = FALSE],
                                          step.after)
    /\ UNCHANGED unapplied

(* A step that was undone is applied again.                                *)
Reapply ==
    /\ graph' = ModifyEdge(graph, Head(unapplied), TRUE)
    /\ applied' = <<Head(unapplied)>> \o applied
    /\ unapplied' = Tail(unapplied)
    /\ UNCHANGED <<reachable, best>>

(* CDPHyperGraphSimplifier::ApplyStep: steps that were undone come before  *)
(* those of the queue.  It returns false when there are neither.           *)
NoStepLeft == unapplied = <<>> /\ Queue = {}
ApplyStep == IF unapplied # <<>> THEN Reapply ELSE \E k \in Queue : FetchStep(k)

(* Mutation: the step that was applied first is undone.                    *)
UnapplyStepOldest ==
    /\ graph' = ModifyEdge(graph, applied[Len(applied)], FALSE)
    /\ unapplied' = <<applied[Len(applied)]>> \o unapplied
    /\ applied' = SubSeq(applied, 1, Len(applied) - 1)
    /\ UNCHANGED <<reachable, best>>

UnapplyStep ==
    /\ graph' = ModifyEdge(graph, Head(applied), FALSE)
    /\ unapplied' = <<Head(applied)>> \o unapplied
    /\ applied' = Tail(applied)
    /\ UNCHANGED <<reachable, best>>

(* One round of CDPHyperGraphSimplifier::ApplySteps(count), for a count    *)
(* that is not reached and can be.                                         *)
MoveTowards(count) ==
    /\ IF Len(applied) < count THEN ApplyStep ELSE UnapplyStep
    /\ UNCHANGED <<original, budget, card, pc, lower, upper>>
Unreachable(count) == Len(applied) < count /\ NoStepLeft

(* CDPHyperGraphSimplifier::Simplify adds steps until the upper bound.     *)
Grow ==
    /\ pc = "grow" /\ Len(applied) < upper /\ ~NoStepLeft
    /\ MoveTowards(upper)

(* There are no more steps: the enumeration fits, or all steps are undone. *)
NoMoreSteps ==
    /\ pc = "grow" /\ Unreachable(upper)
    /\ IF Exceeds(graph) THEN pc' = "restore" /\ UNCHANGED upper
       ELSE pc' = "search" /\ upper' = Len(applied) + 1
    /\ UNCHANGED <<graph, original, budget, card, reachable, best, applied, unapplied, lower>>

(* Mutation: the number of steps that fits is taken, without a search.     *)
ProbeGrownEnough ==
    /\ pc = "grow" /\ Len(applied) = upper
    /\ IF Exceeds(graph) THEN upper' = 2 * upper /\ UNCHANGED <<pc, lower>>
       ELSE pc' = "search" /\ lower' = upper /\ UNCHANGED upper
    /\ UNCHANGED <<graph, original, budget, card, reachable, best, applied, unapplied>>

(* The enumeration fits, or twice as many steps are tried.                 *)
ProbeGrown ==
    /\ pc = "grow" /\ Len(applied) = upper
    /\ IF Exceeds(graph) THEN upper' = 2 * upper /\ UNCHANGED pc
       ELSE pc' = "search" /\ upper' = Len(applied) + 1
    /\ UNCHANGED <<graph, original, budget, card, reachable, best, applied, unapplied, lower>>

(* The binary search.  A number of steps that cannot be reached counts as  *)
(* too small.                                                              *)
Search ==
    LET middle == lower + (upper - lower) \div 2
        low == Unreachable(middle) \/ Exceeds(graph)
    IN  /\ pc = "search" /\ lower < upper
        /\ IF Len(applied) # middle /\ ~Unreachable(middle) THEN MoveTowards(middle)
           ELSE /\ lower' = IF low THEN middle + 1 ELSE lower
                /\ upper' = IF low THEN upper ELSE middle
                /\ UNCHANGED <<graph, original, budget, card, reachable, best, applied,
                               unapplied, pc>>

(* The steps of the upper bound are applied.                               *)
Settle ==
    /\ pc = "search" /\ lower >= upper
    /\ IF Len(applied) # upper /\ ~Unreachable(upper) THEN MoveTowards(upper)
       ELSE /\ pc' = IF Unreachable(upper) \/ applied = <<>> THEN "restore" ELSE "simplified"
            /\ UNCHANGED <<graph, original, budget, card, reachable, best, applied, unapplied,
                           lower, upper>>

(* CJobJoinEnumeration::FEnumerateRegion enumerates the simplified graph,  *)
(* and restores the graph if that fails.                                   *)
EnumerateSimplified ==
    /\ pc = "simplified" /\ pc' = IF Exceeds(graph) THEN "restore" ELSE "done"
    /\ UNCHANGED <<graph, original, budget, card, reachable, best, applied, unapplied, lower, upper>>

(* ApplySteps(0), of Simplify or of Restore.                               *)
Restore ==
    /\ pc = "restore"
    /\ IF applied # <<>> THEN MoveTowards(0)
       ELSE /\ pc' = "failed"
            /\ UNCHANGED <<graph, original, budget, card, reachable, best, applied, unapplied,
                           lower, upper>>

Finished == pc \in {"whole", "failed", "done"} /\ UNCHANGED vars

Next ==
    \/ EnumerateRegion \/ MakeSimplifier \/ Grow \/ NoMoreSteps \/ ProbeGrown
    \/ Search \/ Settle \/ EnumerateSimplified \/ Restore \/ Finished

Spec == Init /\ [][Next]_vars
----------------------------------------------------------------------------
(* CDPHyperGraph::ReplaceEdge: after any number of replaced edges the      *)
(* index of a node is that of the edges as they are now: the directed      *)
(* edges that leave it, and its simple neighbours.  A simple neighbour     *)
(* stays one as long as some simple edge, parallel edges included, leads   *)
(* to it.  The sides of an edge are disjoint and not empty, as ReplaceEdge *)
(* asserts.                                                                *)
IndexExact ==
    /\ graph.edges \in Seq(Edges)
    /\ \A n \in Nodes :
          LET at(simple) ==
                  {From(n, k, graph.edges[k]) :
                      k \in {l \in EdgesOf(graph) : /\ n \in PbsUsedNodes(graph, l)
                                                    /\ Simple(graph.edges[l]) = simple}}
              index == graph.nodes[n]
          IN  /\ {index.simple[i] : i \in DOMAIN index.simple} = at(TRUE)
              /\ {index.complex[i] : i \in DOMAIN index.complex} = at(FALSE)
              /\ index.neighbours = UNION {Directed(graph, d).right : d \in at(TRUE)}

(* The edges of graph g when steps are undone, the first one first.        *)
Unwound(g, steps) ==
    LET after[i \in 0..Len(steps)] ==
            IF i = 0 THEN g ELSE ModifyEdge(after[i - 1], steps[i], FALSE)
    IN  after[Len(steps)]

(* CDPHyperGraphSimplifier::UnapplyStep: undoing the applied steps, last   *)
(* first, always gives the graph of the query back: no step in the queue   *)
(* keeps old sides of an edge that was changed after the step was made.    *)
(* In particular a failing Simplify rolls all changes back.                *)
StepsUndone == Unwound(graph, applied).edges = original.edges

(* The join of edge k comes before that of edge l because of their nodes.  *)
Before(k, l) ==
    /\ PbsUsedNodes(original, k) \subseteq PbsUsedNodes(original, l)
    /\ PbsUsedNodes(original, l) \subseteq PbsUsedNodes(original, k) => k <= l

(* CDPHyperOrderConstraints: the order of the joins that the nodes of the  *)
(* edges impose, whose addition ExtractJoinDependencies asserts, and the   *)
(* order that the steps impose, applied or undone, are parts of one        *)
(* partial order of the edges: no two of them contradict each other,       *)
(* whatever steps were added and rejected.                                 *)
StepsAgree ==
    pc \notin {"enumerate", "whole", "simplify"} =>
        /\ \A k, l \in EdgesOf(original) :
              /\ Before(k, l) => l \in reachable[k]
              /\ l \in reachable[k] =>
                    reachable[l] \subseteq reachable[k] /\ (k \in reachable[l] => k = l)
        /\ \A i \in DOMAIN applied : applied[i].after \in reachable[applied[i].before]
        /\ \A i \in DOMAIN unapplied : unapplied[i].after \in reachable[unapplied[i].before]

(* CDPHyperGraphSimplifier::Simplify: the upper bound the binary search    *)
(* converges to fits the budget, though it is not probed again, so the     *)
(* enumeration that follows is complete and Restore is not needed; fewer   *)
(* of the steps would not have been enough; and Simplify fails only when   *)
(* it runs out of steps, never in the binary search.                       *)
FitsMinimally ==
    /\ pc = "simplified" =>
          /\ ~Exceeds(graph)
          /\ \A i \in 1..Len(applied) : Exceeds(Unwound(graph, SubSeq(applied, 1, i)))
    /\ pc = "restore" => lower = 0 /\ upper > 0
=============================================================================
