-------------------------- MODULE DPHyperProofs --------------------------
(***************************************************************************)
(* What the simplifier of DPHyperSimplifier keeps whatever graph, budget,  *)
(* cardinalities and enumeration it works with: the index of the graph     *)
(* (IndexExact), the way back to the query's graph (StepsUndone) and the   *)
(* order of the joins (StepsAgree).                                        *)
(***************************************************************************)
EXTENDS DPHyperSimplifier, WellFoundedInduction, TLAPS

(* The types of the index and of the graph.                                *)
DirectedEdges == [edge : Nat, reverse : BOOLEAN]
Indexes == [Nodes -> [neighbours : SUBSET Nodes, simple : Seq(DirectedEdges),
                      complex : Seq(DirectedEdges)]]
HyperGraphs == [edges : Seq(Edges), nodes : Indexes]

Entries(s) == {s[i] : i \in DOMAIN s}

(* Of the edges es with a number in K: those that leave node n, the simple *)
(* ones or the others, and the nodes the simple ones lead to.              *)
SimpleFrom(es, K, n) ==
    {From(n, k, es[k]) : k \in {l \in K : n \in es[l].left \cup es[l].right /\ Simple(es[l])}}
ComplexFrom(es, K, n) ==
    {From(n, k, es[k]) : k \in {l \in K : n \in es[l].left \cup es[l].right /\ ~Simple(es[l])}}
Target(es, d) == IF d.reverse THEN es[d.edge].left ELSE es[d.edge].right

(* nodes is the index of those edges.                                      *)
Indexed(nodes, es, K) ==
    \A n \in Nodes :
        /\ Entries(nodes[n].simple) = SimpleFrom(es, K, n)
        /\ Entries(nodes[n].complex) = ComplexFrom(es, K, n)
        /\ nodes[n].neighbours = UNION {Target(es, d) : d \in SimpleFrom(es, K, n)}

(* The edges after edge k gets new sides, as when a step is applied to     *)
(* them or undone.                                                         *)
NewSides(e, left, right) == [e EXCEPT !.left = left, !.right = right]
Replaced(es, k, left, right) == [es EXCEPT ![k] = NewSides(es[k], left, right)]
Redo(es, s) == Replaced(es, s.after, s.left, s.right)
Undo(es, s) == Replaced(es, s.after, s.oldLeft, s.oldRight)

(* A step that fits the edges es:   it changes one of them, which has the  *)
(* old sides, to an edge.                                                  *)
Fits(s, es) ==
    /\ s.before \in DOMAIN es /\ s.after \in DOMAIN es /\ s.before # s.after
    /\ s.oldLeft = es[s.after].left /\ s.oldRight = es[s.after].right
    /\ s.left \in SUBSET Nodes /\ s.right \in SUBSET Nodes
    /\ s.left # {} /\ s.right # {} /\ s.left \cap s.right = {}

IsBest(b) == b = [neighbor |-> b.neighbor, steps |-> b.steps, queued |-> b.queued]

(* The best step of edge k, if queued, is one with a later edge and fits   *)
(* the edges es.                                                           *)
Fresh(b, k, es) ==
    b.queued =>
        /\ b.neighbor \in DOMAIN es /\ k < b.neighbor
        /\ \A s \in b.steps : Fits(s, es) /\ {s.before, s.after} \subseteq {k, b.neighbor}

(* The partial orders of the edges es.                                     *)
Orders(es) ==
    {r \in [DOMAIN es -> SUBSET (DOMAIN es)] :
        \A k, l \in DOMAIN es :
            /\ k \in r[k]
            /\ l \in r[k] => r[l] \subseteq r[k] /\ (k \in r[l] => k = l)}

Starting == pc \in {"enumerate", "whole", "simplify"}

TypeInv ==
    /\ graph \in HyperGraphs /\ original \in HyperGraphs
    /\ Len(graph.edges) = Len(original.edges)
    /\ lower \in Nat /\ upper \in Nat
    /\ Starting => graph = original /\ applied = <<>> /\ unapplied = <<>>

IndexInv == Indexed(graph.nodes, graph.edges, DOMAIN graph.edges)

OrderInv ==
    ~Starting =>
        /\ reachable \in Orders(original.edges)
        /\ \A k, l \in DOMAIN original.edges : Before(k, l) => l \in reachable[k]
        /\ \A s \in Entries(applied) \cup Entries(unapplied) :
              s.before \in DOMAIN original.edges /\ s.after \in reachable[s.before]

(* A step takes the edges es to fs when it is applied or undone, and back. *)
Moves(es, fs, s, apply) ==
    /\ s.after \in DOMAIN es
    /\ apply => fs = Redo(es, s) /\ es = Undo(fs, s)
    /\ ~apply => fs = Undo(es, s) /\ es = Redo(fs, s)

(* Steps take the edges es to fs, one after the other.                     *)
Leads(steps, es, fs, apply) ==
    \E p : /\ p[0] = es /\ p[Len(steps)] = fs
           /\ \A i \in 0..Len(steps) : p[i] \in Seq(Edges)
           /\ \A i \in 1..Len(steps) : Moves(p[i - 1], p[i], steps[i], apply)

(* Undoing the applied steps leads to the edges of the query, applying     *)
(* those that were undone to edges that the steps in the queue fit.        *)
HistoryInv ==
    /\ \E X : applied \in Seq(X) /\ unapplied \in Seq(X)
    /\ ~Starting => DOMAIN best = DOMAIN original.edges /\ \A k \in DOMAIN best : IsBest(best[k])
    /\ Leads(applied, graph.edges, original.edges, FALSE)
    /\ \E fs : /\ Leads(unapplied, graph.edges, fs, TRUE)
               /\ ~Starting => \A k \in DOMAIN best : Fresh(best[k], k, fs)

Inv == TypeInv /\ IndexInv /\ OrderInv /\ HistoryInv
----------------------------------------------------------------------------
(* The order of the numbers is well founded.                               *)
LEMMA LessThan == \E R : IsWellFoundedOn(R, Nat) /\ \A x, y \in Nat : <<x, y>> \in R <=> x < y
<1>1. \A x, y \in Nat : <<x, y>> \in OpToRel(<, Nat) <=> x < y
  BY Zenon DEF OpToRel
<1>. QED
  BY <1>1, NatLessThanWellFounded, Zenon

(* A set of numbers that is not empty has a least member.                  *)
LEMMA Least == ASSUME NEW H, H \subseteq Nat, H # {} PROVE \E j \in H : \A h \in H : j <= h
<1>1. PICK R : IsWellFoundedOn(R, Nat) /\ \A x, y \in Nat : <<x, y>> \in R <=> x < y
  BY LessThan, Zenon
<1>2. IsWellFoundedOn(R, Nat)
  BY <1>1, Zenon
<1>3. \A x, y \in Nat : <<x, y>> \in R <=> x < y
  BY <1>1, Zenon
<1>4. PICK j \in H : \A h \in H : ~(<<h, j>> \in R)
  BY <1>2, WFMin, Zenon
<1>5. ASSUME NEW h \in H PROVE j <= h
  <2>1. ~(h < j)
    BY <1>3, <1>4, Zenon
  <2>2. h \in Nat /\ j \in Nat
    BY Zenon
  <2>. QED
    BY <2>1, <2>2
<1>. QED
  BY <1>5, Zenon

(* Induction over the numbers, for a set in place of a predicate.          *)
LEMMA Induction ==
    ASSUME NEW S, 0 \in S, \A k \in Nat : k \in S => k + 1 \in S PROVE Nat \subseteq S
<1>1. SUFFICES ASSUME ~(Nat \subseteq S) PROVE FALSE
  BY Zenon
<1>2. PICK j \in Nat \ S : \A h \in Nat \ S : j <= h
  <2>1. Nat \ S # {} /\ Nat \ S \subseteq Nat
    BY <1>1, Zenon
  <2>. QED
    BY <2>1, Least, Zenon
<1>3. j # 0 /\ j - 1 \in Nat /\ (j - 1) + 1 = j
  BY <1>2
<1>4. j - 1 \in S
  BY <1>2, <1>3
<1>. QED
  BY <1>2, <1>3, <1>4, Zenon

(* The solutions of a recursion over a..b that starts with x and takes the *)
(* steps G, which do not leave S.                                          *)
Steppers(a, b, S) == [a..b -> [S -> S]]
Solutions(a, b, S, x, G) ==
    {f \in [a..b -> S] : f[a] = x /\ \A i \in a..b : i # a => f[i] = G[i][f[i - 1]]}

(* A recursion over a..b has a solution.                                   *)
LEMMA Recursion ==
    ASSUME NEW S, NEW a \in Nat, NEW b \in Nat, a <= b, NEW x \in S, NEW G \in Steppers(a, b, S)
    PROVE  Solutions(a, b, S, x, G) # {}
<1> DEFINE Solved(m) ==
               \E f \in [a..b -> S] : f[a] = x /\ \A i \in (a + 1)..b : i <= a + m => f[i] = G[i][f[i - 1]]
           T == {m \in Nat : Solved(m)}
<1>1. 0 \in T
  <2>1. [i \in a..b |-> x] \in [a..b -> S] /\ a \in a..b
    OBVIOUS
  <2>2. [i \in a..b |-> x][a] = x
    BY <2>1
  <2>3. \A i \in (a + 1)..b : ~(i <= a + 0)
    OBVIOUS
  <2>. QED
    BY <2>1, <2>2, <2>3, Zenon
<1>2. ASSUME NEW m \in Nat, m \in T PROVE m + 1 \in T
  <2>1. m + 1 \in Nat /\ Solved(m)
    BY <1>2
  <2>. SUFFICES Solved(m + 1)
    <3>. HIDE DEF Solved
    <3>. QED
      BY <2>1, Zenon
  <2>2. PICK f \in [a..b -> S] :
            f[a] = x /\ \A i \in (a + 1)..b : i <= a + m => f[i] = G[i][f[i - 1]]
    BY <2>1, Zenon
  <2>3. CASE a + (m + 1) \in (a + 1)..b
    <3>1. PICK j \in (a + 1)..b : j = a + (m + 1)
      BY <2>3, Zenon
    <3>2. j \in a..b /\ j - 1 \in a..b /\ a \in a..b /\ j # a
      BY <3>1
    <3>3. f[j - 1] \in S
      BY <3>2, Zenon
    <3>4. PICK y \in S : y = G[j][f[j - 1]]
      BY <3>2, <3>3, Zenon DEF Steppers
    <3>5. PICK q : q = [f EXCEPT ![j] = y]
      BY Zenon
    <3>6. q \in [a..b -> S] /\ q[j] = y /\ \A i \in a..b : i # j => q[i] = f[i]
      BY <3>2, <3>5, Zenon
    <3>7. ASSUME NEW i \in (a + 1)..b, i <= a + (m + 1) PROVE q[i] = G[i][q[i - 1]]
      <4>1. i - 1 \in a..b /\ i - 1 # j /\ i \in a..b /\ (i = j \/ i <= a + m)
        BY <3>1, <3>7
      <4>2. q[i - 1] = f[i - 1]
        BY <3>6, <4>1, Zenon
      <4>. QED
        BY <2>2, <3>4, <3>6, <4>1, <4>2, Zenon
    <3>. QED
      BY <2>2, <3>2, <3>6, <3>7, Zenon
  <2>4. CASE a + (m + 1) \notin (a + 1)..b
    <3>1. \A i \in (a + 1)..b : i <= a + (m + 1) => i <= a + m
      BY <2>4
    <3>. QED
      BY <2>2, <3>1, Zenon
  <2>. QED
    BY <2>3, <2>4, Zenon
<1>3. Solved(b)
  <2>1. Nat \subseteq T
    <3>. HIDE DEF T
    <3>. QED
      BY <1>1, <1>2, Induction, Zenon
  <2>. QED
    BY <2>1, Zenon
<1>4. \A i \in a..b : i # a => i \in (a + 1)..b /\ i <= a + b
  OBVIOUS
<1>. QED
  BY <1>3, <1>4, Zenon DEF Solutions

(* Induction over the numbers from a to b.                                 *)
LEMMA Stepwise ==
    ASSUME NEW T, NEW a \in Nat, NEW b \in Nat, a <= b, a \in T,
           \A i \in a..b : i # a /\ i - 1 \in T => i \in T
    PROVE  a..b \subseteq T
<1> DEFINE H == {k \in Nat : a + k <= b => a + k \in T}
<1>1. 0 \in H
  <2>1. a + 0 = a
    OBVIOUS
  <2>. QED
    BY <2>1
<1>2. ASSUME NEW k \in Nat, k \in H PROVE k + 1 \in H
  <2>1. CASE a + (k + 1) <= b
    <3>1. a + k <= b /\ a + (k + 1) \in a..b /\ a + (k + 1) # a /\ (a + (k + 1)) - 1 = a + k
      BY <2>1
    <3>2. a + k \in T
      BY <1>2, <3>1, Zenon
    <3>3. a + (k + 1) \in T
      BY <3>1, <3>2, Zenon
    <3>. QED
      BY <3>3
  <2>2. CASE ~(a + (k + 1) <= b)
    BY <2>2
  <2>. QED
    BY <2>1, <2>2, Zenon
<1>3. Nat \subseteq H
  <2>. HIDE DEF H
  <2>. QED
    BY <1>1, <1>2, Induction, Zenon
<1>4. ASSUME NEW i \in a..b PROVE i \in T
  <2>1. PICK k \in Nat : a + k = i /\ a + k <= b
    <3>1. i - a \in Nat /\ a + (i - a) = i /\ a + (i - a) <= b
      OBVIOUS
    <3>. QED
      BY <3>1, Zenon
  <2>2. a + k \in T
    BY <1>3, <2>1, Zenon
  <2>. QED
    BY <2>1, <2>2, Zenon
<1>. QED
  BY <1>4, Zenon
----------------------------------------------------------------------------
(* The elements of a list that one is added to.                            *)
LEMMA AppendEntries ==
    ASSUME NEW X, NEW t \in Seq(X), NEW x \in X
    PROVE  Append(t, x) \in Seq(X) /\ Entries(Append(t, x)) = Entries(t) \cup {x}
<1>1. PICK u : u = Append(t, x)
  BY Zenon
<1>2. Len(t) \in Nat /\ DOMAIN t = 1..Len(t)
  OBVIOUS
<1>3. u \in Seq(X) /\ DOMAIN u = 1..(Len(t) + 1) /\ u[Len(t) + 1] = x
  BY <1>1, <1>2
<1>4. \A i \in 1..Len(t) : u[i] = t[i]
  BY <1>1, <1>2
<1>5. (Len(t) + 1) \in 1..(Len(t) + 1) /\ (\A i \in 1..Len(t) : i \in 1..(Len(t) + 1))
  BY <1>2
<1>6. \A i \in 1..(Len(t) + 1) : i = Len(t) + 1 \/ i \in 1..Len(t)
  BY <1>2
<1>7. {u[i] : i \in 1..(Len(t) + 1)} = {t[i] : i \in 1..Len(t)} \cup {x}
  BY <1>3, <1>4, <1>5, <1>6, Zenon
<1>. QED
  BY <1>1, <1>2, <1>3, <1>7, Zenon DEF Entries

(* The list that std::remove leaves has the other elements of the list.    *)
LEMMA WithoutEntries ==
    ASSUME NEW X, NEW s \in Seq(X), NEW d
    PROVE  Without(s, d) \in Seq(X) /\ Entries(Without(s, d)) = Entries(s) \ {d}
<1>1. PICK n \in Nat : n = Len(s) /\ DOMAIN s = 1..n /\ \A i \in 1..n : s[i] \in X
  OBVIOUS
<1> DEFINE Kept(t, i) == IF s[i] = d THEN t ELSE Append(t, s[i])
           IsKept(f) == f = [i \in 0..Len(s) |-> IF i = 0 THEN <<>>
                                ELSE IF s[i] = d THEN f[i - 1] ELSE Append(f[i - 1], s[i])]
           G == [i \in 0..n |-> [t \in Seq(X) |-> IF i = 0 THEN t ELSE Kept(t, i)]]
<1>2. \A i \in 1..n : \A t \in Seq(X) : Kept(t, i) \in Seq(X)
  BY <1>1
<1>3. PICK f \in [0..n -> Seq(X)] : f[0] = <<>> /\ \A i \in 0..n : i # 0 => f[i] = G[i][f[i - 1]]
  <2>1. G \in Steppers(0, n, Seq(X))
    <3>1. \A i \in 0..n : i # 0 => i \in 1..n
      BY <1>1
    <3>. QED
      BY <1>2, <3>1, Zenon DEF Steppers
  <2>2. <<>> \in Seq(X) /\ 0 <= n /\ 0 \in Nat
    OBVIOUS
  <2>. HIDE DEF G
  <2>3. Solutions(0, n, Seq(X), <<>>, G) # {}
    BY <2>1, <2>2, Recursion, Zenon
  <2>. QED
    BY <2>3, Zenon DEF Solutions
<1>4. IsKept(f)
  <2>1. ASSUME NEW i \in 1..n PROVE f[i] = Kept(f[i - 1], i)
    <3>1. i - 1 \in 0..n /\ i \in 0..n /\ i # 0
      OBVIOUS
    <3>2. f[i - 1] \in Seq(X)
      BY <3>1, Zenon
    <3>. QED
      BY <1>3, <3>1, <3>2, Zenon
  <2>2. \A i \in 0..n : i = 0 \/ i \in 1..n
    BY <1>1
  <2>. QED
    BY <1>1, <1>3, <2>1, <2>2, Zenon
<1>5. PICK kept : kept = CHOOSE g : IsKept(g)
  BY Zenon
<1>6. IsKept(kept)
  BY <1>4, <1>5, Zenon
<1>7. Without(s, d) = kept[n]
  BY <1>1, <1>5, Zenon DEF Without
<1> DEFINE T == {i \in 0..n : kept[i] \in Seq(X) /\ Entries(kept[i]) = {s[j] : j \in 1..i} \ {d}}
<1>8. 0 \in T
  <2>1. kept[0] = <<>> /\ 0 \in 0..n
    BY <1>1, <1>6
  <2>2. Entries(<<>>) = {} /\ <<>> \in Seq(X) /\ {s[j] : j \in 1..0} = {}
    BY DEF Entries
  <2>. QED
    BY <2>1, <2>2, Zenon
<1>9. ASSUME NEW i \in 1..n, i - 1 \in T PROVE i \in T
  <2>1. i \in 0..n /\ i # 0 /\ i - 1 \in 0..n
    BY <1>1
  <2>2. PICK t : t = kept[i - 1]
    BY Zenon
  <2>3. t \in Seq(X) /\ Entries(t) = {s[j] : j \in 1..(i - 1)} \ {d}
    BY <1>9, <2>2, Zenon
  <2>4. kept[i] = Kept(t, i)
    BY <1>1, <1>6, <2>1, <2>2, Zenon
  <2>5. {s[j] : j \in 1..i} = {s[j] : j \in 1..(i - 1)} \cup {s[i]}
    <3>1. \A j \in 1..i : j = i \/ j \in 1..(i - 1)
      BY <1>1
    <3>2. i \in 1..i /\ \A j \in 1..(i - 1) : j \in 1..i
      BY <1>1
    <3>. QED
      BY <3>1, <3>2, Zenon
  <2>6. CASE s[i] = d
    BY <2>1, <2>3, <2>4, <2>5, <2>6, Zenon
  <2>7. CASE s[i] # d
    <3>1. kept[i] = Append(t, s[i])
      BY <2>4, <2>7, Zenon
    <3>2. Append(t, s[i]) \in Seq(X) /\ Entries(Append(t, s[i])) = Entries(t) \cup {s[i]}
      <4>1. s[i] \in X
        BY <1>1, Zenon
      <4>. QED
        BY <2>3, <4>1, AppendEntries
    <3>. QED
      BY <2>1, <2>3, <2>5, <2>7, <3>1, <3>2, Zenon
  <2>. QED
    BY <2>6, <2>7, Zenon
<1>10. n \in T
  <2>1. 0..n \subseteq T
    <3>1. 0 \in Nat /\ 0 <= n /\ \A i \in 0..n : i # 0 => i \in 1..n
      OBVIOUS
    <3>. HIDE DEF T
    <3>. QED
      BY <1>8, <1>9, <3>1, Stepwise, Zenon
  <2>2. n \in 0..n
    OBVIOUS
  <2>. QED
    BY <2>1, <2>2, Zenon
<1>11. Entries(s) = {s[j] : j \in 1..n}
  BY <1>1, Zenon DEF Entries
<1>. QED
  BY <1>7, <1>10, <1>11, Zenon
----------------------------------------------------------------------------
(* The direction of an edge names the edge and leads to its other side.    *)
LEMMA FromFacts ==
    ASSUME NEW es \in Seq(Edges), NEW n \in Nodes, NEW k \in DOMAIN es
    PROVE  /\ From(n, k, es[k]) \in DirectedEdges
           /\ From(n, k, es[k]).edge = k
           /\ Target(es, From(n, k, es[k])) = IF n \in es[k].right THEN es[k].left ELSE es[k].right
           /\ Target(es, From(n, k, es[k])) \subseteq Nodes
<1>1. k \in Nat /\ es[k] \in Edges
  OBVIOUS
<1>2. es[k].left \subseteq Nodes /\ es[k].right \subseteq Nodes
  BY <1>1 DEF Edges
<1>3. From(n, k, es[k]).edge = k /\ From(n, k, es[k]).reverse = (n \in es[k].right)
  BY DEF From
<1>4. From(n, k, es[k]) \in DirectedEdges
  BY <1>1 DEF From, DirectedEdges
<1>5. Target(es, From(n, k, es[k])) = IF n \in es[k].right THEN es[k].left ELSE es[k].right
  BY <1>3, Zenon DEF Target
<1>. QED
  BY <1>2, <1>3, <1>4, <1>5, Zenon

(* The directed edges that leave a node, without edge k.                   *)
LEMMA FromLess ==
    ASSUME NEW es, NEW n, NEW k, NEW K
    PROVE  /\ SimpleFrom(es, K \ {k}, n) = SimpleFrom(es, K, n) \ {From(n, k, es[k])}
           /\ ComplexFrom(es, K \ {k}, n) = ComplexFrom(es, K, n) \ {From(n, k, es[k])}
<1>1. \A l \in K : From(n, l, es[l]).edge = l
  BY DEF From
<1>2. From(n, k, es[k]).edge = k
  BY DEF From
<1>3. \A l \in K : From(n, l, es[l]) = From(n, k, es[k]) => l = k
  BY <1>1, <1>2, Zenon
<1>4. SimpleFrom(es, K \ {k}, n) = SimpleFrom(es, K, n) \ {From(n, k, es[k])}
  BY <1>3, Zenon DEF SimpleFrom
<1>5. ComplexFrom(es, K \ {k}, n) = ComplexFrom(es, K, n) \ {From(n, k, es[k])}
  BY <1>3, Zenon DEF ComplexFrom
<1>. QED
  BY <1>4, <1>5, Zenon

(* Edge k is among the directed edges of a node that it has.               *)
LEMMA FromMember ==
    ASSUME NEW es, NEW n, NEW k, NEW K
    PROVE  /\ From(n, k, es[k]) \in SimpleFrom(es, K, n) =>
                 n \in es[k].left \cup es[k].right /\ Simple(es[k])
           /\ From(n, k, es[k]) \in ComplexFrom(es, K, n) =>
                 n \in es[k].left \cup es[k].right /\ ~Simple(es[k])
<1>1. \A l \in K : From(n, l, es[l]).edge = l
  BY DEF From
<1>2. From(n, k, es[k]).edge = k
  BY DEF From
<1>3. \A l \in K : From(n, l, es[l]) = From(n, k, es[k]) => l = k
  BY <1>1, <1>2, Zenon
<1>4. ASSUME From(n, k, es[k]) \in SimpleFrom(es, K, n)
      PROVE  n \in es[k].left \cup es[k].right /\ Simple(es[k])
  <2>1. PICK l \in K : /\ n \in es[l].left \cup es[l].right /\ Simple(es[l])
                       /\ From(n, k, es[k]) = From(n, l, es[l])
    BY <1>4, Zenon DEF SimpleFrom
  <2>2. l = k
    BY <1>3, <2>1, Zenon
  <2>. QED
    BY <2>1, <2>2, Zenon
<1>5. ASSUME From(n, k, es[k]) \in ComplexFrom(es, K, n)
      PROVE  n \in es[k].left \cup es[k].right /\ ~Simple(es[k])
  <2>1. PICK l \in K : /\ n \in es[l].left \cup es[l].right /\ ~Simple(es[l])
                       /\ From(n, k, es[k]) = From(n, l, es[l])
    BY <1>5, Zenon DEF ComplexFrom
  <2>2. l = k
    BY <1>3, <2>1, Zenon
  <2>. QED
    BY <2>1, <2>2, Zenon
<1>. QED
  BY <1>4, <1>5, Zenon

(* An edge more.                                                           *)
LEMMA FromMore ==
    ASSUME NEW es, NEW n, NEW k, NEW K
    PROVE  /\ n \in es[k].left \cup es[k].right /\ Simple(es[k]) =>
                 /\ SimpleFrom(es, K \cup {k}, n) = SimpleFrom(es, K, n) \cup {From(n, k, es[k])}
                 /\ ComplexFrom(es, K \cup {k}, n) = ComplexFrom(es, K, n)
           /\ n \in es[k].left \cup es[k].right /\ ~Simple(es[k]) =>
                 /\ SimpleFrom(es, K \cup {k}, n) = SimpleFrom(es, K, n)
                 /\ ComplexFrom(es, K \cup {k}, n) = ComplexFrom(es, K, n) \cup {From(n, k, es[k])}
           /\ n \notin es[k].left \cup es[k].right =>
                 /\ SimpleFrom(es, K \cup {k}, n) = SimpleFrom(es, K, n)
                 /\ ComplexFrom(es, K \cup {k}, n) = ComplexFrom(es, K, n)
<1>1. n \in es[k].left \cup es[k].right /\ Simple(es[k]) =>
          SimpleFrom(es, K \cup {k}, n) = SimpleFrom(es, K, n) \cup {From(n, k, es[k])}
  BY Zenon DEF SimpleFrom
<1>2. ~(n \in es[k].left \cup es[k].right /\ Simple(es[k])) =>
          SimpleFrom(es, K \cup {k}, n) = SimpleFrom(es, K, n)
  BY Zenon DEF SimpleFrom
<1>3. n \in es[k].left \cup es[k].right /\ ~Simple(es[k]) =>
          ComplexFrom(es, K \cup {k}, n) = ComplexFrom(es, K, n) \cup {From(n, k, es[k])}
  BY Zenon DEF ComplexFrom
<1>4. ~(n \in es[k].left \cup es[k].right /\ ~Simple(es[k])) =>
          ComplexFrom(es, K \cup {k}, n) = ComplexFrom(es, K, n)
  BY Zenon DEF ComplexFrom
<1>. QED
  BY <1>1, <1>2, <1>3, <1>4, Zenon

(* The index only depends on the edges it is of.                           *)
LEMMA IndexedSame ==
    ASSUME NEW nodes, NEW es \in Seq(Edges), NEW fs, NEW K \in SUBSET DOMAIN es,
           \A l \in K : es[l] = fs[l], Indexed(nodes, es, K)
    PROVE  Indexed(nodes, fs, K)
<1>1. SUFFICES ASSUME NEW n \in Nodes
               PROVE  /\ SimpleFrom(es, K, n) = SimpleFrom(fs, K, n)
                      /\ ComplexFrom(es, K, n) = ComplexFrom(fs, K, n)
                      /\ {Target(es, d) : d \in SimpleFrom(es, K, n)} =
                            {Target(fs, d) : d \in SimpleFrom(es, K, n)}
  BY Zenon DEF Indexed
<1>2. SimpleFrom(es, K, n) = SimpleFrom(fs, K, n)
  BY Zenon DEF SimpleFrom
<1>3. ComplexFrom(es, K, n) = ComplexFrom(fs, K, n)
  BY Zenon DEF ComplexFrom
<1>4. ASSUME NEW d \in SimpleFrom(es, K, n) PROVE Target(es, d) = Target(fs, d)
  <2>1. PICK l \in K : d = From(n, l, es[l])
    BY <1>4, Zenon DEF SimpleFrom
  <2>2. d.edge = l
    BY <2>1, FromFacts
  <2>. QED
    BY <2>2, Zenon DEF Target
<1>. QED
  BY <1>2, <1>3, <1>4, Zenon

(* A graph and the entry of a node in its index have these parts.          *)
LEMMA IndexFacts ==
    ASSUME NEW nodes \in Indexes, NEW n \in Nodes
    PROVE  /\ nodes[n] \in [neighbours : SUBSET Nodes, simple : Seq(DirectedEdges),
                            complex : Seq(DirectedEdges)]
           /\ nodes[n].neighbours \in SUBSET Nodes
           /\ nodes[n].simple \in Seq(DirectedEdges) /\ nodes[n].complex \in Seq(DirectedEdges)
BY DEF Indexes

LEMMA GraphFacts ==
    ASSUME NEW g \in HyperGraphs
    PROVE  g.edges \in Seq(Edges) /\ g.nodes \in Indexes /\ EdgesOf(g) = DOMAIN g.edges
BY DEF HyperGraphs, EdgesOf

(* The nodes that the directed edges of a list lead to.                    *)
LEMMA TargetFacts ==
    ASSUME NEW es \in Seq(Edges), NEW K \in SUBSET DOMAIN es, NEW n \in Nodes
    PROVE  UNION {Target(es, d) : d \in SimpleFrom(es, K, n)} \in SUBSET Nodes
<1>1. ASSUME NEW d \in SimpleFrom(es, K, n) PROVE Target(es, d) \subseteq Nodes
  <2>1. PICK l \in K : d = From(n, l, es[l])
    BY <1>1, Zenon DEF SimpleFrom
  <2>. QED
    BY <2>1, FromFacts
<1>. QED
  BY <1>1, Zenon

(* CDPHyperGraph::DetachEdgeFromNodes leaves the index of the other edges. *)
LEMMA DetachIndexed ==
    ASSUME NEW g \in HyperGraphs, NEW k \in DOMAIN g.edges,
           Indexed(g.nodes, g.edges, DOMAIN g.edges)
    PROVE  /\ DetachEdgeFromNodes(g, k) \in Indexes
           /\ Indexed(DetachEdgeFromNodes(g, k), g.edges, DOMAIN g.edges \ {k})
<1>1. PICK es, nodes, K : es = g.edges /\ nodes = g.nodes /\ K = DOMAIN g.edges
  BY Zenon
<1>2. /\ es \in Seq(Edges) /\ nodes \in Indexes /\ K = DOMAIN es /\ k \in DOMAIN es
      /\ K \in SUBSET DOMAIN es
  BY <1>1, GraphFacts, Zenon
<1>3. PICK e : e = es[k]
  BY Zenon
<1>4. PICK new : new = DetachEdgeFromNodes(g, k)
  BY Zenon
<1> DEFINE Less(n) == Without(nodes[n].simple, From(n, k, e))
           LessC(n) == Without(nodes[n].complex, From(n, k, e))
           Near(n) == UNION {Directed(g, Less(n)[i]).right : i \in DOMAIN Less(n)}
<1>5. new = [n \in Nodes |->
                IF n \notin e.left \cup e.right THEN nodes[n]
                ELSE IF Simple(e) THEN [nodes[n] EXCEPT !.neighbours = Near(n), !.simple = Less(n)]
                ELSE [nodes[n] EXCEPT !.complex = LessC(n)]]
  BY <1>1, <1>3, <1>4, Zenon DEF DetachEdgeFromNodes
<1>6. ASSUME NEW n \in Nodes
      PROVE  /\ new[n] \in [neighbours : SUBSET Nodes, simple : Seq(DirectedEdges),
                            complex : Seq(DirectedEdges)]
             /\ Entries(new[n].simple) = SimpleFrom(es, K \ {k}, n)
             /\ Entries(new[n].complex) = ComplexFrom(es, K \ {k}, n)
             /\ new[n].neighbours = UNION {Target(es, d) : d \in SimpleFrom(es, K \ {k}, n)}
  <2>1. /\ Entries(nodes[n].simple) = SimpleFrom(es, K, n)
        /\ Entries(nodes[n].complex) = ComplexFrom(es, K, n)
        /\ nodes[n].neighbours = UNION {Target(es, d) : d \in SimpleFrom(es, K, n)}
    <3>1. Indexed(nodes, es, K)
      BY <1>1, Zenon
    <3>. QED
      BY <3>1, Zenon DEF Indexed
  <2>2. /\ SimpleFrom(es, K \ {k}, n) = SimpleFrom(es, K, n) \ {From(n, k, e)}
        /\ ComplexFrom(es, K \ {k}, n) = ComplexFrom(es, K, n) \ {From(n, k, e)}
    <3>1. /\ SimpleFrom(es, K \ {k}, n) = SimpleFrom(es, K, n) \ {From(n, k, es[k])}
          /\ ComplexFrom(es, K \ {k}, n) = ComplexFrom(es, K, n) \ {From(n, k, es[k])}
      BY FromLess, Zenon
    <3>. QED
      BY <1>3, <3>1, Zenon
  <2>3. /\ From(n, k, e) \in SimpleFrom(es, K, n) => n \in e.left \cup e.right /\ Simple(e)
        /\ From(n, k, e) \in ComplexFrom(es, K, n) => n \in e.left \cup e.right /\ ~Simple(e)
    BY <1>3, FromMember, Zenon
  <2>4. /\ nodes[n] \in [neighbours : SUBSET Nodes, simple : Seq(DirectedEdges),
                         complex : Seq(DirectedEdges)]
        /\ nodes[n].simple \in Seq(DirectedEdges) /\ nodes[n].complex \in Seq(DirectedEdges)
    BY <1>2, IndexFacts, Zenon
  <2>5. CASE n \notin e.left \cup e.right
    <3>1. new[n] = nodes[n]
      BY <1>5, <2>5, Zenon
    <3>. QED
      BY <2>1, <2>2, <2>3, <2>4, <2>5, <3>1, Zenon
  <2>6. CASE n \in e.left \cup e.right /\ Simple(e)
    <3>1. PICK less, near : less = Less(n) /\ near = Near(n)
      BY Zenon
    <3>2. new[n] = [nodes[n] EXCEPT !.neighbours = near, !.simple = less]
      BY <1>5, <2>6, <3>1, Zenon
    <3>3. less \in Seq(DirectedEdges) /\ Entries(less) = SimpleFrom(es, K \ {k}, n)
      <4>1. PICK all, d : all = nodes[n].simple /\ d = From(n, k, e) /\ less = Without(all, d)
        BY <3>1, Zenon
      <4>2. all \in Seq(DirectedEdges)
        BY <2>4, <4>1, Zenon
      <4>3. less \in Seq(DirectedEdges) /\ Entries(less) = Entries(all) \ {d}
        BY <4>1, <4>2, WithoutEntries
      <4>. QED
        BY <2>1, <2>2, <4>1, <4>3, Zenon
    <3>4. near = UNION {Target(es, d) : d \in Entries(less)}
      <4>1. ASSUME NEW d PROVE Directed(g, d).right = Target(es, d)
        <5>1. CASE d.reverse
          BY <1>1, <5>1 DEF Directed, Target
        <5>2. CASE ~d.reverse
          BY <1>1, <5>2 DEF Directed, Target
        <5>. QED
          BY <5>1, <5>2, Zenon
      <4>. HIDE DEF Less
      <4>2. near = UNION {Target(es, d) : d \in {Less(n)[i] : i \in DOMAIN Less(n)}}
        BY <3>1, <4>1, Zenon
      <4>. QED
        BY <3>1, <4>2, Zenon DEF Entries
    <3>5. near \in SUBSET Nodes
      <4>1. K \ {k} \in SUBSET DOMAIN es
        BY <1>2, Zenon
      <4>. QED
        BY <1>2, <3>3, <3>4, <4>1, TargetFacts
    <3>6. /\ new[n] \in [neighbours : SUBSET Nodes, simple : Seq(DirectedEdges),
                         complex : Seq(DirectedEdges)]
          /\ new[n].neighbours = near /\ new[n].simple = less /\ new[n].complex = nodes[n].complex
      BY <2>4, <3>2, <3>3, <3>5
    <3>. QED
      BY <2>1, <2>2, <2>3, <2>6, <3>3, <3>4, <3>6, Zenon
  <2>7. CASE n \in e.left \cup e.right /\ ~Simple(e)
    <3>1. PICK less : less = LessC(n)
      BY Zenon
    <3>2. new[n] = [nodes[n] EXCEPT !.complex = less]
      BY <1>5, <2>7, <3>1, Zenon
    <3>3. less \in Seq(DirectedEdges) /\ Entries(less) = ComplexFrom(es, K \ {k}, n)
      <4>1. PICK all, d : all = nodes[n].complex /\ d = From(n, k, e) /\ less = Without(all, d)
        BY <3>1, Zenon
      <4>2. all \in Seq(DirectedEdges)
        BY <2>4, <4>1, Zenon
      <4>3. less \in Seq(DirectedEdges) /\ Entries(less) = Entries(all) \ {d}
        BY <4>1, <4>2, WithoutEntries
      <4>. QED
        BY <2>1, <2>2, <4>1, <4>3, Zenon
    <3>4. /\ new[n] \in [neighbours : SUBSET Nodes, simple : Seq(DirectedEdges),
                         complex : Seq(DirectedEdges)]
          /\ new[n].complex = less /\ new[n].simple = nodes[n].simple
          /\ new[n].neighbours = nodes[n].neighbours
      BY <2>4, <3>2, <3>3
    <3>. QED
      BY <2>1, <2>2, <2>3, <2>7, <3>3, <3>4, Zenon
  <2>. QED
    BY <2>5, <2>6, <2>7, Zenon
<1>7. new \in Indexes
  <2>. HIDE DEF Near, Less, LessC
  <2>1. DOMAIN new = Nodes /\ new = [n \in Nodes |-> new[n]]
    BY <1>5, Zenon
  <2>. QED
    BY <1>6, <2>1, Zenon DEF Indexes
<1>8. Indexed(new, es, K \ {k})
  BY <1>6, Zenon DEF Indexed
<1>. QED
  BY <1>1, <1>4, <1>7, <1>8, Zenon

(* CDPHyperGraph::AttachEdgeToNodes adds an edge to the index.             *)
LEMMA AttachIndexed ==
    ASSUME NEW nodes \in Indexes, NEW es \in Seq(Edges), NEW K \in SUBSET DOMAIN es,
           NEW k \in DOMAIN es, Indexed(nodes, es, K)
    PROVE  /\ AttachEdgeToNodes(nodes, k, es[k]) \in Indexes
           /\ Indexed(AttachEdgeToNodes(nodes, k, es[k]), es, K \cup {k})
<1>1. PICK e : e = es[k]
  BY Zenon
<1>2. PICK new : new = AttachEdgeToNodes(nodes, k, e)
  BY Zenon
<1> DEFINE Other(n) == IF n \in e.right THEN e.left ELSE e.right
<1>3. new = [n \in Nodes |->
                IF n \notin e.left \cup e.right THEN nodes[n]
                ELSE IF Simple(e)
                THEN [nodes[n] EXCEPT !.neighbours = nodes[n].neighbours \cup Other(n),
                                      !.simple = Append(nodes[n].simple, From(n, k, e))]
                ELSE [nodes[n] EXCEPT !.complex = Append(nodes[n].complex, From(n, k, e))]]
  BY <1>2, Zenon DEF AttachEdgeToNodes
<1>4. ASSUME NEW n \in Nodes
      PROVE  /\ new[n] \in [neighbours : SUBSET Nodes, simple : Seq(DirectedEdges),
                            complex : Seq(DirectedEdges)]
             /\ Entries(new[n].simple) = SimpleFrom(es, K \cup {k}, n)
             /\ Entries(new[n].complex) = ComplexFrom(es, K \cup {k}, n)
             /\ new[n].neighbours = UNION {Target(es, d) : d \in SimpleFrom(es, K \cup {k}, n)}
  <2>1. /\ Entries(nodes[n].simple) = SimpleFrom(es, K, n)
        /\ Entries(nodes[n].complex) = ComplexFrom(es, K, n)
        /\ nodes[n].neighbours = UNION {Target(es, d) : d \in SimpleFrom(es, K, n)}
    BY Zenon DEF Indexed
  <2>2. /\ nodes[n] \in [neighbours : SUBSET Nodes, simple : Seq(DirectedEdges),
                         complex : Seq(DirectedEdges)]
        /\ nodes[n].neighbours \in SUBSET Nodes
        /\ nodes[n].simple \in Seq(DirectedEdges) /\ nodes[n].complex \in Seq(DirectedEdges)
    BY IndexFacts, Zenon
  <2>3. PICK d, other : d = From(n, k, e) /\ other = Other(n)
    BY Zenon
  <2>4. d \in DirectedEdges /\ Target(es, d) = other /\ other \in SUBSET Nodes
    BY <1>1, <2>3, FromFacts
  <2>5. CASE n \notin e.left \cup e.right
    <3>1. new[n] = nodes[n]
      BY <1>3, <2>5, Zenon
    <3>2. /\ SimpleFrom(es, K \cup {k}, n) = SimpleFrom(es, K, n)
          /\ ComplexFrom(es, K \cup {k}, n) = ComplexFrom(es, K, n)
      BY <1>1, <2>5, FromMore, Zenon
    <3>. QED
      BY <2>1, <2>2, <3>1, <3>2, Zenon
  <2>6. CASE n \in e.left \cup e.right /\ Simple(e)
    <3>1. PICK more : more = Append(nodes[n].simple, d)
      BY Zenon
    <3>2. new[n] = [nodes[n] EXCEPT !.neighbours = nodes[n].neighbours \cup other, !.simple = more]
      BY <1>3, <2>3, <2>6, <3>1, Zenon
    <3>3. /\ SimpleFrom(es, K \cup {k}, n) = SimpleFrom(es, K, n) \cup {d}
          /\ ComplexFrom(es, K \cup {k}, n) = ComplexFrom(es, K, n)
      <4>1. n \in es[k].left \cup es[k].right /\ Simple(es[k]) /\ d = From(n, k, es[k])
        BY <1>1, <2>3, <2>6, Zenon
      <4>2. /\ SimpleFrom(es, K \cup {k}, n) = SimpleFrom(es, K, n) \cup {From(n, k, es[k])}
            /\ ComplexFrom(es, K \cup {k}, n) = ComplexFrom(es, K, n)
        BY <4>1, FromMore
      <4>. QED
        BY <4>1, <4>2, Zenon
    <3>4. more \in Seq(DirectedEdges) /\ Entries(more) = Entries(nodes[n].simple) \cup {d}
      BY <2>2, <2>4, <3>1, AppendEntries
    <3>5. /\ new[n] \in [neighbours : SUBSET Nodes, simple : Seq(DirectedEdges),
                         complex : Seq(DirectedEdges)]
          /\ new[n].neighbours = nodes[n].neighbours \cup other
          /\ new[n].simple = more /\ new[n].complex = nodes[n].complex
      BY <2>2, <2>4, <3>2, <3>4
    <3>6. UNION {Target(es, c) : c \in SimpleFrom(es, K, n) \cup {d}} = nodes[n].neighbours \cup other
      BY <2>1, <2>4, Zenon
    <3>. QED
      BY <2>1, <3>3, <3>4, <3>5, <3>6, Zenon
  <2>7. CASE n \in e.left \cup e.right /\ ~Simple(e)
    <3>1. PICK more : more = Append(nodes[n].complex, d)
      BY Zenon
    <3>2. new[n] = [nodes[n] EXCEPT !.complex = more]
      BY <1>3, <2>3, <2>7, <3>1, Zenon
    <3>3. /\ SimpleFrom(es, K \cup {k}, n) = SimpleFrom(es, K, n)
          /\ ComplexFrom(es, K \cup {k}, n) = ComplexFrom(es, K, n) \cup {d}
      BY <1>1, <2>3, <2>7, FromMore, Zenon
    <3>4. more \in Seq(DirectedEdges) /\ Entries(more) = Entries(nodes[n].complex) \cup {d}
      BY <2>2, <2>4, <3>1, AppendEntries
    <3>5. /\ new[n] \in [neighbours : SUBSET Nodes, simple : Seq(DirectedEdges),
                         complex : Seq(DirectedEdges)]
          /\ new[n].neighbours = nodes[n].neighbours
          /\ new[n].simple = nodes[n].simple /\ new[n].complex = more
      BY <2>2, <3>2, <3>4
    <3>. QED
      BY <2>1, <3>3, <3>4, <3>5, Zenon
  <2>. QED
    BY <2>5, <2>6, <2>7, Zenon
<1>5. new \in Indexes
  <2>1. DOMAIN new = Nodes /\ new = [n \in Nodes |-> new[n]]
    BY <1>3, Zenon
  <2>. QED
    BY <1>4, <2>1, Zenon DEF Indexes
<1>6. Indexed(new, es, K \cup {k})
  BY <1>4, Zenon DEF Indexed
<1>. QED
  BY <1>1, <1>2, <1>5, <1>6, Zenon

(* Replacing an edge keeps a graph a graph, and its index exact.           *)
LEMMA ReplaceIndexed ==
    ASSUME NEW g \in HyperGraphs, NEW k \in DOMAIN g.edges, NEW left, NEW right, NEW fs \in Seq(Edges),
           Indexed(g.nodes, g.edges, DOMAIN g.edges),
           fs = Replaced(g.edges, k, left, right)
    PROVE  /\ ReplaceEdge(g, k, left, right) \in HyperGraphs
           /\ ReplaceEdge(g, k, left, right).edges = fs
           /\ Indexed(ReplaceEdge(g, k, left, right).nodes, fs, DOMAIN fs)
<1>1. PICK es : es = g.edges
  BY Zenon
<1>2. es \in Seq(Edges) /\ g.nodes \in Indexes /\ k \in DOMAIN es
  BY <1>1, GraphFacts, Zenon
<1>3. PICK e : e = [es[k] EXCEPT !.left = left, !.right = right]
  BY Zenon
<1>5. fs = [es EXCEPT ![k] = e]
  BY <1>1, <1>3, Zenon DEF Replaced, NewSides
<1>6. DOMAIN fs = DOMAIN es /\ fs[k] = e
  BY <1>2, <1>5, Zenon
<1>7. \A l \in DOMAIN es \ {k} : es[l] = fs[l]
  BY <1>2, <1>5, Zenon
<1>8. PICK old, new : old = DetachEdgeFromNodes(g, k) /\ new = AttachEdgeToNodes(old, k, fs[k])
  BY Zenon
<1>9. old \in Indexes /\ Indexed(old, es, DOMAIN es \ {k})
  BY <1>1, <1>8, DetachIndexed, Zenon
<1>10. Indexed(old, fs, DOMAIN es \ {k})
  <2>1. DOMAIN es \ {k} \in SUBSET DOMAIN es
    BY Zenon
  <2>. QED
    BY <1>2, <1>7, <1>9, <2>1, IndexedSame
<1>11. new \in Indexes /\ Indexed(new, fs, DOMAIN fs)
  <2>1. PICK K : K = DOMAIN es \ {k}
    BY Zenon
  <2>2. K \in SUBSET DOMAIN fs /\ k \in DOMAIN fs /\ K \cup {k} = DOMAIN fs
    BY <1>2, <1>6, <2>1, Zenon
  <2>3. new \in Indexes /\ Indexed(new, fs, K \cup {k})
    BY <1>6, <1>8, <1>9, <1>10, <2>1, <2>2, AttachIndexed
  <2>. QED
    BY <2>2, <2>3, Zenon
<1>12. ReplaceEdge(g, k, left, right) = [edges |-> fs, nodes |-> new]
  BY <1>1, <1>3, <1>5, <1>6, <1>8, Zenon DEF ReplaceEdge
<1>13. PICK h : h = [edges |-> fs, nodes |-> new]
  BY Zenon
<1>14. h.edges = fs /\ h.nodes = new /\ h \in HyperGraphs
  BY <1>6, <1>11, <1>13 DEF HyperGraphs
<1>15. ReplaceEdge(g, k, left, right) = h
  BY <1>12, <1>13, Zenon
<1>. QED
  BY <1>1, <1>3, <1>5, <1>6, <1>11, <1>14, <1>15, Zenon

(* So does adding one.                                                     *)
LEMMA AddIndexed ==
    ASSUME NEW g \in HyperGraphs, NEW e \in Edges, Indexed(g.nodes, g.edges, DOMAIN g.edges)
    PROVE  /\ AddEdge(g, e) \in HyperGraphs
           /\ AddEdge(g, e).edges = Append(g.edges, e)
           /\ Indexed(AddEdge(g, e).nodes, AddEdge(g, e).edges, DOMAIN AddEdge(g, e).edges)
<1>1. PICK es, k, fs : es = g.edges /\ k = Len(g.edges) + 1 /\ fs = Append(g.edges, e)
  BY Zenon
<1>2. es \in Seq(Edges) /\ g.nodes \in Indexes
  BY <1>1, GraphFacts, Zenon
<1>3. /\ fs \in Seq(Edges) /\ k \in DOMAIN fs /\ fs[k] = e
      /\ DOMAIN es \in SUBSET DOMAIN fs /\ DOMAIN es \cup {k} = DOMAIN fs
  <2>1. Len(es) \in Nat /\ DOMAIN es = 1..Len(es) /\ k = Len(es) + 1
    BY <1>1, <1>2
  <2>2. fs \in Seq(Edges) /\ DOMAIN fs = 1..k /\ fs[k] = e
    BY <1>1, <1>2, <2>1
  <2>3. 1..Len(es) \cup {k} = 1..k /\ k \in 1..k
    BY <2>1
  <2>. QED
    BY <2>1, <2>2, <2>3, Zenon
<1>4. \A l \in DOMAIN es : es[l] = fs[l]
  BY <1>1, <1>2
<1>5. Indexed(g.nodes, es, DOMAIN es)
  BY <1>1, Zenon
<1>6. Indexed(g.nodes, fs, DOMAIN es)
  BY <1>2, <1>4, <1>5, IndexedSame
<1>7. PICK K, new : K = DOMAIN es /\ new = AttachEdgeToNodes(g.nodes, k, fs[k])
  BY Zenon
<1>8. new \in Indexes /\ Indexed(new, fs, K \cup {k})
  BY <1>2, <1>3, <1>6, <1>7, AttachIndexed
<1>9. PICK h : h = [edges |-> fs, nodes |-> new]
  BY Zenon
<1>10. h.edges = fs /\ h.nodes = new /\ h \in HyperGraphs
  BY <1>3, <1>8, <1>9 DEF HyperGraphs
<1>11. AddEdge(g, e) = h
  BY <1>1, <1>3, <1>7, <1>9, Zenon DEF AddEdge
<1>. QED
  BY <1>1, <1>3, <1>7, <1>8, <1>10, <1>11, Zenon

(* The graphs with an exact index.                                         *)
ExactGraphs == {g \in HyperGraphs : Indexed(g.nodes, g.edges, DOMAIN g.edges)}

(* The graph made of a sequence of edges has those edges and their index.  *)
LEMMA GraphOfIndexed ==
    ASSUME NEW es \in Seq(Edges) PROVE GraphOf(es) \in ExactGraphs /\ GraphOf(es).edges = es
<1>1. PICK n \in Nat : n = Len(es) /\ DOMAIN es = 1..n /\ \A i \in 1..n : es[i] \in Edges
  OBVIOUS
<1> DEFINE IsFirst(f) == f = [i \in 0..Len(es) |-> IF i = 0 THEN EmptyGraph ELSE AddEdge(f[i - 1], es[i])]
           G == [i \in 0..n |-> [g \in ExactGraphs |-> IF i = 0 THEN g ELSE AddEdge(g, es[i])]]
<1>2. \A i \in 1..n : \A g \in ExactGraphs :
          AddEdge(g, es[i]) \in ExactGraphs /\ AddEdge(g, es[i]).edges = Append(g.edges, es[i])
  BY <1>1, AddIndexed, Zenon DEF ExactGraphs
<1>3. EmptyGraph \in ExactGraphs /\ EmptyGraph.edges = <<>>
  <2>1. /\ EmptyGraph.edges = <<>> /\ EmptyGraph \in HyperGraphs
        /\ EmptyGraph.nodes = [n1 \in Nodes |-> [neighbours |-> {}, simple |-> <<>>, complex |-> <<>>]]
    BY DEF EmptyGraph, HyperGraphs, Indexes
  <2>2. ASSUME NEW n1 \in Nodes
        PROVE  /\ EmptyGraph.nodes[n1].simple = <<>> /\ EmptyGraph.nodes[n1].complex = <<>>
               /\ EmptyGraph.nodes[n1].neighbours = {}
    BY <2>1
  <2>3. Entries(<<>>) = {} /\ DOMAIN <<>> = {}
    BY DEF Entries
  <2>4. \A n1 \in Nodes : SimpleFrom(<<>>, {}, n1) = {} /\ ComplexFrom(<<>>, {}, n1) = {}
    BY Zenon DEF SimpleFrom, ComplexFrom
  <2>5. UNION {Target(<<>>, d) : d \in {}} = {}
    BY Zenon
  <2>6. Indexed(EmptyGraph.nodes, <<>>, {})
    BY <2>2, <2>3, <2>4, <2>5, Zenon DEF Indexed
  <2>. QED
    BY <2>1, <2>3, <2>6, Zenon DEF ExactGraphs
<1>4. PICK f \in [0..n -> ExactGraphs] :
          f[0] = EmptyGraph /\ \A i \in 0..n : i # 0 => f[i] = G[i][f[i - 1]]
  <2>1. G \in Steppers(0, n, ExactGraphs)
    <3>1. \A i \in 0..n : i # 0 => i \in 1..n
      BY <1>1
    <3>. QED
      BY <1>2, <3>1, Zenon DEF Steppers
  <2>2. 0 <= n /\ 0 \in Nat
    OBVIOUS
  <2>. HIDE DEF G
  <2>3. Solutions(0, n, ExactGraphs, EmptyGraph, G) # {}
    BY <1>3, <2>1, <2>2, Recursion, Zenon
  <2>. QED
    BY <2>3, Zenon DEF Solutions
<1>5. IsFirst(f)
  <2>1. ASSUME NEW i \in 1..n PROVE f[i] = AddEdge(f[i - 1], es[i])
    <3>1. i - 1 \in 0..n /\ i \in 0..n /\ i # 0
      OBVIOUS
    <3>2. f[i - 1] \in ExactGraphs
      BY <3>1, Zenon
    <3>. QED
      BY <1>4, <3>1, <3>2, Zenon
  <2>2. \A i \in 0..n : i = 0 \/ i \in 1..n
    OBVIOUS
  <2>. QED
    BY <1>1, <1>4, <2>1, <2>2, Zenon
<1>6. PICK first : first = CHOOSE g : IsFirst(g)
  BY Zenon
<1>7. IsFirst(first)
  BY <1>5, <1>6, Zenon
<1>8. GraphOf(es) = first[n]
  BY <1>1, <1>6, Zenon DEF GraphOf
<1> DEFINE T == {i \in 0..n : first[i] \in ExactGraphs /\ first[i].edges = SubSeq(es, 1, i)}
<1>9. 0 \in T
  <2>1. first[0] = EmptyGraph /\ 0 \in 0..n
    BY <1>1, <1>7
  <2>2. SubSeq(es, 1, 0) = <<>>
    OBVIOUS
  <2>. QED
    BY <1>3, <2>1, <2>2, Zenon
<1>10. ASSUME NEW i \in 1..n, i - 1 \in T PROVE i \in T
  <2>1. i \in 0..n /\ i # 0 /\ i - 1 \in 0..n
    OBVIOUS
  <2>2. PICK g : g = first[i - 1]
    BY Zenon
  <2>3. g \in ExactGraphs /\ g.edges = SubSeq(es, 1, i - 1)
    BY <1>10, <2>2, Zenon
  <2>4. first[i] = AddEdge(g, es[i])
    BY <1>1, <1>7, <2>1, <2>2, Zenon
  <2>5. SubSeq(es, 1, i) = Append(SubSeq(es, 1, i - 1), es[i])
    BY <1>1
  <2>. QED
    BY <1>2, <2>1, <2>3, <2>4, <2>5, Zenon
<1>11. n \in T
  <2>1. 0..n \subseteq T
    <3>1. 0 \in Nat /\ 0 <= n /\ \A i \in 0..n : i # 0 => i \in 1..n
      OBVIOUS
    <3>. HIDE DEF T
    <3>. QED
      BY <1>9, <1>10, <3>1, Stepwise, Zenon
  <2>2. n \in 0..n
    OBVIOUS
  <2>. QED
    BY <2>1, <2>2, Zenon
<1>12. SubSeq(es, 1, n) = es
  BY <1>1
<1>. QED
  BY <1>8, <1>11, <1>12, Zenon
----------------------------------------------------------------------------
(* CDPHyperOrderConstraints::TryAdd keeps a partial order of the edges,    *)
(* only adds to it, and adds what does not create a cycle.                 *)
LEMMA TryAddOrder ==
    ASSUME NEW es, NEW r \in Orders(es), NEW b \in DOMAIN es, NEW a \in DOMAIN es
    PROVE  /\ TryAdd(r, b, a) \in Orders(es)
           /\ \A k \in DOMAIN es : r[k] \subseteq TryAdd(r, b, a)[k]
           /\ b \notin r[a] => a \in TryAdd(r, b, a)[b]
<1>1. /\ r \in [DOMAIN es -> SUBSET (DOMAIN es)] /\ DOMAIN r = DOMAIN es
      /\ \A k, l \in DOMAIN es : k \in r[k] /\ (l \in r[k] => r[l] \subseteq r[k] /\ (k \in r[l] => k = l))
  BY Zenon DEF Orders
<1>2. CASE b \in r[a]
  <2>1. TryAdd(r, b, a) = r
    BY <1>2, Zenon DEF TryAdd, WouldCreateCycle
  <2>. QED
    BY <1>2, <2>1, Zenon
<1>3. CASE b \notin r[a]
  <2>1. PICK q : q = TryAdd(r, b, a)
    BY Zenon
  <2>2. q = [k \in DOMAIN r |-> IF b \in r[k] THEN r[k] \cup r[a] ELSE r[k]]
    BY <1>3, <2>1, Zenon DEF TryAdd, WouldCreateCycle
  <2>3. \A k \in DOMAIN es : r[k] \in SUBSET DOMAIN es
    BY <1>1, Zenon
  <2>4. \A k \in DOMAIN es : /\ b \in r[k] => q[k] = r[k] \cup r[a]
                             /\ b \notin r[k] => q[k] = r[k]
    BY <1>1, <2>2, Zenon
  <2>5. q \in [DOMAIN es -> SUBSET (DOMAIN es)]
    BY <1>1, <2>2, <2>3, Zenon
  <2>6. ASSUME NEW k \in DOMAIN es, NEW l \in q[k] PROVE q[l] \subseteq q[k] /\ (k \in q[l] => k = l)
    <3>1. l \in DOMAIN es
      BY <2>5, <2>6, Zenon
    <3>2. \A m \in DOMAIN es : m \in r[l] => r[m] \subseteq r[l]
      BY <1>1, <3>1, Zenon
    <3>3. \A m \in DOMAIN es : m \in r[k] => r[m] \subseteq r[k]
      BY <1>1, Zenon
    <3>4. \A m \in DOMAIN es : m \in r[a] => r[m] \subseteq r[a]
      BY <1>1, Zenon
    <3>5. l \in r[k] \/ (b \in r[k] /\ l \in r[a])
      BY <2>4, <2>6, Zenon
    <3>6. q[l] \subseteq q[k]
      <4>1. CASE l \in r[k]
        <5>1. r[l] \subseteq r[k]
          BY <3>1, <3>3, <4>1, Zenon
        <5>. QED
          BY <2>4, <3>1, <5>1, Zenon
      <4>2. CASE b \in r[k] /\ l \in r[a]
        <5>1. r[l] \subseteq r[a]
          BY <3>1, <3>4, <4>2, Zenon
        <5>2. b \notin r[l]
          BY <1>3, <5>1, Zenon
        <5>. QED
          BY <2>4, <3>1, <4>2, <5>1, <5>2, Zenon
      <4>. QED
        BY <3>5, <4>1, <4>2, Zenon
    <3>7. ASSUME k \in q[l] PROVE k = l
      <4>1. k \in r[l] \/ (b \in r[l] /\ k \in r[a])
        BY <2>4, <3>1, <3>7, Zenon
      <4>2. CASE l \in r[k] /\ k \in r[l]
        BY <1>1, <3>1, <4>2, Zenon
      <4>3. CASE l \in r[k] /\ b \in r[l] /\ k \in r[a]
        <5>1. b \in r[a]
          BY <3>1, <3>3, <3>4, <4>3, Zenon
        <5>. QED
          BY <1>3, <5>1, Zenon
      <4>4. CASE b \in r[k] /\ l \in r[a] /\ k \in r[l]
        <5>1. b \in r[a]
          BY <3>1, <3>2, <3>4, <4>4, Zenon
        <5>. QED
          BY <1>3, <5>1, Zenon
      <4>5. CASE b \in r[k] /\ l \in r[a] /\ b \in r[l] /\ k \in r[a]
        <5>1. b \in r[a]
          BY <3>1, <3>4, <4>5, Zenon
        <5>. QED
          BY <1>3, <5>1, Zenon
      <4>. QED
        BY <3>5, <4>1, <4>2, <4>3, <4>4, <4>5, Zenon
    <3>. QED
      BY <3>6, <3>7, Zenon
  <2>7. \A k \in DOMAIN es : r[k] \subseteq q[k]
    BY <2>4, Zenon
  <2>8. \A k \in DOMAIN es : k \in q[k]
    BY <1>1, <2>7, Zenon
  <2>9. a \in q[b]
    BY <1>1, <2>4, Zenon
  <2>10. q \in Orders(es)
    BY <2>5, <2>6, <2>8, Zenon DEF Orders
  <2>. QED
    BY <2>1, <2>7, <2>9, <2>10, Zenon
<1>. QED
  BY <1>2, <1>3, Zenon
----------------------------------------------------------------------------
(* The order of the edges es by their nodes, and by their numbers if they  *)
(* have the same nodes.                                                    *)
Used(e) == e.left \cup e.right
Earlier(es, k, l) == Used(es[k]) \subseteq Used(es[l]) /\ (Used(es[l]) \subseteq Used(es[k]) => k <= l)

(* The partial orders within it, and two edges that are in one.            *)
OrdersWithin(es) ==
    {r \in Orders(es) : \A k \in DOMAIN es : \A l \in r[k] : Earlier(es, k, l)}
Ordered(es, r, k, l) == (Earlier(es, k, l) => l \in r[k]) /\ (Earlier(es, l, k) => k \in r[l])

(* It is transitive, and two edges are not before each other.              *)
LEMMA EarlierFacts ==
    ASSUME NEW es, DOMAIN es \subseteq Nat
    PROVE  /\ \A k, l, m \in DOMAIN es : Earlier(es, k, l) /\ Earlier(es, l, m) => Earlier(es, k, m)
           /\ \A k, l \in DOMAIN es : Earlier(es, k, l) /\ Earlier(es, l, k) => k = l
           /\ \A k \in DOMAIN es : Earlier(es, k, k)
<1>1. ASSUME NEW k \in DOMAIN es, NEW l \in DOMAIN es, NEW m \in DOMAIN es,
             Earlier(es, k, l), Earlier(es, l, m)
      PROVE  Earlier(es, k, m)
  <2>1. Used(es[k]) \subseteq Used(es[m])
    BY <1>1, Zenon DEF Earlier
  <2>2. ASSUME Used(es[m]) \subseteq Used(es[k]) PROVE k <= m
    <3>1. k <= l /\ l <= m
      BY <1>1, <2>2, Zenon DEF Earlier
    <3>. QED
      BY <3>1
  <2>. QED
    BY <2>1, <2>2, Zenon DEF Earlier
<1>2. ASSUME NEW k \in DOMAIN es, NEW l \in DOMAIN es, Earlier(es, k, l), Earlier(es, l, k)
      PROVE  k = l
  <2>1. k <= l /\ l <= k
    BY <1>2, Zenon DEF Earlier
  <2>. QED
    BY <2>1
<1>3. ASSUME NEW k \in DOMAIN es PROVE Earlier(es, k, k)
  <2>1. k <= k
    OBVIOUS
  <2>. QED
    BY <2>1, Zenon DEF Earlier
<1>. QED
  BY <1>1, <1>2, <1>3, Zenon

(* An order of two edges that their nodes impose can be added.             *)
LEMMA TryAddWithin ==
    ASSUME NEW es, DOMAIN es \subseteq Nat, NEW r \in OrdersWithin(es),
           NEW b \in DOMAIN es, NEW a \in DOMAIN es, b # a, Earlier(es, b, a)
    PROVE  TryAdd(r, b, a) \in OrdersWithin(es) /\ a \in TryAdd(r, b, a)[b]
<1>1. /\ r \in Orders(es) /\ r \in [DOMAIN es -> SUBSET (DOMAIN es)] /\ DOMAIN r = DOMAIN es
      /\ \A k \in DOMAIN es : \A l \in r[k] : l \in DOMAIN es /\ Earlier(es, k, l)
  BY Zenon DEF OrdersWithin, Orders
<1>2. b \notin r[a]
  BY <1>1, EarlierFacts, Zenon
<1>3. PICK q : q = TryAdd(r, b, a)
  BY Zenon
<1>4. q = [k \in DOMAIN r |-> IF b \in r[k] THEN r[k] \cup r[a] ELSE r[k]]
  BY <1>2, <1>3, Zenon DEF TryAdd, WouldCreateCycle
<1>5. ASSUME NEW k \in DOMAIN es, NEW l \in q[k] PROVE Earlier(es, k, l)
  <2>1. l \in r[k] \/ (b \in r[k] /\ l \in r[a])
    BY <1>1, <1>4, <1>5, Zenon
  <2>2. CASE l \in r[k]
    BY <1>1, <2>2, Zenon
  <2>3. CASE b \in r[k] /\ l \in r[a]
    <3>1. Earlier(es, k, b) /\ Earlier(es, a, l) /\ l \in DOMAIN es
      BY <1>1, <2>3, Zenon
    <3>2. Earlier(es, k, a)
      BY <3>1, EarlierFacts, Zenon
    <3>. QED
      BY <3>1, <3>2, EarlierFacts, Zenon
  <2>. QED
    BY <2>1, <2>2, <2>3, Zenon
<1>6. q \in Orders(es) /\ a \in q[b]
  BY <1>1, <1>2, <1>3, TryAddOrder, Zenon
<1>. QED
  BY <1>3, <1>5, <1>6, Zenon DEF OrdersWithin

(* One comparison of CDPHyperGraphSimplifier::ExtractJoinDependencies.     *)
LEMMA DependWithin ==
    ASSUME NEW g \in HyperGraphs, NEW r \in OrdersWithin(g.edges),
           NEW k \in DOMAIN g.edges, NEW l \in DOMAIN g.edges, k < l
    PROVE  /\ Depend(g, r, k, l) \in OrdersWithin(g.edges)
           /\ \A j \in DOMAIN g.edges : r[j] \subseteq Depend(g, r, k, l)[j]
           /\ Ordered(g.edges, Depend(g, r, k, l), k, l)
<1>1. PICK es : es = g.edges
  BY Zenon
<1>2. es \in Seq(Edges)
  BY <1>1, GraphFacts, Zenon
<1>3. DOMAIN es \subseteq Nat
  BY <1>2
<1>4. k \in Nat /\ l \in Nat /\ k # l /\ k <= l /\ ~(l <= k)
  BY <1>1, <1>3
<1>5. r \in OrdersWithin(es) /\ r \in Orders(es) /\ k \in DOMAIN es /\ l \in DOMAIN es
  BY <1>1, Zenon DEF OrdersWithin
<1>6. PbsUsedNodes(g, k) = Used(es[k]) /\ PbsUsedNodes(g, l) = Used(es[l])
  BY <1>1, Zenon DEF PbsUsedNodes, Used
<1>7. PICK q : q = Depend(g, r, k, l)
  BY Zenon
<1>8. CASE Used(es[k]) \subseteq Used(es[l])
  <2>1. q = TryAdd(r, k, l)
    BY <1>6, <1>7, <1>8, Zenon DEF Depend
  <2>2. Earlier(es, k, l) /\ ~Earlier(es, l, k)
    BY <1>4, <1>8, Zenon DEF Earlier
  <2>3. q \in OrdersWithin(es) /\ l \in q[k]
    BY <1>3, <1>4, <1>5, <2>1, <2>2, TryAddWithin, Zenon
  <2>4. \A j \in DOMAIN es : r[j] \subseteq q[j]
    BY <1>5, <2>1, TryAddOrder, Zenon
  <2>. QED
    BY <1>1, <1>7, <2>2, <2>3, <2>4, Zenon DEF Ordered
<1>9. CASE ~(Used(es[k]) \subseteq Used(es[l])) /\ Used(es[l]) \subseteq Used(es[k])
  <2>1. q = TryAdd(r, l, k)
    BY <1>6, <1>7, <1>9, Zenon DEF Depend
  <2>2. Earlier(es, l, k) /\ ~Earlier(es, k, l)
    BY <1>9, Zenon DEF Earlier
  <2>3. q \in OrdersWithin(es) /\ k \in q[l]
    BY <1>3, <1>4, <1>5, <2>1, <2>2, TryAddWithin, Zenon
  <2>4. \A j \in DOMAIN es : r[j] \subseteq q[j]
    BY <1>5, <2>1, TryAddOrder, Zenon
  <2>. QED
    BY <1>1, <1>7, <2>2, <2>3, <2>4, Zenon DEF Ordered
<1>10. CASE ~(Used(es[k]) \subseteq Used(es[l])) /\ ~(Used(es[l]) \subseteq Used(es[k]))
  <2>1. q = r
    BY <1>6, <1>7, <1>10, Zenon DEF Depend
  <2>2. ~Earlier(es, l, k) /\ ~Earlier(es, k, l)
    BY <1>10, Zenon DEF Earlier
  <2>. QED
    BY <1>1, <1>5, <1>7, <2>1, <2>2, Zenon DEF Ordered
<1>. QED
  BY <1>8, <1>9, <1>10, Zenon

(* What is ordered stays so.                                               *)
LEMMA OrderedKept ==
    ASSUME NEW es, NEW r, NEW q, NEW k \in DOMAIN es, NEW l \in DOMAIN es,
           \A j \in DOMAIN es : r[j] \subseteq q[j], Ordered(es, r, k, l)
    PROVE  Ordered(es, q, k, l)
BY Zenon DEF Ordered

(* Its inner loop orders an edge and those after it.                       *)
LEMMA DependOnLaterWithin ==
    ASSUME NEW g \in HyperGraphs, NEW r \in OrdersWithin(g.edges), NEW k \in DOMAIN g.edges
    PROVE  /\ DependOnLater(g, r, k) \in OrdersWithin(g.edges)
           /\ \A j \in DOMAIN g.edges : r[j] \subseteq DependOnLater(g, r, k)[j]
           /\ \A l \in DOMAIN g.edges : k < l => Ordered(g.edges, DependOnLater(g, r, k), k, l)
<1>1. PICK es, n : es = g.edges /\ n = Len(es)
  BY Zenon
<1>2. es \in Seq(Edges)
  BY <1>1, GraphFacts, Zenon
<1>3. n \in Nat /\ k \in Nat /\ k \in 1..n /\ k <= n /\ DOMAIN es = 1..n /\ k \in DOMAIN es
  BY <1>1, <1>2
<1>4. PICK S : S = OrdersWithin(es)
  BY Zenon
<1>5. ASSUME NEW l \in k..n, l # k, NEW q \in S
      PROVE  /\ Depend(g, q, k, l) \in S
             /\ \A j \in DOMAIN es : q[j] \subseteq Depend(g, q, k, l)[j]
             /\ Ordered(es, Depend(g, q, k, l), k, l)
  <2>1. l \in DOMAIN es /\ k < l
    BY <1>3, <1>5
  <2>. QED
    BY <1>1, <1>3, <1>4, <1>5, <2>1, DependWithin, Zenon
<1> DEFINE IsAdded(f) == f = [l \in k..Len(g.edges) |-> IF l = k THEN r ELSE Depend(g, f[l - 1], k, l)]
           G == [l \in k..n |-> [q \in S |-> IF l = k THEN q ELSE Depend(g, q, k, l)]]
<1>6. PICK f \in [k..n -> S] : f[k] = r /\ \A l \in k..n : l # k => f[l] = G[l][f[l - 1]]
  <2>1. G \in Steppers(k, n, S)
    BY <1>5, Zenon DEF Steppers
  <2>2. r \in S
    BY <1>1, <1>4, Zenon
  <2>. HIDE DEF G
  <2>3. Solutions(k, n, S, r, G) # {}
    BY <1>3, <2>1, <2>2, Recursion, Zenon
  <2>. QED
    BY <2>3, Zenon DEF Solutions
<1>7. \A l \in k..n : l # k => l - 1 \in k..n
  BY <1>3
<1>8. IsAdded(f)
  <2>1. ASSUME NEW l \in k..n, l # k PROVE f[l] = Depend(g, f[l - 1], k, l)
    <3>1. f[l - 1] \in S
      BY <1>7, <2>1, Zenon
    <3>. QED
      BY <1>6, <2>1, <3>1, Zenon
  <2>. QED
    BY <1>1, <1>6, <2>1, Zenon
<1>9. PICK added : added = CHOOSE h : IsAdded(h)
  BY Zenon
<1>10. IsAdded(added)
  BY <1>8, <1>9, Zenon
<1>11. DependOnLater(g, r, k) = added[n]
  BY <1>1, <1>9, Zenon DEF DependOnLater
<1> DEFINE Good(q, l) == /\ q \in S /\ \A j \in DOMAIN es : r[j] \subseteq q[j]
                         /\ \A m \in k..l : m # k => Ordered(es, q, k, m)
           T == {l \in k..n : Good(added[l], l)}
<1>12. k \in T
  <2>1. k \in k..n /\ added[k] = r
    <3>1. k \in k..n
      BY <1>3
    <3>. QED
      BY <1>1, <1>10, <3>1, Zenon
  <2>2. \A m \in k..k : m = k
    BY <1>3
  <2>3. r \in S
    BY <1>1, <1>4, Zenon
  <2>. QED
    BY <2>1, <2>2, <2>3, Zenon
<1>13. ASSUME NEW l \in k..n, l # k, l - 1 \in T PROVE l \in T
  <2>1. PICK q : q = added[l - 1]
    BY Zenon
  <2>2. Good(q, l - 1)
    BY <1>13, <2>1, Zenon
  <2>3. PICK p : p = Depend(g, q, k, l)
    BY Zenon
  <2>4. added[l] = p
    BY <1>1, <1>10, <1>13, <2>1, <2>3, Zenon
  <2>5. p \in S /\ (\A j \in DOMAIN es : q[j] \subseteq p[j]) /\ Ordered(es, p, k, l)
    BY <1>5, <1>13, <2>2, <2>3, Zenon
  <2>6. \A m \in k..l : m = l \/ (m \in k..(l - 1) /\ m \in DOMAIN es)
    BY <1>3
  <2>7. \A m \in k..l : m # k => Ordered(es, p, k, m)
    BY <1>3, <2>2, <2>5, <2>6, OrderedKept, Zenon
  <2>8. Good(p, l)
    BY <2>2, <2>5, <2>7, Zenon
  <2>. HIDE DEF Good
  <2>. QED
    BY <2>4, <2>8, Zenon
<1>14. n \in T
  <2>1. k..n \subseteq T
    <3>. HIDE DEF T
    <3>. QED
      BY <1>3, <1>12, <1>13, Stepwise, Zenon
  <2>2. n \in k..n
    BY <1>3
  <2>. QED
    BY <2>1, <2>2, Zenon
<1>15. \A l \in DOMAIN es : k < l => l \in k..n /\ l # k
  BY <1>3
<1>. QED
  BY <1>1, <1>4, <1>11, <1>14, <1>15, Zenon

(* CDPHyperGraphSimplifier::ExtractJoinDependencies makes a partial order  *)
(* in which edges are ordered as their nodes impose: none of the additions *)
(* that it asserts is refused.                                             *)
LEMMA ExtractOrder ==
    ASSUME NEW g \in HyperGraphs
    PROVE  /\ ExtractJoinDependencies(g) \in Orders(g.edges)
           /\ \A k, l \in DOMAIN g.edges :
                 Earlier(g.edges, k, l) => l \in ExtractJoinDependencies(g)[k]
<1>1. PICK es, n : es = g.edges /\ n = Len(es)
  BY Zenon
<1>2. es \in Seq(Edges)
  BY <1>1, GraphFacts, Zenon
<1>3. n \in Nat /\ DOMAIN es = 1..n /\ DOMAIN es \subseteq Nat
  BY <1>1, <1>2
<1>4. PICK S : S = OrdersWithin(es)
  BY Zenon
<1>5. \A k \in 0..n : k # 0 => k \in DOMAIN es /\ k - 1 \in 0..n
  BY <1>3
<1>6. ASSUME NEW k \in DOMAIN es, NEW q \in S
      PROVE  /\ DependOnLater(g, q, k) \in S
             /\ \A j \in DOMAIN es : q[j] \subseteq DependOnLater(g, q, k)[j]
             /\ \A l \in DOMAIN es : k < l => Ordered(es, DependOnLater(g, q, k), k, l)
  BY <1>1, <1>4, DependOnLaterWithin, Zenon
<1>7. PICK r : r = [l \in EdgesOf(g) |-> {l}]
  BY Zenon
<1>8. r \in S
  <2>1. r = [l \in DOMAIN es |-> {l}]
    BY <1>1, <1>7, Zenon DEF EdgesOf
  <2>2. r \in [DOMAIN es -> SUBSET (DOMAIN es)] /\ \A k \in DOMAIN es : r[k] = {k}
    BY <2>1, Zenon
  <2>3. r \in Orders(es)
    BY <2>2, Zenon DEF Orders
  <2>4. \A k \in DOMAIN es : Earlier(es, k, k)
    BY <1>3, EarlierFacts, Zenon
  <2>5. \A k \in DOMAIN es : \A l \in r[k] : Earlier(es, k, l)
    BY <2>2, <2>4, Zenon
  <2>. QED
    BY <1>4, <2>3, <2>5, Zenon DEF OrdersWithin
<1> DEFINE IsAdded(f) == f = [k \in 0..Len(g.edges) |->
                                IF k = 0 THEN [l \in EdgesOf(g) |-> {l}]
                                ELSE DependOnLater(g, f[k - 1], k)]
           G == [k \in 0..n |-> [q \in S |-> IF k = 0 THEN q ELSE DependOnLater(g, q, k)]]
<1>9. PICK f \in [0..n -> S] : f[0] = r /\ \A k \in 0..n : k # 0 => f[k] = G[k][f[k - 1]]
  <2>1. G \in Steppers(0, n, S)
    BY <1>5, <1>6, Zenon DEF Steppers
  <2>2. 0 \in Nat /\ 0 <= n
    BY <1>3
  <2>. HIDE DEF G
  <2>3. Solutions(0, n, S, r, G) # {}
    BY <1>3, <1>8, <2>1, <2>2, Recursion, Zenon
  <2>. QED
    BY <2>3, Zenon DEF Solutions
<1>10. IsAdded(f)
  <2>1. ASSUME NEW k \in 0..n, k # 0 PROVE f[k] = DependOnLater(g, f[k - 1], k)
    <3>1. f[k - 1] \in S
      BY <1>5, <2>1, Zenon
    <3>. QED
      BY <1>9, <2>1, <3>1, Zenon
  <2>. QED
    BY <1>1, <1>7, <1>9, <2>1, Zenon
<1>11. PICK added : added = CHOOSE h : IsAdded(h)
  BY Zenon
<1>12. IsAdded(added)
  BY <1>10, <1>11, Zenon
<1>13. ExtractJoinDependencies(g) = added[n]
  BY <1>1, <1>11, Zenon DEF ExtractJoinDependencies
<1> DEFINE Good(q, k) == /\ q \in S
                         /\ \A j, l \in DOMAIN es : j <= k /\ j < l => Ordered(es, q, j, l)
           T == {k \in 0..n : Good(added[k], k)}
<1>14. 0 \in T
  <2>1. 0 \in 0..n /\ \A j \in DOMAIN es : ~(j <= 0)
    BY <1>3
  <2>2. added[0] = r
    BY <1>1, <1>7, <1>12, <2>1, Zenon
  <2>. QED
    BY <1>8, <2>1, <2>2, Zenon
<1>15. ASSUME NEW k \in 0..n, k # 0, k - 1 \in T PROVE k \in T
  <2>1. PICK q, p : q = added[k - 1] /\ p = DependOnLater(g, q, k)
    BY Zenon
  <2>2. Good(q, k - 1)
    BY <1>15, <2>1, Zenon
  <2>3. added[k] = p
    BY <1>1, <1>12, <1>15, <2>1, Zenon
  <2>4. /\ p \in S /\ (\A j \in DOMAIN es : q[j] \subseteq p[j])
        /\ \A l \in DOMAIN es : k < l => Ordered(es, p, k, l)
    BY <1>5, <1>6, <1>15, <2>1, <2>2, Zenon
  <2>5. \A j \in DOMAIN es : j <= k => j = k \/ j <= k - 1
    BY <1>3
  <2>6. \A j, l \in DOMAIN es : j <= k /\ j < l => Ordered(es, p, j, l)
    BY <2>2, <2>4, <2>5, OrderedKept, Zenon
  <2>7. Good(p, k)
    BY <2>4, <2>6, Zenon
  <2>. HIDE DEF Good
  <2>. QED
    BY <2>3, <2>7, Zenon
<1>16. Good(added[n], n)
  <2>1. 0..n \subseteq T
    <3>1. 0 \in Nat /\ 0 <= n
      BY <1>3
    <3>. HIDE DEF T
    <3>. QED
      BY <1>3, <1>14, <1>15, <3>1, Stepwise, Zenon
  <2>2. n \in 0..n
    BY <1>3
  <2>. HIDE DEF Good
  <2>. QED
    BY <2>1, <2>2, Zenon
<1>17. PICK q : q = added[n]
  BY Zenon
<1>18. q \in Orders(es) /\ \A j, l \in DOMAIN es : j < l => Ordered(es, q, j, l)
  <2>1. \A j \in DOMAIN es : j <= n
    BY <1>3
  <2>. QED
    BY <1>4, <1>16, <1>17, <2>1, Zenon DEF OrdersWithin
<1>19. ASSUME NEW k \in DOMAIN es, NEW l \in DOMAIN es, Earlier(es, k, l) PROVE l \in q[k]
  <2>1. k < l \/ k = l \/ l < k
    BY <1>3
  <2>2. CASE k = l
    BY <1>18, <2>2, Zenon DEF Orders
  <2>3. CASE k < l
    BY <1>18, <1>19, <2>3, Zenon DEF Ordered
  <2>4. CASE l < k
    BY <1>18, <1>19, <2>4, Zenon DEF Ordered
  <2>. QED
    BY <2>1, <2>2, <2>3, <2>4, Zenon
<1>. QED
  BY <1>1, <1>13, <1>17, <1>18, <1>19, Zenon
----------------------------------------------------------------------------
(* A step for the edges k and l that fits the edges es.                    *)
StepFor(s, es, k, l) ==
    /\ s = [cost |-> s.cost, benefit |-> s.benefit, before |-> s.before, after |-> s.after,
            oldLeft |-> s.oldLeft, oldRight |-> s.oldRight, left |-> s.left, right |-> s.right]
    /\ Fits(s, es) /\ {s.before, s.after} \subseteq {k, l}

(* The sides that a step gives to an edge, two of three sets united, are   *)
(* sides of an edge when the three sets do not overlap.                    *)
LEMMA StepFits ==
    ASSUME NEW g, NEW k \in EdgesOf(g), NEW l \in EdgesOf(g), k # l,
           NEW left \in SUBSET Nodes, NEW right \in SUBSET Nodes, left # {}, right # {},
           NEW x, NEW y, NEW z,
           \/ left = x \cup y /\ right = z
           \/ left = x /\ right = y \cup z,
           NEW s \in Step(g, k, l, left, right, <<x, y, z>>)
    PROVE  StepFor(s, g.edges, k, l) /\ StepFor(s, g.edges, l, k)
<1>1. PICK c, b : s = [cost |-> c, benefit |-> b, before |-> k, after |-> l,
                    oldLeft |-> g.edges[l].left, oldRight |-> g.edges[l].right,
                    left |-> left, right |-> right]
  BY Zenon DEF Step
<1>2. x \cap y = {} /\ x \cap z = {} /\ y \cap z = {}
  <2>1. \A i, j \in 1..3 : i < j => <<x, y, z>>[i] \cap <<x, y, z>>[j] = {}
    BY Zenon DEF Step
  <2>2. 1 \in 1..3 /\ 2 \in 1..3 /\ 3 \in 1..3 /\ 1 < 2 /\ 1 < 3 /\ 2 < 3
    OBVIOUS
  <2>3. <<x, y, z>>[1] = x /\ <<x, y, z>>[2] = y /\ <<x, y, z>>[3] = z
    OBVIOUS
  <2>. QED
    BY <2>1, <2>2, <2>3, Zenon
<1>3. left \cap right = {}
  BY <1>2, Zenon
<1>4. /\ s.cost = c /\ s.benefit = b /\ s.before = k /\ s.after = l
      /\ s.oldLeft = g.edges[l].left /\ s.oldRight = g.edges[l].right
      /\ s.left = left /\ s.right = right
  BY <1>1, Zenon
<1>5. Fits(s, g.edges)
  BY <1>3, <1>4, Zenon DEF Fits, EdgesOf
<1>. QED
  BY <1>1, <1>4, <1>5, Zenon DEF StepFor

LEMMA ThreeLeftJoinFits ==
    ASSUME NEW g, NEW k \in EdgesOf(g), NEW l \in EdgesOf(g), k # l,
           NEW x \in SUBSET Nodes, NEW y \in SUBSET Nodes, NEW z \in SUBSET Nodes,
           x # {}, z # {}
    PROVE  \A s \in ThreeLeftJoin(g, x, k, y, l, z) :
              StepFor(s, g.edges, k, l) /\ StepFor(s, g.edges, l, k)
<1>1. ASSUME NEW s \in ThreeLeftJoin(g, x, k, y, l, z)
      PROVE  StepFor(s, g.edges, k, l) /\ StepFor(s, g.edges, l, k)
  <2>1. PICK left : left = x \cup y
    BY Zenon
  <2>2. left \in SUBSET Nodes /\ left # {} /\ s \in Step(g, k, l, left, z, <<x, y, z>>)
    BY <1>1, <2>1, Zenon DEF ThreeLeftJoin
  <2>. QED
    BY <2>1, <2>2, StepFits, Zenon
<1>. QED
  BY <1>1, Zenon

LEMMA ThreeRightJoinFits ==
    ASSUME NEW g, NEW k \in EdgesOf(g), NEW l \in EdgesOf(g), k # l,
           NEW x \in SUBSET Nodes, NEW y \in SUBSET Nodes, NEW z \in SUBSET Nodes,
           x # {}, z # {}
    PROVE  \A s \in ThreeRightJoin(g, x, k, y, l, z) :
              StepFor(s, g.edges, k, l) /\ StepFor(s, g.edges, l, k)
<1>1. ASSUME NEW s \in ThreeRightJoin(g, x, k, y, l, z)
      PROVE  StepFor(s, g.edges, k, l) /\ StepFor(s, g.edges, l, k)
  <2>1. PICK right : right = y \cup z
    BY Zenon
  <2>2. right \in SUBSET Nodes /\ right # {} /\ s \in Step(g, l, k, x, right, <<x, y, z>>)
    BY <1>1, <2>1, Zenon DEF ThreeRightJoin
  <2>. QED
    BY <2>1, <2>2, StepFits, Zenon
<1>. QED
  BY <1>1, Zenon

(* The benefit is not what makes a step fit.                               *)
LEMMA OrderJoinFits ==
    ASSUME NEW es, NEW k, NEW l, NEW s, NEW t, StepFor(s, es, k, l), StepFor(t, es, k, l)
    PROVE  StepFor(OrderJoin(s, t), es, k, l)
<1>1. PICK u, v : OrderJoin(s, t) = [u EXCEPT !.benefit = v] /\ (u = s \/ u = t)
  BY Zenon DEF OrderJoin
<1>2. StepFor(u, es, k, l)
  BY <1>1, Zenon
<1>3. PICK w : w = [u EXCEPT !.benefit = v]
  BY Zenon
<1>4. u = [cost |-> u.cost, benefit |-> u.benefit, before |-> u.before, after |-> u.after,
           oldLeft |-> u.oldLeft, oldRight |-> u.oldRight, left |-> u.left, right |-> u.right]
  BY <1>2, Zenon DEF StepFor
<1>5. w = [cost |-> u.cost, benefit |-> v, before |-> u.before, after |-> u.after,
           oldLeft |-> u.oldLeft, oldRight |-> u.oldRight, left |-> u.left, right |-> u.right]
  BY <1>3, <1>4
<1>6. /\ w.cost = u.cost /\ w.benefit = v /\ w.before = u.before /\ w.after = u.after
      /\ w.oldLeft = u.oldLeft /\ w.oldRight = u.oldRight /\ w.left = u.left /\ w.right = u.right
  BY <1>5, Zenon
<1>7. Fits(w, es)
  BY <1>2, <1>6, Zenon DEF Fits, StepFor
<1>. QED
  BY <1>1, <1>2, <1>3, <1>5, <1>6, <1>7, Zenon DEF StepFor

(* CDPHyperGraphSimplifier::MakeStep makes steps that fit the graph.       *)
LEMMA MakeStepFits ==
    ASSUME NEW g \in HyperGraphs, NEW r, NEW k \in EdgesOf(g), NEW l \in EdgesOf(g), k # l
    PROVE  \A s \in MakeStep(g, r, k, l) : StepFor(s, g.edges, k, l) /\ StepFor(s, g.edges, l, k)
<1>1. PICK e, f : e = g.edges[k] /\ f = g.edges[l]
  BY Zenon
<1>2. e \in Edges /\ f \in Edges
  <2>1. g.edges \in Seq(Edges)
    BY GraphFacts, Zenon
  <2>. QED
    BY <1>1, <2>1 DEF EdgesOf
<1>3. /\ e.left \in SUBSET Nodes /\ e.right \in SUBSET Nodes /\ e.left # {} /\ e.right # {}
      /\ f.left \in SUBSET Nodes /\ f.right \in SUBSET Nodes /\ f.left # {} /\ f.right # {}
  BY <1>2 DEF Edges
<1> DEFINE All(S) == \A s \in S : StepFor(s, g.edges, k, l) /\ StepFor(s, g.edges, l, k)
<1>4. \A x, y, z \in SUBSET Nodes :
         x # {} /\ z # {} => /\ All(ThreeLeftJoin(g, x, k, y, l, z)) /\ All(ThreeLeftJoin(g, x, l, y, k, z))
                             /\ All(ThreeRightJoin(g, x, k, y, l, z))
                             /\ All(ThreeRightJoin(g, x, l, y, k, z))
  BY ThreeLeftJoinFits, ThreeRightJoinFits, Zenon
<1>5. \A x, y : Superset(x, y) = x \/ Superset(x, y) = y
  BY Zenon DEF Superset
<1>6. ASSUME NEW s \in MakeStep(g, r, k, l)
      PROVE  \E S, T : All(S) /\ All(T) /\ \E o \in S \X T : s = OrderJoin(o[1], o[2])
  <2> DEFINE Made(S, T) == \E o \in S \X T : s = OrderJoin(o[1], o[2])
             LL(c) == Made(ThreeLeftJoin(g, c, k, e.right, l, f.right),
                           ThreeLeftJoin(g, c, l, f.right, k, e.right))
             LR(c) == Made(ThreeRightJoin(g, f.left, l, c, k, e.right),
                           ThreeLeftJoin(g, f.left, l, c, k, e.right))
             RL(c) == Made(ThreeLeftJoin(g, e.left, k, c, l, f.right),
                           ThreeRightJoin(g, e.left, k, c, l, f.right))
             RR(c) == Made(ThreeRightJoin(g, f.left, l, e.left, k, c),
                           ThreeRightJoin(g, e.left, k, f.left, l, c))
  <2>1. \/ LL(Superset(e.left, f.left)) \/ LR(Superset(e.left, f.right))
        \/ RL(Superset(e.right, f.left)) \/ RR(Superset(e.right, f.right))
    BY <1>1, <1>6 DEF MakeStep
  <2>2. \E c \in {e.left, e.right, f.left, f.right} : LL(c) \/ LR(c) \/ RL(c) \/ RR(c)
    <3>. HIDE DEF LL, LR, RL, RR
    <3>. QED
      BY <1>5, <2>1, Zenon
  <2>3. PICK c \in {e.left, e.right, f.left, f.right} : LL(c) \/ LR(c) \/ RL(c) \/ RR(c)
    BY <2>2, Zenon
  <2>4. c \in SUBSET Nodes /\ c # {}
    BY <1>3, Zenon
  <2>5. /\ All(ThreeLeftJoin(g, c, k, e.right, l, f.right)) /\ All(ThreeLeftJoin(g, c, l, f.right, k, e.right))
        /\ All(ThreeRightJoin(g, f.left, l, c, k, e.right)) /\ All(ThreeLeftJoin(g, f.left, l, c, k, e.right))
        /\ All(ThreeLeftJoin(g, e.left, k, c, l, f.right)) /\ All(ThreeRightJoin(g, e.left, k, c, l, f.right))
        /\ All(ThreeRightJoin(g, f.left, l, e.left, k, c)) /\ All(ThreeRightJoin(g, e.left, k, f.left, l, c))
    <3>. HIDE DEF All
    <3>. QED
      BY <1>3, <1>4, <2>4, Zenon
  <2>. HIDE DEF All
  <2>. QED
    BY <2>3, <2>5, Zenon
<1>7. ASSUME NEW s \in MakeStep(g, r, k, l)
      PROVE  StepFor(s, g.edges, k, l) /\ StepFor(s, g.edges, l, k)
  <2>1. PICK S, T : All(S) /\ All(T) /\ \E o \in S \X T : s = OrderJoin(o[1], o[2])
    BY <1>6, <1>7, Zenon
  <2>2. PICK o \in S \X T : s = OrderJoin(o[1], o[2])
    BY <2>1, Zenon
  <2>3. o[1] \in S /\ o[2] \in T
    BY <2>2
  <2>. QED
    BY <2>1, <2>2, <2>3, OrderJoinFits, Zenon
<1>. QED
  BY <1>7, Zenon

(* The best steps that the second loop of ProcessNeighbors passes through. *)
Candidates(g, r, b, k) ==
    {c \in [neighbor : EdgesOf(g) \cup {None},
            steps : {b.steps} \cup {MakeStep(g, r, k, l) : l \in EdgesOf(g)},
            queued : {b.queued, TRUE}] :
        c.neighbor # None => k < c.neighbor /\ c.steps = MakeStep(g, r, k, c.neighbor)}

(* The best step that ProcessNeighbors gives to its edge fits the graph.   *)
LEMMA ProcessAboveFresh ==
    ASSUME NEW g \in HyperGraphs, NEW r, NEW b, IsBest(b), NEW k \in EdgesOf(g)
    PROVE  IsBest(ProcessAbove(g, r, b, k)) /\ Fresh(ProcessAbove(g, r, b, k), k, g.edges)
<1>1. PICK es, n : es = g.edges /\ n = Len(es)
  BY Zenon
<1>2. es \in Seq(Edges)
  BY <1>1, GraphFacts, Zenon
<1>3. n \in Nat /\ DOMAIN es = 1..n /\ EdgesOf(g) = 1..n /\ k \in Nat /\ k <= n /\ 0 < k
  BY <1>1, <1>2 DEF EdgesOf
<1>4. PICK S : S = Candidates(g, r, b, k)
  BY Zenon
<1>5. \A l \in k..n : l # k => l \in EdgesOf(g) /\ k < l /\ l - 1 \in k..n /\ l # None
  BY <1>3 DEF None
<1>6. PICK x : x = [b EXCEPT !.neighbor = None]
  BY Zenon
<1>7. x \in S
  <2>1. x = [neighbor |-> None, steps |-> b.steps, queued |-> b.queued]
    BY <1>6 DEF IsBest
  <2>. QED
    BY <1>4, <2>1, Zenon DEF Candidates
<1>8. ASSUME NEW l \in EdgesOf(g), k < l, NEW c \in S
      PROVE  TrySetStep(c, MakeStep(g, r, k, l), l) \in S
  <2>1. PICK s : s = MakeStep(g, r, k, l)
    BY Zenon
  <2>2. PICK d : d = [neighbor |-> l, steps |-> s, queued |-> TRUE]
    BY Zenon
  <2>3. d.neighbor = l /\ d.steps = s
    BY <2>2, Zenon
  <2>4. d \in S
    BY <1>4, <1>8, <2>1, <2>2, <2>3, Zenon DEF Candidates
  <2>. QED
    BY <1>8, <2>1, <2>2, <2>4, Zenon DEF TrySetStep
<1> DEFINE IsLast(f) == f = [l \in k..Len(g.edges) |->
                               IF l = k THEN [b EXCEPT !.neighbor = None]
                               ELSE TrySetStep(f[l - 1], MakeStep(g, r, k, l), l)]
           G == [l \in k..n |-> [c \in S |-> IF l = k THEN c
                                             ELSE TrySetStep(c, MakeStep(g, r, k, l), l)]]
<1>9. PICK f \in [k..n -> S] : f[k] = x /\ \A l \in k..n : l # k => f[l] = G[l][f[l - 1]]
  <2>1. G \in Steppers(k, n, S)
    BY <1>5, <1>8, Zenon DEF Steppers
  <2>. HIDE DEF G
  <2>2. Solutions(k, n, S, x, G) # {}
    BY <1>3, <1>7, <2>1, Recursion, Zenon
  <2>. QED
    BY <2>2, Zenon DEF Solutions
<1>10. IsLast(f)
  <2>1. ASSUME NEW l \in k..n, l # k PROVE f[l] = TrySetStep(f[l - 1], MakeStep(g, r, k, l), l)
    <3>1. f[l - 1] \in S
      BY <1>5, <2>1, Zenon
    <3>. QED
      BY <1>9, <2>1, <3>1, Zenon
  <2>. QED
    BY <1>1, <1>6, <1>9, <2>1, Zenon
<1>11. PICK last : last = CHOOSE h : IsLast(h)
  BY Zenon
<1>12. IsLast(last)
  BY <1>10, <1>11, Zenon
<1>13. PICK found : found = last[n]
  BY Zenon
<1>14. ProcessAbove(g, r, b, k) = [found EXCEPT !.queued = found.neighbor # None]
  BY <1>1, <1>11, <1>13, Zenon DEF ProcessAbove
<1> DEFINE T == {l \in k..n : last[l] \in S}
<1>15. k \in T
  <2>1. k \in k..n
    BY <1>3
  <2>. QED
    BY <1>1, <1>6, <1>7, <1>12, <2>1, Zenon
<1>16. ASSUME NEW l \in k..n, l # k, l - 1 \in T PROVE l \in T
  <2>1. last[l] = TrySetStep(last[l - 1], MakeStep(g, r, k, l), l)
    BY <1>1, <1>12, <1>16, Zenon
  <2>. QED
    BY <1>5, <1>8, <1>16, <2>1, Zenon
<1>17. found \in S
  <2>1. k..n \subseteq T
    <3>. HIDE DEF T
    <3>. QED
      BY <1>3, <1>15, <1>16, Stepwise, Zenon
  <2>2. n \in k..n
    BY <1>3
  <2>. QED
    BY <1>13, <2>1, <2>2, Zenon
<1>18. PICK d : d = [found EXCEPT !.queued = found.neighbor # None]
  BY Zenon
<1>19. d = [neighbor |-> found.neighbor, steps |-> found.steps, queued |-> found.neighbor # None]
  BY <1>4, <1>17, <1>18 DEF Candidates
<1>20. d.neighbor = found.neighbor /\ d.steps = found.steps /\ (d.queued <=> found.neighbor # None)
  BY <1>19, Zenon
<1>21. ASSUME d.queued PROVE d.neighbor \in EdgesOf(g) /\ k < d.neighbor /\ k # d.neighbor
                             /\ d.steps = MakeStep(g, r, k, d.neighbor)
  <2>1. found.neighbor # None
    BY <1>20, <1>21, Zenon
  <2>2. found.neighbor \in EdgesOf(g) \cup {None} /\ k < found.neighbor
        /\ found.steps = MakeStep(g, r, k, found.neighbor)
    BY <1>4, <1>17, <2>1, Zenon DEF Candidates
  <2>3. found.neighbor \in EdgesOf(g)
    BY <2>1, <2>2, Zenon
  <2>4. k # found.neighbor
    BY <1>3, <2>2, <2>3
  <2>. QED
    BY <1>20, <2>2, <2>3, <2>4, Zenon
<1>22. Fresh(d, k, g.edges)
  <2>1. ASSUME d.queued PROVE \A s \in d.steps : StepFor(s, g.edges, k, d.neighbor)
    BY <1>21, <2>1, MakeStepFits, Zenon
  <2>. QED
    BY <1>21, <2>1, Zenon DEF Fresh, EdgesOf, StepFor
<1>23. IsBest(d)
  BY <1>19, Zenon DEF IsBest
<1>. QED
  BY <1>14, <1>18, <1>22, <1>23, Zenon

(* A best step is fresh as long as neither of its two edges changes.       *)
LEMMA FreshElsewhere ==
    ASSUME NEW b, NEW l, NEW k, NEW es, NEW fs, Fresh(b, l, es), l # k, b.neighbor # k,
           DOMAIN fs = DOMAIN es, \A j \in DOMAIN es : j # k => fs[j] = es[j]
    PROVE  Fresh(b, l, fs)
<1>1. ASSUME b.queued, NEW s \in b.steps
      PROVE  Fits(s, fs) /\ {s.before, s.after} \subseteq {l, b.neighbor}
  <2>1. Fits(s, es) /\ {s.before, s.after} \subseteq {l, b.neighbor}
    BY <1>1, Zenon DEF Fresh
  <2>2. s.after \in DOMAIN es /\ s.after # k
    BY <2>1, Zenon DEF Fits
  <2>3. fs[s.after] = es[s.after]
    BY <2>2, Zenon
  <2>. QED
    BY <2>1, <2>3, Zenon DEF Fits
<1>. QED
  BY <1>1, Zenon DEF Fresh

(* CDPHyperGraphSimplifier::ProcessNeighbors, after a change of edge k:    *)
(* the best steps of all edges fit the graph, if they fitted the edges     *)
(* before the change.                                                      *)
LEMMA ProcessNeighborsFresh ==
    ASSUME NEW g \in HyperGraphs, NEW r, NEW es, NEW bs, NEW k \in EdgesOf(g),
           DOMAIN es = EdgesOf(g), \A j \in EdgesOf(g) : j # k => g.edges[j] = es[j],
           DOMAIN bs = EdgesOf(g), \A l \in EdgesOf(g) : IsBest(bs[l]) /\ Fresh(bs[l], l, es)
    PROVE  /\ DOMAIN ProcessNeighbors(g, r, bs, k) = EdgesOf(g)
           /\ \A l \in EdgesOf(g) : /\ IsBest(ProcessNeighbors(g, r, bs, k)[l])
                                    /\ Fresh(ProcessNeighbors(g, r, bs, k)[l], l, g.edges)
<1>1. EdgesOf(g) \subseteq Nat
  <2>1. g.edges \in Seq(Edges)
    BY GraphFacts, Zenon
  <2>. QED
    BY <2>1 DEF EdgesOf
<1>2. PICK q : q = ProcessNeighbors(g, r, bs, k)
  BY Zenon
<1>3. DOMAIN q = EdgesOf(g)
  BY <1>2, Zenon DEF ProcessNeighbors
<1>4. ASSUME NEW l \in EdgesOf(g) PROVE IsBest(q[l]) /\ Fresh(q[l], l, g.edges)
  <2>1. PICK b : b = bs[l]
    BY Zenon
  <2>2. IsBest(b) /\ Fresh(b, l, es)
    BY <2>1, Zenon
  <2>3. /\ l < k => q[l] = ProcessBelow(g, r, b, k, l)
        /\ ~(l < k) /\ l = k => q[l] = ProcessAbove(g, r, b, k)
        /\ ~(l < k) /\ l # k => q[l] = b
    BY <1>2, <2>1, Zenon DEF ProcessNeighbors
  <2>4. CASE l = k
    <3>1. ~(l < k)
      BY <1>1, <2>4
    <3>. QED
      BY <2>2, <2>3, <2>4, <3>1, ProcessAboveFresh, Zenon
  <2>5. ASSUME l # k, b.neighbor # k PROVE Fresh(b, l, g.edges)
    <3>1. PICK fs : fs = g.edges
      BY Zenon
    <3>2. DOMAIN fs = DOMAIN es /\ \A j \in DOMAIN es : j # k => fs[j] = es[j]
      BY <3>1, Zenon DEF EdgesOf
    <3>3. Fresh(b, l, fs)
      BY <2>2, <2>5, <3>2, FreshElsewhere, Zenon
    <3>. QED
      BY <3>1, <3>3, Zenon
  <2>6. CASE ~(l < k) /\ l # k
    <3>1. ASSUME b.queued PROVE b.neighbor # k
      <4>1. b.neighbor \in EdgesOf(g) /\ l < b.neighbor
        BY <2>2, <3>1, Zenon DEF Fresh
      <4>. QED
        BY <1>1, <2>6, <4>1
    <3>2. Fresh(b, l, g.edges)
      <4>1. CASE b.queued
        BY <2>5, <2>6, <3>1, <4>1, Zenon
      <4>2. CASE ~b.queued
        BY <4>2, Zenon DEF Fresh
      <4>. QED
        BY <4>1, <4>2, Zenon
    <3>. QED
      BY <2>2, <2>3, <2>6, <3>2, Zenon
  <2>7. CASE l < k
    <3>1. l # k
      BY <1>1, <2>7
    <3>2. PICK s : s = MakeStep(g, r, k, l)
      BY Zenon
    <3>3. CASE Settable(b, s)
      <4>1. q[l] = [neighbor |-> k, steps |-> s, queued |-> TRUE]
        BY <2>3, <2>7, <3>2, <3>3, Zenon DEF ProcessBelow, TrySetStep
      <4>2. q[l].neighbor = k /\ q[l].steps = s /\ q[l].queued = TRUE
        BY <4>1
      <4>3. \A t \in s : StepFor(t, g.edges, l, k)
        BY <3>1, <3>2, MakeStepFits, Zenon
      <4>4. Fresh(q[l], l, g.edges)
        <5>1. \A t \in s : Fits(t, g.edges) /\ {t.before, t.after} \subseteq {l, k}
          BY <4>3, Zenon DEF StepFor
        <5>. QED
          BY <2>7, <4>2, <5>1, Zenon DEF Fresh, EdgesOf
      <4>5. IsBest(q[l])
        BY <4>1, <4>2, Zenon DEF IsBest
      <4>. QED
        BY <4>4, <4>5, Zenon
    <3>4. CASE ~Settable(b, s) /\ b.neighbor = k
      <4>1. q[l] = ProcessAbove(g, r, b, l)
        BY <2>3, <2>7, <3>2, <3>4, Zenon DEF ProcessBelow
      <4>. QED
        BY <2>2, <4>1, ProcessAboveFresh, Zenon
    <3>5. CASE ~Settable(b, s) /\ b.neighbor # k
      <4>1. q[l] = b
        BY <2>3, <2>7, <3>2, <3>5, Zenon DEF ProcessBelow
      <4>. QED
        BY <2>2, <2>5, <3>1, <3>5, <4>1, Zenon
    <3>. QED
      BY <3>3, <3>4, <3>5, Zenon
  <2>. QED
    BY <2>4, <2>6, <2>7, Zenon
<1>. QED
  BY <1>2, <1>3, <1>4, Zenon

(* CDPHyperGraphSimplifier::InitFirstStep.                                 *)
LEMMA InitFirstStepFresh ==
    ASSUME NEW g \in HyperGraphs, NEW r
    PROVE  /\ DOMAIN InitFirstStep(g, r) = EdgesOf(g)
           /\ \A k \in EdgesOf(g) :
                 IsBest(InitFirstStep(g, r)[k]) /\ Fresh(InitFirstStep(g, r)[k], k, g.edges)
<1>1. IsBest(NoBest)
  BY Zenon DEF IsBest, NoBest
<1>2. \A k \in EdgesOf(g) : /\ IsBest(ProcessAbove(g, r, NoBest, k))
                            /\ Fresh(ProcessAbove(g, r, NoBest, k), k, g.edges)
  BY <1>1, ProcessAboveFresh, Zenon
<1>. QED
  BY <1>2, Zenon DEF InitFirstStep
----------------------------------------------------------------------------
(* A list with an element in front, and without its first one.             *)
LEMMA FrontAdded ==
    ASSUME NEW X, NEW t \in Seq(X), NEW x \in X
    PROVE  /\ <<x>> \o t \in Seq(X) /\ Len(<<x>> \o t) = Len(t) + 1 /\ (<<x>> \o t)[1] = x
           /\ \A i \in 2..(Len(t) + 1) : (<<x>> \o t)[i] = t[i - 1]
           /\ Entries(<<x>> \o t) = Entries(t) \cup {x}
<1>1. PICK u : u = <<x>> \o t
  BY Zenon
<1>2. Len(t) \in Nat /\ DOMAIN t = 1..Len(t)
  OBVIOUS
<1>3. u \in Seq(X) /\ Len(u) = Len(t) + 1 /\ DOMAIN u = 1..(Len(t) + 1) /\ u[1] = x
  BY <1>1, <1>2
<1>4. \A i \in 2..(Len(t) + 1) : u[i] = t[i - 1]
  BY <1>1, <1>2
<1>5. ASSUME NEW i \in 1..Len(t) PROVE t[i] \in {u[j] : j \in DOMAIN u}
  <2>1. i + 1 \in 2..(Len(t) + 1) /\ i + 1 \in DOMAIN u /\ (i + 1) - 1 = i
    BY <1>2, <1>3
  <2>. QED
    BY <1>4, <2>1, Zenon
<1>6. ASSUME NEW j \in DOMAIN u PROVE u[j] \in {t[i] : i \in DOMAIN t} \cup {x}
  <2>1. j = 1 \/ (j \in 2..(Len(t) + 1) /\ j - 1 \in DOMAIN t)
    BY <1>2, <1>3
  <2>. QED
    BY <1>3, <1>4, <2>1, Zenon
<1>7. 1 \in DOMAIN u
  BY <1>2, <1>3
<1>8. {u[j] : j \in DOMAIN u} = {t[i] : i \in DOMAIN t} \cup {x}
  BY <1>2, <1>3, <1>5, <1>6, <1>7, Zenon
<1>9. Entries(u) = Entries(t) \cup {x}
  BY <1>8, Zenon DEF Entries
<1>. QED
  BY <1>1, <1>3, <1>4, <1>9

LEMMA FrontTaken ==
    ASSUME NEW X, NEW t \in Seq(X), t # <<>>
    PROVE  /\ Head(t) \in X /\ Head(t) = t[1] /\ Tail(t) \in Seq(X)
           /\ Len(t) \in Nat /\ Len(t) # 0 /\ Len(Tail(t)) = Len(t) - 1
           /\ \A i \in 1..(Len(t) - 1) : Tail(t)[i] = t[i + 1]
           /\ Entries(t) = Entries(Tail(t)) \cup {Head(t)}
<1>1. PICK u, x : u = Tail(t) /\ x = Head(t)
  BY Zenon
<1>2. Len(t) \in Nat /\ DOMAIN t = 1..Len(t) /\ Len(t) # 0
  OBVIOUS
<1>3. u \in Seq(X) /\ Len(u) = Len(t) - 1 /\ DOMAIN u = 1..(Len(t) - 1) /\ x = t[1] /\ x \in X
  BY <1>1, <1>2
<1>4. \A i \in 1..(Len(t) - 1) : u[i] = t[i + 1]
  BY <1>1, <1>2
<1>5. ASSUME NEW i \in DOMAIN t PROVE t[i] \in {u[j] : j \in DOMAIN u} \cup {x}
  <2>1. i = 1 \/ (i - 1 \in 1..(Len(t) - 1) /\ i - 1 \in DOMAIN u /\ (i - 1) + 1 = i)
    BY <1>2, <1>3
  <2>. QED
    BY <1>3, <1>4, <2>1, Zenon
<1>6. ASSUME NEW j \in DOMAIN u PROVE u[j] \in {t[i] : i \in DOMAIN t}
  <2>1. j \in 1..(Len(t) - 1) /\ j + 1 \in DOMAIN t
    BY <1>2, <1>3
  <2>. QED
    BY <1>4, <2>1, Zenon
<1>7. 1 \in DOMAIN t
  BY <1>2
<1>8. {t[i] : i \in DOMAIN t} = {u[j] : j \in DOMAIN u} \cup {x}
  BY <1>3, <1>5, <1>6, <1>7, Zenon
<1>. QED
  BY <1>1, <1>2, <1>3, <1>4, <1>8, Zenon DEF Entries

LEMMA WiderSeq == ASSUME NEW X, NEW Y, X \subseteq Y, NEW t \in Seq(X) PROVE t \in Seq(Y)
OBVIOUS

(* A step in front leads further,                                          *)
LEMMA LeadsFurther ==
    ASSUME NEW X, NEW t \in Seq(X), NEW s \in X, NEW ds \in Seq(Edges), NEW es, NEW fs, NEW apply,
           Moves(ds, es, s, apply), Leads(t, es, fs, apply)
    PROVE  Leads(<<s>> \o t, ds, fs, apply)
<1>1. PICK u, m : u = <<s>> \o t /\ m = Len(t)
  BY Zenon
<1>2. m \in Nat /\ Len(u) = m + 1 /\ u[1] = s /\ \A i \in 2..(m + 1) : u[i] = t[i - 1]
  BY <1>1, FrontAdded
<1>3. PICK p : /\ p[0] = es /\ p[m] = fs
               /\ \A i \in 0..m : p[i] \in Seq(Edges)
               /\ \A i \in 1..m : Moves(p[i - 1], p[i], t[i], apply)
  BY <1>1, Zenon DEF Leads
<1>4. PICK q : q = [i \in 0..(m + 1) |-> IF i = 0 THEN ds ELSE p[i - 1]]
  BY Zenon
<1>5. /\ q[0] = ds /\ q[m + 1] = fs
      /\ \A i \in 0..(m + 1) : q[i] \in Seq(Edges)
  <2>1. 0 \in 0..(m + 1) /\ m + 1 \in 0..(m + 1) /\ m + 1 # 0 /\ (m + 1) - 1 = m
    BY <1>2
  <2>2. \A i \in 0..(m + 1) : i # 0 => i - 1 \in 0..m
    BY <1>2
  <2>. QED
    BY <1>3, <1>4, <2>1, <2>2, Zenon
<1>6. ASSUME NEW i \in 1..(m + 1) PROVE Moves(q[i - 1], q[i], u[i], apply)
  <2>1. i \in 0..(m + 1) /\ i - 1 \in 0..(m + 1) /\ i # 0
    BY <1>2
  <2>2. q[i] = p[i - 1]
    BY <1>4, <2>1, Zenon
  <2>3. CASE i = 1
    <3>1. i - 1 = 0
      BY <2>3
    <3>2. q[i - 1] = ds /\ q[i] = es
      BY <1>3, <1>5, <2>2, <3>1, Zenon
    <3>. QED
      BY <1>2, <2>3, <3>2, Zenon
  <2>4. CASE i # 1
    <3>1. i \in 2..(m + 1) /\ i - 1 \in 1..m /\ i - 1 # 0
      BY <1>2, <2>4
    <3>2. q[i - 1] = p[(i - 1) - 1]
      BY <1>4, <2>1, <3>1, Zenon
    <3>. QED
      BY <1>2, <1>3, <2>2, <3>1, <3>2, Zenon
  <2>. QED
    BY <2>3, <2>4, Zenon
<1>7. Leads(u, ds, fs, apply)
  BY <1>2, <1>5, <1>6, Zenon DEF Leads
<1>. QED
  BY <1>1, <1>7, Zenon

(* the first step leads to where the others go on,                         *)
LEMMA LeadsOn ==
    ASSUME NEW X, NEW t \in Seq(X), t # <<>>, NEW es, NEW fs, NEW apply, Leads(t, es, fs, apply)
    PROVE  \E ds \in Seq(Edges) : Moves(es, ds, Head(t), apply) /\ Leads(Tail(t), ds, fs, apply)
<1>1. PICK u, m : u = Tail(t) /\ m = Len(t)
  BY Zenon
<1>2. m \in Nat /\ m # 0 /\ Len(u) = m - 1 /\ t[1] = Head(t) /\ \A i \in 1..(m - 1) : u[i] = t[i + 1]
  BY <1>1, FrontTaken
<1>3. PICK p : /\ p[0] = es /\ p[m] = fs
               /\ \A i \in 0..m : p[i] \in Seq(Edges)
               /\ \A i \in 1..m : Moves(p[i - 1], p[i], t[i], apply)
  BY <1>1, Zenon DEF Leads
<1>4. PICK q : q = [i \in 0..(m - 1) |-> p[i + 1]]
  BY Zenon
<1>5. 1 \in 1..m /\ 1 \in 0..m /\ 1 - 1 = 0 /\ 0 \in 0..(m - 1) /\ 0 + 1 = 1
      /\ m - 1 \in 0..(m - 1) /\ (m - 1) + 1 = m
  BY <1>2
<1>6. p[1] \in Seq(Edges) /\ Moves(es, p[1], Head(t), apply)
  BY <1>2, <1>3, <1>5, Zenon
<1>7. /\ q[0] = p[1] /\ q[m - 1] = fs
      /\ \A i \in 0..(m - 1) : q[i] \in Seq(Edges)
  <2>1. \A i \in 0..(m - 1) : i + 1 \in 0..m
    BY <1>2
  <2>. QED
    BY <1>3, <1>4, <1>5, <2>1, Zenon
<1>8. ASSUME NEW i \in 1..(m - 1) PROVE Moves(q[i - 1], q[i], u[i], apply)
  <2>1. /\ i \in 0..(m - 1) /\ i - 1 \in 0..(m - 1) /\ i + 1 \in 1..m
        /\ (i - 1) + 1 = i /\ (i + 1) - 1 = i
    BY <1>2
  <2>2. q[i] = p[i + 1] /\ q[i - 1] = p[i] /\ u[i] = t[i + 1]
    BY <1>2, <1>4, <2>1, Zenon
  <2>. QED
    BY <1>3, <2>1, <2>2, Zenon
<1>9. Leads(u, p[1], fs, apply)
  BY <1>2, <1>7, <1>8, Zenon DEF Leads
<1>. QED
  BY <1>1, <1>6, <1>9, Zenon

(* and no step leads nowhere.                                              *)
LEMMA LeadsNowhere ==
    ASSUME NEW es \in Seq(Edges), NEW fs, NEW apply
    PROVE  Leads(<<>>, es, es, apply) /\ (Leads(<<>>, es, fs, apply) => es = fs)
<1>1. Len(<<>>) = 0 /\ 0..0 = {0} /\ 1..0 = {}
  OBVIOUS
<1>2. Leads(<<>>, es, es, apply)
  <2>1. PICK p : p = [i \in {0} |-> es]
    BY Zenon
  <2>2. p[0] = es /\ \A i \in 0..0 : p[i] \in Seq(Edges)
    BY <1>1, <2>1, Zenon
  <2>3. \A i \in 1..0 : Moves(p[i - 1], p[i], <<>>[i], apply)
    BY <1>1, Zenon
  <2>. QED
    BY <1>1, <2>2, <2>3, Zenon DEF Leads
<1>3. Leads(<<>>, es, fs, apply) => es = fs
  BY <1>1, Zenon DEF Leads
<1>. QED
  BY <1>2, <1>3, Zenon

(* A step that was applied can be undone, and applied again.               *)
LEMMA MovesBack ==
    ASSUME NEW es, NEW fs, NEW s
    PROVE  /\ Moves(es, fs, s, TRUE) => Moves(fs, es, s, FALSE) /\ DOMAIN fs = DOMAIN es
           /\ Moves(es, fs, s, FALSE) => Moves(fs, es, s, TRUE) /\ DOMAIN fs = DOMAIN es
<1>1. \A x : DOMAIN Undo(x, s) = DOMAIN x /\ DOMAIN Redo(x, s) = DOMAIN x
  BY Zenon DEF Undo, Redo, Replaced
<1>. QED
  BY <1>1, Zenon DEF Moves

(* An edge whose sides are replaced.                                       *)
LEMMA SidesReplaced ==
    ASSUME NEW a, NEW b, NEW c, NEW e, e = [left |-> a, right |-> b, equality |-> c],
           NEW x, NEW y
    PROVE  NewSides(e, x, y) = [left |-> x, right |-> y, equality |-> c]
<1>1. PICK f : f = [e EXCEPT !.left = x]
  BY Zenon
<1>2. f = [left |-> x, right |-> b, equality |-> c]
  BY <1>1
<1>3. [f EXCEPT !.right = y] = [left |-> x, right |-> y, equality |-> c]
  BY <1>2
<1>4. NewSides(e, x, y) = [f EXCEPT !.right = y]
  BY <1>1, Zenon DEF NewSides
<1>. QED
  BY <1>3, <1>4, Zenon

(* A step that fits can be applied and undone.                             *)
LEMMA FitsMoves ==
    ASSUME NEW es \in Seq(Edges), NEW s, Fits(s, es)
    PROVE  /\ Redo(es, s) \in Seq(Edges) /\ DOMAIN Redo(es, s) = DOMAIN es
           /\ Moves(es, Redo(es, s), s, TRUE)
           /\ \A j \in DOMAIN es : j # s.after => Redo(es, s)[j] = es[j]
<1>1. PICK k, e, l, r : k = s.after /\ e = es[k] /\ l = s.left /\ r = s.right
  BY Zenon
<1>2. /\ k \in DOMAIN es /\ s.oldLeft = e.left /\ s.oldRight = e.right
      /\ l \in SUBSET Nodes /\ r \in SUBSET Nodes /\ l # {} /\ r # {} /\ l \cap r = {}
  BY <1>1, Zenon DEF Fits
<1>3. e \in Edges
  BY <1>1, <1>2
<1>4. PICK a, b, c : e = [left |-> a, right |-> b, equality |-> c] /\ c \in BOOLEAN
  BY <1>3 DEF Edges
<1>5. e.left = a /\ e.right = b
  BY <1>4, Zenon
<1>6. PICK x : x = NewSides(e, l, r)
  BY Zenon
<1>7. x = [left |-> l, right |-> r, equality |-> c]
  BY <1>4, <1>6, SidesReplaced
<1>8. x \in Edges
  BY <1>2, <1>4, <1>7 DEF Edges
<1>9. NewSides(x, a, b) = e
  BY <1>4, <1>7, SidesReplaced
<1>10. PICK fs : fs = Redo(es, s)
  BY Zenon
<1>11. fs = [es EXCEPT ![k] = x]
  BY <1>1, <1>6, <1>10, Zenon DEF Redo, Replaced
<1>12. fs \in Seq(Edges)
  BY <1>2, <1>8, <1>11
<1>13. DOMAIN fs = DOMAIN es /\ fs[k] = x /\ \A j \in DOMAIN es : j # k => fs[j] = es[j]
  BY <1>2, <1>11, Zenon
<1>14. Undo(fs, s) = es
  <2>1. PICK gs : gs = [fs EXCEPT ![k] = e]
    BY Zenon
  <2>2. Undo(fs, s) = gs
    BY <1>1, <1>2, <1>5, <1>9, <1>13, <2>1, Zenon DEF Undo, Replaced
  <2>3. gs \in Seq(Edges) /\ Len(gs) = Len(es)
    BY <1>2, <1>3, <1>11, <1>12, <2>1
  <2>4. \A j \in DOMAIN es : gs[j] = es[j]
    BY <1>1, <1>2, <1>13, <2>1, Zenon
  <2>5. gs = es
    BY <2>3, <2>4
  <2>. QED
    BY <2>2, <2>5, Zenon
<1>15. Moves(es, fs, s, TRUE)
  BY <1>1, <1>2, <1>10, <1>14, Zenon DEF Moves
<1>. QED
  BY <1>1, <1>10, <1>12, <1>13, <1>15, Zenon

(* CDPHyperGraphSimplifier::ModifyEdge: the index follows the edges.       *)
LEMMA ModifyExact ==
    ASSUME NEW g \in ExactGraphs, NEW fs \in Seq(Edges), NEW s
    PROVE  /\ Moves(g.edges, fs, s, TRUE) =>
                 ModifyEdge(g, s, TRUE) \in ExactGraphs /\ ModifyEdge(g, s, TRUE).edges = fs
           /\ Moves(g.edges, fs, s, FALSE) =>
                 ModifyEdge(g, s, FALSE) \in ExactGraphs /\ ModifyEdge(g, s, FALSE).edges = fs
<1>1. PICK es : es = g.edges
  BY Zenon
<1>2. g \in HyperGraphs /\ Indexed(g.nodes, g.edges, DOMAIN g.edges)
  BY Zenon DEF ExactGraphs
<1>3. es \in Seq(Edges)
  BY <1>1, <1>2, GraphFacts, Zenon
<1>4. ASSUME NEW left, NEW right, NEW a \in DOMAIN es, fs = Replaced(es, a, left, right)
      PROVE  ReplaceEdge(g, a, left, right) \in ExactGraphs /\ ReplaceEdge(g, a, left, right).edges = fs
  <2>1. PICK h : h = ReplaceEdge(g, a, left, right)
    BY Zenon
  <2>2. a \in DOMAIN g.edges /\ fs = Replaced(g.edges, a, left, right)
    BY <1>1, <1>4, Zenon
  <2>3. h \in HyperGraphs /\ h.edges = fs /\ Indexed(h.nodes, fs, DOMAIN fs)
    BY <1>2, <2>1, <2>2, ReplaceIndexed
  <2>. QED
    BY <2>1, <2>3, Zenon DEF ExactGraphs
<1>5. ASSUME Moves(es, fs, s, TRUE)
      PROVE  ModifyEdge(g, s, TRUE) \in ExactGraphs /\ ModifyEdge(g, s, TRUE).edges = fs
  BY <1>4, <1>5, Zenon DEF Moves, Redo, ModifyEdge
<1>6. ASSUME Moves(es, fs, s, FALSE)
      PROVE  ModifyEdge(g, s, FALSE) \in ExactGraphs /\ ModifyEdge(g, s, FALSE).edges = fs
  BY <1>4, <1>6, Zenon DEF Moves, Undo, ModifyEdge
<1>. QED
  BY <1>1, <1>5, <1>6, Zenon

(* Undoing steps in a graph gives the edges that the steps lead to.        *)
LEMMA UnwoundEdges ==
    ASSUME NEW g \in ExactGraphs, NEW steps, Len(steps) \in Nat, NEW fs,
           Leads(steps, g.edges, fs, FALSE)
    PROVE  Unwound(g, steps).edges = fs
<1>1. PICK n \in Nat : n = Len(steps)
  BY Zenon
<1>2. PICK p : /\ p[0] = g.edges /\ p[n] = fs
               /\ \A i \in 0..n : p[i] \in Seq(Edges)
               /\ \A i \in 1..n : Moves(p[i - 1], p[i], steps[i], FALSE)
  BY <1>1, Zenon DEF Leads
<1>3. 0 \in Nat /\ 0 <= n /\ 0 \in 0..n /\ n \in 0..n
      /\ \A i \in 0..n : i # 0 => i \in 1..n /\ i - 1 \in 0..n
  BY <1>1
<1>4. ASSUME NEW i \in 0..n, i # 0, NEW h \in ExactGraphs, h.edges = p[i - 1]
      PROVE  ModifyEdge(h, steps[i], FALSE) \in ExactGraphs
             /\ ModifyEdge(h, steps[i], FALSE).edges = p[i]
  <2>1. PICK es : es = p[i]
    BY Zenon
  <2>2. es \in Seq(Edges) /\ Moves(h.edges, es, steps[i], FALSE)
    BY <1>2, <1>3, <1>4, <2>1, Zenon
  <2>3. ModifyEdge(h, steps[i], FALSE) \in ExactGraphs /\ ModifyEdge(h, steps[i], FALSE).edges = es
    BY <2>2, ModifyExact
  <2>. QED
    BY <2>1, <2>3, Zenon
<1> DEFINE IsAfter(f) == f = [i \in 0..Len(steps) |->
                                IF i = 0 THEN g ELSE ModifyEdge(f[i - 1], steps[i], FALSE)]
           G == [i \in 0..n |-> [h \in ExactGraphs |->
                    IF i # 0 /\ h.edges = p[i - 1] THEN ModifyEdge(h, steps[i], FALSE) ELSE h]]
<1>5. PICK f \in [0..n -> ExactGraphs] : f[0] = g /\ \A i \in 0..n : i # 0 => f[i] = G[i][f[i - 1]]
  <2>1. G \in Steppers(0, n, ExactGraphs)
    BY <1>4, Zenon DEF Steppers
  <2>. HIDE DEF G
  <2>2. Solutions(0, n, ExactGraphs, g, G) # {}
    BY <1>3, <2>1, Recursion, Zenon
  <2>. QED
    BY <2>2, Zenon DEF Solutions
<1>6. ASSUME NEW i \in 0..n, i # 0, f[i - 1].edges = p[i - 1]
      PROVE  f[i] = ModifyEdge(f[i - 1], steps[i], FALSE)
  <2>1. f[i - 1] \in ExactGraphs
    BY <1>3, <1>6, Zenon
  <2>. QED
    BY <1>5, <1>6, <2>1, Zenon
<1>7. IsAfter(f)
  <2> DEFINE T == {i \in 0..n : f[i].edges = p[i]}
  <2>1. 0 \in T
    BY <1>2, <1>3, <1>5, Zenon
  <2>2. ASSUME NEW i \in 0..n, i # 0, i - 1 \in T PROVE i \in T
    BY <1>3, <1>4, <1>6, <2>2, Zenon
  <2>3. 0..n \subseteq T
    <3>. HIDE DEF T
    <3>. QED
      BY <1>3, <2>1, <2>2, Stepwise, Zenon
  <2>4. \A i \in 0..n : i # 0 => f[i] = ModifyEdge(f[i - 1], steps[i], FALSE)
    BY <1>3, <1>6, <2>3, Zenon
  <2>. QED
    BY <1>1, <1>5, <2>4, Zenon
<1>8. PICK after : after = CHOOSE h : IsAfter(h)
  BY Zenon
<1>9. IsAfter(after)
  BY <1>7, <1>8, Zenon
<1>10. Unwound(g, steps) = after[n]
  BY <1>1, <1>8, Zenon DEF Unwound
<1> DEFINE T == {i \in 0..n : after[i] \in ExactGraphs /\ after[i].edges = p[i]}
<1>11. 0 \in T
  <2>1. after[0] = g
    BY <1>1, <1>3, <1>9, Zenon
  <2>. QED
    BY <1>2, <1>3, <2>1, Zenon
<1>12. ASSUME NEW i \in 0..n, i # 0, i - 1 \in T PROVE i \in T
  <2>1. after[i] = ModifyEdge(after[i - 1], steps[i], FALSE)
    BY <1>1, <1>9, <1>12, Zenon
  <2>. QED
    BY <1>4, <1>12, <2>1, Zenon
<1>13. 0..n \subseteq T
  <2>. HIDE DEF T
  <2>. QED
    BY <1>3, <1>11, <1>12, Stepwise, Zenon
<1>. QED
  BY <1>2, <1>3, <1>10, <1>13, Zenon
----------------------------------------------------------------------------
(* A step that changes neither the graph nor the steps nor the order keeps *)
(* the invariant.                                                          *)
LEMMA KeptInv ==
    ASSUME Inv, UNCHANGED <<graph, original, reachable, best, applied, unapplied>>,
           Starting' <=> Starting, lower' \in Nat, upper' \in Nat
    PROVE  Inv'
<1>1. /\ graph' = graph /\ original' = original /\ reachable' = reachable /\ best' = best
      /\ applied' = applied /\ unapplied' = unapplied
  OBVIOUS
<1>2. TypeInv'
  BY <1>1, Zenon DEF Inv, TypeInv
<1>3. IndexInv'
  BY <1>1, Zenon DEF Inv, IndexInv
<1>4. OrderInv'
  BY <1>1, Zenon DEF Inv, OrderInv, Before
<1>5. HistoryInv'
  BY <1>1, Zenon DEF Inv, HistoryInv
<1>. QED
  BY <1>2, <1>3, <1>4, <1>5, Zenon DEF Inv

(* Lists with the same positions have the same length.                     *)
LEMMA SameLen ==
    ASSUME NEW X, NEW s \in Seq(X), NEW t \in Seq(X), DOMAIN s = DOMAIN t PROVE Len(s) = Len(t)
<1>1. PICK a \in Nat, b \in Nat : a = Len(s) /\ b = Len(t) /\ 1..a = 1..b
  OBVIOUS
<1>2. a = 0 \/ a \in 1..a
  OBVIOUS
<1>3. b = 0 \/ b \in 1..b
  OBVIOUS
<1>4. (a = 0 \/ a \in 1..b) /\ (b = 0 \/ b \in 1..a)
  BY <1>1, <1>2, <1>3, Zenon
<1>5. a = b
  BY <1>4
<1>. QED
  BY <1>1, <1>5, Zenon

(* A step that is applied or undone, from one list of the history to the   *)
(* other, keeps the invariant.                                             *)
LEMMA ShiftedInv ==
    ASSUME Inv, ~Starting, UNCHANGED <<original, reachable, best, pc, lower, upper>>,
           NEW ds \in Seq(Edges), NEW s, NEW apply \in BOOLEAN, Moves(graph.edges, ds, s, apply),
           graph' = ModifyEdge(graph, s, apply),
           \E X : applied' \in Seq(X) /\ unapplied' \in Seq(X),
           Entries(applied') \cup Entries(unapplied') = Entries(applied) \cup Entries(unapplied),
           Leads(applied', ds, original.edges, FALSE),
           \E fs : /\ Leads(unapplied', ds, fs, TRUE)
                   /\ \A k \in DOMAIN best : Fresh(best[k], k, fs)
    PROVE  Inv'
<1>1. /\ original' = original /\ reachable' = reachable /\ best' = best
      /\ lower' = lower /\ upper' = upper /\ ~Starting' /\ pc' = pc
  BY DEF Starting
<1>2. graph \in ExactGraphs /\ graph.edges \in Seq(Edges)
  <2>1. graph \in HyperGraphs /\ Indexed(graph.nodes, graph.edges, DOMAIN graph.edges)
    BY Zenon DEF Inv, TypeInv, IndexInv
  <2>. QED
    BY <2>1, GraphFacts, Zenon DEF ExactGraphs
<1>3. graph' \in ExactGraphs /\ graph'.edges = ds
  <2>1. CASE apply = TRUE
    BY <1>2, <2>1, ModifyExact
  <2>2. CASE apply = FALSE
    BY <1>2, <2>2, ModifyExact
  <2>. QED
    BY <2>1, <2>2, Zenon
<1>4. DOMAIN ds = DOMAIN graph.edges
  <2>1. CASE apply = TRUE
    BY <2>1, MovesBack, Zenon
  <2>2. CASE apply = FALSE
    BY <2>2, MovesBack, Zenon
  <2>. QED
    BY <2>1, <2>2, Zenon
<1>5. TypeInv'
  <2>1. Len(ds) = Len(graph.edges)
    BY <1>2, <1>4, SameLen
  <2>. QED
    BY <1>1, <1>3, <2>1, Zenon DEF Inv, TypeInv, ExactGraphs
<1>6. IndexInv'
  BY <1>3, Zenon DEF IndexInv, ExactGraphs
<1>7. OrderInv'
  BY <1>1, Zenon DEF Inv, OrderInv, Before
<1>8. HistoryInv'
  BY <1>1, <1>3, Zenon DEF Inv, HistoryInv
<1>. QED
  BY <1>5, <1>6, <1>7, <1>8, Zenon DEF Inv

(* Reapply keeps the invariant,                                            *)
LEMMA ReapplyInv ==
    ASSUME Inv, ~Starting, unapplied # <<>>, Reapply, UNCHANGED <<original, pc, lower, upper>>
    PROVE  Inv'
<1>1. PICK X : applied \in Seq(X) /\ unapplied \in Seq(X)
  BY Zenon DEF Inv, HistoryInv
<1>2. PICK fs : /\ Leads(unapplied, graph.edges, fs, TRUE)
                /\ \A k \in DOMAIN best : Fresh(best[k], k, fs)
  BY Zenon DEF Inv, HistoryInv
<1>3. PICK s, rest : s = Head(unapplied) /\ rest = Tail(unapplied)
  BY Zenon
<1>4. PICK ds \in Seq(Edges) : Moves(graph.edges, ds, s, TRUE) /\ Leads(rest, ds, fs, TRUE)
  BY <1>1, <1>2, <1>3, LeadsOn
<1>5. s \in X /\ rest \in Seq(X) /\ Entries(unapplied) = Entries(rest) \cup {s}
  BY <1>1, <1>3, FrontTaken
<1>6. PICK more : more = <<s>> \o applied
  BY Zenon
<1>7. more \in Seq(X) /\ Entries(more) = Entries(applied) \cup {s}
  BY <1>1, <1>5, <1>6, FrontAdded
<1>8. Leads(more, ds, original.edges, FALSE)
  <2>1. Moves(ds, graph.edges, s, FALSE)
    BY <1>4, MovesBack, Zenon
  <2>2. Leads(applied, graph.edges, original.edges, FALSE)
    BY Zenon DEF Inv, HistoryInv
  <2>. QED
    BY <1>1, <1>5, <1>6, <2>1, <2>2, LeadsFurther
<1>9. /\ graph' = ModifyEdge(graph, s, TRUE) /\ applied' = more /\ unapplied' = rest
      /\ UNCHANGED <<original, reachable, best, pc, lower, upper>>
  BY <1>3, <1>6 DEF Reapply
<1>10. \E Y : applied' \in Seq(Y) /\ unapplied' \in Seq(Y)
  BY <1>5, <1>7, <1>9, Zenon
<1>11. Entries(applied') \cup Entries(unapplied') = Entries(applied) \cup Entries(unapplied)
  BY <1>5, <1>7, <1>9, Zenon
<1>12. /\ Leads(applied', ds, original.edges, FALSE)
       /\ \E es : Leads(unapplied', ds, es, TRUE) /\ \A k \in DOMAIN best : Fresh(best[k], k, es)
  BY <1>2, <1>4, <1>8, <1>9, Zenon
<1>. QED
  BY <1>4, <1>9, <1>10, <1>11, <1>12, ShiftedInv

(* and so does UnapplyStep,                                                *)
LEMMA UnapplyInv ==
    ASSUME Inv, ~Starting, applied # <<>>, UnapplyStep, UNCHANGED <<original, pc, lower, upper>>
    PROVE  Inv'
<1>1. PICK X : applied \in Seq(X) /\ unapplied \in Seq(X)
  BY Zenon DEF Inv, HistoryInv
<1>2. PICK fs : /\ Leads(unapplied, graph.edges, fs, TRUE)
                /\ \A k \in DOMAIN best : Fresh(best[k], k, fs)
  BY Zenon DEF Inv, HistoryInv
<1>3. PICK s, rest : s = Head(applied) /\ rest = Tail(applied)
  BY Zenon
<1>4. PICK ds \in Seq(Edges) : Moves(graph.edges, ds, s, FALSE) /\ Leads(rest, ds, original.edges, FALSE)
  <2>1. Leads(applied, graph.edges, original.edges, FALSE)
    BY Zenon DEF Inv, HistoryInv
  <2>. QED
    BY <1>1, <1>3, <2>1, LeadsOn
<1>5. s \in X /\ rest \in Seq(X) /\ Entries(applied) = Entries(rest) \cup {s}
  BY <1>1, <1>3, FrontTaken
<1>6. PICK more : more = <<s>> \o unapplied
  BY Zenon
<1>7. more \in Seq(X) /\ Entries(more) = Entries(unapplied) \cup {s}
  BY <1>1, <1>5, <1>6, FrontAdded
<1>8. Leads(more, ds, fs, TRUE)
  <2>1. Moves(ds, graph.edges, s, TRUE)
    BY <1>4, MovesBack, Zenon
  <2>. QED
    BY <1>1, <1>2, <1>5, <1>6, <2>1, LeadsFurther
<1>9. /\ graph' = ModifyEdge(graph, s, FALSE) /\ applied' = rest /\ unapplied' = more
      /\ UNCHANGED <<original, reachable, best, pc, lower, upper>>
  BY <1>3, <1>6 DEF UnapplyStep
<1>10. \E Y : applied' \in Seq(Y) /\ unapplied' \in Seq(Y)
  BY <1>5, <1>7, <1>9, Zenon
<1>11. Entries(applied') \cup Entries(unapplied') = Entries(applied) \cup Entries(unapplied)
  BY <1>5, <1>7, <1>9, Zenon
<1>12. /\ Leads(applied', ds, original.edges, FALSE)
       /\ \E es : Leads(unapplied', ds, es, TRUE) /\ \A k \in DOMAIN best : Fresh(best[k], k, es)
  BY <1>2, <1>4, <1>8, <1>9, Zenon
<1>. QED
  BY <1>4, <1>9, <1>10, <1>11, <1>12, ShiftedInv

(* and FetchStep: a step that contradicts the order is dropped, another    *)
(* fits the graph, as no step is undone then; in both cases the steps of   *)
(* all edges fit the new graph.                                            *)
LEMMA FetchInv ==
    ASSUME Inv, ~Starting, unapplied = <<>>, NEW k \in Queue, FetchStep(k),
           UNCHANGED <<original, pc, lower, upper>>
    PROVE  Inv'
<1>1. PICK X : applied \in Seq(X)
  BY Zenon DEF Inv, HistoryInv
<1>2. PICK es, r : es = graph.edges /\ r = reachable
  BY Zenon
<1>3. graph \in ExactGraphs /\ graph \in HyperGraphs /\ original \in HyperGraphs
      /\ es \in Seq(Edges) /\ EdgesOf(graph) = DOMAIN es /\ original.edges \in Seq(Edges)
  <2>1. /\ graph \in HyperGraphs /\ Indexed(graph.nodes, graph.edges, DOMAIN graph.edges)
        /\ original \in HyperGraphs
    BY Zenon DEF Inv, TypeInv, IndexInv
  <2>. QED
    BY <1>2, <2>1, GraphFacts, Zenon DEF ExactGraphs
<1>4. DOMAIN es = DOMAIN original.edges
  <2>1. Len(es) = Len(original.edges)
    BY <1>2, Zenon DEF Inv, TypeInv
  <2>. QED
    BY <1>3, <2>1
<1>5. DOMAIN best = DOMAIN es /\ \A l \in DOMAIN es : IsBest(best[l]) /\ Fresh(best[l], l, es)
  <2>1. PICK fs : /\ Leads(unapplied, graph.edges, fs, TRUE)
                  /\ \A l \in DOMAIN best : Fresh(best[l], l, fs)
    BY Zenon DEF Inv, HistoryInv
  <2>2. Leads(<<>>, es, fs, TRUE)
    BY <1>2, <2>1, Zenon
  <2>3. es = fs
    BY <1>3, <2>2, LeadsNowhere
  <2>. QED
    BY <1>4, <2>1, <2>3, Zenon DEF Inv, HistoryInv
<1>6. k \in DOMAIN es /\ best[k].queued
  BY <1>5, Zenon DEF Queue
<1>7. PICK s \in best[k].steps :
         LET fits == ~WouldCreateCycle(reachable, s.before, s.after)
         IN  /\ reachable' = TryAdd(reachable, s.before, s.after)
             /\ graph' = IF fits THEN ModifyEdge(graph, s, TRUE) ELSE graph
             /\ applied' = IF fits THEN <<s>> \o applied ELSE applied
             /\ best' = ProcessNeighbors(graph', reachable', [best EXCEPT ![k].queued = FALSE], s.after)
  BY Zenon DEF FetchStep
<1>8. PICK a, b, bs, q : /\ a = s.after /\ b = s.before /\ q = reachable'
                         /\ bs = [best EXCEPT ![k].queued = FALSE]
  BY Zenon
<1>9. Fits(s, es) /\ a \in DOMAIN es /\ b \in DOMAIN es
  BY <1>5, <1>6, <1>7, <1>8, Zenon DEF Fresh, Fits
<1>10. DOMAIN bs = DOMAIN es /\ \A l \in DOMAIN es : IsBest(bs[l]) /\ Fresh(bs[l], l, es)
  <2>1. PICK c, d : c = best[k] /\ d = [c EXCEPT !.queued = FALSE]
    BY Zenon
  <2>2. bs = [best EXCEPT ![k] = d]
    BY <1>8, <2>1, Zenon
  <2>3. c = [neighbor |-> c.neighbor, steps |-> c.steps, queued |-> c.queued]
    BY <1>5, <1>6, <2>1, Zenon DEF IsBest
  <2>4. d = [neighbor |-> c.neighbor, steps |-> c.steps, queued |-> FALSE]
    BY <2>1, <2>3
  <2>5. d.neighbor = c.neighbor /\ d.steps = c.steps /\ d.queued = FALSE
    BY <2>4
  <2>6. IsBest(d) /\ Fresh(d, k, es)
    BY <2>4, <2>5, Zenon DEF IsBest, Fresh
  <2>. QED
    BY <1>5, <1>6, <2>2, <2>6, Zenon
<1>11. /\ graph' \in ExactGraphs /\ DOMAIN graph'.edges = DOMAIN es
       /\ \A j \in DOMAIN es : j # a => graph'.edges[j] = es[j]
       /\ Leads(applied', graph'.edges, original.edges, FALSE)
       /\ \E Y : applied' \in Seq(Y)
       /\ \A t \in Entries(applied') : t \in Entries(applied) \/ (t = s /\ b \notin r[a])
  <2>1. Leads(applied, es, original.edges, FALSE)
    BY <1>2, Zenon DEF Inv, HistoryInv
  <2>2. CASE WouldCreateCycle(reachable, s.before, s.after)
    <3>1. graph' = graph /\ applied' = applied
      BY <1>7, <2>2, Zenon
    <3>. QED
      BY <1>1, <1>2, <1>3, <2>1, <3>1, Zenon
  <2>3. CASE ~WouldCreateCycle(reachable, s.before, s.after)
    <3>1. graph' = ModifyEdge(graph, s, TRUE) /\ applied' = <<s>> \o applied
      BY <1>7, <2>3, Zenon
    <3>2. PICK fs : fs = Redo(es, s)
      BY Zenon
    <3>3. /\ fs \in Seq(Edges) /\ DOMAIN fs = DOMAIN es /\ Moves(es, fs, s, TRUE)
          /\ \A j \in DOMAIN es : j # a => fs[j] = es[j]
      BY <1>3, <1>8, <1>9, <3>2, FitsMoves
    <3>4. graph' \in ExactGraphs /\ graph'.edges = fs
      <4>1. Moves(graph.edges, fs, s, TRUE)
        BY <1>2, <3>3, Zenon
      <4>. QED
        BY <1>3, <3>1, <3>3, <4>1, ModifyExact
    <3>5. PICK Y : applied \in Seq(Y) /\ s \in Y
      <4>1. applied \in Seq(X \cup {s})
        BY <1>1
      <4>. QED
        BY <4>1, Zenon
    <3>6. applied' \in Seq(Y) /\ Entries(applied') = Entries(applied) \cup {s}
      BY <3>1, <3>5, FrontAdded
    <3>7. Leads(applied', fs, original.edges, FALSE)
      <4>1. Moves(fs, es, s, FALSE)
        BY <3>3, MovesBack, Zenon
      <4>. QED
        BY <2>1, <3>1, <3>3, <3>5, <4>1, LeadsFurther
    <3>8. b \notin r[a]
      BY <1>2, <1>8, <2>3, Zenon DEF WouldCreateCycle
    <3>. QED
      BY <3>3, <3>4, <3>6, <3>7, <3>8, Zenon
  <2>. QED
    BY <2>2, <2>3, Zenon
<1>12. graph' \in HyperGraphs /\ graph'.edges \in Seq(Edges) /\ EdgesOf(graph') = DOMAIN es
  <2>1. graph' \in HyperGraphs
    BY <1>11, Zenon DEF ExactGraphs
  <2>. QED
    BY <1>11, <2>1, GraphFacts, Zenon
<1>13. /\ original' = original /\ unapplied' = <<>> /\ lower' = lower /\ upper' = upper /\ ~Starting'
  BY DEF Starting, FetchStep
<1>14. TypeInv'
  <2>1. Len(graph'.edges) = Len(original.edges)
    BY <1>3, <1>4, <1>11, <1>12, SameLen
  <2>. QED
    BY <1>12, <1>13, <2>1, Zenon DEF Inv, TypeInv
<1>15. IndexInv'
  BY <1>11, Zenon DEF IndexInv, ExactGraphs
<1>16. OrderInv'
  <2>1. r \in Orders(original.edges) /\ a \in DOMAIN original.edges /\ b \in DOMAIN original.edges
    BY <1>2, <1>4, <1>9, Zenon DEF Inv, OrderInv
  <2>2. q = TryAdd(r, b, a)
    BY <1>2, <1>7, <1>8, Zenon
  <2>3. /\ q \in Orders(original.edges) /\ \A l \in DOMAIN original.edges : r[l] \subseteq q[l]
        /\ b \notin r[a] => a \in q[b]
    BY <2>1, <2>2, TryAddOrder, Zenon
  <2>4. \A j, l \in DOMAIN original.edges : Before(j, l) => l \in q[j]
    BY <1>2, <2>3, Zenon DEF Inv, OrderInv
  <2>5. ASSUME NEW t \in Entries(applied') \cup Entries(unapplied')
        PROVE  t.before \in DOMAIN original.edges /\ t.after \in q[t.before]
    <3>1. t \in Entries(applied) \/ (t = s /\ b \notin r[a])
      <4>1. Entries(<<>>) = {}
        BY DEF Entries
      <4>. QED
        BY <1>11, <1>13, <2>5, <4>1, Zenon
    <3>2. CASE t \in Entries(applied)
      BY <1>2, <2>3, <3>2, Zenon DEF Inv, OrderInv
    <3>3. CASE t = s /\ b \notin r[a]
      BY <1>8, <2>1, <2>3, <3>3, Zenon
    <3>. QED
      BY <3>1, <3>2, <3>3, Zenon
  <2>6. \A j, l : Before(j, l)' <=> Before(j, l)
    BY <1>13, Zenon DEF Before
  <2>. QED
    BY <1>8, <1>13, <2>3, <2>4, <2>5, <2>6, Zenon DEF OrderInv
<1>17. HistoryInv'
  <2>1. best' = ProcessNeighbors(graph', q, bs, a)
    BY <1>7, <1>8, Zenon
  <2>2. /\ DOMAIN best' = DOMAIN es
        /\ \A l \in DOMAIN es : IsBest(best'[l]) /\ Fresh(best'[l], l, graph'.edges)
    BY <1>9, <1>10, <1>11, <1>12, <2>1, ProcessNeighborsFresh, Zenon
  <2>3. Leads(<<>>, graph'.edges, graph'.edges, TRUE)
    BY <1>12, LeadsNowhere
  <2>4. \E Y : applied' \in Seq(Y) /\ <<>> \in Seq(Y)
    <3>1. \A Y : <<>> \in Seq(Y)
      OBVIOUS
    <3>. QED
      BY <1>11, <3>1, Zenon
  <2>. QED
    BY <1>4, <1>11, <1>13, <2>2, <2>3, <2>4, Zenon DEF HistoryInv
<1>. QED
  BY <1>14, <1>15, <1>16, <1>17, Zenon DEF Inv

(* One round of CDPHyperGraphSimplifier::ApplySteps keeps the invariant.   *)
LEMMA MoveInv ==
    ASSUME Inv, ~Starting, NEW count \in Nat, Len(applied) # count, ~Unreachable(count),
           MoveTowards(count)
    PROVE  Inv'
<1>1. UNCHANGED <<original, pc, lower, upper>>
  BY DEF MoveTowards
<1>2. CASE Len(applied) < count
  <2>1. ApplyStep /\ ~NoStepLeft
    BY <1>2, Zenon DEF MoveTowards, Unreachable
  <2>2. CASE unapplied # <<>>
    BY <1>1, <2>1, <2>2, ReapplyInv, Zenon DEF ApplyStep
  <2>3. CASE unapplied = <<>>
    <3>1. PICK k \in Queue : FetchStep(k)
      BY <2>1, <2>3, Zenon DEF ApplyStep
    <3>. QED
      BY <1>1, <2>3, <3>1, FetchInv, Zenon
  <2>. QED
    BY <2>2, <2>3, Zenon
<1>3. CASE ~(Len(applied) < count)
  <2>1. PICK X : applied \in Seq(X)
    BY Zenon DEF Inv, HistoryInv
  <2>2. applied # <<>>
    BY <1>3, <2>1
  <2>3. UnapplyStep
    BY <1>3, Zenon DEF MoveTowards
  <2>. QED
    BY <1>1, <2>2, <2>3, UnapplyInv, Zenon
<1>. QED
  BY <1>2, <1>3, Zenon

LEMMA InitInv == Init => Inv
<1> SUFFICES ASSUME Init PROVE Inv
  OBVIOUS
<1>1. PICK es \in Graphs : graph = GraphOf(es)
  BY Zenon DEF Init
<1>2. es \in Seq(Edges)
  BY GraphsAssumption, Zenon
<1>3. graph \in ExactGraphs /\ graph.edges = es
  BY <1>1, <1>2, GraphOfIndexed
<1>4. /\ original = graph /\ applied = <<>> /\ unapplied = <<>> /\ lower = 0 /\ upper = 1
      /\ pc = "enumerate"
  BY Zenon DEF Init
<1>5. Starting
  BY <1>4, Zenon DEF Starting
<1>6. TypeInv
  <2>1. 0 \in Nat /\ 1 \in Nat
    OBVIOUS
  <2>. QED
    BY <1>3, <1>4, <2>1, Zenon DEF TypeInv, ExactGraphs
<1>7. IndexInv
  BY <1>3, Zenon DEF IndexInv, ExactGraphs
<1>8. OrderInv
  BY <1>5, Zenon DEF OrderInv
<1>9. HistoryInv
  <2>1. Leads(<<>>, es, es, FALSE) /\ Leads(<<>>, es, es, TRUE)
    BY <1>2, LeadsNowhere
  <2>2. <<>> \in Seq({})
    OBVIOUS
  <2>. QED
    BY <1>3, <1>4, <1>5, <2>1, <2>2, Zenon DEF HistoryInv
<1>. QED
  BY <1>6, <1>7, <1>8, <1>9, Zenon DEF Inv

(* The simplifier starts with the order that the nodes impose and with     *)
(* steps that fit the query's graph.                                       *)
LEMMA MakeSimplifierInv == Inv /\ MakeSimplifier => Inv'
<1> SUFFICES ASSUME Inv, MakeSimplifier PROVE Inv'
  OBVIOUS
<1>1. /\ graph' = graph /\ original' = original /\ applied' = applied /\ unapplied' = unapplied
      /\ lower' = lower /\ upper' = upper /\ pc = "simplify" /\ pc' = "grow"
      /\ reachable' = ExtractJoinDependencies(graph) /\ best' = InitFirstStep(graph, reachable')
  BY DEF MakeSimplifier
<1>2. Starting /\ ~Starting'
  BY <1>1 DEF Starting
<1>3. /\ graph = original /\ applied = <<>> /\ unapplied = <<>> /\ graph \in HyperGraphs
      /\ graph.edges \in Seq(Edges) /\ EdgesOf(graph) = DOMAIN graph.edges
  <2>1. graph = original /\ applied = <<>> /\ unapplied = <<>> /\ graph \in HyperGraphs
    BY <1>2, Zenon DEF Inv, TypeInv
  <2>. QED
    BY <2>1, GraphFacts, Zenon
<1>4. TypeInv'
  BY <1>1, <1>2, Zenon DEF Inv, TypeInv
<1>5. IndexInv'
  BY <1>1, Zenon DEF Inv, IndexInv
<1>6. OrderInv'
  <2>1. PICK r : r = reachable'
    BY Zenon
  <2>2. /\ r \in Orders(graph.edges)
        /\ \A k, l \in DOMAIN graph.edges : Earlier(graph.edges, k, l) => l \in r[k]
    BY <1>1, <1>3, <2>1, ExtractOrder, Zenon
  <2>3. \A k, l : Before(k, l)' <=> Earlier(graph.edges, k, l)
    BY <1>1, <1>3, Zenon DEF Before, Earlier, Used, PbsUsedNodes
  <2>4. Entries(<<>>) = {}
    BY DEF Entries
  <2>. QED
    BY <1>1, <1>3, <2>1, <2>2, <2>3, <2>4, Zenon DEF OrderInv
<1>7. HistoryInv'
  <2>1. /\ DOMAIN best' = DOMAIN graph.edges
        /\ \A k \in DOMAIN best' : IsBest(best'[k]) /\ Fresh(best'[k], k, graph.edges)
    BY <1>1, <1>3, InitFirstStepFresh, Zenon
  <2>2. Leads(<<>>, graph.edges, graph.edges, FALSE) /\ Leads(<<>>, graph.edges, graph.edges, TRUE)
    BY <1>3, LeadsNowhere
  <2>3. <<>> \in Seq({})
    OBVIOUS
  <2>. QED
    BY <1>1, <1>3, <2>1, <2>2, <2>3, Zenon DEF HistoryInv
<1>. QED
  BY <1>4, <1>5, <1>6, <1>7, Zenon DEF Inv

(* Every action keeps the invariant.                                       *)
LEMMA NextInv == Inv /\ [Next]_vars => Inv'
<1> SUFFICES ASSUME Inv, [Next]_vars PROVE Inv'
  OBVIOUS
<1>1. lower \in Nat /\ upper \in Nat
  BY Zenon DEF Inv, TypeInv
<1>2. PICK X : applied \in Seq(X)
  BY Zenon DEF Inv, HistoryInv
<1>3. Len(applied) \in Nat
  BY <1>2
<1>4. CASE UNCHANGED vars
  BY <1>1, <1>4, KeptInv DEF vars, Starting
<1>5. CASE EnumerateRegion
  BY <1>1, <1>5, KeptInv DEF EnumerateRegion, Starting
<1>6. CASE MakeSimplifier
  BY <1>6, MakeSimplifierInv, Zenon
<1>7. CASE Grow
  <2>1. ~Starting /\ Len(applied) # upper /\ ~Unreachable(upper) /\ MoveTowards(upper)
    BY <1>1, <1>3, <1>7 DEF Grow, Starting, Unreachable
  <2>. QED
    BY <1>1, <2>1, MoveInv, Zenon
<1>8. CASE NoMoreSteps
  BY <1>1, <1>3, <1>8, KeptInv DEF NoMoreSteps, Starting
<1>9. CASE ProbeGrown
  BY <1>1, <1>3, <1>9, KeptInv DEF ProbeGrown, Starting
<1>10. CASE Search
  <2>1. PICK middle : middle = lower + (upper - lower) \div 2
    BY Zenon
  <2>2. pc = "search" /\ lower < upper
    BY <1>10, Zenon DEF Search
  <2>3. middle \in Nat /\ middle + 1 \in Nat
    BY <1>1, <2>1, <2>2
  <2>4. ~Starting
    BY <2>2 DEF Starting
  <2>5. CASE Len(applied) # middle /\ ~Unreachable(middle)
    <3>1. MoveTowards(middle)
      BY <1>10, <2>1, <2>5, Zenon DEF Search
    <3>. QED
      BY <2>3, <2>4, <2>5, <3>1, MoveInv, Zenon
  <2>6. CASE ~(Len(applied) # middle /\ ~Unreachable(middle))
    <3>1. /\ lower' = middle + 1 \/ lower' = lower
          /\ upper' = upper \/ upper' = middle
          /\ UNCHANGED <<graph, original, budget, card, reachable, best, applied, unapplied, pc>>
      BY <1>10, <2>1, <2>6, Zenon DEF Search
    <3>. QED
      BY <1>1, <2>3, <3>1, KeptInv DEF Starting
  <2>. QED
    BY <2>5, <2>6, Zenon
<1>11. CASE Settle
  <2>1. pc = "search"
    BY <1>11, Zenon DEF Settle
  <2>2. ~Starting
    BY <2>1 DEF Starting
  <2>3. CASE Len(applied) # upper /\ ~Unreachable(upper)
    <3>1. MoveTowards(upper)
      BY <1>11, <2>3, Zenon DEF Settle
    <3>. QED
      BY <1>1, <2>2, <2>3, <3>1, MoveInv, Zenon
  <2>4. CASE ~(Len(applied) # upper /\ ~Unreachable(upper))
    <3>1. /\ pc' = "restore" \/ pc' = "simplified"
          /\ UNCHANGED <<graph, original, budget, card, reachable, best, applied, unapplied, lower, upper>>
      BY <1>11, <2>4, Zenon DEF Settle
    <3>. QED
      BY <1>1, <2>2, <3>1, KeptInv DEF Starting
  <2>. QED
    BY <2>3, <2>4, Zenon
<1>12. CASE EnumerateSimplified
  BY <1>1, <1>12, KeptInv DEF EnumerateSimplified, Starting
<1>13. CASE Restore
  <2>1. pc = "restore"
    BY <1>13, Zenon DEF Restore
  <2>2. ~Starting
    BY <2>1 DEF Starting
  <2>3. CASE applied # <<>>
    <3>1. MoveTowards(0)
      BY <1>13, <2>3, Zenon DEF Restore
    <3>2. 0 \in Nat /\ Len(applied) # 0 /\ ~Unreachable(0)
      BY <1>2, <1>3, <2>3 DEF Unreachable
    <3>. QED
      BY <2>2, <3>1, <3>2, MoveInv, Zenon
  <2>4. CASE applied = <<>>
    <3>1. /\ pc' = "failed"
          /\ UNCHANGED <<graph, original, budget, card, reachable, best, applied, unapplied, lower, upper>>
      BY <1>13, <2>4, Zenon DEF Restore
    <3>. QED
      BY <1>1, <2>2, <3>1, KeptInv DEF Starting
  <2>. QED
    BY <2>3, <2>4, Zenon
<1>14. CASE Finished
  BY <1>1, <1>14, KeptInv DEF Finished, vars, Starting
<1>. QED
  BY <1>4, <1>5, <1>6, <1>7, <1>8, <1>9, <1>10, <1>11, <1>12, <1>13, <1>14, Zenon DEF Next

(* The inductive invariant of the simplifier, for every graph, budget,     *)
(* cardinalities and enumeration.                                          *)
THEOREM InvKept == Spec => []Inv
<1>. QED
  BY InitInv, NextInv, PTL DEF Spec

(* CDPHyperGraph::ReplaceEdge: after any number of replaced edges the      *)
(* index of every node is that of the edges as they are now, and these are *)
(* edges as AddEdge and ReplaceEdge assert them.                           *)
THEOREM IndexKept == Spec => []IndexExact
<1>1. ASSUME Inv PROVE IndexExact
  <2>1. PICK es : es = graph.edges
    BY Zenon
  <2>2. graph \in HyperGraphs /\ Indexed(graph.nodes, es, DOMAIN es)
    BY <1>1, <2>1, Zenon DEF Inv, TypeInv, IndexInv
  <2>3. es \in Seq(Edges)
    BY <2>1, <2>2, GraphFacts, Zenon
  <2> DEFINE At(n, simple) ==
                {From(n, k, graph.edges[k]) :
                    k \in {l \in EdgesOf(graph) : /\ n \in PbsUsedNodes(graph, l)
                                                  /\ Simple(graph.edges[l]) = simple}}
  <2>4. ASSUME NEW n \in Nodes
        PROVE  At(n, TRUE) = SimpleFrom(es, DOMAIN es, n) /\ At(n, FALSE) = ComplexFrom(es, DOMAIN es, n)
    <3>1. \A e : (Simple(e) = TRUE <=> Simple(e)) /\ (Simple(e) = FALSE <=> ~Simple(e))
      BY Zenon DEF Simple
    <3>. QED
      BY <2>1, <3>1, Zenon DEF SimpleFrom, ComplexFrom, EdgesOf, PbsUsedNodes
  <2>5. \A d : Directed(graph, d).right = Target(es, d)
    BY <2>1, Zenon DEF Directed, Target
  <2>6. ASSUME NEW n \in Nodes
        PROVE  /\ Entries(graph.nodes[n].simple) = At(n, TRUE)
               /\ Entries(graph.nodes[n].complex) = At(n, FALSE)
               /\ graph.nodes[n].neighbours = UNION {Directed(graph, d).right : d \in At(n, TRUE)}
    <3>1. PICK S : S = At(n, TRUE)
      BY Zenon
    <3>2. {Directed(graph, d).right : d \in S} = {Target(es, d) : d \in S}
      BY <2>5, Zenon
    <3>3. /\ Entries(graph.nodes[n].simple) = S
          /\ Entries(graph.nodes[n].complex) = At(n, FALSE)
          /\ graph.nodes[n].neighbours = UNION {Target(es, d) : d \in S}
      <4>. HIDE DEF At
      <4>. QED
        BY <2>2, <2>4, <3>1, Zenon DEF Indexed
    <3>. HIDE DEF At
    <3>. QED
      BY <3>1, <3>2, <3>3, Zenon
  <2>. QED
    BY <2>1, <2>3, <2>6, Zenon DEF IndexExact, Entries
<1>. QED
  BY <1>1, InvKept, PTL

(* CDPHyperGraphSimplifier::UnapplyStep: at any time, undoing the applied  *)
(* steps gives the edges of the query back, so a failing Simplify leaves   *)
(* no change behind.                                                       *)
THEOREM StepsUndoneKept == Spec => []StepsUndone
<1>1. ASSUME Inv PROVE StepsUndone
  <2>1. graph \in ExactGraphs /\ Leads(applied, graph.edges, original.edges, FALSE)
    BY <1>1, Zenon DEF Inv, TypeInv, IndexInv, HistoryInv, ExactGraphs
  <2>2. Len(applied) \in Nat
    <3>1. PICK X : applied \in Seq(X)
      BY <1>1, Zenon DEF Inv, HistoryInv
    <3>. QED
      BY <3>1
  <2>. QED
    BY <2>1, <2>2, UnwoundEdges, Zenon DEF StepsUndone
<1>. QED
  BY <1>1, InvKept, PTL

(* CDPHyperOrderConstraints::TryAdd: the order that the nodes of the edges *)
(* impose and the order that the steps impose, applied or undone, are      *)
(* parts of one partial order.                                             *)
THEOREM StepsAgreeKept == Spec => []StepsAgree
<1>1. ASSUME Inv PROVE StepsAgree
  <2>1. SUFFICES ASSUME ~Starting
        PROVE  /\ \A k, l \in EdgesOf(original) :
                     /\ Before(k, l) => l \in reachable[k]
                     /\ l \in reachable[k] =>
                           reachable[l] \subseteq reachable[k] /\ (k \in reachable[l] => k = l)
               /\ \A i \in DOMAIN applied : applied[i].after \in reachable[applied[i].before]
               /\ \A i \in DOMAIN unapplied : unapplied[i].after \in reachable[unapplied[i].before]
    BY Zenon DEF StepsAgree, Starting
  <2>2. /\ reachable \in Orders(original.edges)
        /\ \A k, l \in DOMAIN original.edges : Before(k, l) => l \in reachable[k]
        /\ \A s \in Entries(applied) \cup Entries(unapplied) : s.after \in reachable[s.before]
    BY <1>1, <2>1, Zenon DEF Inv, OrderInv
  <2>3. \A k, l \in EdgesOf(original) :
            l \in reachable[k] => reachable[l] \subseteq reachable[k] /\ (k \in reachable[l] => k = l)
    BY <2>2, Zenon DEF Orders, EdgesOf
  <2>4. /\ \A i \in DOMAIN applied : applied[i] \in Entries(applied)
        /\ \A i \in DOMAIN unapplied : unapplied[i] \in Entries(unapplied)
    BY Zenon DEF Entries
  <2>. QED
    BY <2>2, <2>3, <2>4, Zenon DEF EdgesOf
<1>. QED
  BY <1>1, InvKept, PTL
=============================================================================
