----------------------------- MODULE MemoProofs -----------------------------
(***************************************************************************)
(* Proofs about Memo, for any operators, hash function, query and bounds.  *)
(*                                                                         *)
(* The inductive invariant adds to the properties of Memo the type of the  *)
(* state, what the alternative being inserted means (WorkInv), that every  *)
(* class keeps a listed expression and every expression a representative   *)
(* in the table or in FRehash's list (CoverInv), and how far the merge is  *)
(* in each phase (PhaseInv).                                               *)
(***************************************************************************)
EXTENDS MemoLinks, SequenceTheorems

GExprType == [op : Ops, kids : Seq(Nat), home : Nat, dup : BOOLEAN, prov : BOOLEAN]

MemoType ==
    /\ gx \in Seq(GExprType)
    /\ \A e \in GExprs : /\ gx[e].kids \in Tuples(Arity(gx[e].op), Groups)
                         /\ gx[e].home \in Groups
    /\ dup \in Seq(Nat) /\ dup \in Chains(Len(dup))
    /\ ulGExprs \in Seq(Nat) /\ Len(ulGExprs) = Len(dup)
    /\ mean \in Seq({mean[g] : g \in DOMAIN mean}) /\ Len(mean) = Len(dup)
    /\ \A p \in table : p = <<p[1], p[2]>> /\ p[2] \in GExprs /\ ~gx[p[2]].dup
    /\ list \subseteq GExprs /\ \A e \in list : ~gx[e].dup
    /\ pc \in {"Explore", "Insert", "Merge", "Rehash", "Done"}
    /\ pc # "Rehash" => list = {}
    /\ root \in Groups /\ cursor \in 0..Len(dup) /\ fNewDupGroups \in BOOLEAN

(* The alternative being inserted means what its target group means.       *)
WorkInv ==
    pc = "Insert" =>
        /\ work = [target |-> work.target, op |-> work.op, kids |-> work.kids,
                   fop |-> work.fop, fkids |-> work.fkids, prov |-> work.prov]
        /\ work.target \in Groups /\ work.op \in Ops /\ work.prov \in BOOLEAN
        /\ work.kids \in Tuples(Arity(work.op), Groups \cup {None})
        /\ Fresh => work.fop \in Ops /\ work.fkids \in Tuples(Arity(work.fop), Groups)
        /\ mean[work.target] =
              Sem(work.op, [i \in DOMAIN work.kids |->
                                IF work.kids[i] = None THEN Meaning(work.fop, work.fkids)
                                ELSE mean[work.kids[i]]])

(* Every expression can be found, or will be again; only a duplicate or,   *)
(* for DSL provenance, a match is kept out; every class has an expression. *)
CoverInv ==
    /\ \A e \in GExprs : \E f \in InTable \cup list : SameResolved(e, f)
    /\ (\A e \in GExprs : ~gx[e].prov) => \A e \in GExprs : ~gx[e].dup => e \in InTable \cup list
    /\ \A g \in Groups : \E e \in GExprs :
          ~gx[e].dup /\ MasterIn(dup, gx[e].home) = MasterIn(dup, g)

(* The links are one step long and lead from the groups without expressions. *)
OneGroupPerClass ==
    /\ \A g \in Groups : ulGExprs[g] = 0 <=> dup[g] # None
    /\ \A g \in Groups : dup[g] # None => dup[dup[g]] = None

BucketsCurrent == \A p \in table : p[1] = HashValue(gx[p[2]].op, gx[p[2]].kids)

PhaseInv ==
    /\ pc \in {"Explore", "Insert", "Done"} =>
          /\ BucketsCurrent /\ ulGExprs[root] > 0
          /\ \A g \in Groups : ulGExprs[g] = 0 => dup[g] # None /\ ulGExprs[dup[g]] > 0
    /\ pc = "Insert" => ulGExprs[work.target] > 0
    /\ pc = "Merge" =>
          \A g \in Groups : g > cursor /\ dup[g] # None => ulGExprs[g] = 0 /\ dup[dup[g]] = None
    /\ pc = "Done" \/ (pc = "Rehash" /\ ~fNewDupGroups) =>
          /\ OneGroupPerClass /\ dup[root] = None /\ BucketsCurrent
          /\ \A e, f \in InTable : SameResolved(e, f) => e = f
    /\ pc = "Rehash" => InTable \cap list = {}

IInv == /\ MemoType /\ SameMeaning /\ WorkInv /\ CountsExact
        /\ CoverInv /\ NoAlternativeLost /\ PhaseInv
----------------------------------------------------------------------------
(* f is the function that Descendants defines by recursion.                *)
IsFrom(f, g) == f = [n \in Nat |-> IF n = 0 THEN Children(g)
                                    ELSE f[n - 1] \cup UNION {Children(h) : h \in f[n - 1]}]

(* What contains the children of a group and is closed under children      *)
(* contains the descendants of the group.                                  *)
LEMMA DescendantsIn ==
    ASSUME Len(dup) \in Nat, NEW g, NEW D, Children(g) \subseteq D,
           \A h \in D : Children(h) \subseteq D
    PROVE  Descendants(g) \subseteq D
<1> DEFINE Grow(S) == S \cup UNION {Children(h) : h \in S}
<1>1. PICK G : G = [S \in SUBSET D |-> Grow(S)]
  BY Zenon
<1>2. G \in [SUBSET D -> SUBSET D]
  <2>1. ASSUME NEW S \in SUBSET D PROVE Grow(S) \in SUBSET D
    <3>1. UNION {Children(h) : h \in S} \subseteq D
      BY Zenon
    <3>. QED
      BY <3>1, Zenon
  <2>. HIDE DEF Grow
  <2>. QED
    BY <1>1, <2>1, Zenon
<1>3. PICK f \in [Nat -> SUBSET D] : f[0] = Children(g) /\ \A k \in Nat : f[k + 1] = G[f[k]]
  <2>1. PICK X : X = SUBSET D
    BY Zenon
  <2>2. PICK a \in X : a = Children(g)
    BY <2>1, Zenon
  <2>3. G \in [X -> X]
    BY <1>2, <2>1, Zenon
  <2>4. \E f : Iterates(f, X, a, G)
    BY <2>2, <2>3, Iterate, Zenon
  <2>. QED
    BY <2>1, <2>2, <2>4, Zenon DEF Iterates
<1>4. IsFrom(f, g)
  <2>1. ASSUME NEW n \in Nat, n # 0 PROVE f[n] = Grow(f[n - 1])
    <3>1. n - 1 \in Nat /\ (n - 1) + 1 = n
      BY <2>1
    <3>2. f[n] = G[f[n - 1]] /\ f[n - 1] \in SUBSET D
      BY <1>3, <3>1, Zenon
    <3>. HIDE DEF Grow
    <3>. QED
      BY <1>1, <3>2, Zenon
  <2>2. f = [n \in Nat |-> IF n = 0 THEN Children(g) ELSE Grow(f[n - 1])]
    <3>. HIDE DEF Grow
    <3>. QED
      BY <1>3, <2>1, Zenon
  <2>. QED
    BY <2>2, Zenon DEF IsFrom
<1>5. PICK q : q = CHOOSE u : IsFrom(u, g)
  BY Zenon
<1>6. IsFrom(q, g)
  BY <1>4, <1>5, Zenon
<1>7. Descendants(g) = q[Len(dup)]
  BY <1>5, Zenon DEF Descendants, IsFrom
<1>8. q[0] = Children(g) /\ \A k \in Nat : q[k + 1] = Grow(q[k])
  <2>1. q = [n \in Nat |-> IF n = 0 THEN Children(g) ELSE Grow(q[n - 1])]
    BY <1>6, Zenon DEF IsFrom
  <2>2. ASSUME NEW k \in Nat PROVE k + 1 \in Nat /\ k + 1 # 0 /\ (k + 1) - 1 = k
    OBVIOUS
  <2>. HIDE DEF Grow
  <2>. QED
    BY <2>1, <2>2, Zenon
<1> DEFINE T == {k \in Nat : q[k] \subseteq D}
<1>9. 0 \in T
  BY <1>8, Zenon
<1>10. ASSUME NEW k \in Nat, k \in T PROVE k + 1 \in T
  <2>1. q[k] \subseteq D /\ q[k + 1] = Grow(q[k])
    BY <1>8, <1>10, Zenon
  <2>2. Grow(q[k]) \subseteq D
    BY <2>1, Zenon
  <2>. HIDE DEF Grow
  <2>. QED
    BY <2>1, <2>2
<1>11. Nat \subseteq T
  <2>. HIDE DEF T
  <2>. QED
    BY <1>9, <1>10, Induction, Zenon
<1>. QED
  BY <1>7, <1>11, Zenon

(* m is the meaning of the nodes of the query.                             *)
IsQueryMeaning(m) ==
    m = [g \in DOMAIN Query |->
            Sem(Query[g].op, [i \in DOMAIN Query[g].kids |-> m[Query[g].kids[i]]])]

(* The inputs of a node come before it, so the query has a meaning.        *)
LEMMA QueryMeaning == \E m : IsQueryMeaning(m)
<1> DEFINE n == Len(Query)
           Step(m, g) == Sem(Query[g].op, [i \in DOMAIN Query[g].kids |-> m[Query[g].kids[i]]])
           Upto(k, m) == DOMAIN m = 1..n /\ m = [g \in 1..n |-> m[g]]
                           /\ \A g \in 1..n : g <= k => m[g] = Step(m, g)
           S == {k \in Nat : \E m : Upto(k, m)}
<1>1. /\ n \in Nat /\ DOMAIN Query = 1..n
      /\ \A g \in 1..n : \A i \in DOMAIN Query[g].kids : Query[g].kids[i] \in 1..(g - 1)
  BY MemoAssumption, Zenon DEF Tuples
<1>. HIDE DEF n
<1>2. 0 \in S
  <2>1. PICK m : m = [g \in 1..n |-> 0]
    BY Zenon
  <2>2. DOMAIN m = 1..n /\ m = [g \in 1..n |-> m[g]] /\ \A g \in 1..n : ~(g <= 0)
    BY <1>1, <2>1
  <2>3. Upto(0, m)
    BY <2>2, Zenon
  <2>. HIDE DEF Upto
  <2>. QED
    BY <2>3, Zenon
<1>3. ASSUME NEW k \in Nat, k \in S PROVE k + 1 \in S
  <2>1. PICK m : Upto(k, m)
    BY <1>3, Zenon
  <2>2. PICK q : q = [g \in 1..n |-> IF g = k + 1 THEN Step(m, g) ELSE m[g]]
    BY Zenon
  <2>3. DOMAIN q = 1..n /\ q = [g \in 1..n |-> q[g]]
    BY <2>2, Zenon
  <2>4. ASSUME NEW g \in 1..n, g <= k + 1 PROVE q[g] = Step(q, g)
    <3>1. \A j \in 1..n : j <= k => q[j] = m[j]
      BY <1>1, <2>2
    <3>2. \A i \in DOMAIN Query[g].kids : q[Query[g].kids[i]] = m[Query[g].kids[i]]
      BY <1>1, <2>4, <3>1
    <3>3. Step(q, g) = Step(m, g)
      <4>1. [i \in DOMAIN Query[g].kids |-> q[Query[g].kids[i]]] =
            [i \in DOMAIN Query[g].kids |-> m[Query[g].kids[i]]]
        BY <3>2, Zenon
      <4>. QED
        BY <4>1, Zenon
    <3>4. CASE g = k + 1
      <4>. HIDE DEF Step
      <4>. QED
        BY <2>2, <3>3, <3>4, Zenon
    <3>5. CASE g <= k
      <4>1. m[g] = Step(m, g)
        BY <2>1, <3>5, Zenon
      <4>. HIDE DEF Step
      <4>. QED
        BY <3>1, <3>3, <3>5, <4>1, Zenon
    <3>. QED
      BY <1>1, <2>4, <3>4, <3>5
  <2>5. Upto(k + 1, q)
    BY <2>3, <2>4, Zenon
  <2>. HIDE DEF Upto
  <2>. QED
    BY <2>5
<1>4. n \in S
  <2>. HIDE DEF S
  <2>. QED
    BY <1>1, <1>2, <1>3, Induction, Zenon
<1>5. PICK m : Upto(n, m)
  BY <1>4, Zenon
<1>6. \A g \in 1..n : m[g] = Step(m, g)
  BY <1>1, <1>5
<1>7. m = [g \in 1..n |-> Step(m, g)]
  <2>. HIDE DEF Step
  <2>. QED
    BY <1>5, <1>6, Zenon
<1>. QED
  BY <1>1, <1>7, Zenon DEF IsQueryMeaning
----------------------------------------------------------------------------
(* What the type of the state says of groups and expressions.              *)
LEMMA TypeFacts ==
    ASSUME MemoType
    PROVE  /\ Len(dup) \in Nat /\ Groups = 1..Len(dup) /\ dup \in Chains(Len(dup))
           /\ Len(gx) \in Nat /\ GExprs = 1..Len(gx) /\ None \notin Groups
           /\ DOMAIN ulGExprs = Groups /\ DOMAIN mean = Groups
           /\ \A g \in Groups : ulGExprs[g] \in Nat
           /\ \A e \in GExprs :
                 /\ gx[e] \in GExprType /\ gx[e].op \in Ops /\ Arity(gx[e].op) \in Nat
                 /\ gx[e].kids \in [1..Arity(gx[e].op) -> Groups]
                 /\ DOMAIN gx[e].kids = 1..Arity(gx[e].op)
                 /\ gx[e].home \in Groups /\ gx[e].dup \in BOOLEAN /\ gx[e].prov \in BOOLEAN
<1>1. /\ Len(dup) \in Nat /\ Groups = 1..Len(dup) /\ dup \in Chains(Len(dup))
      /\ Len(gx) \in Nat /\ GExprs = 1..Len(gx)
  BY DEF MemoType, Groups, GExprs
<1>2. None \notin Groups
  BY <1>1 DEF None
<1>3. DOMAIN ulGExprs = Groups /\ \A g \in Groups : ulGExprs[g] \in Nat
  <2>1. ulGExprs \in Seq(Nat) /\ Len(ulGExprs) = Len(dup)
    BY Zenon DEF MemoType
  <2>. QED
    BY <1>1, <2>1
<1>4. DOMAIN mean = Groups
  BY <1>1 DEF MemoType
<1>5. ASSUME NEW e \in GExprs
      PROVE  /\ gx[e] \in GExprType /\ gx[e].op \in Ops /\ Arity(gx[e].op) \in Nat
             /\ gx[e].kids \in [1..Arity(gx[e].op) -> Groups]
             /\ DOMAIN gx[e].kids = 1..Arity(gx[e].op)
             /\ gx[e].home \in Groups /\ gx[e].dup \in BOOLEAN /\ gx[e].prov \in BOOLEAN
  <2>1. gx[e] \in GExprType
    BY <1>1 DEF MemoType
  <2>2. gx[e].op \in Ops /\ gx[e].dup \in BOOLEAN /\ gx[e].prov \in BOOLEAN
    BY <2>1, Zenon DEF GExprType
  <2>3. Arity(gx[e].op) \in Nat
    BY <2>2, MemoAssumption, Zenon
  <2>4. gx[e].kids \in [1..Arity(gx[e].op) -> Groups] /\ gx[e].home \in Groups
    BY Zenon DEF MemoType, Tuples
  <2>5. DOMAIN gx[e].kids = 1..Arity(gx[e].op)
    BY <2>4, Zenon
  <2>. QED
    BY <2>1, <2>2, <2>3, <2>4, <2>5, Zenon
<1>. QED
  BY <1>1, <1>2, <1>3, <1>4, <1>5, Zenon

(* The same, as a state predicate that can be primed.                      *)
Typed ==
    /\ Len(dup) \in Nat /\ Groups = 1..Len(dup) /\ dup \in Chains(Len(dup))
    /\ Len(gx) \in Nat /\ GExprs = 1..Len(gx) /\ None \notin Groups
    /\ DOMAIN ulGExprs = Groups /\ DOMAIN mean = Groups
    /\ \A g \in Groups : ulGExprs[g] \in Nat
    /\ \A e \in GExprs : /\ gx[e].op \in Ops /\ Arity(gx[e].op) \in Nat
                         /\ gx[e].kids \in [1..Arity(gx[e].op) -> Groups]
                         /\ DOMAIN gx[e].kids = 1..Arity(gx[e].op)
                         /\ gx[e].home \in Groups

(* The facts that Typed collects follow from the types.                    *)
LEMMA TypedNow == MemoType => Typed
  BY TypeFacts, Zenon DEF Typed

(* The same after a step.                                                  *)
LEMMA TypedNext == MemoType' => Typed'
  BY TypedNow, PTL

(* The memo is finite.                                                     *)
LEMMA FiniteMemo == Typed => IsFiniteSet(GExprs)
  BY FS_Interval DEF Typed

(* The masters of the memo's groups.                                       *)
LEMMA GroupMasters ==
    ASSUME MemoType
    PROVE  \A g \in Groups :
              /\ MasterIn(dup, g) \in Groups /\ g <= MasterIn(dup, g)
              /\ dup[MasterIn(dup, g)] = None
              /\ dup[g] # None => /\ dup[g] \in Groups /\ g < dup[g]
                                   /\ MasterIn(dup, dup[g]) = MasterIn(dup, g)
                                   /\ dup[g] <= MasterIn(dup, g)
              /\ dup[g] = None => MasterIn(dup, g) = g
<1>1. Len(dup) \in Nat /\ Groups = 1..Len(dup) /\ dup \in Chains(Len(dup))
  BY TypeFacts, Zenon
<1>. QED
  BY <1>1, MasterFacts, Zenon

(* CGroup::FDuplicateGroups recognises only groups with the same master.   *)
LEMMA DuplicateMasters ==
    ASSUME NEW n \in Nat, NEW d \in Chains(n), NEW g \in 1..n, NEW h \in 1..n,
           FDuplicateGroups(d, g, h)
    PROVE  MasterIn(d, g) = MasterIn(d, h)
<1>1. g # None /\ h # None
  BY DEF None
<1>2. /\ d[g] # None => MasterIn(d, d[g]) = MasterIn(d, g)
      /\ d[h] # None => MasterIn(d, d[h]) = MasterIn(d, h)
  BY MasterFacts, Zenon
<1>. QED
  BY <1>1, <1>2, Zenon DEF FDuplicateGroups

(* When every link is one step long it recognises all of them.             *)
LEMMA MastersDuplicate ==
    ASSUME NEW n \in Nat, NEW d \in Chains(n), NEW g \in 1..n, NEW h \in 1..n,
           \A x \in 1..n : d[x] # None => d[d[x]] = None, MasterIn(d, g) = MasterIn(d, h)
    PROVE  FDuplicateGroups(d, g, h)
<1>1. ASSUME NEW x \in 1..n PROVE MasterIn(d, x) = IF d[x] = None THEN x ELSE d[x]
  <2>1. CASE d[x] = None
    BY <2>1, MasterFacts, Zenon
  <2>2. CASE d[x] # None
    <3>1. d[x] \in 1..n /\ d[d[x]] = None /\ MasterIn(d, d[x]) = MasterIn(d, x)
      BY <2>2, MasterFacts, Zenon
    <3>2. MasterIn(d, d[x]) = d[x]
      BY <3>1, MasterFacts, Zenon
    <3>. QED
      BY <2>2, <3>1, <3>2, Zenon
  <2>. QED
    BY <2>1, <2>2, Zenon
<1>. QED
  BY <1>1, Zenon DEF FDuplicateGroups
----------------------------------------------------------------------------
(* A listed expression makes its group's count positive.                   *)
LEMMA ListedCounts ==
    ASSUME MemoType, CountsExact, NEW e \in GExprs, ~gx[e].dup
    PROVE  ulGExprs[gx[e].home] > 0
<1>1. e \in Listed(gx[e].home) /\ gx[e].home \in Groups
  BY TypeFacts, Zenon DEF Listed
<1>2. IsFiniteSet(Listed(gx[e].home))
  <2>1. IsFiniteSet(GExprs)
    BY TypedNow, FiniteMemo, Zenon
  <2>2. Listed(gx[e].home) \subseteq GExprs
    BY Zenon DEF Listed
  <2>. QED
    BY <2>1, <2>2, FS_Subset, Zenon
<1>3. Cardinality(Listed(gx[e].home)) \in Nat /\ Cardinality(Listed(gx[e].home)) # 0
  BY <1>1, <1>2, FS_CardinalityType, FS_EmptySet, Zenon
<1>. QED
  BY <1>1, <1>3 DEF CountsExact

(* What the hash table accessor finds: an expression in the table with the *)
(* same operator, whose inputs have the same masters, in a group that      *)
(* means what the expression looked up means.                              *)
LEMMA FoundFacts ==
    ASSUME MemoType, NEW op \in Ops, NEW kids \in Tuples(Arity(op), Groups),
           NEW e \in Find(op, kids)
    PROVE  /\ e \in GExprs /\ e \in InTable /\ ~gx[e].dup /\ gx[e].op = op
           /\ gx[e].home \in Groups
           /\ \A i \in DOMAIN kids : MasterIn(dup, kids[i]) = MasterIn(dup, gx[e].kids[i])
           /\ SameMeaning => Meaning(op, kids) = mean[gx[e].home]
<1>1. /\ e \in GExprs /\ <<HashValue(op, kids), e>> \in table /\ gx[e].op = op
      /\ \A i \in DOMAIN kids : FDuplicateGroups(dup, kids[i], gx[e].kids[i])
  BY Zenon DEF Find, Matches
<1>2. e \in InTable
  BY <1>1, Zenon DEF InTable
<1>3. ~gx[e].dup
  BY <1>1, Zenon DEF MemoType
<1>4. gx[e].home \in Groups /\ Arity(op) \in Nat /\ gx[e].kids \in [1..Arity(op) -> Groups]
  BY <1>1, TypeFacts, Zenon
<1>5. kids \in [1..Arity(op) -> Groups]
  BY Zenon DEF Tuples
<1>6. ASSUME NEW i \in 1..Arity(op) PROVE MasterIn(dup, kids[i]) = MasterIn(dup, gx[e].kids[i])
  <2>1. kids[i] \in Groups /\ gx[e].kids[i] \in Groups
    BY <1>4, <1>5, Zenon
  <2>2. FDuplicateGroups(dup, kids[i], gx[e].kids[i])
    BY <1>1, <1>5, Zenon
  <2>. QED
    BY <2>1, <2>2, TypeFacts, DuplicateMasters
<1>7. ASSUME SameMeaning PROVE Meaning(op, kids) = mean[gx[e].home]
  <2>1. \A g \in Groups : mean[MasterIn(dup, g)] = mean[g]
    <3>1. \A g \in Groups : dup[g] # None => mean[dup[g]] = mean[g]
      BY <1>7, Zenon DEF SameMeaning
    <3>. QED
      BY <3>1, TypeFacts, MasterShares
  <2>2. ASSUME NEW i \in 1..Arity(op) PROVE mean[kids[i]] = mean[gx[e].kids[i]]
    <3>1. kids[i] \in Groups /\ gx[e].kids[i] \in Groups
      BY <1>4, <1>5, Zenon
    <3>2. mean[MasterIn(dup, kids[i])] = mean[kids[i]]
      BY <2>1, <3>1, Zenon
    <3>3. mean[MasterIn(dup, gx[e].kids[i])] = mean[gx[e].kids[i]]
      BY <2>1, <3>1, Zenon
    <3>. QED
      BY <1>6, <3>2, <3>3, Zenon
  <2>3. DOMAIN kids = 1..Arity(op) /\ DOMAIN gx[e].kids = 1..Arity(op)
    BY <1>4, <1>5, Zenon
  <2>4. [i \in DOMAIN kids |-> mean[kids[i]]] = [i \in DOMAIN gx[e].kids |-> mean[gx[e].kids[i]]]
    BY <2>2, <2>3, Zenon
  <2>5. Meaning(gx[e].op, gx[e].kids) = mean[gx[e].home]
    BY <1>1, <1>7, Zenon DEF SameMeaning
  <2>. QED
    BY <1>1, <2>4, <2>5, Zenon DEF Meaning
<1>. QED
  BY <1>1, <1>2, <1>3, <1>4, <1>5, <1>6, <1>7, Zenon
----------------------------------------------------------------------------
(* A step that keeps the expressions, and the classes of their groups.     *)
Kept ==
    /\ GExprs \subseteq GExprs' /\ Groups \subseteq Groups'
    /\ \A e \in GExprs : /\ gx'[e].op = gx[e].op /\ gx'[e].kids = gx[e].kids
                         /\ gx'[e].prov = gx[e].prov
                         /\ gx[e].dup => gx'[e].dup
                         /\ MasterIn(dup', gx'[e].home) = MasterIn(dup', gx[e].home)
    /\ \A x, y \in Groups :
          MasterIn(dup, x) = MasterIn(dup, y) => MasterIn(dup', x) = MasterIn(dup', y)

(* An expression is dropped for one of its class that says the same.       *)
DroppedFor(e, f) ==
    /\ f \in GExprs /\ ~gx'[f].dup /\ SameResolved(e, f)'
    /\ MasterIn(dup', gx'[f].home) = MasterIn(dup', gx'[e].home)

Dropping == \A e \in GExprs : gx'[e].dup /\ ~gx[e].dup => \E f : DroppedFor(e, f)

(* New expressions are no duplicates; they are in the table, and a new     *)
(* group has one.                                                          *)
Growing ==
    /\ \A e \in GExprs' \ GExprs : ~gx'[e].dup /\ e \in InTable'
    /\ \A g \in Groups' \ Groups : \E e \in GExprs' : ~gx'[e].dup /\ gx'[e].home = g

(* What leaves the table and the list says the same as something there,    *)
(* and is a duplicate unless there is DSL provenance.                      *)
Covering ==
    \A f \in InTable \cup list :
        \/ f \in (InTable \cup list)'
        \/ /\ \E h \in (InTable \cup list)' : h \in GExprs /\ SameResolved(f, h)'
           /\ gx'[f].dup \/ \E h \in GExprs : gx[h].prov

(* Expressions that were the same up to the masters of their inputs stay   *)
(* the same when links are added.                                          *)
LEMMA KeptResolved ==
    ASSUME MemoType, Kept, NEW e \in GExprs, NEW f \in GExprs, SameResolved(e, f)
    PROVE  SameResolved(e, f)'
<1>1. gx'[e].op = gx[e].op /\ gx'[e].kids = gx[e].kids /\ gx'[f].op = gx[f].op /\ gx'[f].kids = gx[f].kids
  BY Zenon DEF Kept
<1>2. gx[e].op = gx[f].op
  BY Zenon DEF SameResolved
<1>3. ASSUME NEW i \in DOMAIN gx[e].kids
      PROVE  MasterIn(dup', gx[e].kids[i]) = MasterIn(dup', gx[f].kids[i])
  <2>1. gx[e].kids[i] \in Groups /\ gx[f].kids[i] \in Groups
    BY <1>2, TypeFacts, Zenon
  <2>2. MasterIn(dup, gx[e].kids[i]) = MasterIn(dup, gx[f].kids[i])
    BY Zenon DEF SameResolved
  <2>. QED
    BY <2>1, <2>2, Zenon DEF Kept
<1>. QED
  BY <1>1, <1>2, <1>3, Zenon DEF SameResolved

(* Sameness is transitive.                                                 *)
LEMMA ResolvedTrans ==
    ASSUME MemoType, NEW e \in GExprs, NEW f \in GExprs, NEW h \in GExprs,
           SameResolved(e, f), SameResolved(f, h)
    PROVE  SameResolved(e, h)
<1>1. DOMAIN gx[e].kids = DOMAIN gx[f].kids
  BY TypeFacts, Zenon DEF SameResolved
<1>. QED
  BY <1>1, Zenon DEF SameResolved

(* Being the same up to masters is transitive, after the step too.         *)
LEMMA ResolvedTransNext ==
    ASSUME MemoType', NEW e \in GExprs', NEW f \in GExprs', NEW h \in GExprs',
           SameResolved(e, f)', SameResolved(f, h)'
    PROVE  SameResolved(e, h)'
<1>1. DOMAIN gx'[e].kids = DOMAIN gx'[f].kids
  BY TypedNext, Zenon DEF SameResolved, Typed
<1>. QED
  BY <1>1, Zenon DEF SameResolved

(* A step that flags an expression only for one that is kept loses no      *)
(* alternative.                                                            *)
LEMMA KeptLost ==
    ASSUME MemoType, MemoType', NoAlternativeLost, Kept, Dropping, Growing
    PROVE  NoAlternativeLost'
<1>1. SUFFICES ASSUME NEW e \in GExprs', gx'[e].dup
               PROVE  \E f \in GExprs' : /\ ~gx'[f].dup /\ SameResolved(e, f)'
                                         /\ MasterIn(dup', gx'[f].home) = MasterIn(dup', gx'[e].home)
  BY Zenon DEF NoAlternativeLost
<1>2. e \in GExprs
  BY <1>1, Zenon DEF Growing
<1>3. CASE ~gx[e].dup
  BY <1>1, <1>2, <1>3, Zenon DEF Dropping, DroppedFor, Kept
<1>4. CASE gx[e].dup
  <2>1. PICK f \in GExprs : /\ ~gx[f].dup /\ SameResolved(e, f)
                            /\ MasterIn(dup, gx[f].home) = MasterIn(dup, gx[e].home)
    BY <1>2, <1>4, Zenon DEF NoAlternativeLost
  <2>2. SameResolved(e, f)'
    BY <1>2, <2>1, KeptResolved, Zenon
  <2>3. MasterIn(dup', gx'[f].home) = MasterIn(dup', gx'[e].home)
    <3>1. gx[f].home \in Groups /\ gx[e].home \in Groups
      BY <1>2, TypeFacts, Zenon
    <3>. QED
      BY <1>2, <2>1, <3>1 DEF Kept
  <2>4. CASE ~gx'[f].dup
    BY <2>2, <2>3, <2>4, Zenon DEF Kept
  <2>5. CASE gx'[f].dup
    <3>1. PICK h : DroppedFor(f, h)
      BY <2>1, <2>5, Zenon DEF Dropping
    <3>2. h \in GExprs' /\ f \in GExprs' /\ ~gx'[h].dup /\ SameResolved(f, h)'
      BY <3>1, Zenon DEF DroppedFor, Kept
    <3>3. SameResolved(e, h)'
      BY <1>1, <2>2, <3>2, ResolvedTransNext, Zenon
    <3>4. MasterIn(dup', gx'[h].home) = MasterIn(dup', gx'[e].home)
      BY <2>3, <3>1, Zenon DEF DroppedFor
    <3>. QED
      BY <3>2, <3>3, <3>4, Zenon
  <2>. QED
    BY <2>4, <2>5, Zenon
<1>. QED
  BY <1>3, <1>4, Zenon

(* A step that takes an expression out of the table only for one that      *)
(* stays keeps every expression represented in the table or the list.      *)
LEMMA KeptCover ==
    ASSUME MemoType, MemoType', CoverInv, Kept, Dropping, Growing, Covering
    PROVE  CoverInv'
<1>1. GExprs \subseteq GExprs' /\ Groups \subseteq Groups'
  BY Zenon DEF Kept
<1>2. InTable \cup list \subseteq GExprs
  BY Zenon DEF MemoType, InTable
<1>3. ASSUME NEW e \in GExprs' PROVE \E f \in (InTable \cup list)' : SameResolved(e, f)'
  <2>1. CASE e \notin GExprs
    <3>1. e \in (InTable \cup list)'
      BY <2>1, Zenon DEF Growing
    <3>2. SameResolved(e, e)'
      BY Zenon DEF SameResolved
    <3>. QED
      BY <3>1, <3>2, Zenon
  <2>2. CASE e \in GExprs
    <3>1. PICK f \in InTable \cup list : SameResolved(e, f)
      BY <2>2, Zenon DEF CoverInv
    <3>2. f \in GExprs /\ SameResolved(e, f)'
      BY <1>2, <2>2, <3>1, KeptResolved, Zenon
    <3>3. CASE f \in (InTable \cup list)'
      BY <3>2, <3>3, Zenon
    <3>4. CASE f \notin (InTable \cup list)'
      <4>1. PICK h \in (InTable \cup list)' : h \in GExprs /\ SameResolved(f, h)'
        BY <3>1, <3>4, Zenon DEF Covering
      <4>2. SameResolved(e, h)'
        BY <1>1, <3>2, <4>1, ResolvedTransNext, Zenon
      <4>. QED
        BY <4>1, <4>2, Zenon
    <3>. QED
      BY <3>3, <3>4, Zenon
  <2>. QED
    BY <2>1, <2>2, Zenon
<1>4. ASSUME \A e \in GExprs' : ~gx'[e].prov, NEW e \in GExprs', ~gx'[e].dup
      PROVE  e \in (InTable \cup list)'
  <2>1. CASE e \notin GExprs
    BY <2>1, Zenon DEF Growing
  <2>2. CASE e \in GExprs
    <3>1. \A h \in GExprs : ~gx[h].prov
      BY <1>1, <1>4, Zenon DEF Kept
    <3>2. ~gx[e].dup
      BY <1>4, <2>2, Zenon DEF Kept
    <3>3. e \in InTable \cup list
      BY <2>2, <3>1, <3>2, Zenon DEF CoverInv
    <3>. QED
      BY <1>4, <3>1, <3>3, Zenon DEF Covering
  <2>. QED
    BY <2>1, <2>2, Zenon
<1>5. ASSUME NEW g \in Groups'
      PROVE  \E e \in GExprs' : ~gx'[e].dup /\ MasterIn(dup', gx'[e].home) = MasterIn(dup', g)
  <2>1. CASE g \notin Groups
    BY <2>1, Zenon DEF Growing
  <2>2. CASE g \in Groups
    <3>1. PICK e \in GExprs : ~gx[e].dup /\ MasterIn(dup, gx[e].home) = MasterIn(dup, g)
      BY <2>2, Zenon DEF CoverInv
    <3>2. MasterIn(dup', gx'[e].home) = MasterIn(dup', g)
      <4>1. gx[e].home \in Groups
        BY TypeFacts, Zenon
      <4>. QED
        BY <2>2, <3>1, <4>1, Zenon DEF Kept
    <3>3. CASE ~gx'[e].dup
      BY <1>1, <3>2, <3>3, Zenon
    <3>4. CASE gx'[e].dup
      <4>1. PICK f : DroppedFor(e, f)
        BY <3>1, <3>4, Zenon DEF Dropping
      <4>. QED
        BY <1>1, <3>2, <4>1, Zenon DEF DroppedFor
    <3>. QED
      BY <3>3, <3>4, Zenon
  <2>. QED
    BY <2>1, <2>2, Zenon
<1>. QED
  BY <1>3, <1>4, <1>5, Zenon DEF CoverInv
----------------------------------------------------------------------------
(* The state after the query has been inserted.                            *)
LEMMA InitInv == Init => IInv
<1> SUFFICES ASSUME Init PROVE IInv
  BY Zenon
<1>1. PICK n \in Nat \ {0} : n = Len(Query) /\ DOMAIN Query = 1..n
  BY MemoAssumption, Zenon
<1>2. ASSUME NEW g \in 1..n
      PROVE  /\ Query[g].op \in Ops /\ Arity(Query[g].op) \in Nat
             /\ Query[g].kids \in [1..Arity(Query[g].op) -> 1..n] /\ Query[g].kids \in Seq(Nat)
             /\ DOMAIN Query[g].kids = 1..Arity(Query[g].op)
  <2>1. Query[g].op \in Ops /\ Query[g].kids \in [1..Arity(Query[g].op) -> 1..(g - 1)]
    BY <1>1, MemoAssumption, Zenon DEF Tuples
  <2>2. Arity(Query[g].op) \in Nat
    BY <2>1, MemoAssumption, Zenon
  <2>3. Query[g].kids \in [1..Arity(Query[g].op) -> 1..n]
    <3>1. 1..(g - 1) \subseteq 1..n
      BY <1>1
    <3>. QED
      BY <2>1, <3>1, Zenon
  <2>4. Query[g].kids \in Seq(Nat)
    <3>1. Query[g].kids \in [1..Arity(Query[g].op) -> Nat]
      BY <1>1, <2>3
    <3>. QED
      BY <2>2, <3>1
  <2>. QED
    BY <2>1, <2>2, <2>3, <2>4, Zenon
<1>3. /\ dup = [g \in 1..n |-> None] /\ ulGExprs = [g \in 1..n |-> 1]
      /\ gx = [g \in 1..n |-> [op |-> Query[g].op, kids |-> Query[g].kids,
                                home |-> g, dup |-> FALSE, prov |-> FALSE]]
      /\ table = {<<BucketOf(Query[g].op, Query[g].kids), g>> : g \in 1..n}
      /\ root = n /\ pc = "Explore" /\ cursor = 0 /\ list = {} /\ fNewDupGroups = FALSE
  BY <1>1, Zenon DEF Init
<1>4. IsQueryMeaning(mean)
  <2>1. mean = CHOOSE m : IsQueryMeaning(m)
    BY Zenon DEF Init, IsQueryMeaning
  <2>. QED
    BY <2>1, QueryMeaning, Zenon
<1>5. Groups = 1..n /\ GExprs = 1..n /\ Len(dup) = n /\ Len(gx) = n
  BY <1>3 DEF Groups, GExprs
<1>6. ASSUME NEW e \in 1..n
      PROVE  /\ gx[e].op = Query[e].op /\ gx[e].kids = Query[e].kids /\ gx[e].home = e
             /\ gx[e].dup = FALSE /\ gx[e].prov = FALSE /\ gx[e] \in GExprType
             /\ dup[e] = None /\ ulGExprs[e] = 1
  BY <1>1, <1>2, <1>3 DEF GExprType
<1>7. dup \in Seq(Nat) /\ dup \in Chains(n)
  BY <1>1, <1>3 DEF Chains, None
<1>8. \A g \in 1..n : MasterIn(dup, g) = g
  BY <1>6, <1>7, MasterFacts, Zenon
<1>9. InTable = GExprs
  <2>1. ASSUME NEW e \in 1..n PROVE \E p \in table : p[2] = e
    <3>1. <<BucketOf(Query[e].op, Query[e].kids), e>> \in table
      BY <1>3, Zenon
    <3>. QED
      BY <3>1, Zenon
  <2>. QED
    BY <1>5, <2>1, Zenon DEF InTable
<1>10. mean \in Seq({mean[g] : g \in DOMAIN mean}) /\ Len(mean) = n
  <2>1. mean = [g \in 1..n |->
            Sem(Query[g].op, [i \in DOMAIN Query[g].kids |-> mean[Query[g].kids[i]]])]
    BY <1>1, <1>4, Zenon DEF IsQueryMeaning
  <2>2. DOMAIN mean = 1..n /\ mean = [g \in 1..n |-> mean[g]]
    BY <2>1
  <2>. QED
    BY <1>1, <2>2
<1>11. MemoType
  <2>1. \A p \in table : p = <<p[1], p[2]>> /\ p[2] \in GExprs /\ ~gx[p[2]].dup
    BY <1>3, <1>5, <1>6
  <2>2. gx \in Seq(GExprType)
    <3>1. gx = [e \in 1..n |-> gx[e]]
      BY <1>3, Zenon
    <3>2. \A e \in 1..n : gx[e] \in GExprType
      BY <1>6, Zenon
    <3>3. gx \in [1..n -> GExprType]
      BY <3>1, <3>2, Zenon
    <3>. QED
      BY <1>1, <3>3
  <2>3. \A e \in GExprs : /\ gx[e].kids \in Tuples(Arity(gx[e].op), Groups)
                           /\ gx[e].home \in Groups
    BY <1>2, <1>5, <1>6, Zenon DEF Tuples
  <2>4. ulGExprs \in Seq(Nat) /\ Len(ulGExprs) = Len(dup)
    BY <1>1, <1>3, <1>5
  <2>5. /\ list \subseteq GExprs /\ \A e \in list : ~gx[e].dup
        /\ pc \in {"Explore", "Insert", "Merge", "Rehash", "Done"}
        /\ pc # "Rehash" => list = {}
        /\ root \in Groups /\ cursor \in 0..Len(dup)
    BY <1>1, <1>3, <1>5
  <2>6. fNewDupGroups \in BOOLEAN
    BY <1>3, Zenon
  <2>. QED
    BY <1>5, <1>7, <1>10, <2>1, <2>2, <2>3, <2>4, <2>5, <2>6, Zenon DEF MemoType
<1>12. SameMeaning
  <2>1. ASSUME NEW e \in 1..n PROVE Meaning(gx[e].op, gx[e].kids) = mean[gx[e].home]
    <3>1. mean[e] = Sem(Query[e].op, [i \in DOMAIN Query[e].kids |-> mean[Query[e].kids[i]]])
      <4>1. e \in DOMAIN Query
        BY <1>1, Zenon
      <4>. QED
        BY <1>4, <4>1, Zenon DEF IsQueryMeaning
    <3>. QED
      BY <1>6, <3>1, Zenon DEF Meaning
  <2>. QED
    BY <1>5, <1>6, <2>1, Zenon DEF SameMeaning
<1>13. WorkInv
  BY <1>3, Zenon DEF WorkInv
<1>14. CountsExact
  <2>1. ASSUME NEW g \in 1..n PROVE Listed(g) = {g}
    BY <1>5, <1>6, Zenon DEF Listed
  <2>2. \A g \in 1..n : Cardinality({g}) = 1
    BY FS_Singleton, Zenon
  <2>. QED
    BY <1>5, <1>6, <2>1, <2>2, Zenon DEF CountsExact
<1>15. CoverInv
  <2>1. \A e \in GExprs : SameResolved(e, e)
    BY Zenon DEF SameResolved
  <2>. QED
    BY <1>5, <1>6, <1>8, <1>9, <2>1, Zenon DEF CoverInv
<1>16. NoAlternativeLost
  BY <1>5, <1>6, Zenon DEF NoAlternativeLost
<1>17. PhaseInv
  <2>1. ASSUME NEW g \in 1..n PROVE HashValue(Query[g].op, Query[g].kids) = BucketOf(Query[g].op, Query[g].kids)
    <3>1. \A i \in DOMAIN Query[g].kids : GroupHash(Query[g].kids[i]) = Query[g].kids[i]
      BY <1>2, <1>6, Zenon DEF GroupHash
    <3>2. [i \in DOMAIN Query[g].kids |-> GroupHash(Query[g].kids[i])] = Query[g].kids
      BY <1>2, <3>1, Zenon
    <3>. QED
      BY <3>2, Zenon DEF HashValue
  <2>2. BucketsCurrent
    BY <1>3, <1>6, <2>1 DEF BucketsCurrent
  <2>. QED
    BY <1>1, <1>3, <1>5, <1>6, <2>2 DEF PhaseInv
<1>. QED
  BY <1>11, <1>12, <1>13, <1>14, <1>15, <1>16, <1>17, Zenon DEF IInv
----------------------------------------------------------------------------
(* Steps that leave the groups and the table as they are.                  *)
LEMMA SameGraph ==
    ASSUME IInv, UNCHANGED <<graph, root, list>>, cursor' \in 0..Len(dup), UNCHANGED fNewDupGroups,
           pc' \in {"Explore", "Insert", "Merge", "Rehash", "Done"}, pc' # "Rehash" => list = {},
           WorkInv', PhaseInv'
    PROVE  IInv'
<1>1. /\ gx' = gx /\ dup' = dup /\ ulGExprs' = ulGExprs /\ mean' = mean /\ table' = table
      /\ root' = root /\ list' = list /\ fNewDupGroups' = fNewDupGroups
  BY Zenon DEF graph
<1>2. GExprs' = GExprs /\ Groups' = Groups
  BY <1>1, Zenon DEF GExprs, Groups
<1>3. MemoType'
  BY <1>1, <1>2, Zenon DEF IInv, MemoType
<1>4. SameMeaning'
  BY <1>1, <1>2, Zenon DEF IInv, SameMeaning, Meaning
<1>5. CountsExact'
  BY <1>1, <1>2, Zenon DEF IInv, CountsExact, Listed
<1>6. \A e, f : SameResolved(e, f)' <=> SameResolved(e, f)
  BY <1>1, Zenon DEF SameResolved
<1>7. InTable' = InTable
  BY <1>1, <1>2, Zenon DEF InTable
<1>8. CoverInv'
  BY <1>1, <1>2, <1>6, <1>7, Zenon DEF IInv, CoverInv
<1>9. NoAlternativeLost'
  BY <1>1, <1>2, <1>6, Zenon DEF IInv, NoAlternativeLost
<1>. QED
  BY <1>3, <1>4, <1>5, <1>8, <1>9, Zenon DEF IInv

(* The conjuncts of PhaseInv that a step without new links or expressions  *)
(* cannot disturb.                                                         *)
LEMMA SamePhase ==
    ASSUME UNCHANGED <<graph, root>>
    PROVE  /\ BucketsCurrent' <=> BucketsCurrent
           /\ OneGroupPerClass' <=> OneGroupPerClass
           /\ InTable' = InTable /\ Groups' = Groups /\ GExprs' = GExprs
           /\ \A e, f : SameResolved(e, f)' <=> SameResolved(e, f)
           /\ gx' = gx /\ dup' = dup /\ ulGExprs' = ulGExprs /\ mean' = mean
           /\ table' = table /\ root' = root
<1>1. /\ gx' = gx /\ dup' = dup /\ ulGExprs' = ulGExprs /\ mean' = mean /\ table' = table
      /\ root' = root
  BY Zenon DEF graph
<1>2. GExprs' = GExprs /\ Groups' = Groups
  BY <1>1, Zenon DEF GExprs, Groups
<1>3. BucketsCurrent' <=> BucketsCurrent
  BY <1>1, Zenon DEF BucketsCurrent, HashValue, GroupHash
<1>4. OneGroupPerClass' <=> OneGroupPerClass
  BY <1>1, <1>2, Zenon DEF OneGroupPerClass
<1>5. InTable' = InTable
  BY <1>1, <1>2, Zenon DEF InTable
<1>6. \A e, f : SameResolved(e, f)' <=> SameResolved(e, f)
  BY <1>1, Zenon DEF SameResolved
<1>. QED
  BY <1>1, <1>2, <1>3, <1>4, <1>5, <1>6, Zenon

(* InsertXformResult starts with an alternative that means what its target *)
(* group means.                                                            *)
LEMMA XformResultInv ==
    ASSUME IInv, pc = "Explore", NEW target \in Groups, ulGExprs[target] > 0,
           NEW op \in Ops, NEW kids \in Tuples(Arity(op), Groups \cup {None}),
           NEW fop, NEW fkids, NEW prov \in BOOLEAN,
           fkids = kids \/ (fop \in Ops /\ fkids \in Tuples(Arity(fop), Groups)),
           XformResult(target, op, kids, fop, fkids, prov)
    PROVE  IInv'
<1>1. /\ work' = [target |-> target, op |-> op, kids |-> kids, fop |-> fop,
                  fkids |-> fkids, prov |-> prov]
      /\ pc' = "Insert" /\ UNCHANGED <<graph, root, list>> /\ cursor' = cursor
      /\ UNCHANGED fNewDupGroups
  BY Zenon DEF XformResult
<1>2. /\ work'.target = target /\ work'.op = op /\ work'.kids = kids /\ work'.fop = fop
      /\ work'.fkids = fkids /\ work'.prov = prov
  BY <1>1, Zenon
<1>3. Groups' = Groups /\ mean' = mean
  BY <1>1, SamePhase, Zenon
<1>4. Fresh' => fop \in Ops /\ fkids \in Tuples(Arity(fop), Groups)
  <2>1. kids = fkids => \A i \in DOMAIN kids : kids[i] # None
    BY Zenon DEF XformResult
  <2>. QED
    BY <1>2, <2>1, Zenon DEF Fresh
<1>5. mean'[work'.target] =
          Sem(work'.op, [i \in DOMAIN work'.kids |->
                            IF work'.kids[i] = None THEN Meaning(work.fop, work.fkids)'
                            ELSE mean'[work'.kids[i]]])
  <2>1. mean[target] =
          Sem(op, [i \in DOMAIN kids |-> IF kids[i] = None THEN Meaning(fop, fkids)
                                         ELSE mean[kids[i]]])
    BY Zenon DEF XformResult
  <2>2. Meaning(work.fop, work.fkids)' = Meaning(fop, fkids)
    BY <1>2, <1>3, Zenon DEF Meaning
  <2>. QED
    BY <1>2, <1>3, <2>1, <2>2, Zenon
<1>6. WorkInv'
  <2>1. /\ work' = [target |-> work'.target, op |-> work'.op, kids |-> work'.kids,
                    fop |-> work'.fop, fkids |-> work'.fkids, prov |-> work'.prov]
    BY <1>1, <1>2, Zenon
  <2>2. /\ work'.target \in Groups' /\ work'.op \in Ops /\ work'.prov \in BOOLEAN
        /\ work'.kids \in Tuples(Arity(work'.op), Groups' \cup {None})
        /\ Fresh' => work'.fop \in Ops /\ work'.fkids \in Tuples(Arity(work'.fop), Groups')
    BY <1>2, <1>3, <1>4, Zenon
  <2>. QED
    BY <1>5, <2>1, <2>2, Zenon DEF WorkInv
<1>7. PhaseInv'
  BY <1>1, <1>2, SamePhase, Zenon DEF IInv, PhaseInv
<1>8. list = {} /\ cursor \in 0..Len(dup)
  BY Zenon DEF IInv, MemoType
<1>. QED
  BY <1>1, <1>6, <1>7, <1>8, SameGraph, Zenon

(* A job that follows inputs (CGroupExpression::operator[]) only meets     *)
(* groups that have expressions.                                           *)
NonEmpty == {g \in Groups : ulGExprs[g] > 0}

(* The inputs that a job reads are groups with expressions.                *)
LEMMA ChildrenNonEmpty ==
    ASSUME MemoType, PhaseInv, pc \in {"Explore", "Insert", "Done"}, NEW g
    PROVE  Children(g) \subseteq NonEmpty
<1>1. ASSUME NEW e \in Listed(g), NEW i \in DOMAIN gx[e].kids PROVE Child(gx[e].kids[i]) \in NonEmpty
  <2>1. gx[e].kids[i] \in Groups
    BY TypeFacts, Zenon DEF Listed
  <2>2. PICK k \in Groups : k = gx[e].kids[i]
    BY <2>1, Zenon
  <2>3. ulGExprs[k] \in Nat
    BY TypeFacts, Zenon
  <2>4. CASE ulGExprs[k] = 0
    <3>1. dup[k] \in Groups /\ ulGExprs[dup[k]] > 0
      BY <2>4, GroupMasters, Zenon DEF PhaseInv
    <3>. QED
      BY <2>2, <2>4, <3>1, Zenon DEF Child, NonEmpty
  <2>5. CASE ulGExprs[k] # 0
    BY <2>2, <2>3, <2>5 DEF Child, NonEmpty
  <2>. QED
    BY <2>4, <2>5, Zenon
<1>. QED
  BY <1>1 DEF Children

(* So are all groups that are reached through inputs.                      *)
LEMMA DescendantsNonEmpty ==
    ASSUME MemoType, PhaseInv, pc \in {"Explore", "Insert", "Done"}, NEW g
    PROVE  Descendants(g) \subseteq NonEmpty
<1>1. Children(g) \subseteq NonEmpty /\ \A h \in NonEmpty : Children(h) \subseteq NonEmpty
  BY ChildrenNonEmpty, Zenon
<1>2. Len(dup) \in Nat
  BY TypeFacts, Zenon
<1>. QED
  BY <1>1, <1>2, DescendantsIn, Zenon

(* CEngine::InsertXformResult's choice of an alternative keeps the         *)
(* invariant.                                                              *)
LEMMA ExploreInv == IInv /\ Explore => IInv'
<1> SUFFICES ASSUME IInv, Explore PROVE IInv'
  BY Zenon
<1>1. pc = "Explore" /\ MemoType /\ PhaseInv
  BY Zenon DEF IInv, Explore
<1>2. PICK target \in {root} \cup Descendants(root), op \in Ops :
        \E kids \in Tuples(Arity(op), Descendants(target) \cup {None}), prov \in BOOLEAN :
             \/ XformResult(target, op, kids, op, kids, prov)
             \/ \E fop \in Ops : \E fkids \in Tuples(Arity(fop), Descendants(target)) :
                   XformResult(target, op, kids, fop, fkids, prov)
  BY Zenon DEF Explore
<1>3. PICK kids \in Tuples(Arity(op), Descendants(target) \cup {None}), prov \in BOOLEAN :
             \/ XformResult(target, op, kids, op, kids, prov)
             \/ \E fop \in Ops : \E fkids \in Tuples(Arity(fop), Descendants(target)) :
                   XformResult(target, op, kids, fop, fkids, prov)
  BY <1>2, Zenon
<1>4. PICK B : B = Descendants(target)
  BY Zenon
<1>5. target \in Groups /\ ulGExprs[target] > 0 /\ B \subseteq Groups
  <2>1. Descendants(root) \subseteq NonEmpty /\ B \subseteq NonEmpty
    BY <1>1, <1>4, DescendantsNonEmpty, Zenon
  <2>2. root \in NonEmpty
    BY <1>1, Zenon DEF MemoType, PhaseInv, NonEmpty
  <2>. QED
    BY <2>1, <2>2, Zenon DEF NonEmpty
<1>6. kids \in Tuples(Arity(op), Groups \cup {None})
  BY <1>4, <1>5, Zenon DEF Tuples
<1>7. CASE XformResult(target, op, kids, op, kids, prov)
  BY <1>1, <1>5, <1>6, <1>7, XformResultInv, Zenon
<1>8. CASE \E fop \in Ops : \E fkids \in Tuples(Arity(fop), Descendants(target)) :
             XformResult(target, op, kids, fop, fkids, prov)
  <2>1. PICK fop \in Ops : \E fkids \in Tuples(Arity(fop), B) :
             XformResult(target, op, kids, fop, fkids, prov)
    BY <1>4, <1>8, Zenon
  <2>2. PICK fkids \in Tuples(Arity(fop), B) : XformResult(target, op, kids, fop, fkids, prov)
    BY <2>1, Zenon
  <2>3. fkids \in Tuples(Arity(fop), Groups)
    BY <1>5, Zenon DEF Tuples
  <2>. QED
    BY <1>1, <1>5, <1>6, <2>2, <2>3, XformResultInv, Zenon
<1>. QED
  BY <1>3, <1>7, <1>8, Zenon

(* The start of CMemo::GroupMerge keeps the invariant.                     *)
LEMMA GroupMergeInv == IInv /\ GroupMerge => IInv'
<1> SUFFICES ASSUME IInv, GroupMerge PROVE IInv'
  BY Zenon
<1>1. /\ pc = "Explore" /\ pc' = "Merge" /\ cursor' = Len(dup) /\ UNCHANGED <<graph, root, list>>
      /\ UNCHANGED fNewDupGroups /\ UNCHANGED work
  BY Zenon DEF GroupMerge
<1>2. Len(dup) \in Nat /\ Groups = 1..Len(dup) /\ list = {}
  BY <1>1, TypeFacts, Zenon DEF IInv, MemoType
<1>3. \A g \in Groups : ~(g > Len(dup))
  BY <1>2
<1>4. WorkInv'
  BY <1>1, Zenon DEF WorkInv
<1>5. PhaseInv'
  BY <1>1, <1>3, SamePhase, Zenon DEF PhaseInv
<1>6. cursor' \in 0..Len(dup)
  BY <1>1, <1>2
<1>. QED
  BY <1>1, <1>2, <1>4, <1>5, <1>6, SameGraph, Zenon

(* The end of CMemo::FRehash, which may ask for another round, keeps the   *)
(* invariant.                                                              *)
LEMMA RehashDoneInv == IInv /\ RehashDone => IInv'
<1> SUFFICES ASSUME IInv, RehashDone PROVE IInv'
  BY Zenon
<1>1. /\ pc = "Rehash" /\ list = {} /\ UNCHANGED <<graph, root, list>> /\ UNCHANGED fNewDupGroups
      /\ pc' = IF fNewDupGroups THEN "Merge" ELSE "Done"
      /\ cursor' = IF fNewDupGroups THEN Len(dup) ELSE 0
  BY Zenon DEF RehashDone
<1>2. Len(dup) \in Nat /\ Groups = 1..Len(dup) /\ root \in Groups
  BY TypeFacts, Zenon DEF IInv, MemoType
<1>3. WorkInv'
  BY <1>1, Zenon DEF WorkInv
<1>4. PhaseInv'
  <2>1. CASE fNewDupGroups
    <3>1. pc' = "Merge" /\ cursor' = Len(dup) /\ \A g \in Groups : ~(g > Len(dup))
      BY <1>1, <1>2, <2>1
    <3>. QED
      BY <1>1, <3>1, SamePhase, Zenon DEF PhaseInv
  <2>2. CASE ~fNewDupGroups
    <3>1. pc' = "Done"
      BY <1>1, <2>2, Zenon
    <3>2. /\ OneGroupPerClass /\ dup[root] = None /\ BucketsCurrent
          /\ \A e, f \in InTable : SameResolved(e, f) => e = f
      BY <1>1, <2>2, Zenon DEF IInv, PhaseInv
    <3>3. ulGExprs[root] > 0
      BY <1>2, <3>2, TypeFacts DEF IInv, OneGroupPerClass
    <3>4. ASSUME NEW g \in Groups, ulGExprs[g] = 0 PROVE dup[g] # None /\ ulGExprs[dup[g]] > 0
      <4>1. dup[g] # None /\ dup[dup[g]] = None
        BY <3>2, <3>4, Zenon DEF OneGroupPerClass
      <4>2. dup[g] \in Groups
        BY <4>1, GroupMasters, Zenon DEF IInv
      <4>3. ulGExprs[dup[g]] # 0 /\ ulGExprs[dup[g]] \in Nat
        BY <3>2, <4>1, <4>2, TypeFacts, Zenon DEF IInv, OneGroupPerClass
      <4>. QED
        BY <4>1, <4>3
    <3>. QED
      BY <1>1, <3>1, <3>2, <3>3, <3>4, SamePhase, Zenon DEF PhaseInv
  <2>. QED
    BY <2>1, <2>2, Zenon
<1>5. cursor' \in 0..Len(dup) /\ pc' \in {"Explore", "Insert", "Merge", "Rehash", "Done"}
  BY <1>1, <1>2
<1>. QED
  BY <1>1, <1>3, <1>4, <1>5, SameGraph, Zenon

(* The step to the next search stage keeps the invariant.                  *)
LEMMA NextStageInv == IInv /\ NextStage => IInv'
<1> SUFFICES ASSUME IInv, NextStage PROVE IInv'
  BY Zenon
<1>1. /\ pc = "Done" /\ pc' = "Explore" /\ cursor' = cursor /\ UNCHANGED <<graph, root, list>>
      /\ UNCHANGED fNewDupGroups
  BY Zenon DEF NextStage
<1>2. list = {} /\ cursor \in 0..Len(dup)
  BY <1>1, Zenon DEF IInv, MemoType
<1>3. WorkInv' /\ PhaseInv'
  BY <1>1, SamePhase, Zenon DEF IInv, WorkInv, PhaseInv
<1>. QED
  BY <1>1, <1>2, <1>3, SameGraph, Zenon

(* So does a step that changes nothing.                                    *)
LEMMA StutterInv == IInv /\ UNCHANGED vars => IInv'
<1> SUFFICES ASSUME IInv, UNCHANGED vars PROVE IInv'
  BY Zenon
<1>1. /\ UNCHANGED <<graph, root, list>> /\ pc' = pc /\ work' = work /\ cursor' = cursor
      /\ UNCHANGED fNewDupGroups
  BY Zenon DEF vars
<1>2. cursor \in 0..Len(dup) /\ pc \in {"Explore", "Insert", "Merge", "Rehash", "Done"}
  BY Zenon DEF IInv, MemoType
<1>3. pc # "Rehash" => list = {}
  BY Zenon DEF IInv, MemoType
<1>4. WorkInv'
  BY <1>1, SamePhase, Zenon DEF IInv, WorkInv, Fresh, Meaning
<1>5. PhaseInv'
  BY <1>1, SamePhase, Zenon DEF IInv, PhaseInv
<1>. QED
  BY <1>1, <1>2, <1>3, <1>4, <1>5, SameGraph, Zenon
----------------------------------------------------------------------------
(* What the second CMemo::PgroupInsert leaves alone, and what it adds: an  *)
(* expression x, and the target group if that is new.                      *)
InsertedExpr(target, op, kids, prov, x) ==
    /\ x \notin GExprs /\ GExprs' = GExprs \cup {x} /\ \A e \in GExprs : gx'[e] = gx[e]
    /\ gx'[x].op = op /\ gx'[x].kids = kids /\ gx'[x].home = target
    /\ gx'[x].dup = FALSE /\ gx'[x].prov = prov
    /\ Groups' = Groups \cup {target}
    /\ \A g \in Groups : /\ dup'[g] = dup[g] /\ mean'[g] = mean[g]
                         /\ MasterIn(dup', g) = MasterIn(dup, g)
                         /\ ulGExprs'[g] = IF g = target THEN ulGExprs[g] + 1 ELSE ulGExprs[g]
    /\ target \notin Groups => /\ dup'[target] = None /\ mean'[target] = Meaning(op, kids)
                               /\ ulGExprs'[target] = 1
    /\ table' = table \cup {<<HashValue(op, kids), x>>}

(* What CMemo::PgroupInsert does when it finds no duplicate: one new       *)
(* expression, in a new group or in an old one, and one new entry of the   *)
(* table.                                                                  *)
LEMMA InsertIntoFacts ==
    ASSUME MemoType, NEW target, target \in Groups \/ target = Len(dup) + 1,
           NEW op \in Ops, NEW kids \in Tuples(Arity(op), Groups), NEW prov \in BOOLEAN,
           InsertInto(target, op, kids, prov)
    PROVE  /\ InsertedExpr(target, op, kids, prov, Len(gx) + 1)
           /\ gx' \in Seq(GExprType) /\ dup' \in Seq(Nat) /\ dup' \in Chains(Len(dup'))
           /\ ulGExprs' \in Seq(Nat) /\ Len(ulGExprs') = Len(dup')
           /\ mean' \in Seq({mean'[g] : g \in DOMAIN mean'}) /\ Len(mean') = Len(dup')
           /\ Len(dup) <= Len(dup') /\ target \in Groups'
<1> DEFINE n == Len(dup)
           x == Len(gx) + 1
           r == [op |-> op, kids |-> kids, home |-> target, dup |-> FALSE, prov |-> prov]
<1>1. /\ n \in Nat /\ Groups = 1..n /\ dup \in Chains(n) /\ DOMAIN dup = 1..n
      /\ Len(gx) \in Nat /\ GExprs = 1..Len(gx) /\ DOMAIN ulGExprs = 1..n /\ DOMAIN mean = 1..n
  BY TypeFacts, Zenon DEF Groups
<1>2. kids \in Seq(Nat) /\ target \in Nat
  <2>1. Arity(op) \in Nat /\ kids \in [1..Arity(op) -> Nat]
    BY <1>1, MemoAssumption DEF Tuples
  <2>. QED
    BY <1>1, <2>1
<1>3. r \in GExprType
  BY <1>2, Zenon DEF GExprType
<1>4. gx' = Append(gx, r)
  BY Zenon DEF InsertInto
<1>5. /\ gx' \in Seq(GExprType) /\ x \notin GExprs /\ GExprs' = GExprs \cup {x}
      /\ gx'[x] = r /\ \A e \in GExprs : gx'[e] = gx[e]
  <2>1. gx \in Seq(GExprType)
    BY Zenon DEF MemoType
  <2>. HIDE DEF r
  <2>2. gx' \in Seq(GExprType) /\ Len(gx') = Len(gx) + 1
    BY <1>3, <1>4, <2>1
  <2>3. gx'[x] = r /\ \A e \in GExprs : gx'[e] = gx[e]
    BY <1>1, <1>3, <1>4, <2>1
  <2>4. GExprs' = 1..(Len(gx) + 1)
    BY <2>2 DEF GExprs
  <2>. QED
    BY <1>1, <2>2, <2>3, <2>4
<1>6. /\ gx'[x].op = op /\ gx'[x].kids = kids /\ gx'[x].home = target
      /\ gx'[x].dup = FALSE /\ gx'[x].prov = prov
  BY <1>5
<1>7. table' = table \cup {<<HashValue(op, kids), x>>}
  BY Zenon DEF InsertInto
<1>8. CASE target \in Groups
  <2>1. dup' = dup /\ mean' = mean /\ ulGExprs' = [ulGExprs EXCEPT ![target] = @ + 1]
    BY <1>8, Zenon DEF InsertInto
  <2>2. Groups' = Groups \cup {target} /\ target \in Groups'
    BY <1>8, <2>1, Zenon DEF Groups
  <2>3. ulGExprs \in Seq(Nat) /\ Len(ulGExprs) = n
    BY Zenon DEF MemoType
  <2>4. ulGExprs' \in Seq(Nat) /\ Len(ulGExprs') = n
    BY <1>1, <1>8, <2>1, <2>3
  <2>5. \A g \in Groups : ulGExprs'[g] = IF g = target THEN ulGExprs[g] + 1 ELSE ulGExprs[g]
    BY <1>1, <1>8, <2>1, <2>3, Zenon
  <2>6. /\ dup' \in Seq(Nat) /\ dup' \in Chains(Len(dup')) /\ Len(mean') = Len(dup')
        /\ mean' \in Seq({mean'[g] : g \in DOMAIN mean'})
    BY <2>1, Zenon DEF MemoType
  <2>7. \A g \in Groups : dup'[g] = dup[g] /\ mean'[g] = mean[g] /\ MasterIn(dup', g) = MasterIn(dup, g)
    BY <2>1, Zenon
  <2>8. Len(dup') = n
    BY <2>1
  <2>9. InsertedExpr(target, op, kids, prov, x)
    BY <1>5, <1>6, <1>7, <1>8, <2>2, <2>5, <2>7, Zenon DEF InsertedExpr
  <2>. QED
    BY <1>1, <1>5, <2>2, <2>4, <2>6, <2>8, <2>9
<1>9. CASE target \notin Groups
  <2>1. /\ target = n + 1 /\ dup' = Append(dup, None) /\ mean' = Append(mean, Meaning(op, kids))
        /\ ulGExprs' = Append(ulGExprs, 1)
    BY <1>9, Zenon DEF InsertInto
  <2>2. dup \in Seq(Nat) /\ ulGExprs \in Seq(Nat) /\ Len(ulGExprs) = n /\ Len(mean) = n
    BY Zenon DEF MemoType
  <2>3. /\ dup' \in Seq(Nat) /\ Len(dup') = n + 1 /\ dup'[n + 1] = None
        /\ \A g \in 1..n : dup'[g] = dup[g]
    BY <1>1, <2>1, <2>2 DEF None
  <2>4. /\ ulGExprs' \in Seq(Nat) /\ Len(ulGExprs') = n + 1 /\ ulGExprs'[n + 1] = 1
        /\ \A g \in 1..n : ulGExprs'[g] = ulGExprs[g]
    BY <1>1, <2>1, <2>2
  <2>5. /\ mean' \in Seq({mean'[g] : g \in DOMAIN mean'}) /\ Len(mean') = n + 1
        /\ mean'[n + 1] = Meaning(op, kids) /\ \A g \in 1..n : mean'[g] = mean[g]
    <3>1. PICK v : v = Meaning(op, kids)
      BY Zenon
    <3>2. PICK V : V = {mean[g] : g \in DOMAIN mean} \cup {v}
      BY Zenon
    <3>3. mean \in Seq(V) /\ v \in V
      <4>1. mean \in Seq({mean[g] : g \in DOMAIN mean})
        BY Zenon DEF MemoType
      <4>. QED
        BY <3>2, <4>1
    <3>4. mean' = Append(mean, v)
      BY <2>1, <3>1, Zenon
    <3>5. mean' \in Seq(V) /\ Len(mean') = n + 1 /\ mean'[n + 1] = v /\ \A g \in 1..n : mean'[g] = mean[g]
      BY <1>1, <2>2, <3>3, <3>4
    <3>6. mean' \in Seq({mean'[g] : g \in DOMAIN mean'})
      BY <3>5
    <3>. QED
      BY <3>1, <3>5, <3>6, Zenon
  <2>6. Grown(n, dup, dup')
    <3>1. DOMAIN dup' = 1..(n + 1) /\ dup' = [g \in 1..(n + 1) |-> dup'[g]]
      BY <1>1, <2>3
    <3>2. ASSUME NEW g \in 1..(n + 1) PROVE dup'[g] \in 0..(n + 1)
      BY <1>1, <2>3 DEF Chains, None
    <3>. QED
      BY <2>3, <3>1, <3>2, Zenon DEF Grown
  <2>7. dup' \in Chains(n + 1) /\ \A g \in 1..n : MasterIn(dup', g) = MasterIn(dup, g)
    BY <1>1, <2>6, GrowMasters, Zenon
  <2>8. Groups' = Groups \cup {target} /\ target \in Groups'
    BY <1>1, <2>1, <2>3 DEF Groups
  <2>9. \A g \in Groups : g # target
    BY <1>9, Zenon
  <2>10. InsertedExpr(target, op, kids, prov, x)
    BY <1>1, <1>5, <1>6, <1>7, <2>1, <2>3, <2>4, <2>5, <2>7, <2>8, <2>9, Zenon DEF InsertedExpr
  <2>. QED
    BY <1>1, <1>5, <2>3, <2>4, <2>5, <2>7, <2>8, <2>10
<1>. QED
  BY <1>8, <1>9, Zenon

(* The second CMemo::PgroupInsert of an expression that means what its     *)
(* target group means.  The target has expressions, or is new: the hash of *)
(* no group changes.                                                       *)
LEMMA InsertIntoInv ==
    ASSUME IInv, pc = "Insert", pc' \in {"Explore", "Insert"},
           NEW target, target \in Groups \/ target = Len(dup) + 1,
           NEW op \in Ops, NEW kids \in Tuples(Arity(op), Groups), NEW prov \in BOOLEAN,
           target \in Groups => mean[target] = Meaning(op, kids) /\ ulGExprs[target] > 0,
           InsertInto(target, op, kids, prov), UNCHANGED <<root, cursor, list, fNewDupGroups>>,
           WorkInv', pc' = "Insert" => work'.target \in Groups /\ ulGExprs[work'.target] > 0
    PROVE  IInv'
<1>0. PICK x : x = Len(gx) + 1
  BY Zenon
<1>1. MemoType /\ SameMeaning /\ CountsExact /\ CoverInv /\ NoAlternativeLost /\ PhaseInv
  BY Zenon DEF IInv
<1>2. InsertedExpr(target, op, kids, prov, x)
  BY <1>0, <1>1, InsertIntoFacts, Zenon
<1>3. /\ x \notin GExprs /\ GExprs' = GExprs \cup {x} /\ \A e \in GExprs : gx'[e] = gx[e]
      /\ gx'[x].op = op /\ gx'[x].kids = kids /\ gx'[x].home = target
      /\ gx'[x].dup = FALSE /\ gx'[x].prov = prov
      /\ Groups' = Groups \cup {target}
  BY <1>2, Zenon DEF InsertedExpr
<1>4. \A g \in Groups : /\ dup'[g] = dup[g] /\ mean'[g] = mean[g]
                        /\ MasterIn(dup', g) = MasterIn(dup, g)
                        /\ ulGExprs'[g] = IF g = target THEN ulGExprs[g] + 1 ELSE ulGExprs[g]
  BY <1>2, Zenon DEF InsertedExpr
<1>5. target \notin Groups => /\ dup'[target] = None /\ mean'[target] = Meaning(op, kids)
                              /\ ulGExprs'[target] = 1
  BY <1>2, Zenon DEF InsertedExpr
<1>6. table' = table \cup {<<HashValue(op, kids), x>>}
  BY <1>2, Zenon DEF InsertedExpr
<1>7. Typed /\ list = {} /\ root' = root /\ cursor' = cursor /\ list' = list /\ fNewDupGroups' = fNewDupGroups
  BY <1>1, TypedNow, Zenon DEF MemoType
<1>8. kids \in [1..Arity(op) -> Groups] /\ Arity(op) \in Nat /\ DOMAIN kids = 1..Arity(op)
  BY MemoAssumption, Zenon DEF Tuples
<1>9. MemoType'
  <2>1. /\ gx' \in Seq(GExprType) /\ dup' \in Seq(Nat) /\ dup' \in Chains(Len(dup'))
        /\ ulGExprs' \in Seq(Nat) /\ Len(ulGExprs') = Len(dup')
        /\ mean' \in Seq({mean'[g] : g \in DOMAIN mean'}) /\ Len(mean') = Len(dup')
        /\ Len(dup) <= Len(dup')
    BY <1>1, InsertIntoFacts, Zenon
  <2>2. ASSUME NEW e \in GExprs'
        PROVE  gx'[e].kids \in Tuples(Arity(gx'[e].op), Groups') /\ gx'[e].home \in Groups'
    <3>1. CASE e = x
      <4>1. kids \in [1..Arity(op) -> Groups']
        BY <1>3, <1>8, Zenon
      <4>. QED
        BY <1>3, <3>1, <4>1, Zenon DEF Tuples
    <3>2. CASE e \in GExprs
      <4>1. gx[e].kids \in [1..Arity(gx[e].op) -> Groups] /\ gx[e].home \in Groups
        BY <1>7, <3>2, Zenon DEF Typed
      <4>2. gx[e].kids \in [1..Arity(gx[e].op) -> Groups']
        BY <1>3, <4>1, Zenon
      <4>. QED
        BY <1>3, <3>2, <4>1, <4>2, Zenon DEF Tuples
    <3>. QED
      BY <1>3, <3>1, <3>2, Zenon
  <2>3. ASSUME NEW p \in table' PROVE p = <<p[1], p[2]>> /\ p[2] \in GExprs' /\ ~gx'[p[2]].dup
    <3>1. CASE p = <<HashValue(op, kids), x>>
      BY <1>3, <3>1, Zenon
    <3>2. CASE p \in table
      <4>1. p = <<p[1], p[2]>> /\ p[2] \in GExprs /\ ~gx[p[2]].dup
        BY <1>1, <3>2, Zenon DEF MemoType
      <4>. QED
        BY <1>3, <4>1, Zenon
    <3>. QED
      BY <1>6, <3>1, <3>2, Zenon
  <2>4. /\ list' \subseteq GExprs' /\ (\A e \in list' : ~gx'[e].dup)
        /\ pc' \in {"Explore", "Insert", "Merge", "Rehash", "Done"}
        /\ pc' # "Rehash" => list' = {}
    BY <1>7, Zenon
  <2>5. root' \in Groups' /\ cursor' \in 0..Len(dup')
    BY <1>1, <1>3, <1>7, <2>1 DEF MemoType
  <2>6. fNewDupGroups' \in BOOLEAN
    BY <1>1, <1>7, Zenon DEF MemoType
  <2>. QED
    BY <2>1, <2>2, <2>3, <2>4, <2>5, <2>6, Zenon DEF MemoType
<1>10. \A o, k : k \in [DOMAIN k -> Groups] => Meaning(o, k)' = Meaning(o, k)
  <2>1. ASSUME NEW o, NEW k, k \in [DOMAIN k -> Groups] PROVE Meaning(o, k)' = Meaning(o, k)
    <3>1. [i \in DOMAIN k |-> mean'[k[i]]] = [i \in DOMAIN k |-> mean[k[i]]]
      BY <1>4, <2>1, Zenon
    <3>. QED
      BY <3>1, Zenon DEF Meaning
  <2>. QED
    BY <2>1, Zenon
<1>11. SameMeaning'
  <2>1. ASSUME NEW e \in GExprs' PROVE Meaning(gx[e].op, gx[e].kids)' = mean'[gx'[e].home]
    <3>1. CASE e = x
      <4>1. Meaning(op, kids)' = Meaning(op, kids)
        BY <1>8, <1>10, Zenon
      <4>2. mean'[target] = Meaning(op, kids)
        BY <1>4, <1>5, Zenon
      <4>3. Meaning(gx[x].op, gx[x].kids)' = Meaning(op, kids)'
        BY <1>3, Zenon DEF Meaning
      <4>. QED
        BY <1>3, <3>1, <4>1, <4>2, <4>3, Zenon
    <3>2. CASE e \in GExprs
      <4>1. gx[e].kids \in [DOMAIN gx[e].kids -> Groups] /\ gx[e].home \in Groups
        BY <1>7, <3>2, Zenon DEF Typed
      <4>2. Meaning(gx[e].op, gx[e].kids) = mean[gx[e].home]
        BY <1>1, <3>2, Zenon DEF SameMeaning
      <4>3. PICK o, k : o = gx[e].op /\ k = gx[e].kids
        BY Zenon
      <4>4. Meaning(o, k)' = Meaning(o, k)
        BY <1>10, <4>1, <4>3, Zenon
      <4>5. Meaning(gx[e].op, gx[e].kids)' = Meaning(o, k)'
        BY <1>3, <3>2, <4>3, Zenon DEF Meaning
      <4>. QED
        BY <1>3, <1>4, <3>2, <4>1, <4>2, <4>3, <4>4, <4>5
    <3>. QED
      BY <1>3, <3>1, <3>2, Zenon
  <2>2. ASSUME NEW g \in Groups', dup'[g] # None PROVE mean'[dup'[g]] = mean'[g]
    <3>1. g \in Groups
      BY <1>3, <1>5, <2>2, Zenon
    <3>2. dup'[g] = dup[g] /\ dup[g] \in Groups /\ mean[dup[g]] = mean[g]
      BY <1>1, <1>4, <2>2, <3>1, GroupMasters, Zenon DEF SameMeaning
    <3>. QED
      BY <1>4, <3>1, <3>2
  <2>. QED
    BY <2>1, <2>2, Zenon DEF SameMeaning
<1>12. CountsExact'
  <2>1. ASSUME NEW g \in Groups, g # target PROVE Listed(g)' = Listed(g)
    BY <1>3, <2>1, Zenon DEF Listed
  <2>2. target \in Groups => Listed(target)' = Listed(target) \cup {x} /\ x \notin Listed(target)
    BY <1>3, Zenon DEF Listed
  <2>3. target \notin Groups => Listed(target)' = {x}
    BY <1>3, <1>7, Zenon DEF Listed, Typed
  <2>4. IsFiniteSet(Listed(target))
    <3>1. IsFiniteSet(GExprs)
      BY <1>7, FiniteMemo, Zenon
    <3>2. Listed(target) \subseteq GExprs
      BY Zenon DEF Listed
    <3>. QED
      BY <3>1, <3>2, FS_Subset, Zenon
  <2>5. target \in Groups => Cardinality(Listed(target)') = Cardinality(Listed(target)) + 1
    BY <2>2, <2>4, FS_AddElement
  <2>6. Cardinality({x}) = 1
    BY FS_Singleton, Zenon
  <2>7. ASSUME NEW g \in Groups' PROVE ulGExprs'[g] = Cardinality(Listed(g)')
    <3>1. CASE g = target /\ g \in Groups
      BY <1>1, <1>4, <2>5, <3>1, Zenon DEF CountsExact
    <3>2. CASE g = target /\ g \notin Groups
      BY <1>5, <2>3, <2>6, <3>2, Zenon
    <3>3. CASE g # target
      BY <1>1, <1>3, <1>4, <2>1, <3>3 DEF CountsExact
    <3>. QED
      BY <3>1, <3>2, <3>3, Zenon
  <2>. QED
    BY <2>7, Zenon DEF CountsExact
<1>13. InTable' = InTable \cup {x}
  <2>1. ASSUME NEW e PROVE e \in InTable' <=> e \in InTable \cup {x}
    <3>1. e \in InTable' <=> e \in GExprs' /\ \E p \in table' : p[2] = e
      BY Zenon DEF InTable
    <3>2. (\E p \in table' : p[2] = e) <=> (\E p \in table : p[2] = e) \/ e = x
      <4>1. <<HashValue(op, kids), x>>[2] = x
        BY Zenon
      <4>. QED
        BY <1>6, <4>1, Zenon
    <3>3. (\E p \in table : p[2] = e) => e \in GExprs
      BY <1>1, Zenon DEF MemoType
    <3>. QED
      BY <1>3, <3>1, <3>2, <3>3, Zenon DEF InTable
  <2>. QED
    BY <2>1, Zenon
<1>14. Kept
  <2>1. \A e \in GExprs : gx[e].home \in Groups
    BY <1>7, Zenon DEF Typed
  <2>. QED
    BY <1>3, <1>4, <2>1, Zenon DEF Kept
<1>15. Dropping
  BY <1>3, Zenon DEF Dropping
<1>16. Growing
  BY <1>3, <1>13, Zenon DEF Growing
<1>17. Covering
  BY <1>7, <1>13 DEF Covering
<1>18. NoAlternativeLost' /\ CoverInv'
  BY <1>1, <1>9, <1>14, <1>15, <1>16, <1>17, KeptLost, KeptCover, Zenon
<1>19. BucketsCurrent'
  <2>1. ASSUME NEW g \in Groups PROVE GroupHash(g)' = GroupHash(g)
    <3>1. ulGExprs[g] \in Nat /\ (ulGExprs'[g] = 0 <=> ulGExprs[g] = 0)
      BY <1>4, <1>7 DEF Typed
    <3>. QED
      BY <1>4, <3>1, Zenon DEF GroupHash
  <2>2. ASSUME NEW o, NEW k, k \in [DOMAIN k -> Groups] PROVE HashValue(o, k)' = HashValue(o, k)
    <3>1. [i \in DOMAIN k |-> GroupHash(k[i])'] = [i \in DOMAIN k |-> GroupHash(k[i])]
      BY <2>1, <2>2, Zenon
    <3>. QED
      BY <3>1, Zenon DEF HashValue
  <2>3. ASSUME NEW p \in table' PROVE p[1] = HashValue(gx[p[2]].op, gx[p[2]].kids)'
    <3>1. CASE p = <<HashValue(op, kids), x>>
      <4>1. HashValue(op, kids)' = HashValue(op, kids)
        BY <1>8, <2>2, Zenon
      <4>2. HashValue(gx[p[2]].op, gx[p[2]].kids)' = HashValue(op, kids)'
        BY <1>3, <3>1, Zenon DEF HashValue
      <4>. QED
        BY <3>1, <4>1, <4>2, Zenon
    <3>2. CASE p \in table
      <4>1. p[2] \in GExprs /\ p[1] = HashValue(gx[p[2]].op, gx[p[2]].kids)
        BY <1>1, <3>2, Zenon DEF MemoType, PhaseInv, BucketsCurrent
      <4>2. PICK o, k : o = gx[p[2]].op /\ k = gx[p[2]].kids
        BY Zenon
      <4>3. k \in [DOMAIN k -> Groups]
        BY <1>7, <4>1, <4>2, Zenon DEF Typed
      <4>4. HashValue(o, k)' = HashValue(o, k)
        BY <2>2, <4>3, Zenon
      <4>5. HashValue(gx[p[2]].op, gx[p[2]].kids)' = HashValue(o, k)'
        BY <1>3, <4>1, <4>2, Zenon DEF HashValue
      <4>. QED
        BY <4>1, <4>2, <4>4, <4>5, Zenon
    <3>. QED
      BY <1>6, <3>1, <3>2, Zenon
  <2>. QED
    BY <2>3, Zenon DEF BucketsCurrent
<1>20. PhaseInv'
  <2>1. \A g \in Groups : ulGExprs[g] \in Nat /\ (ulGExprs[g] > 0 => ulGExprs'[g] > 0)
    BY <1>4, <1>7 DEF Typed
  <2>2. ulGExprs'[root'] > 0
    BY <1>1, <1>7, <2>1, Zenon DEF PhaseInv, MemoType
  <2>3. pc' = "Insert" => ulGExprs'[work'.target] > 0
    BY <2>1, Zenon
  <2>4. ASSUME NEW g \in Groups', ulGExprs'[g] = 0 PROVE dup'[g] # None /\ ulGExprs'[dup'[g]] > 0
    <3>1. g \in Groups /\ ulGExprs[g] = 0
      BY <1>3, <1>4, <1>5, <2>1, <2>4
    <3>2. dup[g] # None /\ ulGExprs[dup[g]] > 0 /\ dup[g] \in Groups
      BY <1>1, <3>1, GroupMasters, Zenon DEF PhaseInv
    <3>. QED
      BY <1>4, <2>1, <3>1, <3>2, Zenon
  <2>. QED
    BY <1>19, <2>2, <2>3, <2>4, Zenon DEF PhaseInv
<1>. QED
  BY <1>9, <1>11, <1>12, <1>18, <1>20, Zenon DEF IInv
----------------------------------------------------------------------------
(* InsertExpressionChildren puts a group that means what the new input     *)
(* means in the place of the input.                                        *)
LEMMA WithChildWork ==
    ASSUME WorkInv, pc = "Insert", Fresh, NEW g, g \in Groups', Groups \subseteq Groups',
           None \notin Groups, None \notin Groups', \A h \in Groups : mean'[h] = mean[h],
           mean'[g] = Meaning(work.fop, work.fkids), work' = WithChild(g)
    PROVE  WorkInv' /\ work'.target = work.target
<1>1. /\ work = [target |-> work.target, op |-> work.op, kids |-> work.kids,
                 fop |-> work.fop, fkids |-> work.fkids, prov |-> work.prov]
      /\ work.target \in Groups /\ work.op \in Ops /\ work.prov \in BOOLEAN
      /\ work.kids \in Tuples(Arity(work.op), Groups \cup {None})
  BY Zenon DEF WorkInv
<1>2. PICK k : k = [i \in DOMAIN work.kids |-> IF work.kids[i] = None THEN g ELSE work.kids[i]]
  BY Zenon
<1>3. work' = [target |-> work.target, op |-> work.op, kids |-> k,
               fop |-> work.fop, fkids |-> work.fkids, prov |-> work.prov]
  BY <1>1, <1>2, Zenon DEF WithChild
<1>4. /\ work'.target = work.target /\ work'.op = work.op /\ work'.kids = k
      /\ work'.fop = work.fop /\ work'.fkids = work.fkids /\ work'.prov = work.prov
  BY <1>3
<1>5. work.kids \in [1..Arity(work.op) -> Groups \cup {None}] /\ DOMAIN work.kids = 1..Arity(work.op)
  BY <1>1, Zenon DEF Tuples
<1>6. k \in [1..Arity(work.op) -> Groups'] /\ DOMAIN k = DOMAIN work.kids
  BY <1>2, <1>5, Zenon
<1>7. \A i \in DOMAIN k : k[i] # None
  BY <1>5, <1>6, Zenon
<1>8. mean'[work'.target] =
          Sem(work'.op, [i \in DOMAIN work'.kids |->
                            IF work'.kids[i] = None THEN Meaning(work.fop, work.fkids)'
                            ELSE mean'[work'.kids[i]]])
  <2>1. PICK v : v = Meaning(work.fop, work.fkids)
    BY Zenon
  <2>2. PICK w : w = Meaning(work.fop, work.fkids)'
    BY Zenon
  <2>3. mean[work.target] = Sem(work.op, [i \in DOMAIN work.kids |->
                                IF work.kids[i] = None THEN v ELSE mean[work.kids[i]]])
    BY <2>1, Zenon DEF WorkInv
  <2>4. [i \in DOMAIN work.kids |-> IF work.kids[i] = None THEN v ELSE mean[work.kids[i]]]
          = [i \in DOMAIN k |-> IF k[i] = None THEN w ELSE mean'[k[i]]]
    <3>1. ASSUME NEW i \in DOMAIN k
          PROVE  (IF work.kids[i] = None THEN v ELSE mean[work.kids[i]]) = mean'[k[i]]
      BY <1>2, <1>5, <1>6, <2>1, Zenon
    <3>. QED
      BY <1>6, <1>7, <3>1, Zenon
  <2>. QED
    BY <1>1, <1>4, <2>2, <2>3, <2>4, Zenon
<1>9. ~Fresh'
  BY <1>4, <1>7, Zenon DEF Fresh
<1>10. work'.kids \in Tuples(Arity(work'.op), Groups' \cup {None})
  BY <1>4, <1>6, Zenon DEF Tuples
<1>11. work' = [target |-> work'.target, op |-> work'.op, kids |-> work'.kids,
                fop |-> work'.fop, fkids |-> work'.fkids, prov |-> work'.prov]
  BY <1>3, <1>4, Zenon
<1>12. work'.target \in Groups' /\ work'.op \in Ops /\ work'.prov \in BOOLEAN
  BY <1>1, <1>4, Zenon
<1>. QED
  BY <1>4, <1>8, <1>9, <1>10, <1>11, <1>12, Zenon DEF WorkInv

(* The insertion of an alternative's child (CEngine::PgroupInsert, bottom  *)
(* up) keeps the invariant.                                                *)
LEMMA InsertChildInv == IInv /\ InsertChild => IInv'
<1> SUFFICES ASSUME IInv, InsertChild PROVE IInv'
  BY Zenon
<1>1. /\ pc = "Insert" /\ pc' = "Insert" /\ Fresh
      /\ UNCHANGED <<root, cursor, list, fNewDupGroups>> /\ UNCHANGED fNewDupGroups
      /\ cursor' = cursor
  BY Zenon DEF InsertChild
<1>2. MemoType /\ SameMeaning /\ CountsExact /\ WorkInv /\ PhaseInv /\ Typed
  BY TypedNow, Zenon DEF IInv
<1>3. /\ work.fop \in Ops /\ work.fkids \in Tuples(Arity(work.fop), Groups)
      /\ work.target \in Groups /\ work.prov \in BOOLEAN
  BY <1>1, <1>2, Zenon DEF WorkInv
<1>4. ulGExprs[work.target] > 0 /\ None \notin Groups
  BY <1>1, <1>2, Zenon DEF PhaseInv, Typed
<1>5. CASE \E e \in Find(work.fop, work.fkids) : work' = WithChild(gx[e].home) /\ UNCHANGED graph
  <2>1. PICK e \in Find(work.fop, work.fkids) : work' = WithChild(gx[e].home) /\ UNCHANGED graph
    BY <1>5, Zenon
  <2>2. UNCHANGED <<graph, root>> /\ UNCHANGED <<graph, root, list>>
    BY <1>1, <2>1, Zenon
  <2>3. Groups' = Groups /\ mean' = mean
    BY <2>2, SamePhase, Zenon
  <2>4. PICK g : g = gx[e].home
    BY Zenon
  <2>5. g \in Groups /\ mean[g] = Meaning(work.fop, work.fkids)
    BY <1>2, <1>3, <2>4, FoundFacts
  <2>6. g \in Groups' /\ Groups \subseteq Groups' /\ None \notin Groups' /\ mean'[g] = Meaning(work.fop, work.fkids)
    BY <1>4, <2>3, <2>5, Zenon
  <2>7. work' = WithChild(g) /\ \A h \in Groups : mean'[h] = mean[h]
    BY <2>1, <2>3, <2>4, Zenon
  <2>8. WorkInv' /\ work'.target = work.target
    BY <1>1, <1>2, <1>4, <2>6, <2>7, WithChildWork, Zenon
  <2>9. PhaseInv'
    BY <1>1, <1>2, <2>2, <2>8, SamePhase DEF PhaseInv
  <2>10. cursor \in 0..Len(dup) /\ list = {}
    BY <1>1, <1>2, Zenon DEF MemoType
  <2>. QED
    BY <1>1, <2>2, <2>8, <2>9, <2>10, SameGraph, Zenon
<1>6. CASE /\ InsertInto(Len(dup) + 1, work.fop, work.fkids, work.prov)
           /\ work' = WithChild(Len(dup) + 1)
  <2>1. PICK g : g = Len(dup) + 1
    BY Zenon
  <2>2. PICK op, kids, prov : op = work.fop /\ kids = work.fkids /\ prov = work.prov
    BY Zenon
  <2>3. op \in Ops /\ kids \in Tuples(Arity(op), Groups) /\ prov \in BOOLEAN
    BY <1>3, <2>2, Zenon
  <2>4. InsertInto(g, op, kids, prov) /\ work' = WithChild(g)
    BY <1>6, <2>1, <2>2, Zenon
  <2>5. g \notin Groups
    BY <1>2, <2>1 DEF Typed
  <2>6. InsertedExpr(g, op, kids, prov, Len(gx) + 1)
    BY <1>2, <2>1, <2>3, <2>4, InsertIntoFacts, Zenon
  <2>7. /\ Groups' = Groups \cup {g} /\ mean'[g] = Meaning(op, kids)
        /\ \A h \in Groups : mean'[h] = mean[h]
    BY <2>5, <2>6, Zenon DEF InsertedExpr
  <2>8. g # None
    BY <1>2, <2>1 DEF Typed, None
  <2>9. g \in Groups' /\ Groups \subseteq Groups' /\ None \notin Groups' /\ mean'[g] = Meaning(work.fop, work.fkids)
    BY <1>4, <2>2, <2>7, <2>8, Zenon
  <2>10. WorkInv' /\ work'.target = work.target
    BY <1>1, <1>2, <1>4, <2>4, <2>7, <2>9, WithChildWork, Zenon
  <2>. QED
    BY <1>1, <1>3, <1>4, <2>1, <2>3, <2>4, <2>5, <2>10, InsertIntoInv, Zenon
<1>. QED
  BY <1>5, <1>6, Zenon DEF InsertChild
----------------------------------------------------------------------------
(* MarkDuplicates of two groups that have expressions changes no hash: the *)
(* groups without expressions keep their links.                            *)
LEMMA MarkInv ==
    ASSUME IInv, pc = "Insert", pc' = "Explore", NEW g \in Groups, NEW h \in Groups,
           ulGExprs[g] > 0, ulGExprs[h] > 0, mean[g] = mean[h],
           dup' = Marked(dup, g, h), g # h,
           UNCHANGED <<gx, ulGExprs, mean, table, root, cursor, list, fNewDupGroups>>
    PROVE  IInv'
<1>1. /\ MemoType /\ SameMeaning /\ CountsExact /\ CoverInv /\ NoAlternativeLost /\ PhaseInv
      /\ Typed
  BY TypedNow, Zenon DEF IInv
<1>2. PICK n \in Nat : n = Len(dup)
  BY <1>1, Zenon DEF Typed
<1>3. Groups = 1..n /\ dup \in Chains(n) /\ DOMAIN dup = 1..n
  BY <1>1, <1>2, Zenon DEF Typed, Groups
<1>4. /\ Coarser(n, dup, dup', {g, h})
      /\ \A mu : Shared(dup, mu) /\ mu[g] = mu[h] => Shared(dup', mu)
  BY <1>2, <1>3, MarkedMasters, Zenon
<1>5. /\ dup' \in Chains(n)
      /\ \A x, y \in 1..n : MasterIn(dup, x) = MasterIn(dup, y) => MasterIn(dup', x) = MasterIn(dup', y)
      /\ \A x \in 1..n : dup[x] # None => dup'[x] # None
      /\ \A x \in 1..n : dup'[x] # dup[x] => x \in {g, h} \/ dup[x] = None
  BY <1>4, Zenon DEF Coarser
<1>6. DOMAIN dup' = 1..n /\ Groups' = Groups /\ Len(dup') = n /\ dup' \in Seq(Nat)
  <2>1. DOMAIN dup' = 1..n /\ dup' \in [1..n -> Nat]
    BY <1>5 DEF Chains
  <2>2. dup' \in Seq(Nat)
    BY <2>1
  <2>. QED
    BY <1>3, <2>1, <2>2 DEF Groups
<1>7. /\ gx' = gx /\ GExprs' = GExprs /\ ulGExprs' = ulGExprs /\ mean' = mean /\ table' = table
      /\ root' = root /\ cursor' = cursor /\ list' = list /\ fNewDupGroups' = fNewDupGroups
      /\ list = {}
  BY <1>1, Zenon DEF GExprs, MemoType
<1>8. MemoType'
  <2>1. dup' \in Chains(Len(dup')) /\ Len(dup') = Len(dup)
    BY <1>2, <1>5, <1>6, Zenon
  <2>2. pc' \in {"Explore", "Insert", "Merge", "Rehash", "Done"} /\ (pc' # "Rehash" => list' = {})
    BY <1>7, Zenon
  <2>. QED
    BY <1>1, <1>6, <1>7, <2>1, <2>2, Zenon DEF MemoType
<1>9. SameMeaning'
  <2>1. Shared(dup, mean)
    BY <1>1, Zenon DEF SameMeaning, Shared, Groups
  <2>2. Shared(dup', mean)
    BY <1>4, <2>1, Zenon
  <2>3. \A x \in Groups' : dup'[x] # None => mean'[dup'[x]] = mean'[x]
    BY <1>7, <2>2, Zenon DEF Shared, Groups
  <2>4. \A o, k : Meaning(o, k)' = Meaning(o, k)
    BY <1>7, Zenon DEF Meaning
  <2>5. \A e \in GExprs' : Meaning(gx[e].op, gx[e].kids)' = mean'[gx'[e].home]
    BY <1>1, <1>7, Zenon DEF SameMeaning, Meaning
  <2>. QED
    BY <2>3, <2>5, Zenon DEF SameMeaning
<1>10. CountsExact'
  BY <1>1, <1>6, <1>7, Zenon DEF CountsExact, Listed
<1>11. InTable' = InTable
  BY <1>7, Zenon DEF InTable
<1>12. Kept /\ Dropping /\ Growing /\ Covering
  <2>1. Kept
    BY <1>3, <1>5, <1>6, <1>7, Zenon DEF Kept
  <2>2. Dropping /\ Growing /\ Covering
    BY <1>6, <1>7, <1>11, Zenon DEF Dropping, Growing, Covering
  <2>. QED
    BY <2>1, <2>2, Zenon
<1>13. NoAlternativeLost' /\ CoverInv'
  BY <1>1, <1>8, <1>12, KeptLost, KeptCover, Zenon
<1>14. ASSUME NEW x \in Groups, ulGExprs[x] = 0 PROVE dup'[x] = dup[x] /\ dup[x] # None /\ ulGExprs[dup[x]] > 0
  <2>1. dup[x] # None /\ ulGExprs[dup[x]] > 0 /\ x # g /\ x # h
    BY <1>1, <1>14 DEF PhaseInv
  <2>. QED
    BY <1>3, <1>5, <2>1, Zenon
<1>15. BucketsCurrent'
  <2>1. ASSUME NEW x \in Groups PROVE GroupHash(x)' = GroupHash(x)
    BY <1>7, <1>14, Zenon DEF GroupHash
  <2>2. ASSUME NEW o, NEW k, k \in [DOMAIN k -> Groups] PROVE HashValue(o, k)' = HashValue(o, k)
    <3>1. [i \in DOMAIN k |-> GroupHash(k[i])'] = [i \in DOMAIN k |-> GroupHash(k[i])]
      BY <2>1, <2>2, Zenon
    <3>. QED
      BY <3>1, Zenon DEF HashValue
  <2>3. ASSUME NEW p \in table PROVE p[1] = HashValue(gx[p[2]].op, gx[p[2]].kids)'
    <3>1. p[2] \in GExprs /\ p[1] = HashValue(gx[p[2]].op, gx[p[2]].kids)
      BY <1>1, Zenon DEF MemoType, PhaseInv, BucketsCurrent
    <3>2. PICK o, k : o = gx[p[2]].op /\ k = gx[p[2]].kids
      BY Zenon
    <3>3. k \in [DOMAIN k -> Groups]
      BY <1>1, <3>1, <3>2, Zenon DEF Typed
    <3>4. HashValue(o, k)' = HashValue(o, k)
      BY <2>2, <3>3, Zenon
    <3>5. HashValue(gx[p[2]].op, gx[p[2]].kids)' = HashValue(o, k)'
      BY <1>7, <3>2, Zenon DEF HashValue
    <3>. QED
      BY <3>1, <3>2, <3>4, <3>5, Zenon
  <2>. QED
    BY <1>7, <2>3, Zenon DEF BucketsCurrent
<1>16. PhaseInv'
  <2>1. ulGExprs'[root'] > 0
    BY <1>1, <1>7, Zenon DEF PhaseInv
  <2>. QED
    BY <1>6, <1>7, <1>14, <1>15, <2>1, Zenon DEF PhaseInv
<1>17. WorkInv'
  BY Zenon DEF WorkInv
<1>. QED
  BY <1>8, <1>9, <1>10, <1>13, <1>16, <1>17, Zenon DEF IInv

(* The insertion of the alternative itself, with the duplicate groups that *)
(* it reveals, keeps the invariant.                                        *)
LEMMA InsertRootInv == IInv /\ InsertRoot => IInv'
<1> SUFFICES ASSUME IInv, InsertRoot PROVE IInv'
  BY Zenon
<1>1. /\ pc = "Insert" /\ pc' = "Explore" /\ ~Fresh
      /\ UNCHANGED <<root, cursor, list, fNewDupGroups>> /\ UNCHANGED fNewDupGroups
      /\ cursor' = cursor
  BY Zenon DEF InsertRoot
<1>2. MemoType /\ SameMeaning /\ CountsExact /\ WorkInv /\ PhaseInv /\ Typed
  BY TypedNow, Zenon DEF IInv
<1>3. PICK target, op, kids, prov :
        target = work.target /\ op = work.op /\ kids = work.kids /\ prov = work.prov
  BY Zenon
<1>4. target \in Groups /\ op \in Ops /\ prov \in BOOLEAN /\ ulGExprs[target] > 0
  BY <1>1, <1>2, <1>3, Zenon DEF WorkInv, PhaseInv
<1>5. kids \in Tuples(Arity(op), Groups)
  <2>1. kids \in [1..Arity(op) -> Groups \cup {None}]
    BY <1>1, <1>2, <1>3, Zenon DEF WorkInv, Tuples
  <2>2. \A i \in DOMAIN kids : kids[i] # None
    BY <1>1, <1>3, Zenon DEF Fresh
  <2>. QED
    BY <2>1, <2>2, Zenon DEF Tuples
<1>6. mean[target] = Meaning(op, kids)
  <2>1. PICK v : v = Meaning(work.fop, work.fkids)
    BY Zenon
  <2>2. mean[target] = Sem(op, [i \in DOMAIN kids |-> IF kids[i] = None THEN v ELSE mean[kids[i]]])
    BY <1>1, <1>2, <1>3, <2>1, Zenon DEF WorkInv
  <2>3. \A i \in DOMAIN kids : kids[i] # None
    BY <1>1, <1>3, Zenon DEF Fresh
  <2>4. [i \in DOMAIN kids |-> IF kids[i] = None THEN v ELSE mean[kids[i]]] = [i \in DOMAIN kids |-> mean[kids[i]]]
    BY <2>3, Zenon
  <2>. QED
    BY <2>2, <2>4, Zenon DEF Meaning
<1>7. WorkInv'
  BY <1>1, Zenon DEF WorkInv
<1>8. ASSUME UNCHANGED graph PROVE IInv'
  <2>1. UNCHANGED <<graph, root>> /\ UNCHANGED <<graph, root, list>>
    BY <1>1, <1>8, Zenon
  <2>2. PhaseInv'
    BY <1>1, <1>2, <2>1, SamePhase, Zenon DEF PhaseInv
  <2>3. cursor \in 0..Len(dup) /\ list = {}
    BY <1>1, <1>2, Zenon DEF MemoType
  <2>. QED
    BY <1>1, <1>7, <2>1, <2>2, <2>3, SameGraph
<1>9. CASE /\ \E e \in Find(work.op, work.kids) :
                dup' = IF MayMark(work.target, gx[e].home)
                       THEN Marked(dup, work.target, gx[e].home) ELSE dup
           /\ UNCHANGED <<gx, ulGExprs, mean, table>>
  <2>1. PICK e \in Find(op, kids) : dup' = IF MayMark(target, gx[e].home)
                       THEN Marked(dup, target, gx[e].home) ELSE dup
    BY <1>3, <1>9, Zenon
  <2>2. CASE MayMark(target, gx[e].home)
    <3>1. PICK h : h = gx[e].home
      BY Zenon
    <3>2. e \in GExprs /\ ~gx[e].dup /\ h \in Groups /\ Meaning(op, kids) = mean[h]
      BY <1>2, <1>4, <1>5, <3>1, FoundFacts
    <3>3. ulGExprs[h] > 0
      BY <1>2, <3>1, <3>2, ListedCounts, Zenon
    <3>4. target # h /\ dup' = Marked(dup, target, h)
      BY <2>1, <2>2, <3>1, Zenon DEF MayMark
    <3>5. UNCHANGED <<gx, ulGExprs, mean, table, root, cursor, list, fNewDupGroups>>
      BY <1>1, <1>9, Zenon
    <3>. QED
      BY <1>1, <1>4, <1>6, <3>2, <3>3, <3>4, <3>5, MarkInv
  <2>3. CASE ~MayMark(target, gx[e].home)
    <3>1. UNCHANGED graph
      BY <1>9, <2>1, <2>3, Zenon DEF graph
    <3>. QED
      BY <1>8, <3>1
  <2>. QED
    BY <2>2, <2>3, Zenon
<1>10. CASE InsertInto(work.target, work.op, work.kids, work.prov)
  <2>1. InsertInto(target, op, kids, prov)
    BY <1>3, <1>10, Zenon
  <2>. QED
    BY <1>1, <1>4, <1>5, <1>6, <1>7, <2>1, InsertIntoInv, Zenon
<1>. QED
  BY <1>8, <1>9, <1>10, Zenon DEF InsertRoot
----------------------------------------------------------------------------
(* CGroup::MergeGroup empties a group that has a link into its master.     *)
LEMMA MergeGroupInv == IInv /\ MergeGroup => IInv'
<1> SUFFICES ASSUME IInv, MergeGroup PROVE IInv'
  BY Zenon
<1>1. /\ pc = "Merge" /\ pc' = "Merge" /\ cursor > 0 /\ cursor' = cursor - 1 /\ root' = root
      /\ list' = list /\ fNewDupGroups' = fNewDupGroups
  BY Zenon DEF MergeGroup
<1>2. /\ MemoType /\ SameMeaning /\ CountsExact /\ CoverInv /\ NoAlternativeLost /\ PhaseInv
      /\ Typed
  BY TypedNow, Zenon DEF IInv
<1>3. PICK n \in Nat : n = Len(dup)
  BY <1>2, Zenon DEF Typed
<1>4. Groups = 1..n /\ dup \in Chains(n) /\ DOMAIN dup = 1..n
  BY <1>2, <1>3, Zenon DEF Typed, Groups
<1>5. PICK c : c = cursor
  BY Zenon
<1>6. c \in 1..n /\ c - 1 \in 0..n
  BY <1>1, <1>2, <1>3, <1>5 DEF MemoType
<1>7. \A g \in Groups : g > c /\ dup[g] # None => ulGExprs[g] = 0 /\ dup[dup[g]] = None
  BY <1>1, <1>2, <1>5, Zenon DEF PhaseInv
<1>8. list = {}
  BY <1>1, <1>2, Zenon DEF MemoType
<1>9. WorkInv'
  BY <1>1, Zenon DEF WorkInv
<1>10. CASE dup[c] = None
  <2>1. UNCHANGED graph
    BY <1>5, <1>10, Zenon DEF MergeGroup
  <2>2. UNCHANGED <<graph, root>> /\ UNCHANGED <<graph, root, list>> /\ UNCHANGED fNewDupGroups
    BY <1>1, <2>1, Zenon
  <2>3. dup' = dup /\ ulGExprs' = ulGExprs /\ Groups' = Groups
    BY <2>2, SamePhase, Zenon
  <2>4. \A g \in Groups : g > c - 1 /\ dup[g] # None => g > c
    BY <1>4, <1>6, <1>10
  <2>5. PhaseInv'
    BY <1>1, <1>5, <1>7, <2>3, <2>4, Zenon DEF PhaseInv
  <2>6. cursor' \in 0..Len(dup)
    BY <1>1, <1>3, <1>5, <1>6, Zenon
  <2>. QED
    BY <1>1, <1>8, <1>9, <2>2, <2>5, <2>6, SameGraph, Zenon
<1>11. CASE dup[c] # None
  <2>1. PICK t : t = MasterIn(dup, c)
    BY Zenon
  <2>2. t \in 1..n /\ c < t /\ dup[t] = None /\ t # c
    BY <1>4, <1>6, <1>11, <2>1, MasterFacts
  <2>3. PICK moved : moved = Listed(c)
    BY Zenon
  <2>4. /\ dup' = Resolve(dup, c) /\ mean' = mean /\ table' = table
        /\ gx' = [e \in GExprs |-> IF e \in moved THEN [gx[e] EXCEPT !.home = t] ELSE gx[e]]
        /\ ulGExprs' = MovedCounts(c, t, Cardinality(moved))
    BY <1>5, <1>11, <2>1, <2>3, Zenon DEF MergeGroup
  <2>5. /\ dup' \in Chains(n)
        /\ \A x \in 1..n : MasterIn(dup', x) = MasterIn(dup, x)
        /\ \A x \in 1..n : dup'[x] = IF x = c THEN t ELSE dup[x]
        /\ \A mu : Shared(dup, mu) => Shared(dup', mu)
    <3>1. c \in {c}
      BY Zenon
    <3>2. /\ Coarser(n, dup, Resolve(dup, c), {c})
          /\ \A x \in 1..n : MasterIn(Resolve(dup, c), x) = MasterIn(dup, x)
          /\ \A x \in 1..n : Resolve(dup, c)[x] = IF x = c /\ dup[x] # None THEN MasterIn(dup, x)
                                                  ELSE dup[x]
          /\ \A mu : Shared(dup, mu) => Shared(Resolve(dup, c), mu)
      BY <1>4, <1>6, <3>1, ResolveCoarser, Zenon
    <3>. QED
      BY <1>11, <2>1, <2>4, <3>2, Zenon DEF Coarser
  <2>6. Groups' = Groups /\ Len(dup') = n /\ dup' \in Seq(Nat)
    <3>1. DOMAIN dup' = 1..n /\ dup' \in [1..n -> Nat]
      BY <2>5 DEF Chains
    <3>2. dup' \in Seq(Nat)
      BY <3>1
    <3>. QED
      BY <1>4, <3>1, <3>2 DEF Groups
  <2>7. GExprs' = GExprs
    BY <2>4, Zenon DEF GExprs
  <2>8. ASSUME NEW e \in GExprs
        PROVE  /\ gx'[e].op = gx[e].op /\ gx'[e].kids = gx[e].kids /\ gx'[e].dup = gx[e].dup
               /\ gx'[e].prov = gx[e].prov /\ gx'[e] \in GExprType
               /\ gx'[e].home = IF e \in moved THEN t ELSE gx[e].home
    <3>1. gx[e] \in GExprType
      BY <1>2, TypeFacts, Zenon
    <3>2. CASE e \in moved
      <4>1. gx'[e] = [gx[e] EXCEPT !.home = t]
        BY <2>4, <3>2, Zenon
      <4>. QED
        BY <1>3, <2>2, <3>1, <3>2, <4>1 DEF GExprType
    <3>3. CASE e \notin moved
      BY <2>4, <3>1, <3>3, Zenon
    <3>. QED
      BY <3>2, <3>3, Zenon
  <2>9. PICK k : k = Cardinality(moved)
    BY Zenon
  <2>10. IsFiniteSet(moved) /\ IsFiniteSet(Listed(t)) /\ k \in Nat /\ ulGExprs[c] = k
    <3>1. IsFiniteSet(GExprs)
      BY <1>2, FiniteMemo, Zenon
    <3>2. moved \subseteq GExprs /\ Listed(t) \subseteq GExprs
      BY <2>3, Zenon DEF Listed
    <3>. QED
      BY <1>2, <1>4, <1>6, <2>3, <2>9, <3>1, <3>2, FS_Subset, FS_CardinalityType, Zenon DEF CountsExact
  <2>11. /\ ulGExprs' \in Seq(Nat) /\ Len(ulGExprs') = n /\ ulGExprs'[c] = 0
         /\ ulGExprs'[t] = ulGExprs[t] + k
         /\ \A g \in 1..n : g # c /\ g # t => ulGExprs'[g] = ulGExprs[g]
    <3>1. ulGExprs \in Seq(Nat) /\ Len(ulGExprs) = n
      BY <1>2, <1>3, Zenon DEF MemoType
    <3>2. /\ DOMAIN ulGExprs' = 1..n /\ ulGExprs'[c] = ulGExprs[c] - k
          /\ ulGExprs'[t] = ulGExprs[t] + k
          /\ \A g \in 1..n : g # c /\ g # t => ulGExprs'[g] = ulGExprs[g]
          /\ ulGExprs' = [g \in 1..n |-> ulGExprs'[g]]
      <4>1. ulGExprs' = MovedCounts(c, t, k)
        BY <2>4, <2>9, Zenon
      <4>2. DOMAIN ulGExprs = 1..n
        BY <3>1
      <4>3. DOMAIN ulGExprs' = 1..n /\ ulGExprs' = [g \in 1..n |-> ulGExprs'[g]]
        BY <4>1, <4>2, Zenon DEF MovedCounts
      <4>4. ulGExprs'[c] = ulGExprs[c] - k /\ ulGExprs'[t] = ulGExprs[t] + k
        BY <1>6, <2>2, <4>1, <4>2, Zenon DEF MovedCounts
      <4>5. \A g \in 1..n : g # c /\ g # t => ulGExprs'[g] = ulGExprs[g]
        BY <4>1, <4>2, Zenon DEF MovedCounts
      <4>. QED
        BY <4>3, <4>4, <4>5, Zenon
    <3>3. \A g \in 1..n : ulGExprs'[g] \in Nat
      BY <2>10, <3>1, <3>2
    <3>4. ulGExprs' \in Seq(Nat) /\ Len(ulGExprs') = n
      BY <3>2, <3>3
    <3>. QED
      BY <2>10, <3>2, <3>4
  <2>12. MemoType'
    <3>1. gx' \in Seq(GExprType)
      <4>1. DOMAIN gx' = 1..Len(gx) /\ Len(gx) \in Nat /\ gx' = [e \in 1..Len(gx) |-> gx'[e]]
        BY <1>2, <2>4, Zenon DEF Typed
      <4>2. \A e \in 1..Len(gx) : gx'[e] \in GExprType
        BY <1>2, <2>8, Zenon DEF Typed
      <4>3. gx' \in [1..Len(gx) -> GExprType]
        BY <4>1, <4>2, Zenon
      <4>. QED
        BY <4>1, <4>3
    <3>2. \A e \in GExprs' : gx'[e].kids \in Tuples(Arity(gx'[e].op), Groups') /\ gx'[e].home \in Groups'
      BY <1>2, <1>4, <2>2, <2>6, <2>7, <2>8, Zenon DEF MemoType
    <3>3. ulGExprs' \in Seq(Nat) /\ Len(ulGExprs') = Len(dup')
      BY <2>6, <2>11, Zenon
    <3>4. mean' \in Seq({mean'[g] : g \in DOMAIN mean'}) /\ Len(mean') = Len(dup')
      BY <1>2, <1>3, <2>4, <2>6, Zenon DEF MemoType
    <3>5. \A p \in table' : p = <<p[1], p[2]>> /\ p[2] \in GExprs' /\ ~gx'[p[2]].dup
      BY <1>2, <2>4, <2>7, <2>8, Zenon DEF MemoType
    <3>6. /\ list' \subseteq GExprs' /\ (\A e \in list' : ~gx'[e].dup)
          /\ pc' \in {"Explore", "Insert", "Merge", "Rehash", "Done"}
          /\ pc' # "Rehash" => list' = {}
      BY <1>1, <1>8
    <3>7. root' \in Groups' /\ cursor' \in 0..Len(dup')
      BY <1>1, <1>2, <1>5, <1>6, <2>6, Zenon DEF MemoType
    <3>8. fNewDupGroups' \in BOOLEAN
      BY <1>1, <1>2, Zenon DEF MemoType
    <3>9. dup' \in Seq(Nat) /\ dup' \in Chains(Len(dup'))
      BY <2>5, <2>6, Zenon
    <3>. QED
      BY <3>1, <3>2, <3>3, <3>4, <3>5, <3>6, <3>7, <3>8, <3>9, Zenon DEF MemoType
  <2>13. Shared(dup, mean) /\ mean[t] = mean[c]
    <3>1. Shared(dup, mean)
      BY <1>2, Zenon DEF SameMeaning, Shared, Groups
    <3>2. \A g \in 1..n : dup[g] # None => mean[dup[g]] = mean[g]
      BY <1>4, <3>1, Zenon DEF Shared
    <3>3. mean[MasterIn(dup, c)] = mean[c]
      BY <1>4, <1>6, <3>2, MasterShares, Zenon
    <3>. QED
      BY <2>1, <3>1, <3>3, Zenon
  <2>14. SameMeaning'
    <3>1. \A g \in Groups' : dup'[g] # None => mean'[dup'[g]] = mean'[g]
      BY <2>4, <2>5, <2>13 DEF Shared, Groups
    <3>2. ASSUME NEW e \in GExprs' PROVE Meaning(gx[e].op, gx[e].kids)' = mean'[gx'[e].home]
      <4>1. Meaning(gx[e].op, gx[e].kids)' = Meaning(gx[e].op, gx[e].kids)
        BY <2>4, <2>7, <2>8 DEF Meaning
      <4>2. Meaning(gx[e].op, gx[e].kids) = mean[gx[e].home]
        BY <1>2, <2>7, Zenon DEF SameMeaning
      <4>3. e \in moved => gx[e].home = c
        BY <2>3, Zenon DEF Listed
      <4>. QED
        BY <2>4, <2>7, <2>8, <2>13, <4>1, <4>2, <4>3, Zenon
    <3>. QED
      BY <3>1, <3>2, Zenon DEF SameMeaning
  <2>15. CountsExact'
    <3>2. {e \in GExprs' : gx'[e].home = t /\ ~gx'[e].dup} = Listed(t) \cup moved
      BY <2>3, <2>7, <2>8, Zenon DEF Listed
    <3>3. \A g \in 1..n : g # c /\ g # t => {e \in GExprs' : gx'[e].home = g /\ ~gx'[e].dup} = Listed(g)
      BY <2>3, <2>7, <2>8 DEF Listed
    <3>4. Listed(t) \cap moved = {}
      BY <2>2, <2>3, Zenon DEF Listed
    <3>5. Cardinality(Listed(t) \cup moved) = ulGExprs[t] + k
      <4>1. Cardinality(Listed(t) \cup moved)
              = Cardinality(Listed(t)) + Cardinality(moved) - Cardinality(Listed(t) \cap moved)
        BY <2>10, FS_Union, Zenon
      <4>2. Cardinality(Listed(t) \cap moved) = 0
        BY <3>4, FS_EmptySet, Zenon
      <4>3. Cardinality(Listed(t)) = ulGExprs[t] /\ ulGExprs[t] \in Nat
        BY <1>2, <1>4, <2>2 DEF CountsExact, Typed
      <4>. QED
        BY <2>9, <2>10, <4>1, <4>2, <4>3
    <3>6. ASSUME NEW g \in 1..n PROVE ulGExprs'[g] = Cardinality({e \in GExprs' : gx'[e].home = g /\ ~gx'[e].dup})
      <4>1. CASE g = c
        <5>1. {e \in GExprs' : gx'[e].home = g /\ ~gx'[e].dup} = {}
          BY <2>2, <2>3, <2>7, <2>8, <4>1 DEF Listed
        <5>. QED
          BY <2>11, <4>1, <5>1, FS_EmptySet, Zenon
      <4>2. CASE g = t
        BY <2>11, <3>2, <3>5, <4>2, Zenon
      <4>3. CASE g # c /\ g # t
        BY <1>2, <1>4, <2>11, <3>3, <4>3, Zenon DEF CountsExact
      <4>. QED
        BY <4>1, <4>2, <4>3, Zenon
    <3>. QED
      BY <1>4, <2>6, <3>6, Zenon DEF CountsExact, Listed
  <2>16. InTable' = InTable
    BY <2>4, <2>7, Zenon DEF InTable
  <2>17. Kept
    <3>1. ASSUME NEW e \in GExprs PROVE MasterIn(dup', gx'[e].home) = MasterIn(dup', gx[e].home)
      <4>1. CASE e \notin moved
        BY <2>8, <4>1
      <4>2. CASE e \in moved
        <5>1. gx'[e].home = t /\ gx[e].home = c
          BY <2>3, <2>8, <4>2, Zenon DEF Listed
        <5>2. MasterIn(dup, t) = t
          BY <1>4, <2>2, MasterFacts
        <5>. QED
          BY <1>6, <2>1, <2>2, <2>5, <5>1, <5>2, Zenon
      <4>. QED
        BY <4>1, <4>2, Zenon
    <3>. QED
      BY <1>4, <2>5, <2>6, <2>7, <2>8, <3>1, Zenon DEF Kept
  <2>18. Dropping /\ Growing /\ Covering
    BY <1>1, <2>6, <2>7, <2>8, <2>16, Zenon DEF Dropping, Growing, Covering
  <2>19. NoAlternativeLost' /\ CoverInv'
    BY <1>2, <2>12, <2>17, <2>18, KeptLost, KeptCover, Zenon
  <2>20. PhaseInv'
    <3>1. ASSUME NEW g \in Groups, g > c - 1, dup'[g] # None PROVE ulGExprs'[g] = 0 /\ dup'[dup'[g]] = None
      <4>1. CASE g = c
        BY <1>6, <2>2, <2>5, <2>11, <4>1, Zenon
      <4>2. CASE g # c
        <5>1. g > c /\ dup[g] # None /\ dup'[g] = dup[g] /\ g # t
          BY <1>4, <1>6, <2>2, <2>5, <3>1, <4>2
        <5>2. ulGExprs[g] = 0 /\ dup[dup[g]] = None
          BY <1>7, <5>1, Zenon
        <5>3. dup[g] \in 1..n /\ dup[g] > c
          BY <1>4, <1>6, <5>1, MasterFacts
        <5>4. dup[g] # c
          BY <1>6, <5>3
        <5>. QED
          BY <1>4, <2>5, <2>11, <4>2, <5>1, <5>2, <5>3, <5>4
      <4>. QED
        BY <4>1, <4>2, Zenon
    <3>. QED
      BY <1>1, <1>5, <2>6, <3>1 DEF PhaseInv
  <2>. QED
    BY <1>9, <2>12, <2>14, <2>15, <2>19, <2>20, Zenon DEF IInv
<1>. QED
  BY <1>10, <1>11, Zenon
----------------------------------------------------------------------------
(* When the merge loop has ended, each class has its expressions in the    *)
(* master, and the links are one step long.                                *)
LEMMA MergedClasses ==
    ASSUME IInv, pc = "Merge", cursor = 0
    PROVE  OneGroupPerClass
<1>1. MemoType /\ CountsExact /\ CoverInv /\ Typed
  BY TypedNow, Zenon DEF IInv
<1>2. ASSUME NEW g \in Groups, dup[g] # None PROVE ulGExprs[g] = 0 /\ dup[dup[g]] = None
  BY <1>1, <1>2 DEF IInv, PhaseInv, Typed
<1>3. ASSUME NEW g \in Groups, ulGExprs[g] = 0, dup[g] = None PROVE FALSE
  <2>1. PICK e \in GExprs : ~gx[e].dup /\ MasterIn(dup, gx[e].home) = MasterIn(dup, g)
    BY <1>1, Zenon DEF CoverInv
  <2>2. ulGExprs[gx[e].home] > 0 /\ gx[e].home \in Groups
    BY <1>1, <2>1, ListedCounts, Zenon DEF Typed
  <2>3. dup[gx[e].home] = None
    BY <1>2, <2>2
  <2>4. MasterIn(dup, gx[e].home) = gx[e].home /\ MasterIn(dup, g) = g
    BY <1>1, <1>3, <2>2, <2>3, GroupMasters, Zenon
  <2>5. gx[e].home = g
    BY <2>1, <2>4, Zenon
  <2>. QED
    BY <1>3, <2>2, <2>5
<1>. QED
  BY <1>2, <1>3, Zenon DEF OneGroupPerClass

(* CMemo::FRehash's first step, which empties the table into a list, keeps *)
(* the invariant.                                                          *)
LEMMA StartRehashInv == IInv /\ StartRehash => IInv'
<1> SUFFICES ASSUME IInv, StartRehash PROVE IInv'
  BY Zenon
<1>1. /\ pc = "Merge" /\ cursor = 0 /\ pc' = "Rehash" /\ list' = InTable /\ table' = {}
      /\ root' = (IF dup[root] # None THEN dup[root] ELSE root) /\ fNewDupGroups' = FALSE
      /\ gx' = gx /\ dup' = dup /\ ulGExprs' = ulGExprs /\ mean' = mean /\ cursor' = cursor
  BY Zenon DEF StartRehash
<1>2. /\ MemoType /\ SameMeaning /\ CountsExact /\ CoverInv /\ NoAlternativeLost /\ PhaseInv
      /\ Typed
  BY TypedNow, Zenon DEF IInv
<1>3. GExprs' = GExprs /\ Groups' = Groups /\ list = {}
  BY <1>1, <1>2, Zenon DEF GExprs, Groups, MemoType
<1>4. OneGroupPerClass
  BY <1>1, MergedClasses, Zenon
<1>5. root' \in Groups /\ dup[root'] = None
  <2>1. root \in Groups
    BY <1>2, Zenon DEF MemoType
  <2>. QED
    BY <1>1, <1>2, <1>4, <2>1, GroupMasters, Zenon DEF OneGroupPerClass
<1>6. InTable' = {}
  BY <1>1, Zenon DEF InTable
<1>7. MemoType'
  <2>1. InTable \subseteq GExprs /\ \A e \in InTable : ~gx[e].dup
    BY <1>2, Zenon DEF MemoType, InTable
  <2>2. /\ list' \subseteq GExprs' /\ (\A e \in list' : ~gx'[e].dup)
        /\ pc' \in {"Explore", "Insert", "Merge", "Rehash", "Done"}
        /\ pc' # "Rehash" => list' = {}
    BY <1>1, <1>3, <2>1, Zenon
  <2>3. /\ gx' \in Seq(GExprType)
        /\ \A e \in GExprs' : gx'[e].kids \in Tuples(Arity(gx'[e].op), Groups') /\ gx'[e].home \in Groups'
    BY <1>1, <1>2, <1>3, Zenon DEF MemoType
  <2>4. /\ dup' \in Seq(Nat) /\ dup' \in Chains(Len(dup'))
        /\ ulGExprs' \in Seq(Nat) /\ Len(ulGExprs') = Len(dup')
        /\ mean' \in Seq({mean'[g] : g \in DOMAIN mean'}) /\ Len(mean') = Len(dup')
    BY <1>1, <1>2, Zenon DEF MemoType
  <2>5. /\ \A p \in table' : p = <<p[1], p[2]>> /\ p[2] \in GExprs' /\ ~gx'[p[2]].dup
        /\ root' \in Groups' /\ cursor' \in 0..Len(dup')
    BY <1>1, <1>2, <1>3, <1>5, Zenon DEF MemoType
  <2>6. fNewDupGroups' \in BOOLEAN
    BY <1>1, Zenon
  <2>. QED
    BY <2>2, <2>3, <2>4, <2>5, <2>6, Zenon DEF MemoType
<1>8. SameMeaning' /\ CountsExact'
  BY <1>1, <1>2, <1>3, Zenon DEF SameMeaning, Meaning, CountsExact, Listed
<1>9. Kept /\ Dropping /\ Growing /\ Covering
  <2>1. Kept
    BY <1>1, <1>3, Zenon DEF Kept
  <2>2. Dropping /\ Growing /\ Covering
    BY <1>1, <1>3 DEF Dropping, Growing, Covering
  <2>. QED
    BY <2>1, <2>2, Zenon
<1>10. NoAlternativeLost' /\ CoverInv'
  BY <1>2, <1>7, <1>9, KeptLost, KeptCover, Zenon
<1>11. PhaseInv'
  <2>1. OneGroupPerClass'
    BY <1>1, <1>3, <1>4, Zenon DEF OneGroupPerClass
  <2>2. BucketsCurrent'
    BY <1>1, Zenon DEF BucketsCurrent
  <2>. QED
    BY <1>1, <1>5, <1>6, <2>1, <2>2, Zenon DEF PhaseInv
<1>12. WorkInv'
  BY <1>1, Zenon DEF WorkInv
<1>. QED
  BY <1>7, <1>8, <1>10, <1>11, <1>12, Zenon DEF IInv
----------------------------------------------------------------------------
(* Equal inputs up to duplicates is a symmetric relation.                  *)
LEMMA ResolvedSym ==
    ASSUME MemoType, NEW e \in GExprs, NEW f \in GExprs, SameResolved(e, f)
    PROVE  SameResolved(f, e)
<1>1. DOMAIN gx[e].kids = DOMAIN gx[f].kids
  BY TypeFacts, Zenon DEF SameResolved
<1>. QED
  BY <1>1, Zenon DEF SameResolved

(* With one group per class a group hashes as its master, so expressions   *)
(* that say the same are in the same bucket and match: FRehash meets them. *)
LEMMA ResolvedFound ==
    ASSUME MemoType, OneGroupPerClass, BucketsCurrent, NEW e \in GExprs, NEW f \in InTable,
           SameResolved(e, f)
    PROVE  f \in Find(gx[e].op, gx[e].kids)
<1>1. Typed
  BY TypedNow, Zenon
<1>2. f \in GExprs /\ \E p \in table : p[2] = f
  BY Zenon DEF InTable
<1>3. PICK p \in table : p[2] = f
  BY <1>2, Zenon
<1>4. p = <<HashValue(gx[f].op, gx[f].kids), f>>
  BY <1>3, Zenon DEF MemoType, BucketsCurrent
<1>5. ASSUME NEW g \in Groups PROVE GroupHash(g) = MasterIn(dup, g)
  <2>1. CASE dup[g] = None
    BY <2>1, GroupMasters, Zenon DEF GroupHash
  <2>2. CASE dup[g] # None
    <3>1. ulGExprs[g] = 0 /\ dup[g] \in Groups /\ dup[dup[g]] = None
      BY <2>2, GroupMasters, Zenon DEF OneGroupPerClass
    <3>2. MasterIn(dup, g) = dup[g]
      BY <2>2, <3>1, GroupMasters, Zenon
    <3>. QED
      BY <2>2, <3>1, <3>2, Zenon DEF GroupHash
  <2>. QED
    BY <2>1, <2>2, Zenon
<1>6. /\ gx[e].op = gx[f].op /\ DOMAIN gx[e].kids = DOMAIN gx[f].kids
      /\ \A i \in DOMAIN gx[e].kids : /\ gx[e].kids[i] \in Groups /\ gx[f].kids[i] \in Groups
                                      /\ MasterIn(dup, gx[e].kids[i]) = MasterIn(dup, gx[f].kids[i])
  BY <1>1, <1>2, Zenon DEF SameResolved, Typed
<1>7. HashValue(gx[e].op, gx[e].kids) = HashValue(gx[f].op, gx[f].kids)
  <2>1. [i \in DOMAIN gx[e].kids |-> GroupHash(gx[e].kids[i])]
          = [i \in DOMAIN gx[f].kids |-> GroupHash(gx[f].kids[i])]
    BY <1>5, <1>6, Zenon
  <2>. QED
    BY <1>6, <2>1, Zenon DEF HashValue
<1>8. ASSUME NEW i \in DOMAIN gx[e].kids PROVE FDuplicateGroups(dup, gx[e].kids[i], gx[f].kids[i])
  <2>1. PICK n \in Nat : n = Len(dup) /\ Groups = 1..n /\ dup \in Chains(n)
    BY <1>1, Zenon DEF Typed
  <2>2. \A x \in 1..n : dup[x] # None => dup[dup[x]] = None
    BY <2>1, Zenon DEF OneGroupPerClass
  <2>. QED
    BY <1>6, <2>1, <2>2, MastersDuplicate, Zenon
<1>9. Matches(gx[e].op, gx[e].kids, f)
  BY <1>6, <1>8, Zenon DEF Matches
<1>. QED
  BY <1>2, <1>3, <1>4, <1>7, <1>9, Zenon DEF Find

(* The hash of an expression is that of its input groups.                  *)
LEMMA SameBuckets ==
    ASSUME MemoType, \A g \in Groups : GroupHash(g)' = GroupHash(g),
           \A e \in GExprs : gx'[e].op = gx[e].op /\ gx'[e].kids = gx[e].kids
    PROVE  \A e \in GExprs : HashValue(gx[e].op, gx[e].kids)' = HashValue(gx[e].op, gx[e].kids)
<1> SUFFICES ASSUME NEW e \in GExprs
             PROVE  HashValue(gx[e].op, gx[e].kids)' = HashValue(gx[e].op, gx[e].kids)
  BY Zenon
<1>1. PICK o, k : o = gx[e].op /\ k = gx[e].kids
  BY Zenon
<1>2. k \in [DOMAIN k -> Groups]
  BY <1>1, TypeFacts, Zenon
<1>3. [i \in DOMAIN k |-> GroupHash(k[i])'] = [i \in DOMAIN k |-> GroupHash(k[i])]
  BY <1>2, Zenon
<1>4. HashValue(o, k)' = HashValue(o, k)
  BY <1>3, Zenon DEF HashValue
<1>5. HashValue(gx[e].op, gx[e].kids)' = HashValue(o, k)'
  BY <1>1, Zenon DEF HashValue
<1>. QED
  BY <1>1, <1>4, <1>5, Zenon
----------------------------------------------------------------------------
(* FRehash puts an expression that matches nothing back into the table.    *)
LEMMA RehashInserts ==
    ASSUME IInv, pc = "Rehash", NEW e \in list, list' = list \ {e},
           Find(gx[e].op, gx[e].kids) = {},
           table' = table \cup {<<HashValue(gx[e].op, gx[e].kids), e>>},
           UNCHANGED <<gx, dup, ulGExprs, fNewDupGroups, mean, root, pc, cursor>>
    PROVE  IInv'
<1>1. /\ gx' = gx /\ dup' = dup /\ ulGExprs' = ulGExprs /\ mean' = mean /\ root' = root
      /\ fNewDupGroups' = fNewDupGroups /\ pc' = "Rehash" /\ cursor' = cursor
  BY Zenon
<1>2. /\ MemoType /\ SameMeaning /\ CountsExact /\ CoverInv /\ NoAlternativeLost /\ PhaseInv
      /\ Typed
  BY TypedNow, Zenon DEF IInv
<1>3. GExprs' = GExprs /\ Groups' = Groups
  BY <1>1, Zenon DEF GExprs, Groups
<1>4. e \in GExprs /\ ~gx[e].dup /\ e \notin InTable
  BY <1>2, Zenon DEF MemoType, PhaseInv
<1>5. PICK b : b = HashValue(gx[e].op, gx[e].kids)
  BY Zenon
<1>6. table' = table \cup {<<b, e>>}
  BY <1>5, Zenon
<1>7. InTable' = InTable \cup {e}
  <2>1. ASSUME NEW x PROVE x \in InTable' <=> x \in InTable \cup {e}
    <3>1. (\E p \in table' : p[2] = x) <=> (\E p \in table : p[2] = x) \/ x = e
      <4>1. <<b, e>>[2] = e
        BY Zenon
      <4>. QED
        BY <1>6, <4>1, Zenon
    <3>. QED
      BY <1>3, <1>4, <3>1, Zenon DEF InTable
  <2>. QED
    BY <2>1, Zenon
<1>8. MemoType'
  <2>1. ASSUME NEW p \in table' PROVE p = <<p[1], p[2]>> /\ p[2] \in GExprs' /\ ~gx'[p[2]].dup
    <3>1. CASE p \in table
      BY <1>1, <1>2, <1>3, <3>1 DEF MemoType
    <3>2. CASE p = <<b, e>>
      BY <1>1, <1>3, <1>4, <3>2, Zenon
    <3>. QED
      BY <1>6, <3>1, <3>2, Zenon
  <2>2. /\ list' \subseteq GExprs' /\ (\A x \in list' : ~gx'[x].dup)
        /\ pc' \in {"Explore", "Insert", "Merge", "Rehash", "Done"}
        /\ pc' # "Rehash" => list' = {}
    BY <1>1, <1>2, <1>3, Zenon DEF MemoType
  <2>3. /\ gx' \in Seq(GExprType)
        /\ \A x \in GExprs' : gx'[x].kids \in Tuples(Arity(gx'[x].op), Groups') /\ gx'[x].home \in Groups'
    BY <1>1, <1>2, <1>3, Zenon DEF MemoType
  <2>4. /\ dup' \in Seq(Nat) /\ dup' \in Chains(Len(dup'))
        /\ ulGExprs' \in Seq(Nat) /\ Len(ulGExprs') = Len(dup')
        /\ mean' \in Seq({mean'[g] : g \in DOMAIN mean'}) /\ Len(mean') = Len(dup')
        /\ root' \in Groups' /\ cursor' \in 0..Len(dup')
    BY <1>1, <1>2, <1>3, Zenon DEF MemoType
  <2>5. fNewDupGroups' \in BOOLEAN
    BY <1>1, <1>2, Zenon DEF MemoType
  <2>. QED
    BY <2>1, <2>2, <2>3, <2>4, <2>5, Zenon DEF MemoType
<1>9. SameMeaning' /\ CountsExact'
  BY <1>1, <1>2, <1>3 DEF SameMeaning, Meaning, CountsExact, Listed
<1>10. Kept /\ Dropping /\ Growing /\ Covering
  <2>1. Kept
    BY <1>1, <1>3, Zenon DEF Kept
  <2>2. Dropping /\ Growing
    BY <1>1, <1>3, Zenon DEF Dropping, Growing
  <2>3. Covering
    BY <1>7, Zenon DEF Covering
  <2>. QED
    BY <2>1, <2>2, <2>3, Zenon
<1>11. NoAlternativeLost' /\ CoverInv'
  BY <1>2, <1>8, <1>10, KeptLost, KeptCover, Zenon
<1>12. ASSUME ~fNewDupGroups
       PROVE  /\ OneGroupPerClass' /\ dup'[root'] = None /\ BucketsCurrent'
              /\ \A x, y \in InTable' : SameResolved(x, y)' => x = y
  <2>1. /\ OneGroupPerClass /\ dup[root] = None /\ BucketsCurrent
        /\ \A x, y \in InTable : SameResolved(x, y) => x = y
    BY <1>2, <1>12, Zenon DEF PhaseInv
  <2>2. OneGroupPerClass' /\ dup'[root'] = None
    BY <1>1, <1>3, <2>1, Zenon DEF OneGroupPerClass
  <2>3. BucketsCurrent'
    <3>1. \A g \in Groups : GroupHash(g)' = GroupHash(g)
      BY <1>1, Zenon DEF GroupHash
    <3>2. \A x \in GExprs : HashValue(gx[x].op, gx[x].kids)' = HashValue(gx[x].op, gx[x].kids)
      BY <1>1, <1>2, <3>1, SameBuckets
    <3>3. ASSUME NEW p \in table' PROVE p[1] = HashValue(gx[p[2]].op, gx[p[2]].kids)'
      <4>1. p[2] \in GExprs /\ p[1] = HashValue(gx[p[2]].op, gx[p[2]].kids)
        BY <1>2, <1>4, <1>5, <1>6, <2>1 DEF MemoType, BucketsCurrent
      <4>. QED
        BY <3>2, <4>1, Zenon
    <3>. QED
      BY <3>3, Zenon DEF BucketsCurrent
  <2>4. \A x, y : SameResolved(x, y)' <=> SameResolved(x, y)
    BY <1>1, Zenon DEF SameResolved
  <2>5. ASSUME NEW y \in InTable PROVE ~SameResolved(e, y) /\ ~SameResolved(y, e)
    <3>1. y \in GExprs
      BY Zenon DEF InTable
    <3>2. ~SameResolved(e, y)
      BY <1>2, <1>4, <2>1, ResolvedFound
    <3>. QED
      BY <1>2, <1>4, <3>1, <3>2, ResolvedSym, Zenon
  <2>6. \A x, y \in InTable' : SameResolved(x, y)' => x = y
    BY <1>7, <2>1, <2>4, <2>5, Zenon
  <2>. QED
    BY <2>2, <2>3, <2>6, Zenon
<1>13. PhaseInv'
  <2>1. InTable' \cap list' = {}
    BY <1>2, <1>7, Zenon DEF PhaseInv
  <2>. QED
    BY <1>1, <1>12, <2>1 DEF PhaseInv
<1>14. WorkInv'
  BY <1>1, Zenon DEF WorkInv
<1>. QED
  BY <1>8, <1>9, <1>11, <1>13, <1>14, Zenon DEF IInv

(* FResolveDuplicates of two groups changes no master; when the links are  *)
(* one step long it changes nothing.                                       *)
LEMMA Resolved2Facts ==
    ASSUME MemoType, NEW n \in Nat, n = Len(dup), NEW g \in Groups, NEW h \in Groups
    PROVE  /\ Coarser(n, dup, Resolved2(g, h), {g, h})
           /\ \A x \in 1..n : MasterIn(Resolved2(g, h), x) = MasterIn(dup, x)
           /\ \A mu : Shared(dup, mu) => Shared(Resolved2(g, h), mu)
           /\ OneGroupPerClass => Resolved2(g, h) = dup
<1>1. Groups = 1..n /\ dup \in Chains(n) /\ dup \in [1..n -> 0..n]
  BY TypeFacts, Zenon DEF Chains
<1>2. CASE g = h
  <2>1. Resolved2(g, h) = dup
    BY <1>2, Zenon DEF Resolved2
  <2>2. Coarser(n, dup, dup, {g, h})
    BY <1>1, Zenon DEF Coarser
  <2>. QED
    BY <2>1, <2>2, Zenon
<1>3. CASE g # h
  <2>1. PICK d : d = Resolve(dup, g)
    BY Zenon
  <2>2. PICK r : r = Resolve(d, h)
    BY Zenon
  <2>3. Resolved2(g, h) = r
    BY <1>3, <2>1, <2>2, Zenon DEF Resolved2
  <2>4. g \in {g, h} /\ h \in {g, h}
    BY Zenon
  <2>5. /\ Coarser(n, dup, d, {g, h})
        /\ \A x \in 1..n : MasterIn(d, x) = MasterIn(dup, x)
        /\ \A x \in 1..n : d[x] = IF x = g /\ dup[x] # None THEN MasterIn(dup, x) ELSE dup[x]
        /\ \A mu : Shared(dup, mu) => Shared(d, mu)
    BY <1>1, <2>1, <2>4, ResolveCoarser
  <2>6. d \in Chains(n)
    BY <2>5, Zenon DEF Coarser
  <2>7. /\ Coarser(n, d, r, {g, h})
        /\ \A x \in 1..n : MasterIn(r, x) = MasterIn(d, x)
        /\ \A x \in 1..n : r[x] = IF x = h /\ d[x] # None THEN MasterIn(d, x) ELSE d[x]
        /\ \A mu : Shared(d, mu) => Shared(r, mu)
    BY <1>1, <2>2, <2>4, <2>6, ResolveCoarser
  <2>8. Coarser(n, dup, r, {g, h})
    BY <2>5, <2>7, CoarserTrans, Zenon
  <2>9. ASSUME OneGroupPerClass PROVE r = dup
    <3>1. ASSUME NEW x \in 1..n, dup[x] # None PROVE MasterIn(dup, x) = dup[x]
      <4>1. dup[x] \in Groups /\ dup[dup[x]] = None /\ MasterIn(dup, x) = MasterIn(dup, dup[x])
        BY <1>1, <2>9, <3>1, GroupMasters, Zenon DEF OneGroupPerClass
      <4>. QED
        BY <4>1, GroupMasters, Zenon
    <3>2. \A x \in 1..n : d[x] = dup[x]
      BY <2>5, <3>1, Zenon
    <3>3. \A x \in 1..n : r[x] = dup[x]
      BY <2>5, <2>7, <3>1, <3>2
    <3>4. r \in [1..n -> 0..n]
      BY <2>7, Zenon DEF Coarser, Chains
    <3>. QED
      BY <1>1, <3>3, <3>4
  <2>. QED
    BY <2>3, <2>5, <2>7, <2>8, <2>9, Zenon
<1>. QED
  BY <1>2, <1>3, Zenon

(* The same as ListedCounts, as a state predicate that can be primed.      *)
ListedCount == \A e \in GExprs : ~gx[e].dup => ulGExprs[gx[e].home] > 0

(* A group that lists an expression has a positive count.                  *)
LEMMA ListedCountNow == MemoType /\ CountsExact => ListedCount
  BY ListedCounts, Zenon DEF ListedCount

(* The same after a step.                                                  *)
LEMMA ListedCountNext == MemoType' /\ CountsExact' => ListedCount'
  BY ListedCountNow, PTL

(* What FRehash does to the links when e matches f: they lead further, but *)
(* never between groups of different meaning, and when e is dropped its    *)
(* group and that of f are duplicates.  Without new duplicate groups the   *)
(* links stay as they are.                                                 *)
LEMMA RehashLinks ==
    ASSUME MemoType, SameMeaning, NEW n \in Nat, n = Len(dup), NEW e \in GExprs, NEW f \in GExprs,
           mean[gx[e].home] = mean[gx[f].home], RehashDuplicate(e, f)
    PROVE  /\ Coarser(n, dup, dup', {gx[e].home, gx[f].home}) /\ Shared(dup', mean)
           /\ ~CollapsesCycle(e, f) => MasterIn(dup', gx[e].home) = MasterIn(dup', gx[f].home)
           /\ ~fNewDupGroups' => ~fNewDupGroups /\ (OneGroupPerClass => dup' = dup)
<1>1. PICK g, h : g = gx[e].home /\ h = gx[f].home
  BY Zenon
<1>2. g \in Groups /\ h \in Groups /\ Groups = 1..n /\ dup \in Chains(n)
  BY <1>1, TypeFacts, Zenon
<1>3. Shared(dup, mean)
  BY Zenon DEF SameMeaning, Shared, Groups
<1>4. PICK d : d = Resolved2(g, h)
  BY Zenon
<1>5. /\ Coarser(n, dup, d, {g, h}) /\ Shared(d, mean) /\ (OneGroupPerClass => d = dup)
      /\ \A x \in 1..n : MasterIn(d, x) = MasterIn(dup, x)
  <2>1. /\ Coarser(n, dup, Resolved2(g, h), {g, h})
        /\ \A x \in 1..n : MasterIn(Resolved2(g, h), x) = MasterIn(dup, x)
        /\ \A mu : Shared(dup, mu) => Shared(Resolved2(g, h), mu)
        /\ OneGroupPerClass => Resolved2(g, h) = dup
    BY <1>2, Resolved2Facts, ZenonT(30)
  <2>2. Shared(Resolved2(g, h), mean)
    BY <1>3, <2>1, Zenon
  <2>. QED
    BY <1>4, <2>1, <2>2, Zenon
<1>6. d \in Chains(n)
  BY <1>5, Zenon DEF Coarser
<1>7. CASE CollapsesCycle(e, f)
  <2>1. dup' = d /\ fNewDupGroups' = fNewDupGroups
    BY <1>1, <1>4, <1>7, Zenon DEF RehashDuplicate
  <2>. QED
    BY <1>1, <1>5, <1>7, <2>1, Zenon
<1>8. CASE ~CollapsesCycle(e, f) /\ JoinsGroups(g, h)
  <2>1. dup' = Marked(d, g, h) /\ fNewDupGroups' = TRUE /\ g # h
    <3>1. fNewDupGroups' = (fNewDupGroups \/ JoinsGroups(g, h)) /\ dup' = Marked(d, g, h)
      BY <1>1, <1>4, <1>8, Zenon DEF RehashDuplicate
    <3>2. g # h
      BY <1>8, Zenon DEF JoinsGroups, FDuplicateGroups
    <3>. QED
      BY <1>8, <3>1, <3>2, Zenon
  <2>2. /\ Coarser(n, d, dup', {g, h}) /\ MasterIn(dup', g) = MasterIn(dup', h)
        /\ \A mu : Shared(d, mu) /\ mu[g] = mu[h] => Shared(dup', mu)
    BY <1>2, <1>6, <2>1, MarkedMasters, Zenon
  <2>3. Coarser(n, dup, dup', {g, h})
    BY <1>5, <2>2, CoarserTrans, Zenon
  <2>. QED
    BY <1>1, <1>5, <2>1, <2>2, <2>3
<1>9. CASE ~CollapsesCycle(e, f) /\ ~JoinsGroups(g, h)
  <2>1. dup' = d /\ fNewDupGroups' = (fNewDupGroups \/ JoinsGroups(g, h))
    BY <1>1, <1>4, <1>9, Zenon DEF RehashDuplicate
  <2>2. FDuplicateGroups(d, g, h)
    BY <1>4, <1>9, Zenon DEF JoinsGroups
  <2>3. MasterIn(d, g) = MasterIn(d, h)
    BY <1>2, <1>6, <2>2, DuplicateMasters
  <2>. QED
    BY <1>1, <1>5, <2>1, <2>3, Zenon
<1>. QED
  BY <1>7, <1>8, <1>9, Zenon

(* FRehash drops an expression for one in the table that it matches, or    *)
(* only takes it out of the table when that would close a cycle.           *)
LEMMA RehashMatches ==
    ASSUME IInv, pc = "Rehash", NEW e \in list, list' = list \ {e},
           NEW f \in Find(gx[e].op, gx[e].kids), RehashDuplicate(e, f),
           UNCHANGED <<table, mean, root, pc, cursor>>
    PROVE  IInv'
<1>1. table' = table /\ mean' = mean /\ root' = root /\ pc' = "Rehash" /\ cursor' = cursor
  BY Zenon
<1>2. /\ MemoType /\ SameMeaning /\ CountsExact /\ CoverInv /\ NoAlternativeLost /\ PhaseInv
      /\ Typed
  BY TypedNow, Zenon DEF IInv
<1>3. e \in GExprs /\ ~gx[e].dup /\ e \notin InTable
  BY <1>2, Zenon DEF MemoType, PhaseInv
<1>4. /\ f \in GExprs /\ f \in InTable /\ ~gx[f].dup /\ f # e /\ SameResolved(e, f)
      /\ mean[gx[e].home] = mean[gx[f].home]
  <2>1. gx[e].op \in Ops /\ gx[e].kids \in Tuples(Arity(gx[e].op), Groups)
    BY <1>2, <1>3, Zenon DEF Typed, Tuples
  <2>2. /\ f \in GExprs /\ f \in InTable /\ ~gx[f].dup /\ gx[f].op = gx[e].op
        /\ \A i \in DOMAIN gx[e].kids : MasterIn(dup, gx[e].kids[i]) = MasterIn(dup, gx[f].kids[i])
        /\ Meaning(gx[e].op, gx[e].kids) = mean[gx[f].home]
    BY <1>2, <2>1, FoundFacts
  <2>3. Meaning(gx[e].op, gx[e].kids) = mean[gx[e].home]
    BY <1>2, <1>3, Zenon DEF SameMeaning
  <2>4. SameResolved(e, f)
    BY <2>2, Zenon DEF SameResolved
  <2>5. f # e
    BY <1>3, <2>2, Zenon
  <2>. QED
    BY <2>2, <2>3, <2>4, <2>5, Zenon
<1>5. PICK n \in Nat : n = Len(dup)
  BY <1>2, Zenon DEF Typed
<1>6. PICK g, h : g = gx[e].home /\ h = gx[f].home
  BY Zenon
<1>7. g \in 1..n /\ h \in 1..n /\ Groups = 1..n /\ dup \in Chains(n) /\ ulGExprs[g] > 0
  BY <1>2, <1>3, <1>4, <1>5, <1>6, ListedCounts DEF Typed
<1>8. /\ Coarser(n, dup, dup', {g, h}) /\ Shared(dup', mean)
      /\ ~CollapsesCycle(e, f) => MasterIn(dup', g) = MasterIn(dup', h)
      /\ ~fNewDupGroups' => ~fNewDupGroups /\ (OneGroupPerClass => dup' = dup)
  BY <1>2, <1>3, <1>4, <1>5, <1>6, RehashLinks, Zenon
<1>9. /\ dup' \in Chains(n)
      /\ \A x, y \in 1..n : MasterIn(dup, x) = MasterIn(dup, y) => MasterIn(dup', x) = MasterIn(dup', y)
  BY <1>8, Zenon DEF Coarser
<1>10. Groups' = Groups /\ Len(dup') = n /\ dup' \in Seq(Nat)
  <2>1. DOMAIN dup' = 1..n /\ dup' \in [1..n -> Nat]
    BY <1>9 DEF Chains
  <2>2. dup' \in Seq(Nat)
    BY <2>1
  <2>. QED
    BY <1>7, <2>1, <2>2 DEF Groups
<1>11. PICK drop \in BOOLEAN : drop <=> ~CollapsesCycle(e, f)
  <2>1. TRUE \in BOOLEAN /\ FALSE \in BOOLEAN
    BY Zenon
  <2>. QED
    BY <2>1, Zenon
<1>12. /\ ~drop => gx' = gx /\ ulGExprs' = ulGExprs /\ fNewDupGroups' = fNewDupGroups
       /\ drop => SetDuplicate(e)
       /\ drop => fNewDupGroups' = (fNewDupGroups \/ JoinsGroups(g, h))
  BY <1>6, <1>11, Zenon DEF RehashDuplicate
<1>13. GExprs' = GExprs /\ gx' \in Seq(GExprType)
  <2>1. gx \in Seq(GExprType)
    BY <1>2, Zenon DEF MemoType
  <2>2. CASE ~drop
    BY <1>12, <2>1, <2>2, Zenon DEF GExprs
  <2>3. CASE drop
    <3>1. gx' = [gx EXCEPT ![e].dup = TRUE]
      BY <1>12, <2>3, Zenon DEF SetDuplicate
    <3>2. [gx[e] EXCEPT !.dup = TRUE] \in GExprType
      <4>1. gx[e] \in GExprType
        BY <1>2, <1>3, TypeFacts, Zenon
      <4>. QED
        BY <4>1, Zenon DEF GExprType
    <3>3. gx' = [gx EXCEPT ![e] = [gx[e] EXCEPT !.dup = TRUE]]
      BY <3>1, Zenon
    <3>. QED
      BY <1>3, <2>1, <3>2, <3>3 DEF GExprs
  <2>. QED
    BY <2>2, <2>3, Zenon
<1>14. ASSUME NEW x \in GExprs
       PROVE  /\ gx'[x].op = gx[x].op /\ gx'[x].kids = gx[x].kids /\ gx'[x].prov = gx[x].prov
              /\ gx'[x].home = gx[x].home
              /\ x # e \/ ~drop => gx'[x].dup = gx[x].dup
              /\ x = e /\ drop => gx'[x].dup = TRUE
  <2>1. CASE ~drop
    BY <1>12, <2>1, Zenon
  <2>2. CASE drop
    <3>1. gx' = [gx EXCEPT ![e].dup = TRUE]
      BY <1>12, <2>2, Zenon DEF SetDuplicate
    <3>2. gx[x] \in GExprType
      BY <1>2, TypeFacts, Zenon
    <3>3. CASE x # e
      <4>1. gx'[x] = gx[x]
        BY <3>1, <3>3, Zenon DEF GExprs
      <4>. QED
        BY <3>3, <4>1, Zenon
    <3>4. CASE x = e
      <4>1. gx'[x] = [gx[x] EXCEPT !.dup = TRUE]
        BY <3>1, <3>4, Zenon DEF GExprs
      <4>. QED
        BY <2>2, <3>2, <3>4, <4>1, Zenon DEF GExprType
    <3>. QED
      BY <3>3, <3>4, Zenon
  <2>. QED
    BY <2>1, <2>2, Zenon
<1>15. /\ ulGExprs' \in Seq(Nat) /\ Len(ulGExprs') = n
       /\ \A x \in 1..n : ulGExprs'[x] = IF x = g /\ drop THEN ulGExprs[x] - 1 ELSE ulGExprs[x]
  <2>1. ulGExprs \in Seq(Nat) /\ Len(ulGExprs) = n
    BY <1>2, <1>5, Zenon DEF MemoType
  <2>2. CASE ~drop
    BY <1>12, <2>1, <2>2
  <2>3. CASE drop
    <3>1. ulGExprs' = [ulGExprs EXCEPT ![g] = @ - 1]
      BY <1>6, <1>12, <2>3, Zenon DEF SetDuplicate
    <3>2. ulGExprs[g] - 1 \in Nat
      BY <1>7, <2>1
    <3>. QED
      BY <1>7, <2>1, <2>3, <3>1, <3>2
  <2>. QED
    BY <2>2, <2>3, Zenon
<1>16. InTable' = InTable
  BY <1>1, <1>13, Zenon DEF InTable
<1>17. MemoType'
  <2>1. \A x \in GExprs' : gx'[x].kids \in Tuples(Arity(gx'[x].op), Groups') /\ gx'[x].home \in Groups'
    BY <1>2, <1>10, <1>13, <1>14, Zenon DEF MemoType
  <2>2. ASSUME NEW p \in table' PROVE p = <<p[1], p[2]>> /\ p[2] \in GExprs' /\ ~gx'[p[2]].dup
    <3>1. p = <<p[1], p[2]>> /\ p[2] \in GExprs /\ ~gx[p[2]].dup
      BY <1>1, <1>2, Zenon DEF MemoType
    <3>2. p[2] # e
      BY <1>1, <1>3, <3>1, Zenon DEF InTable
    <3>. QED
      BY <1>13, <1>14, <3>1, <3>2, Zenon
  <2>3. /\ list' \subseteq GExprs' /\ (\A x \in list' : ~gx'[x].dup)
        /\ pc' \in {"Explore", "Insert", "Merge", "Rehash", "Done"}
        /\ pc' # "Rehash" => list' = {}
    <3>1. \A x \in list' : x \in GExprs /\ ~gx[x].dup /\ x # e
      BY <1>2, Zenon DEF MemoType
    <3>. QED
      BY <1>1, <1>13, <1>14, <3>1, Zenon
  <2>4. /\ mean' \in Seq({mean'[x] : x \in DOMAIN mean'}) /\ Len(mean') = Len(dup')
        /\ root' \in Groups' /\ cursor' \in 0..Len(dup')
    BY <1>1, <1>2, <1>5, <1>10, Zenon DEF MemoType
  <2>5. fNewDupGroups' \in BOOLEAN
    <3>1. fNewDupGroups \in BOOLEAN
      BY <1>2, Zenon DEF MemoType
    <3>2. CASE ~drop
      BY <1>12, <3>1, <3>2, Zenon
    <3>3. CASE drop
      BY <1>12, <3>3, Zenon
    <3>. QED
      BY <3>2, <3>3, Zenon
  <2>6. ulGExprs' \in Seq(Nat) /\ Len(ulGExprs') = Len(dup') /\ dup' \in Chains(Len(dup'))
    BY <1>9, <1>10, <1>15, Zenon
  <2>. QED
    BY <1>10, <1>13, <2>1, <2>2, <2>3, <2>4, <2>5, <2>6, Zenon DEF MemoType
<1>18. SameMeaning'
  <2>1. \A x \in Groups' : dup'[x] # None => mean'[dup'[x]] = mean'[x]
    BY <1>1, <1>8, Zenon DEF Shared, Groups
  <2>2. ASSUME NEW x \in GExprs' PROVE Meaning(gx[x].op, gx[x].kids)' = mean'[gx'[x].home]
    <3>1. Meaning(gx[x].op, gx[x].kids)' = Meaning(gx[x].op, gx[x].kids)
      BY <1>1, <1>13, <1>14, Zenon DEF Meaning
    <3>2. Meaning(gx[x].op, gx[x].kids) = mean[gx[x].home]
      BY <1>2, <1>13, Zenon DEF SameMeaning
    <3>. QED
      BY <1>1, <1>13, <1>14, <3>1, <3>2, Zenon
  <2>. QED
    BY <2>1, <2>2 DEF SameMeaning
<1>19. CountsExact'
  <2>1. ASSUME NEW x \in 1..n, x # g \/ ~drop PROVE {y \in GExprs' : gx'[y].home = x /\ ~gx'[y].dup} = Listed(x)
    BY <1>6, <1>13, <1>14, <2>1, Zenon DEF Listed
  <2>2. drop => {y \in GExprs' : gx'[y].home = g /\ ~gx'[y].dup} = Listed(g) \ {e}
    BY <1>13, <1>14, Zenon DEF Listed
  <2>3. Cardinality(Listed(g) \ {e}) = ulGExprs[g] - 1
    <3>1. IsFiniteSet(GExprs)
      BY <1>2, FiniteMemo, Zenon
    <3>2. Listed(g) \subseteq GExprs /\ e \in Listed(g)
      BY <1>3, <1>6, Zenon DEF Listed
    <3>3. IsFiniteSet(Listed(g))
      BY <3>1, <3>2, FS_Subset, Zenon
    <3>4. Cardinality(Listed(g) \ {e}) = Cardinality(Listed(g)) - 1
      BY <3>2, <3>3, FS_RemoveElement, Zenon
    <3>. QED
      BY <1>2, <1>7, <3>4, Zenon DEF CountsExact
  <2>4. ASSUME NEW x \in 1..n PROVE ulGExprs'[x] = Cardinality({y \in GExprs' : gx'[y].home = x /\ ~gx'[y].dup})
    <3>1. CASE x = g /\ drop
      BY <1>15, <2>2, <2>3, <3>1, Zenon
    <3>2. CASE x # g \/ ~drop
      BY <1>2, <1>7, <1>15, <2>1, <3>2, Zenon DEF CountsExact
    <3>. QED
      BY <3>1, <3>2
  <2>. QED
    BY <1>7, <1>10, <2>4, Zenon DEF CountsExact, Listed
<1>20. Kept
  <2>1. \A x \in GExprs : gx[x].dup => gx'[x].dup
    BY <1>14, Zenon
  <2>. QED
    BY <1>7, <1>9, <1>10, <1>13, <1>14, <2>1, Zenon DEF Kept
<1>21. SameResolved(e, f)'
  BY <1>2, <1>3, <1>4, <1>20, KeptResolved, Zenon
<1>22. Dropping
  <2>1. ASSUME NEW x \in GExprs, gx'[x].dup, ~gx[x].dup PROVE DroppedFor(x, f)
    <3>1. x = e /\ drop
      BY <1>14, <2>1, Zenon
    <3>2. ~gx'[f].dup
      BY <1>4, <1>14, Zenon
    <3>3. MasterIn(dup', gx'[f].home) = MasterIn(dup', gx'[e].home)
      BY <1>3, <1>4, <1>6, <1>8, <1>11, <1>14, <3>1, Zenon
    <3>. QED
      BY <1>4, <1>21, <3>1, <3>2, <3>3, Zenon DEF DroppedFor
  <2>. QED
    BY <2>1, Zenon DEF Dropping
<1>23. Growing
  BY <1>10, <1>13, Zenon DEF Growing
<1>24. Covering
  <2>1. drop => gx'[e].dup
    BY <1>3, <1>14, Zenon
  <2>2. ~drop => gx[e].prov \/ gx[f].prov
    BY <1>11, Zenon DEF CollapsesCycle
  <2>3. gx'[e].dup \/ \E x \in GExprs : gx[x].prov
    BY <1>3, <1>4, <2>1, <2>2
  <2>4. f \in (InTable \cup list)'
    BY <1>4, <1>16, Zenon
  <2>. QED
    BY <1>4, <1>16, <1>21, <2>3, <2>4, Zenon DEF Covering
<1>25. NoAlternativeLost' /\ CoverInv'
  BY <1>2, <1>17, <1>20, <1>22, <1>23, <1>24, KeptLost, KeptCover, Zenon
<1>26. ASSUME ~fNewDupGroups'
       PROVE  /\ OneGroupPerClass' /\ dup'[root'] = None /\ BucketsCurrent'
              /\ \A x, y \in InTable' : SameResolved(x, y)' => x = y
  <2>1. /\ OneGroupPerClass /\ dup[root] = None /\ BucketsCurrent
        /\ \A x, y \in InTable : SameResolved(x, y) => x = y
    BY <1>2, <1>8, <1>26, Zenon DEF PhaseInv
  <2>2. dup' = dup
    BY <1>8, <1>26, <2>1, Zenon
  <2>3. ASSUME NEW x \in 1..n PROVE ulGExprs[x] \in Nat /\ (ulGExprs'[x] = 0 <=> ulGExprs[x] = 0)
    <3>1. ulGExprs[x] \in Nat /\ ulGExprs'[x] \in Nat
      <4>1. ulGExprs[x] \in Nat
        BY <1>2, <1>7, Zenon DEF Typed
      <4>2. ulGExprs'[x] \in Nat
        BY <1>15
      <4>. QED
        BY <4>1, <4>2, Zenon
    <3>2. CASE x # g \/ ~drop
      BY <1>15, <3>1, <3>2, Zenon
    <3>3. CASE x = g /\ drop
      <4>1. ulGExprs[h] > 0 /\ ulGExprs[g] > 0
        BY <1>2, <1>4, <1>6, <1>7, ListedCounts, Zenon
      <4>2. dup[g] = None /\ dup[h] = None
        BY <1>7, <2>1, <4>1 DEF OneGroupPerClass
      <4>3. MasterIn(dup, g) = g /\ MasterIn(dup, h) = h
        BY <1>7, <4>2, MasterFacts, Zenon
      <4>4. g = h
        BY <1>8, <1>11, <2>2, <3>3, <4>3, Zenon
      <4>5. ListedCount'
        BY <1>17, <1>19, ListedCountNext
      <4>6. ~gx'[f].dup /\ gx'[f].home = h /\ f \in GExprs'
        BY <1>4, <1>6, <1>13, <1>14, Zenon
      <4>7. ulGExprs'[h] > 0
        BY <4>5, <4>6, Zenon DEF ListedCount
      <4>. QED
        BY <3>1, <3>3, <4>1, <4>4, <4>7
    <3>. QED
      BY <3>1, <3>2, <3>3, Zenon
  <2>4. OneGroupPerClass'
    BY <1>7, <1>10, <2>1, <2>2, <2>3 DEF OneGroupPerClass
  <2>5. BucketsCurrent'
    <3>1. \A x \in Groups : GroupHash(x)' = GroupHash(x)
      BY <1>7, <2>2, <2>3, Zenon DEF GroupHash
    <3>2. \A x \in GExprs : HashValue(gx[x].op, gx[x].kids)' = HashValue(gx[x].op, gx[x].kids)
      BY <1>2, <1>14, <3>1, SameBuckets, Zenon
    <3>3. ASSUME NEW p \in table' PROVE p[1] = HashValue(gx[p[2]].op, gx[p[2]].kids)'
      <4>1. p[2] \in GExprs /\ p[1] = HashValue(gx[p[2]].op, gx[p[2]].kids)
        BY <1>1, <1>2, <2>1, Zenon DEF MemoType, BucketsCurrent
      <4>. QED
        BY <3>2, <4>1, Zenon
    <3>. QED
      BY <3>3, Zenon DEF BucketsCurrent
  <2>6. ASSUME NEW x \in GExprs, NEW y \in GExprs PROVE SameResolved(x, y)' <=> SameResolved(x, y)
    BY <1>14, <2>2, Zenon DEF SameResolved
  <2>7. InTable \subseteq GExprs
    BY Zenon DEF InTable
  <2>. QED
    BY <1>1, <1>16, <2>1, <2>2, <2>4, <2>5, <2>6, <2>7
<1>27. PhaseInv'
  <2>1. InTable' \cap list' = {}
    BY <1>2, <1>16, Zenon DEF PhaseInv
  <2>. QED
    BY <1>1, <1>26, <2>1, Zenon DEF PhaseInv
<1>28. WorkInv'
  BY <1>1, Zenon DEF WorkInv
<1>. QED
  BY <1>17, <1>18, <1>19, <1>25, <1>27, <1>28, Zenon DEF IInv

(* One round of CMemo::FRehash, with or without a match, keeps the         *)
(* invariant.                                                              *)
LEMMA RehashInv == ASSUME NEW e \in list, IInv, Rehash(e) PROVE IInv'
<1>1. /\ pc = "Rehash" /\ list' = list \ {e}
      /\ UNCHANGED <<mean, root, pc, work, cursor, stage>>
  BY Zenon DEF Rehash
<1>2. CASE /\ Find(gx[e].op, gx[e].kids) = {}
           /\ table' = table \cup {<<HashValue(gx[e].op, gx[e].kids), e>>}
           /\ UNCHANGED <<gx, dup, ulGExprs, fNewDupGroups>>
  BY <1>1, <1>2, RehashInserts, Zenon
<1>3. CASE \E f \in Find(gx[e].op, gx[e].kids) : RehashDuplicate(e, f) /\ UNCHANGED table
  BY <1>1, <1>3, RehashMatches, Zenon
<1>. QED
  BY <1>2, <1>3, Zenon DEF Rehash
----------------------------------------------------------------------------
(* Every step of the memo keeps the invariant.                             *)
LEMMA NextInv == IInv /\ [Next]_vars => IInv'
<1> SUFFICES ASSUME IInv, [Next]_vars PROVE IInv'
  BY Zenon
<1>1. CASE Explore
  BY <1>1, ExploreInv, Zenon
<1>2. CASE InsertChild
  BY <1>2, InsertChildInv, Zenon
<1>3. CASE InsertRoot
  BY <1>3, InsertRootInv, Zenon
<1>4. CASE GroupMerge
  BY <1>4, GroupMergeInv, Zenon
<1>5. CASE MergeStep
  <2>1. CASE MergeGroup
    BY <2>1, MergeGroupInv, Zenon
  <2>2. CASE StartRehash
    BY <2>2, StartRehashInv, Zenon
  <2>3. CASE \E e \in list : Rehash(e)
    BY <2>3, RehashInv, Zenon
  <2>4. CASE RehashDone
    BY <2>4, RehashDoneInv, Zenon
  <2>. QED
    BY <1>5, <2>1, <2>2, <2>3, <2>4, Zenon DEF MergeStep
<1>6. CASE NextStage
  BY <1>6, NextStageInv, Zenon
<1>7. CASE Finished
  BY <1>7, StutterInv, Zenon DEF Finished
<1>8. CASE UNCHANGED vars
  BY <1>8, StutterInv, Zenon
<1>. QED
  BY <1>1, <1>2, <1>3, <1>4, <1>5, <1>6, <1>7, <1>8, Zenon DEF Next

(* The inductive invariant of the memo holds in every state.               *)
THEOREM MemoInvariant == Spec => []IInv
<1>1. Init => IInv
  BY InitInv, Zenon
<1>2. IInv /\ [Next]_vars => IInv'
  BY NextInv, Zenon
<1>. QED
  BY <1>1, <1>2, PTL DEF Spec

(* Whatever PgroupInsert finds, MarkDuplicates links and the merge moves   *)
(* and drops, an expression means what its group means, and linked groups  *)
(* mean the same.                                                          *)
THEOREM MeaningKept == Spec => []SameMeaning
<1>1. IInv => SameMeaning
  BY Zenon DEF IInv
<1>. QED
  BY <1>1, MemoInvariant, PTL

(* m_ulGExprs counts the listed expressions of every group, at every step  *)
(* of GroupMerge and FRehash.                                              *)
THEOREM CountsKept == Spec => []CountsExact
<1>1. IInv => CountsExact
  BY Zenon DEF IInv
<1>. QED
  BY <1>1, MemoInvariant, PTL

(* While xform results are inserted, every expression of the hash table is *)
(* in the bucket of its current hash value.                                *)
THEOREM TableKept == Spec => []TableCurrent
<1>1. IInv => TableCurrent
  BY Zenon DEF IInv, PhaseInv, BucketsCurrent, TableCurrent
<1>. QED
  BY <1>1, MemoInvariant, PTL

(* No expression is dropped by FRehash but for one that says the same, in  *)
(* the same class.                                                         *)
THEOREM AlternativesKept == Spec => []NoAlternativeLost
<1>1. IInv => NoAlternativeLost
  BY Zenon DEF IInv
<1>. QED
  BY <1>1, MemoInvariant, PTL

(* What GroupMerge leaves behind: one group for each class, a table that   *)
(* holds each distinct expression once, and a root that is a master.       *)
THEOREM MergeIsComplete == Spec => []MergeComplete
<1>1. ASSUME IInv, pc = "Done"
      PROVE  /\ \A g \in Groups : ulGExprs[g] = 0 <=> dup[g] # None
             /\ \A g \in Groups : dup[g] # None => dup[dup[g]] = None
             /\ dup[root] = None
             /\ \A e \in GExprs : \E f \in InTable : SameResolved(e, f)
             /\ \A e, f \in InTable : SameResolved(e, f) => e = f
             /\ (\A e \in GExprs : ~gx[e].prov) => InTable = {e \in GExprs : ~gx[e].dup}
  <2>1. MemoType /\ CoverInv /\ list = {}
    BY <1>1, Zenon DEF IInv, MemoType
  <2>2. /\ OneGroupPerClass /\ dup[root] = None
        /\ \A e, f \in InTable : SameResolved(e, f) => e = f
    BY <1>1, Zenon DEF IInv, PhaseInv
  <2>3. InTable \subseteq {e \in GExprs : ~gx[e].dup}
    BY <2>1, Zenon DEF MemoType, InTable
  <2>4. /\ \A e \in GExprs : \E f \in InTable : SameResolved(e, f)
        /\ (\A e \in GExprs : ~gx[e].prov) => \A e \in GExprs : ~gx[e].dup => e \in InTable
    BY <2>1, Zenon DEF CoverInv
  <2>. QED
    BY <2>2, <2>3, <2>4, Zenon DEF OneGroupPerClass
<1>2. IInv => MergeComplete
  BY <1>1, Zenon DEF MergeComplete
<1>. QED
  BY <1>2, MemoInvariant, PTL
=============================================================================
