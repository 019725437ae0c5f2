----------------------------- MODULE MemoLinks -----------------------------
(***************************************************************************)
(* Facts about the duplicate links of Memo that hold of any links: the     *)
(* master that MasterIn finds, and what AddDuplicateGrp, Resolve and       *)
(* Marked do to the masters.                                               *)
(***************************************************************************)
EXTENDS Memo, FiniteSetTheorems, WellFoundedInduction, TLAPS

(* Links between n groups that lead from older to newer ones.              *)
Chains(n) == {d \in [1..n -> 0..n] : \A g \in 1..n : d[g] # None => d[g] > g}

(* m is the function that MasterIn defines by recursion.                   *)
IsMasters(m, d) == m = [h \in DOMAIN d |-> IF d[h] = None THEN h ELSE m[d[h]]]
----------------------------------------------------------------------------
(* The order of the numbers is well founded.                               *)
LEMMA LessThan == \E R : IsWellFoundedOn(R, Nat) /\ \A x, y \in Nat : <<x, y>> \in R <=> x < y
<1>1. \A x, y \in Nat : <<x, y>> \in OpToRel(<, Nat) <=> x < y
  BY Zenon DEF OpToRel
<1>. QED
  BY <1>1, NatLessThanWellFounded, Zenon

(* A set of numbers that is not empty has a least member.                  *)
LEMMA Least == ASSUME NEW H, H \subseteq Nat, H # {} PROVE \E j \in H : \A h \in H : j <= h
<1>1. PICK R : IsWellFoundedOn(R, Nat) /\ \A x, y \in Nat : <<x, y>> \in R <=> x < y
  BY LessThan, Zenon
<1>2. IsWellFoundedOn(R, Nat)
  BY <1>1, Zenon
<1>3. \A x, y \in Nat : <<x, y>> \in R <=> x < y
  BY <1>1, Zenon
<1>4. PICK j \in H : \A h \in H : ~(<<h, j>> \in R)
  BY <1>2, WFMin, Zenon
<1>5. ASSUME NEW h \in H PROVE j <= h
  <2>1. ~(h < j)
    BY <1>3, <1>4, Zenon
  <2>2. h \in Nat /\ j \in Nat
    BY Zenon
  <2>. QED
    BY <2>1, <2>2
<1>. QED
  BY <1>5, Zenon

(* Induction over the numbers, for a set in place of a predicate.          *)
LEMMA Induction ==
    ASSUME NEW S, 0 \in S, \A k \in Nat : k \in S => k + 1 \in S PROVE Nat \subseteq S
<1>1. SUFFICES ASSUME ~(Nat \subseteq S) PROVE FALSE
  BY Zenon
<1>2. PICK j \in Nat \ S : \A h \in Nat \ S : j <= h
  <2>1. Nat \ S # {} /\ Nat \ S \subseteq Nat
    BY <1>1, Zenon
  <2>. QED
    BY <2>1, Least, Zenon
<1>3. j # 0 /\ j - 1 \in Nat /\ (j - 1) + 1 = j
  BY <1>2
<1>4. j - 1 \in S
  BY <1>2, <1>3
<1>. QED
  BY <1>2, <1>3, <1>4, Zenon
----------------------------------------------------------------------------
(* The recursive definition of MasterIn has a solution: the links ascend,  *)
(* so it can be computed from the newest group down.                       *)
LEMMA MastersExist ==
    ASSUME NEW n \in Nat, NEW d \in Chains(n) PROVE \E m \in [1..n -> 1..n] : IsMasters(m, d)
<1> DEFINE Step(m, h) == IF d[h] = None THEN h ELSE m[d[h]]
           Done(k) == \E m \in [1..n -> 1..n] : \A h \in 1..n : h + k > n => m[h] = Step(m, h)
           S == {k \in Nat : Done(k)}
<1>1. d \in [1..n -> 0..n] /\ \A h \in 1..n : d[h] = None \/ (d[h] \in 1..n /\ d[h] > h)
  BY DEF Chains, None
<1>2. 0 \in S
  <2>1. [h \in 1..n |-> h] \in [1..n -> 1..n]
    BY Zenon
  <2>2. \A h \in 1..n : ~(h + 0 > n)
    OBVIOUS
  <2>. QED
    BY <2>1, <2>2, Zenon
<1>3. ASSUME NEW k \in Nat, k \in S PROVE k + 1 \in S
  <2>1. k + 1 \in Nat /\ Done(k)
    BY <1>3
  <2>. SUFFICES Done(k + 1)
    <3>. HIDE DEF Done
    <3>. QED
      BY <2>1, Zenon
  <2>2. PICK m \in [1..n -> 1..n] : \A h \in 1..n : h + k > n => m[h] = Step(m, h)
    BY <2>1, Zenon
  <2>3. CASE n - k \in 1..n
    <3>1. PICK g \in 1..n : g = n - k
      BY <2>3, Zenon
    <3>2. Step(m, g) \in 1..n
      BY <1>1, Zenon
    <3>3. PICK q : q = [m EXCEPT ![g] = Step(m, g)]
      BY Zenon
    <3>4. q \in [1..n -> 1..n] /\ q[g] = Step(m, g) /\ \A h \in 1..n : h # g => q[h] = m[h]
      BY <3>2, <3>3, Zenon
    <3>5. ASSUME NEW h \in 1..n, h + (k + 1) > n PROVE q[h] = Step(q, h)
      <4>1. h = g \/ h + k > n
        BY <3>1, <3>5
      <4>2. Step(q, h) = Step(m, h)
        BY <1>1, <3>1, <3>4, <4>1
      <4>. QED
        BY <2>2, <3>1, <3>4, <4>1, <4>2, Zenon
    <3>. QED
      BY <3>4, <3>5, Zenon DEF Done
  <2>4. CASE n - k \notin 1..n
    <3>1. \A h \in 1..n : h + (k + 1) > n => h + k > n
      BY <2>4
    <3>. QED
      BY <2>2, <3>1, Zenon
  <2>. QED
    BY <2>3, <2>4, Zenon
<1>4. n \in S
  <2>. HIDE DEF S
  <2>. QED
    BY <1>2, <1>3, Induction, Zenon
<1>5. PICK m \in [1..n -> 1..n] : \A h \in 1..n : m[h] = Step(m, h)
  <2>1. PICK m \in [1..n -> 1..n] : \A h \in 1..n : h + n > n => m[h] = Step(m, h)
    BY <1>4, Zenon
  <2>. QED
    BY <2>1
<1>6. m = [h \in 1..n |-> Step(m, h)] /\ DOMAIN d = 1..n
  BY <1>1, <1>5, Zenon
<1>. QED
  BY <1>6, Zenon DEF IsMasters

(* Hence MasterIn obeys its defining equation.                             *)
LEMMA MasterStep ==
    ASSUME NEW n \in Nat, NEW d \in Chains(n), NEW g \in 1..n
    PROVE  MasterIn(d, g) = IF d[g] = None THEN g ELSE MasterIn(d, d[g])
<1>1. PICK m : m = CHOOSE q : IsMasters(q, d)
  BY Zenon
<1>2. IsMasters(m, d)
  BY <1>1, MastersExist, Zenon
<1>3. \A h : MasterIn(d, h) = m[h]
  BY <1>1, Zenon DEF MasterIn, IsMasters
<1>4. g \in DOMAIN d
  BY Zenon DEF Chains
<1>5. m[g] = IF d[g] = None THEN g ELSE m[d[g]]
  BY <1>2, <1>4, Zenon DEF IsMasters
<1>. QED
  BY <1>3, <1>5, Zenon

(* Induction over the groups, from the newest down.                        *)
LEMMA Descent ==
    ASSUME NEW n \in Nat, NEW T,
           \A h \in 1..n : (\A j \in 1..n : j > h => j \in T) => h \in T
    PROVE  1..n \subseteq T
<1> DEFINE H == {k \in Nat : k < n /\ n - k \notin T}
<1>1. SUFFICES ASSUME NEW g \in 1..n, g \notin T PROVE FALSE
  BY Zenon
<1>2. n - g \in H
  <2>1. n - g \in Nat /\ n - g < n /\ n - (n - g) = g
    OBVIOUS
  <2>. QED
    BY <1>1, <2>1, Zenon
<1>3. PICK k \in H : \A i \in H : k <= i
  <2>1. H # {} /\ H \subseteq Nat
    BY <1>2, Zenon
  <2>. HIDE DEF H
  <2>. QED
    BY <2>1, Least, Zenon
<1>4. k \in Nat /\ n - k \in 1..n /\ n - k \notin T
  OBVIOUS
<1>5. ASSUME NEW j \in 1..n, j > n - k PROVE j \in T
  <2>1. n - j \in Nat /\ n - j < n /\ n - (n - j) = j /\ ~(k <= n - j)
    BY <1>4, <1>5
  <2>. QED
    BY <1>3, <2>1
<1>. QED
  BY <1>4, <1>5, Zenon

(* The master of a group is a newer group, or the group itself, and has no *)
(* link.                                                                   *)
LEMMA MasterFacts ==
    ASSUME NEW n \in Nat, NEW d \in Chains(n)
    PROVE  \A g \in 1..n : /\ MasterIn(d, g) \in 1..n /\ g <= MasterIn(d, g)
                           /\ d[MasterIn(d, g)] = None
                           /\ d[g] # None => /\ d[g] \in 1..n /\ g < d[g]
                                              /\ MasterIn(d, d[g]) = MasterIn(d, g)
                                              /\ d[g] <= MasterIn(d, g)
                           /\ d[g] = None => MasterIn(d, g) = g
<1> DEFINE Good(g) == MasterIn(d, g) \in 1..n /\ g <= MasterIn(d, g) /\ d[MasterIn(d, g)] = None
           T == {g \in 1..n : Good(g)}
<1>1. \A g \in 1..n : d[g] # None => d[g] \in 1..n /\ g < d[g]
  BY DEF Chains, None
<1>2. ASSUME NEW h \in 1..n, \A j \in 1..n : j > h => j \in T PROVE h \in T
  <2>1. MasterIn(d, h) = IF d[h] = None THEN h ELSE MasterIn(d, d[h])
    BY MasterStep, Zenon
  <2>2. CASE d[h] = None
    BY <2>1, <2>2
  <2>3. CASE d[h] # None
    <3>1. d[h] \in T /\ d[h] \in 1..n /\ h < d[h] /\ MasterIn(d, h) = MasterIn(d, d[h])
      BY <1>1, <1>2, <2>1, <2>3, Zenon
    <3>. QED
      BY <3>1
  <2>. QED
    BY <2>2, <2>3, Zenon
<1>3. 1..n \subseteq T
  <2>. HIDE DEF T
  <2>. QED
    BY <1>2, Descent, Zenon
<1>4. \A g \in 1..n : MasterIn(d, g) = IF d[g] = None THEN g ELSE MasterIn(d, d[g])
  BY MasterStep, Zenon
<1>5. ASSUME NEW g \in 1..n PROVE Good(g)
  BY <1>3, Zenon
<1>. HIDE DEF T
<1>. QED
  BY <1>1, <1>4, <1>5, Zenon

(* The masters are determined by the equation.                             *)
LEMMA MasterUnique ==
    ASSUME NEW n \in Nat, NEW d \in Chains(n), NEW m,
           \A h \in 1..n : m[h] = IF d[h] = None THEN h ELSE m[d[h]]
    PROVE  \A h \in 1..n : MasterIn(d, h) = m[h]
<1> DEFINE T == {g \in 1..n : MasterIn(d, g) = m[g]}
<1>1. ASSUME NEW h \in 1..n, \A j \in 1..n : j > h => j \in T PROVE h \in T
  <2>1. MasterIn(d, h) = IF d[h] = None THEN h ELSE MasterIn(d, d[h])
    BY MasterStep, Zenon
  <2>2. d[h] # None => d[h] \in T
    BY <1>1 DEF Chains, None
  <2>. QED
    BY <2>1, <2>2, Zenon
<1>2. 1..n \subseteq T
  <2>. HIDE DEF T
  <2>. QED
    BY <1>1, Descent, Zenon
<1>. QED
  BY <1>2, Zenon

(* What the two ends of every link share, a group shares with its master.  *)
LEMMA MasterShares ==
    ASSUME NEW n \in Nat, NEW d \in Chains(n), NEW mu,
           \A g \in 1..n : d[g] # None => mu[d[g]] = mu[g]
    PROVE  \A g \in 1..n : mu[MasterIn(d, g)] = mu[g]
<1> DEFINE T == {g \in 1..n : mu[MasterIn(d, g)] = mu[g]}
<1>1. ASSUME NEW h \in 1..n, \A j \in 1..n : j > h => j \in T PROVE h \in T
  <2>1. MasterIn(d, h) = IF d[h] = None THEN h ELSE MasterIn(d, d[h])
    BY MasterStep, Zenon
  <2>2. d[h] # None => d[h] \in T
    BY <1>1 DEF Chains, None
  <2>. QED
    BY <2>1, <2>2, Zenon
<1>2. 1..n \subseteq T
  <2>. HIDE DEF T
  <2>. QED
    BY <1>1, Descent, Zenon
<1>. QED
  BY <1>2, Zenon

(* r is d with a link from the master a to the newer group b.              *)
OneLink(n, d, a, b, r) ==
    /\ a \in 1..n /\ b \in 1..n /\ a < b /\ d[a] = None
    /\ r \in [1..n -> 0..n] /\ r[a] = b /\ \A g \in 1..n : g # a => r[g] = d[g]

(* Such a link redirects the groups of the master.                         *)
LEMMA LinkMasters ==
    ASSUME NEW n \in Nat, NEW d \in Chains(n), NEW a, NEW b, NEW r, OneLink(n, d, a, b, r)
    PROVE  /\ r \in Chains(n)
           /\ \A g \in 1..n : MasterIn(r, g) = IF MasterIn(d, g) = a THEN MasterIn(d, b)
                                                ELSE MasterIn(d, g)
<1>. USE DEF OneLink
<1>0. PICK m : m = [g \in 1..n |-> IF MasterIn(d, g) = a THEN MasterIn(d, b) ELSE MasterIn(d, g)]
  BY Zenon
<1>1. /\ r \in Chains(n) /\ r[a] = b /\ b # None
      /\ \A g \in 1..n : g # a => r[g] = d[g]
  <2>1. ASSUME NEW g \in 1..n, r[g] # None PROVE r[g] > g
    <3>1. d[g] # None => d[g] > g
      BY Zenon DEF Chains
    <3>2. CASE g = a
      BY <3>2, Zenon
    <3>3. CASE g # a
      BY <2>1, <3>1, <3>3, Zenon
    <3>. QED
      BY <3>2, <3>3, Zenon
  <2>2. b # None
    BY DEF None
  <2>. QED
    BY <2>1, <2>2, Zenon DEF Chains
<1>2. MasterIn(d, b) # a /\ MasterIn(d, a) = a
  BY MasterFacts
<1>3. ASSUME NEW h \in 1..n PROVE m[h] = IF r[h] = None THEN h ELSE m[r[h]]
  <2>1. CASE h = a
    <3>1. m[a] = MasterIn(d, b) /\ m[b] = MasterIn(d, b)
      BY <1>0, <1>2, Zenon
    <3>. QED
      BY <1>1, <2>1, <3>1, Zenon
  <2>2. CASE h # a /\ d[h] = None
    <3>1. MasterIn(d, h) = h /\ r[h] = None
      BY <1>1, <2>2, MasterFacts, Zenon
    <3>. QED
      BY <1>0, <2>2, <3>1, Zenon
  <2>3. CASE h # a /\ d[h] # None
    <3>1. d[h] \in 1..n /\ MasterIn(d, d[h]) = MasterIn(d, h)
      BY <2>3, MasterFacts, Zenon
    <3>2. m[d[h]] = m[h]
      BY <1>0, <3>1, Zenon
    <3>. QED
      BY <1>1, <2>3, <3>2, Zenon
  <2>. QED
    BY <2>1, <2>2, <2>3, Zenon
<1>4. \A g \in 1..n : MasterIn(r, g) = m[g]
  BY <1>1, <1>3, MasterUnique
<1>. QED
  BY <1>0, <1>1, <1>4, Zenon

(* CGroup::ResolveDuplicateMaster shortens a group's link and changes no   *)
(* master.                                                                 *)
LEMMA ResolveMasters ==
    ASSUME NEW n \in Nat, NEW d \in Chains(n), NEW a \in 1..n, NEW r, r = Resolve(d, a)
    PROVE  /\ r \in Chains(n)
           /\ \A g \in 1..n : MasterIn(r, g) = MasterIn(d, g)
           /\ \A g \in 1..n : r[g] = IF g = a /\ d[g] # None THEN MasterIn(d, g) ELSE d[g]
<1>1. CASE d[a] = None
  BY <1>1, Zenon DEF Resolve
<1>2. CASE d[a] # None
  <2>1. r = [d EXCEPT ![a] = MasterIn(d, a)]
    BY <1>2, Zenon DEF Resolve
  <2>2. /\ MasterIn(d, a) \in 1..n /\ a < MasterIn(d, a) /\ d[MasterIn(d, a)] = None
        /\ MasterIn(d, MasterIn(d, a)) = MasterIn(d, a)
    BY <1>2, MasterFacts
  <2>3. /\ r \in Chains(n) /\ r[a] = MasterIn(d, a) /\ r[a] # None
        /\ \A g \in 1..n : g # a => r[g] = d[g]
    BY <2>1, <2>2 DEF Chains, None
  <2>4. PICK m : m = [g \in 1..n |-> MasterIn(d, g)]
    BY Zenon
  <2>5. ASSUME NEW h \in 1..n PROVE m[h] = IF r[h] = None THEN h ELSE m[r[h]]
    <3>1. CASE h = a
      BY <2>2, <2>3, <2>4, <3>1, Zenon
    <3>2. CASE h # a
      <4>1. /\ r[h] = d[h] /\ m[h] = MasterIn(d, h)
            /\ d[h] = None => MasterIn(d, h) = h
            /\ d[h] # None => d[h] \in 1..n /\ MasterIn(d, d[h]) = MasterIn(d, h)
        BY <2>3, <2>4, <3>2, MasterFacts, Zenon
      <4>. QED
        BY <2>4, <4>1, Zenon
    <3>. QED
      BY <3>1, <3>2, Zenon
  <2>6. \A g \in 1..n : MasterIn(r, g) = m[g]
    BY <2>3, <2>5, MasterUnique
  <2>. QED
    BY <1>2, <2>3, <2>4, <2>6, Zenon
<1>. QED
  BY <1>1, <1>2, Zenon
----------------------------------------------------------------------------
(* The links that AddDuplicateGrp's loop returns for the pair p, given     *)
(* those it returns for the pair it goes on with.                          *)
AddStep(f, d, p) ==
    IF p[1] > p[2] THEN f[<<p[2], p[1]>>]
    ELSE IF d[p[1]] = p[2] THEN d
    ELSE IF d[p[1]] = None THEN [d EXCEPT ![p[1]] = p[2]]
    ELSE f[<<d[p[1]], p[2]>>]

IsAdd(f, d) == f = [p \in (DOMAIN d) \X (DOMAIN d) |-> AddStep(f, d, p)]

(* A bound on the turns that are left.                                     *)
Turns(n, p) == 2 * (2 * n - p[1] - p[2]) + (IF p[1] > p[2] THEN 1 ELSE 0)

(* AddDuplicateGrp is the value of the function that its loop defines.     *)
LEMMA AddChoice == \A d, g, h : AddDuplicateGrp(d, g, h) = (CHOOSE f : IsAdd(f, d))[<<g, h>>]
  BY Zenon DEF AddDuplicateGrp, IsAdd, AddStep

(* Every turn of the loop comes closer to the end.                         *)
LEMMA TurnsDrop ==
    ASSUME NEW n \in Nat, NEW d \in Chains(n), NEW s \in 1..n, NEW t \in 1..n
    PROVE  /\ Turns(n, <<s, t>>) \in 0..(4 * n - 1)
           /\ s > t => Turns(n, <<t, s>>) < Turns(n, <<s, t>>)
           /\ ~(s > t) /\ d[s] # None => /\ d[s] \in 1..n
                                         /\ Turns(n, <<d[s], t>>) < Turns(n, <<s, t>>)
<1>1. d[s] # None => d[s] \in 1..n /\ d[s] > s
  BY DEF Chains, None
<1>2. \A x, y \in 1..n : Turns(n, <<x, y>>) = 2 * (2 * n - x - y) + (IF x > y THEN 1 ELSE 0)
  BY Zenon DEF Turns
<1>. QED
  BY <1>1, <1>2

(* The recursive definition of AddDuplicateGrp has a solution.             *)
LEMMA AddExists ==
    ASSUME NEW n \in Nat, NEW d \in Chains(n) PROVE \E f : IsAdd(f, d)
<1> DEFINE P == (1..n) \X (1..n)
           L == [1..n -> 0..n]
           Done(k) == \E f \in [P -> L] : \A p \in P : Turns(n, p) < k => f[p] = AddStep(f, d, p)
           S == {k \in Nat : Done(k)}
<1>1. d \in L /\ DOMAIN d = 1..n
  BY Zenon DEF Chains
<1>2. ASSUME NEW p \in P PROVE p[1] \in 1..n /\ p[2] \in 1..n /\ p = <<p[1], p[2]>>
  OBVIOUS
<1>c. ASSUME NEW p \in P PROVE Turns(n, p) \in Nat /\ Turns(n, p) < 4 * n
  <2>1. PICK s \in 1..n, t \in 1..n : p = <<s, t>>
    BY <1>2, Zenon
  <2>2. Turns(n, <<s, t>>) \in 0..(4 * n - 1)
    BY TurnsDrop, Zenon
  <2>. QED
    BY <2>1, <2>2
<1>d. ASSUME NEW p \in P, p[1] > p[2]
      PROVE  <<p[2], p[1]>> \in P /\ Turns(n, <<p[2], p[1]>>) < Turns(n, p)
  <2>1. PICK s \in 1..n, t \in 1..n : p = <<s, t>> /\ p[1] = s /\ p[2] = t
    BY <1>2, Zenon
  <2>2. Turns(n, <<t, s>>) < Turns(n, <<s, t>>) /\ <<t, s>> \in P
    BY <1>d, <2>1, TurnsDrop, Zenon
  <2>. QED
    BY <2>1, <2>2, Zenon
<1>e. ASSUME NEW p \in P, ~(p[1] > p[2]), d[p[1]] # None
      PROVE  <<d[p[1]], p[2]>> \in P /\ Turns(n, <<d[p[1]], p[2]>>) < Turns(n, p)
  <2>1. PICK s \in 1..n, t \in 1..n : p = <<s, t>> /\ p[1] = s /\ p[2] = t
    BY <1>2, Zenon
  <2>2. Turns(n, <<d[s], t>>) < Turns(n, <<s, t>>) /\ d[s] \in 1..n
    BY <1>e, <2>1, TurnsDrop, Zenon
  <2>. QED
    BY <2>1, <2>2, Zenon
<1>a. \A a \in 1..n, b \in 1..n : [d EXCEPT ![a] = b] \in L
  BY <1>1
<1>b. [p \in P |-> d] \in [P -> L]
  BY <1>1, Zenon
<1>. HIDE DEF P, L
<1>3. 0 \in S
  <2>1. \A p \in P : ~(Turns(n, p) < 0)
    BY <1>c
  <2>. QED
    BY <1>b, <2>1, Zenon
<1>4. ASSUME NEW k \in Nat, k \in S PROVE k + 1 \in S
  <2>1. k + 1 \in Nat /\ Done(k)
    BY <1>4
  <2>. SUFFICES Done(k + 1)
    <3>. HIDE DEF Done
    <3>. QED
      BY <2>1, Zenon
  <2>2. PICK f \in [P -> L] : \A p \in P : Turns(n, p) < k => f[p] = AddStep(f, d, p)
    BY <2>1, Zenon
  <2>3. PICK q : q = [p \in P |-> IF Turns(n, p) = k THEN AddStep(f, d, p) ELSE f[p]]
    BY Zenon
  <2>4. ASSUME NEW p \in P PROVE AddStep(f, d, p) \in L
    <3>1. p[1] > p[2] => f[<<p[2], p[1]>>] \in L
      BY <1>d, Zenon
    <3>2. ~(p[1] > p[2]) /\ d[p[1]] # None => f[<<d[p[1]], p[2]>>] \in L
      BY <1>e, Zenon
    <3>3. [d EXCEPT ![p[1]] = p[2]] \in L
      BY <1>2, <1>a, Zenon
    <3>. QED
      BY <1>1, <3>1, <3>2, <3>3, Zenon DEF AddStep
  <2>5. q \in [P -> L]
    BY <2>3, <2>4, Zenon
  <2>6. ASSUME NEW p \in P, Turns(n, p) < k + 1 PROVE q[p] = AddStep(q, d, p)
    <3>1. \A o \in P : Turns(n, o) < k => q[o] = f[o]
      BY <1>c, <2>3
    <3>2. AddStep(q, d, p) = AddStep(f, d, p)
      <4>1. ASSUME NEW o \in P, Turns(n, o) < Turns(n, p) PROVE q[o] = f[o]
        BY <1>c, <2>6, <3>1, <4>1
      <4>2. p[1] > p[2] => q[<<p[2], p[1]>>] = f[<<p[2], p[1]>>]
        BY <1>d, <4>1, Zenon
      <4>3. ~(p[1] > p[2]) /\ d[p[1]] # None => q[<<d[p[1]], p[2]>>] = f[<<d[p[1]], p[2]>>]
        BY <1>e, <4>1, Zenon
      <4>. QED
        BY <4>2, <4>3, Zenon DEF AddStep
    <3>3. CASE Turns(n, p) = k
      BY <2>3, <3>2, <3>3, Zenon
    <3>4. CASE Turns(n, p) < k
      BY <2>2, <3>1, <3>2, <3>4, Zenon
    <3>. QED
      BY <1>c, <2>6, <3>3, <3>4
  <2>. QED
    BY <2>5, <2>6, Zenon
<1>5. 4 * n \in S
  <2>. HIDE DEF S
  <2>. QED
    BY <1>3, <1>4, Induction
<1>6. PICK f \in [P -> L] : \A p \in P : Turns(n, p) < 4 * n => f[p] = AddStep(f, d, p)
  BY <1>5, Zenon
<1>7. \A p \in P : f[p] = AddStep(f, d, p)
  BY <1>c, <1>6, Zenon
<1>8. f = [p \in P |-> AddStep(f, d, p)]
  BY <1>6, <1>7, Zenon
<1>9. DOMAIN d = 1..n
  BY <1>1, Zenon
<1>10. IsAdd(f, d)
  BY <1>8, <1>9, Zenon DEF IsAdd, P
<1>. QED
  BY <1>10, Zenon

(* Hence AddDuplicateGrp obeys its defining equation.                      *)
LEMMA AddUnfolds ==
    ASSUME NEW n \in Nat, NEW d \in Chains(n), NEW s \in 1..n, NEW t \in 1..n
    PROVE  AddDuplicateGrp(d, s, t) =
               IF s > t THEN AddDuplicateGrp(d, t, s)
               ELSE IF d[s] = t THEN d
               ELSE IF d[s] = None THEN [d EXCEPT ![s] = t]
               ELSE AddDuplicateGrp(d, d[s], t)
<1>1. PICK f : f = CHOOSE q : IsAdd(q, d)
  BY Zenon
<1>2. IsAdd(f, d)
  BY <1>1, AddExists, Zenon
<1>3. \A g, h : AddDuplicateGrp(d, g, h) = f[<<g, h>>]
  BY <1>1, AddChoice, Zenon
<1>4. <<s, t>> \in (DOMAIN d) \X (DOMAIN d)
  <2>1. DOMAIN d = 1..n
    BY Zenon DEF Chains
  <2>2. s \in DOMAIN d /\ t \in DOMAIN d
    BY <2>1, Zenon
  <2>. QED
    BY <2>2, Zenon
<1>5. f[<<s, t>>] = AddStep(f, d, <<s, t>>)
  BY <1>2, <1>4, Zenon DEF IsAdd
<1>6. AddStep(f, d, <<s, t>>) =
          IF s > t THEN f[<<t, s>>]
          ELSE IF d[s] = t THEN d
          ELSE IF d[s] = None THEN [d EXCEPT ![s] = t]
          ELSE f[<<d[s], t>>]
  BY Zenon DEF AddStep
<1>. QED
  BY <1>3, <1>5, <1>6, Zenon

(* r is d, with one more link where the masters of g and h differed.       *)
Joined(d, g, h, r) ==
    \/ MasterIn(d, g) = MasterIn(d, h) /\ r = d
    \/ \E a, b \in DOMAIN d :
          /\ a < b /\ d[a] = None /\ r = [d EXCEPT ![a] = b]
          /\ \/ a = MasterIn(d, g) /\ MasterIn(d, b) = MasterIn(d, h)
             \/ a = MasterIn(d, h) /\ MasterIn(d, b) = MasterIn(d, g)

(* CGroup::AddDuplicateGrp adds at most one link, at the end of a chain.   *)
LEMMA AddJoins ==
    ASSUME NEW n \in Nat, NEW d \in Chains(n)
    PROVE  \A s, t \in 1..n : s # t => Joined(d, s, t, AddDuplicateGrp(d, s, t))
<1> DEFINE Good(s, t) == s # t => Joined(d, s, t, AddDuplicateGrp(d, s, t))
           S == {k \in Nat : \A s, t \in 1..n : Turns(n, <<s, t>>) < k => Good(s, t)}
<1>0. DOMAIN d = 1..n
  BY Zenon DEF Chains
<1>1. 0 \in S
  <2>1. ASSUME NEW s \in 1..n, NEW t \in 1..n PROVE ~(Turns(n, <<s, t>>) < 0)
    <3>1. Turns(n, <<s, t>>) \in 0..(4 * n - 1)
      BY TurnsDrop, Zenon
    <3>. QED
      BY <3>1
  <2>. QED
    BY <2>1, Zenon
<1>2. ASSUME NEW k \in Nat, k \in S PROVE k + 1 \in S
  <2>1. ASSUME NEW s \in 1..n, NEW t \in 1..n, Turns(n, <<s, t>>) < k + 1, s # t
        PROVE  Joined(d, s, t, AddDuplicateGrp(d, s, t))
    <3>1. PICK r : r = AddDuplicateGrp(d, s, t)
      BY Zenon
    <3>2. ASSUME NEW x \in 1..n, NEW y \in 1..n, Turns(n, <<x, y>>) < Turns(n, <<s, t>>), x # y
          PROVE  Joined(d, x, y, AddDuplicateGrp(d, x, y))
      <4>1. /\ Turns(n, <<x, y>>) \in 0..(4 * n - 1) /\ Turns(n, <<s, t>>) \in 0..(4 * n - 1)
        BY TurnsDrop, Zenon
      <4>2. Turns(n, <<x, y>>) < k
        BY <2>1, <3>2, <4>1
      <4>. QED
        BY <1>2, <3>2, <4>2, Zenon
    <3>3. CASE s > t
      <4>1. r = AddDuplicateGrp(d, t, s)
        BY <3>1, <3>3, AddUnfolds, Zenon
      <4>2. Joined(d, t, s, r)
        BY <2>1, <3>2, <3>3, <4>1, TurnsDrop, Zenon
      <4>. QED
        BY <3>1, <4>2, Zenon DEF Joined
    <3>4. CASE ~(s > t) /\ d[s] = t
      <4>1. r = d
        BY <3>1, <3>4, AddUnfolds, Zenon
      <4>2. MasterIn(d, s) = MasterIn(d, t)
        BY <3>4, MasterFacts DEF None
      <4>. QED
        BY <3>1, <4>1, <4>2, Zenon DEF Joined
    <3>5. CASE ~(s > t) /\ d[s] # t /\ d[s] = None
      <4>1. r = [d EXCEPT ![s] = t] /\ s < t
        BY <2>1, <3>1, <3>5, AddUnfolds
      <4>2. MasterIn(d, s) = s
        BY <3>5, MasterFacts, Zenon
      <4>. QED
        BY <1>0, <3>1, <3>5, <4>1, <4>2, Zenon DEF Joined
    <3>6. CASE ~(s > t) /\ d[s] # t /\ d[s] # None
      <4>1. r = AddDuplicateGrp(d, d[s], t)
        BY <3>1, <3>6, AddUnfolds, Zenon
      <4>2. d[s] \in 1..n /\ Turns(n, <<d[s], t>>) < Turns(n, <<s, t>>)
        BY <3>6, TurnsDrop, Zenon
      <4>3. Joined(d, d[s], t, r)
        BY <3>2, <3>6, <4>1, <4>2, Zenon
      <4>4. MasterIn(d, d[s]) = MasterIn(d, s)
        BY <3>6, MasterFacts, Zenon
      <4>. QED
        BY <3>1, <4>3, <4>4, Zenon DEF Joined
    <3>. QED
      BY <3>3, <3>4, <3>5, <3>6, Zenon
  <2>2. k + 1 \in Nat
    OBVIOUS
  <2>. QED
    BY <2>1, <2>2, Zenon
<1>3. 4 * n \in S
  <2>. HIDE DEF S
  <2>. QED
    BY <1>1, <1>2, Induction
<1>4. ASSUME NEW s \in 1..n, NEW t \in 1..n PROVE Turns(n, <<s, t>>) < 4 * n
  <2>1. Turns(n, <<s, t>>) \in 0..(4 * n - 1)
    BY TurnsDrop, Zenon
  <2>. QED
    BY <2>1
<1>. QED
  BY <1>3, <1>4, Zenon

(* mu is the same at both ends of every link of d.                         *)
Shared(d, mu) == \A x \in DOMAIN d : d[x] # None => mu[d[x]] = mu[x]

(* r links the groups that d links, and more: only groups of S, and those  *)
(* without a link, get another one.                                        *)
Coarser(n, d, r, S) ==
    /\ r \in Chains(n)
    /\ \A x, y \in 1..n : MasterIn(d, x) = MasterIn(d, y) => MasterIn(r, x) = MasterIn(r, y)
    /\ \A x \in 1..n : d[x] # None => r[x] # None
    /\ \A x \in 1..n : r[x] # d[x] => x \in S \/ d[x] = None

(* Two rounds of new links one after the other are one round.              *)
LEMMA CoarserTrans ==
    ASSUME NEW n \in Nat, NEW d, NEW e, NEW r, NEW S, Coarser(n, d, e, S), Coarser(n, e, r, S)
    PROVE  Coarser(n, d, r, S)
  BY Zenon DEF Coarser

(* One link joins the two classes and respects what both share.            *)
LEMMA JoinMasters ==
    ASSUME NEW n \in Nat, NEW d \in Chains(n), NEW g \in 1..n, NEW h \in 1..n,
           NEW r, Joined(d, g, h, r), NEW S
    PROVE  /\ Coarser(n, d, r, S) /\ MasterIn(r, g) = MasterIn(r, h)
           /\ \A mu : Shared(d, mu) /\ mu[g] = mu[h] => Shared(r, mu)
<1>0. DOMAIN d = 1..n
  BY Zenon DEF Chains
<1>1. CASE MasterIn(d, g) = MasterIn(d, h) /\ r = d
  BY <1>1, Zenon DEF Coarser
<1>2. CASE \E a, b \in DOMAIN d :
             /\ a < b /\ d[a] = None /\ r = [d EXCEPT ![a] = b]
             /\ \/ a = MasterIn(d, g) /\ MasterIn(d, b) = MasterIn(d, h)
                \/ a = MasterIn(d, h) /\ MasterIn(d, b) = MasterIn(d, g)
  <2>1. PICK a \in 1..n, b \in 1..n :
             /\ a < b /\ d[a] = None /\ r = [d EXCEPT ![a] = b]
             /\ \/ a = MasterIn(d, g) /\ MasterIn(d, b) = MasterIn(d, h)
                \/ a = MasterIn(d, h) /\ MasterIn(d, b) = MasterIn(d, g)
    BY <1>0, <1>2, Zenon
  <2>2. r \in [1..n -> 0..n] /\ r[a] = b /\ \A x \in 1..n : x # a => r[x] = d[x]
    BY <2>1 DEF Chains
  <2>3. /\ r \in Chains(n)
        /\ \A x \in 1..n : MasterIn(r, x) = IF MasterIn(d, x) = a THEN MasterIn(d, b)
                                             ELSE MasterIn(d, x)
    <3>1. OneLink(n, d, a, b, r)
      BY <2>1, <2>2, Zenon DEF OneLink
    <3>. QED
      BY <3>1, LinkMasters
  <2>4. MasterIn(r, g) = MasterIn(r, h)
    <3>1. /\ MasterIn(r, g) = IF MasterIn(d, g) = a THEN MasterIn(d, b) ELSE MasterIn(d, g)
          /\ MasterIn(r, h) = IF MasterIn(d, h) = a THEN MasterIn(d, b) ELSE MasterIn(d, h)
      BY <2>3, Zenon
    <3>. QED
      BY <2>1, <3>1, Zenon
  <2>5. Coarser(n, d, r, S)
    BY <2>1, <2>2, <2>3, Zenon DEF Coarser
  <2>6. ASSUME NEW mu, Shared(d, mu), mu[g] = mu[h] PROVE Shared(r, mu)
    <3>1. \A x \in 1..n : mu[MasterIn(d, x)] = mu[x]
      <4>1. \A x \in 1..n : d[x] # None => mu[d[x]] = mu[x]
        BY <1>0, <2>6, Zenon DEF Shared
      <4>. QED
        BY <4>1, MasterShares, Zenon
    <3>2. mu[a] = mu[b]
      <4>1. mu[MasterIn(d, g)] = mu[g] /\ mu[MasterIn(d, h)] = mu[h] /\ mu[MasterIn(d, b)] = mu[b]
        BY <3>1, Zenon
      <4>. QED
        BY <2>1, <2>6, <4>1, Zenon
    <3>3. ASSUME NEW x \in 1..n, r[x] # None PROVE mu[r[x]] = mu[x]
      <4>1. CASE x = a
        BY <2>2, <3>2, <4>1, Zenon
      <4>2. CASE x # a
        BY <1>0, <2>2, <2>6, <3>3, <4>2, Zenon DEF Shared
      <4>. QED
        BY <4>1, <4>2, Zenon
    <3>. QED
      BY <2>2, <3>3, Zenon DEF Shared
  <2>. QED
    BY <2>4, <2>5, <2>6, Zenon
<1>. QED
  BY <1>1, <1>2, Zenon DEF Joined

(* CGroup::ResolveDuplicateMaster only shortens the chain of the group it  *)
(* is called for: no class changes.                                        *)
LEMMA ResolveCoarser ==
    ASSUME NEW n \in Nat, NEW d \in Chains(n), NEW a \in 1..n, NEW S, a \in S
    PROVE  /\ Coarser(n, d, Resolve(d, a), S)
           /\ \A x \in 1..n : MasterIn(Resolve(d, a), x) = MasterIn(d, x)
           /\ \A x \in 1..n : Resolve(d, a)[x] = IF x = a /\ d[x] # None THEN MasterIn(d, x)
                                                 ELSE d[x]
           /\ \A mu : Shared(d, mu) => Shared(Resolve(d, a), mu)
<1>1. PICK r : r = Resolve(d, a)
  BY Zenon
<1>2. /\ r \in Chains(n)
      /\ \A x \in 1..n : MasterIn(r, x) = MasterIn(d, x)
      /\ \A x \in 1..n : r[x] = IF x = a /\ d[x] # None THEN MasterIn(d, x) ELSE d[x]
  BY <1>1, ResolveMasters
<1>3. DOMAIN d = 1..n /\ DOMAIN r = 1..n
  BY <1>2, Zenon DEF Chains
<1>4. \A x \in 1..n : MasterIn(d, x) \in 1..n /\ MasterIn(d, x) # None
  BY MasterFacts DEF None
<1>5. Coarser(n, d, r, S)
  BY <1>2, <1>4, Zenon DEF Coarser
<1>6. ASSUME NEW mu, Shared(d, mu) PROVE Shared(r, mu)
  <2>1. \A x \in 1..n : d[x] # None => mu[d[x]] = mu[x]
    BY <1>3, <1>6, Zenon DEF Shared
  <2>2. \A x \in 1..n : mu[MasterIn(d, x)] = mu[x]
    BY <2>1, MasterShares, Zenon
  <2>. QED
    BY <1>2, <1>3, <2>1, <2>2, Zenon DEF Shared
<1>. QED
  BY <1>1, <1>2, <1>5, <1>6, Zenon

(* CMemo::MarkDuplicates makes one class of the two groups' classes.       *)
LEMMA MarkedMasters ==
    ASSUME NEW n \in Nat, NEW d \in Chains(n), NEW g \in 1..n, NEW h \in 1..n, g # h
    PROVE  /\ Coarser(n, d, Marked(d, g, h), {g, h})
           /\ MasterIn(Marked(d, g, h), g) = MasterIn(Marked(d, g, h), h)
           /\ \A mu : Shared(d, mu) /\ mu[g] = mu[h] => Shared(Marked(d, g, h), mu)
<1>1. PICK a : a = AddDuplicateGrp(d, g, h)
  BY Zenon
<1>2. PICK b : b = Resolve(a, g)
  BY Zenon
<1>3. PICK r : r = Resolve(b, h)
  BY Zenon
<1>4. Marked(d, g, h) = r
  BY <1>1, <1>2, <1>3, Zenon DEF Marked
<1>5. Joined(d, g, h, a)
  BY <1>1, AddJoins, Zenon
<1>6. /\ Coarser(n, d, a, {g, h}) /\ MasterIn(a, g) = MasterIn(a, h)
      /\ \A mu : Shared(d, mu) /\ mu[g] = mu[h] => Shared(a, mu)
  BY <1>5, JoinMasters
<1>7. a \in Chains(n)
  BY <1>6, Zenon DEF Coarser
<1>8. /\ Coarser(n, a, b, {g, h}) /\ \A x \in 1..n : MasterIn(b, x) = MasterIn(a, x)
      /\ \A mu : Shared(a, mu) => Shared(b, mu)
  BY <1>2, <1>7, ResolveCoarser, Zenon
<1>9. b \in Chains(n)
  BY <1>8, Zenon DEF Coarser
<1>10. /\ Coarser(n, b, r, {g, h}) /\ \A x \in 1..n : MasterIn(r, x) = MasterIn(b, x)
       /\ \A mu : Shared(b, mu) => Shared(r, mu)
  BY <1>3, <1>9, ResolveCoarser, Zenon
<1>11. Coarser(n, d, r, {g, h})
  BY <1>6, <1>8, <1>10, CoarserTrans, Zenon
<1>12. MasterIn(r, g) = MasterIn(r, h)
  BY <1>6, <1>8, <1>10, Zenon
<1>. QED
  BY <1>4, <1>6, <1>8, <1>10, <1>11, <1>12, Zenon

(* r is d and a new group without a link.                                  *)
Grown(n, d, r) ==
    /\ r \in [1..(n + 1) -> 0..(n + 1)] /\ r[n + 1] = None
    /\ \A g \in 1..n : r[g] = d[g]

(* A new group changes no master.                                          *)
LEMMA GrowMasters ==
    ASSUME NEW n \in Nat, NEW d \in Chains(n), NEW r, Grown(n, d, r)
    PROVE  /\ r \in Chains(n + 1) /\ MasterIn(r, n + 1) = n + 1
           /\ \A g \in 1..n : MasterIn(r, g) = MasterIn(d, g)
<1>1. r \in Chains(n + 1)
  <2>1. ASSUME NEW g \in 1..(n + 1), r[g] # None PROVE r[g] > g
    <3>1. g \in 1..n
      BY <2>1 DEF Grown
    <3>. QED
      BY <2>1, <3>1, Zenon DEF Grown, Chains
  <2>. QED
    BY <2>1, Zenon DEF Grown, Chains
<1>2. PICK m : m = [g \in 1..(n + 1) |-> IF g = n + 1 THEN n + 1 ELSE MasterIn(d, g)]
  BY Zenon
<1>3. n + 1 \in Nat /\ n + 1 \in 1..(n + 1)
  OBVIOUS
<1>4. ASSUME NEW h \in 1..(n + 1) PROVE m[h] = IF r[h] = None THEN h ELSE m[r[h]]
  <2>1. CASE h = n + 1
    BY <1>2, <2>1, Zenon DEF Grown
  <2>2. CASE h # n + 1
    <3>1. h \in 1..n /\ r[h] = d[h] /\ m[h] = MasterIn(d, h)
      BY <1>2, <2>2 DEF Grown
    <3>2. /\ d[h] = None => MasterIn(d, h) = h
          /\ d[h] # None => d[h] \in 1..n /\ MasterIn(d, d[h]) = MasterIn(d, h)
      BY <3>1, MasterFacts, Zenon
    <3>3. d[h] # None => m[d[h]] = MasterIn(d, h)
      BY <1>2, <3>2
    <3>. QED
      BY <3>1, <3>2, <3>3, Zenon
  <2>. QED
    BY <2>1, <2>2, Zenon
<1>5. \A h \in 1..(n + 1) : MasterIn(r, h) = m[h]
  BY <1>1, <1>3, <1>4, MasterUnique, Zenon
<1>. QED
  BY <1>1, <1>2, <1>3, <1>5
----------------------------------------------------------------------------
(* f iterates G from a, in the set X.                                      *)
Iterates(f, X, a, G) == f \in [Nat -> X] /\ f[0] = a /\ \A k \in Nat : f[k + 1] = G[f[k]]

(* A function on a set can be iterated from any member of it.              *)
LEMMA Iterate == ASSUME NEW X, NEW a \in X, NEW G \in [X -> X] PROVE \E f : Iterates(f, X, a, G)
<1> DEFINE Part(k, f) == /\ f \in [0..k -> X] /\ f[0] = a
                         /\ \A i \in 0..k : i < k => f[i + 1] = G[f[i]]
           S == {k \in Nat : \E f : Part(k, f)}
           T == {i \in Nat : \A k, l \in Nat : \A f, g :
                    i <= k /\ i <= l /\ Part(k, f) /\ Part(l, g) => f[i] = g[i]}
<1>1. 0 \in S
  <2>1. Part(0, [i \in 0..0 |-> a])
    OBVIOUS
  <2>. HIDE DEF Part
  <2>. QED
    BY <2>1, Zenon
<1>2. ASSUME NEW k \in Nat, k \in S PROVE k + 1 \in S
  <2>1. PICK f : Part(k, f)
    BY <1>2, Zenon
  <2>2. PICK g : g = [i \in 0..(k + 1) |-> IF i = k + 1 THEN G[f[k]] ELSE f[i]]
    BY Zenon
  <2>3. g \in [0..(k + 1) -> X] /\ g[0] = a
    BY <2>1, <2>2
  <2>4. ASSUME NEW i \in 0..(k + 1), i < k + 1 PROVE g[i + 1] = G[g[i]]
    <3>1. i \in 0..k /\ g[i] = f[i] /\ i + 1 \in 0..(k + 1)
      BY <2>2, <2>4
    <3>2. CASE i = k
      BY <2>2, <3>1, <3>2, Zenon
    <3>3. CASE i < k
      BY <2>1, <2>2, <3>1, <3>3
    <3>. QED
      BY <3>1, <3>2, <3>3
  <2>5. Part(k + 1, g)
    BY <2>3, <2>4, Zenon
  <2>. HIDE DEF Part
  <2>. QED
    BY <2>5
<1>3. ASSUME NEW k \in Nat PROVE \E f : Part(k, f)
  <2>1. Nat \subseteq S
    <3>. HIDE DEF S
    <3>. QED
      BY <1>1, <1>2, Induction, Zenon
  <2>. QED
    BY <2>1, Zenon
<1>4. 0 \in T
  BY Zenon
<1>5. ASSUME NEW i \in Nat, i \in T PROVE i + 1 \in T
  <2>1. ASSUME NEW k \in Nat, NEW l \in Nat, NEW f, NEW g,
               i + 1 <= k, i + 1 <= l, Part(k, f), Part(l, g)
        PROVE  f[i + 1] = g[i + 1]
    <3>1. f[i] = g[i]
      <4>. HIDE DEF Part
      <4>1. i <= k /\ i <= l
        BY <2>1
      <4>. QED
        BY <1>5, <2>1, <4>1, Zenon
    <3>2. f[i + 1] = G[f[i]] /\ g[i + 1] = G[g[i]]
      BY <2>1
    <3>. QED
      BY <3>1, <3>2, Zenon
  <2>. HIDE DEF Part
  <2>. QED
    BY <2>1
<1>6. ASSUME NEW i \in Nat, NEW k \in Nat, NEW l \in Nat, NEW f, NEW g,
             i <= k, i <= l, Part(k, f), Part(l, g)
      PROVE  f[i] = g[i]
  <2>1. Nat \subseteq T
    <3>. HIDE DEF T
    <3>. QED
      BY <1>4, <1>5, Induction, Zenon
  <2>. HIDE DEF Part
  <2>. QED
    BY <1>6, <2>1
<1>7. PICK p : p = [k \in Nat |-> CHOOSE f : Part(k, f)]
  BY Zenon
<1>8. ASSUME NEW k \in Nat PROVE Part(k, p[k])
  <2>. HIDE DEF Part
  <2>. QED
    BY <1>3, <1>7, Zenon
<1>9. PICK f : f = [k \in Nat |-> p[k][k]]
  BY Zenon
<1>10. ASSUME NEW k \in Nat PROVE f[k] \in X
  BY <1>8, <1>9
<1>11. f[0] = a
  BY <1>8, <1>9, Zenon
<1>12. ASSUME NEW k \in Nat PROVE f[k + 1] = G[f[k]]
  <2>1. p[k + 1][k + 1] = G[p[k + 1][k]]
    BY <1>8
  <2>2. p[k + 1][k] = p[k][k]
    <3>1. k <= k /\ k <= k + 1 /\ k + 1 \in Nat
      OBVIOUS
    <3>. HIDE DEF Part
    <3>. QED
      BY <1>6, <1>8, <3>1
  <2>. QED
    BY <1>9, <2>1, <2>2
<1>13. Iterates(f, X, a, G)
  BY <1>9, <1>10, <1>11, <1>12, Zenon DEF Iterates
<1>. QED
  BY <1>13, Zenon
=============================================================================
