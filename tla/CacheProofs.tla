---------------------------- MODULE CacheProofs ----------------------------
(***************************************************************************)
(* Proofs about Cache, for any keys, objects, accessors, buckets and       *)
(* bounds.  The inductive invariant adds to the properties of Cache what   *)
(* an object's status says about the accessors and the operation in        *)
(* progress (ObjectsInv).                                                  *)
(***************************************************************************)
EXTENDS Cache, SequenceTheorems, FiniteSetTheorems, WellFoundedInduction, TLAPS

Chains == [Buckets -> Seq(Objects \cup {Hand})]

(* The chains ch hold the cached objects of ob, each once and in its       *)
(* bucket, and the marker at most in bucket bk.                            *)
ChainsInv(ch, bk, ob) ==
    /\ ch \in Chains
    /\ \A b \in Buckets :
        /\ Once(ch[b])
        /\ \A o \in Objects :
              o \in Elems(ch[b]) <=> ob[o].status = "cached" /\ BucketOf[ob[o].key] = b
        /\ Hand \in Elems(ch[b]) => b = bk

(* What the status of an object says.                                      *)
ObjectsInv ==
    /\ \A o \in Objects :
        /\ obj[o].status = "free" => obj[o] = NoObject
        /\ obj[o].status # "free" => obj[o].key \in Keys
        /\ obj[o].status = "new" <=> o = loop.new
    /\ \A a \in Accessors :
        /\ entry[a] # None => obj[entry[a]].status = "cached"
        /\ refused[a] # None => obj[refused[a]].status = "refused"
        /\ \A b \in Accessors : refused[a] # None /\ refused[a] = refused[b] => a = b

(* What the operation in progress knows.                                   *)
LoopInv ==
    /\ loop.new = None <=> loop.acc = None
    /\ loop.at = "idle" => loop = Idle
    /\ loop.at = "insert" => loop.new # None
    /\ loop.acc # None => entry[loop.acc] = None /\ refused[loop.acc] = None

IInv ==
    /\ TypeOK /\ RefsExact /\ ObjectsInv /\ LoopInv /\ ChainsInv(chain, bucket, obj)
    /\ HandReady /\ UniqueKeys
----------------------------------------------------------------------------
(* Facts about numbers and chains.                                         *)

(* A set of numbers has a least element.                                   *)
LEMMA LessThan == \E R : IsWellFoundedOn(R, Nat) /\ \A x, y \in Nat : <<x, y>> \in R <=> x < y
<1>1. \A x, y \in Nat : <<x, y>> \in OpToRel(<, Nat) <=> x < y
  BY Zenon DEF OpToRel
<1>. QED
  BY <1>1, NatLessThanWellFounded, Zenon

(* A set of numbers that is not empty has a least member.                  *)
LEMMA Least == ASSUME NEW H, H \subseteq Nat, H # {} PROVE \E j \in H : \A h \in H : j <= h
<1>1. PICK R : IsWellFoundedOn(R, Nat) /\ \A x, y \in Nat : <<x, y>> \in R <=> x < y
  BY LessThan, Zenon
<1>2. IsWellFoundedOn(R, Nat)
  BY <1>1, Zenon
<1>3. \A x, y \in Nat : <<x, y>> \in R <=> x < y
  BY <1>1, Zenon
<1>4. PICK j \in H : \A h \in H : ~(<<h, j>> \in R)
  BY <1>2, WFMin, Zenon
<1>5. ASSUME NEW h \in H PROVE j <= h
  <2>1. ~(h < j)
    BY <1>3, <1>4, Zenon
  <2>2. h \in Nat /\ j \in Nat
    BY Zenon
  <2>. QED
    BY <2>1, <2>2
<1>. QED
  BY <1>5, Zenon

(* A prefix and a suffix of a chain.                                       *)
LEMMA PartFacts ==
    ASSUME NEW S, NEW s \in Seq(S), NEW m \in Nat \ {0}, NEW n \in Nat, m <= n + 1, n <= Len(s)
    PROVE  /\ SubSeq(s, m, n) \in Seq(S) /\ Len(SubSeq(s, m, n)) = n + 1 - m
           /\ \A i \in 1..(n + 1 - m) : SubSeq(s, m, n)[i] = s[m + i - 1]
<1>1. m \in Int /\ n \in Int /\ \A i \in m..n : s[i] \in S
  OBVIOUS
<1>2. /\ SubSeq(s, m, n) \in Seq(S)
      /\ Len(SubSeq(s, m, n)) = IF m <= n THEN n - m + 1 ELSE 0
      /\ \A i \in 1..(n - m + 1) : SubSeq(s, m, n)[i] = s[m + i - 1]
  BY <1>1, SubSeqProperties
<1>3. n - m + 1 = n + 1 - m /\ (~(m <= n) => n + 1 - m = 0)
  OBVIOUS
<1>. QED
  BY <1>2, <1>3, Zenon

(* The position of an element of a chain.                                  *)
LEMMA PlaceFacts ==
    ASSUME NEW S, NEW s \in Seq(S), Once(s), NEW x \in Elems(s)
    PROVE  LET i == CHOOSE j \in 1..Len(s) : s[j] = x
           IN  i \in 1..Len(s) /\ s[i] = x /\ \A j \in 1..Len(s) : s[j] = x => j = i
<1>1. \E j \in 1..Len(s) : s[j] = x
  BY Zenon DEF Elems
<1>. QED
  BY <1>1, Zenon DEF Once

(* Unlinking an element takes it out and keeps the rest.                   *)
LEMMA UnlinkFacts ==
    ASSUME NEW S, NEW s \in Seq(S), Once(s), NEW x \in Elems(s)
    PROVE  /\ Unlink(s, x) \in Seq(S) /\ Once(Unlink(s, x))
           /\ Elems(Unlink(s, x)) = Elems(s) \ {x}
<1>1. PICK i \in 1..Len(s) : /\ i = CHOOSE j \in 1..Len(s) : s[j] = x
                             /\ s[i] = x /\ \A j \in 1..Len(s) : s[j] = x => j = i
  BY PlaceFacts, Zenon
<1>2. PICK p : p = SubSeq(s, 1, i - 1)
  BY Zenon
<1>3. PICK q : q = SubSeq(s, i + 1, Len(s))
  BY Zenon
<1>4. p \in Seq(S) /\ Len(p) = i - 1 /\ \A j \in 1..(i - 1) : p[j] = s[j]
  <2>1. 1 \in Nat \ {0} /\ i - 1 \in Nat /\ 1 <= (i - 1) + 1 /\ i - 1 <= Len(s)
    OBVIOUS
  <2>2. /\ p \in Seq(S) /\ Len(p) = (i - 1) + 1 - 1
        /\ \A j \in 1..((i - 1) + 1 - 1) : p[j] = s[1 + j - 1]
    BY <1>2, <2>1, PartFacts
  <2>. QED
    BY <2>2
<1>5. q \in Seq(S) /\ Len(q) = Len(s) - i /\ \A j \in 1..(Len(s) - i) : q[j] = s[i + j]
  <2>1. i + 1 \in Nat \ {0} /\ Len(s) \in Nat /\ i + 1 <= Len(s) + 1 /\ Len(s) <= Len(s)
    OBVIOUS
  <2>2. /\ q \in Seq(S) /\ Len(q) = Len(s) + 1 - (i + 1)
        /\ \A j \in 1..(Len(s) + 1 - (i + 1)) : q[j] = s[(i + 1) + j - 1]
    BY <1>3, <2>1, PartFacts
  <2>. QED
    BY <2>2
<1>6. PICK t : t = p \o q
  BY Zenon
<1>7. /\ t \in Seq(S) /\ Len(t) = Len(s) - 1
      /\ \A j \in 1..Len(t) : t[j] = IF j < i THEN s[j] ELSE s[j + 1]
  <2>1. /\ t \in Seq(S) /\ Len(t) = Len(p) + Len(q)
        /\ \A j \in 1..(Len(p) + Len(q)) : t[j] = IF j <= Len(p) THEN p[j] ELSE q[j - Len(p)]
    BY <1>4, <1>5, <1>6, ConcatProperties, Zenon
  <2>2. Len(t) = Len(s) - 1
    BY <1>4, <1>5, <2>1
  <2>3. ASSUME NEW j \in 1..Len(t) PROVE t[j] = IF j < i THEN s[j] ELSE s[j + 1]
    <3>1. CASE j < i
      <4>1. j \in 1..(Len(p) + Len(q)) /\ j <= Len(p) /\ j \in 1..(i - 1)
        BY <1>4, <1>5, <2>1, <3>1
      <4>. QED
        BY <1>4, <2>1, <3>1, <4>1, Zenon
    <3>2. CASE ~(j < i)
      <4>1. /\ j \in 1..(Len(p) + Len(q)) /\ ~(j <= Len(p))
            /\ j - Len(p) \in 1..(Len(s) - i) /\ i + (j - Len(p)) = j + 1
        BY <1>4, <1>5, <2>1, <3>2
      <4>2. t[j] = q[j - Len(p)]
        BY <2>1, <4>1, Zenon
      <4>. QED
        BY <1>5, <3>2, <4>1, <4>2, Zenon
    <3>. QED
      BY <3>1, <3>2, Zenon
  <2>. QED
    BY <2>1, <2>2, <2>3, Zenon
<1>8. Once(t)
  BY <1>7 DEF Once
<1>9. ASSUME NEW y PROVE y \in Elems(t) <=> y \in Elems(s) \ {x}
  <2>1. ASSUME NEW j \in 1..Len(t), y = t[j] PROVE y \in Elems(s) \ {x}
    <3>1. PICK h \in 1..Len(s) : h # i /\ y = s[h]
      BY <1>7, <2>1
    <3>2. s[h] # x
      BY <1>1, <3>1, Zenon
    <3>. QED
      BY <3>1, <3>2, Zenon DEF Elems
  <2>2. ASSUME NEW j \in 1..Len(s), y = s[j], y # x PROVE y \in Elems(t)
    <3>1. CASE j < i
      BY <1>7, <2>2, <3>1 DEF Elems
    <3>2. CASE j > i
      <4>1. j - 1 \in 1..Len(t) /\ t[j - 1] = s[j]
        BY <1>7, <3>2
      <4>. QED
        BY <2>2, <4>1, Zenon DEF Elems
    <3>. QED
      BY <1>1, <2>2, <3>1, <3>2
  <2>. QED
    BY <2>1, <2>2, Zenon DEF Elems
<1>10. Unlink(s, x) = t
  BY <1>1, <1>2, <1>3, <1>6, Zenon DEF Unlink
<1>. QED
  BY <1>7, <1>8, <1>9, <1>10, Zenon

(* Linking a new element keeps the others.                                 *)
LEMMA LinkFacts ==
    ASSUME NEW S, NEW s \in Seq(S), Once(s), NEW x \in Elems(s), NEW y \in S, y \notin Elems(s)
    PROVE  /\ LinkAfter(s, x, y) \in Seq(S) /\ Once(LinkAfter(s, x, y))
           /\ Elems(LinkAfter(s, x, y)) = Elems(s) \cup {y}
<1>1. PICK i \in 1..Len(s) : /\ i = CHOOSE j \in 1..Len(s) : s[j] = x
                             /\ s[i] = x /\ \A j \in 1..Len(s) : s[j] = x => j = i
  BY PlaceFacts, ZenonT(30)
<1>2. PICK p : p = SubSeq(s, 1, i)
  BY Zenon
<1>3. PICK q : q = SubSeq(s, i + 1, Len(s))
  BY Zenon
<1>4. p \in Seq(S) /\ Len(p) = i /\ \A j \in 1..i : p[j] = s[j]
  <2>1. 1 \in Nat \ {0} /\ i \in Nat /\ 1 <= i + 1 /\ i <= Len(s)
    OBVIOUS
  <2>2. /\ p \in Seq(S) /\ Len(p) = i + 1 - 1
        /\ \A j \in 1..(i + 1 - 1) : p[j] = s[1 + j - 1]
    BY <1>2, <2>1, PartFacts
  <2>. QED
    BY <2>2
<1>5. q \in Seq(S) /\ Len(q) = Len(s) - i /\ \A j \in 1..(Len(s) - i) : q[j] = s[i + j]
  <2>1. i + 1 \in Nat \ {0} /\ Len(s) \in Nat /\ i + 1 <= Len(s) + 1 /\ Len(s) <= Len(s)
    OBVIOUS
  <2>2. /\ q \in Seq(S) /\ Len(q) = Len(s) + 1 - (i + 1)
        /\ \A j \in 1..(Len(s) + 1 - (i + 1)) : q[j] = s[(i + 1) + j - 1]
    BY <1>3, <2>1, PartFacts
  <2>. QED
    BY <2>2
<1>6. PICK r : r = p \o <<y>>
  BY Zenon
<1>7. r \in Seq(S) /\ Len(r) = i + 1 /\ r[i + 1] = y /\ \A j \in 1..i : r[j] = s[j]
  <2>1. <<y>> \in Seq(S) /\ Len(<<y>>) = 1 /\ <<y>>[1] = y
    OBVIOUS
  <2>2. /\ r \in Seq(S) /\ Len(r) = Len(p) + 1
        /\ \A j \in 1..(Len(p) + 1) : r[j] = IF j <= Len(p) THEN p[j] ELSE <<y>>[j - Len(p)]
    BY <1>4, <1>6, <2>1, ConcatProperties, Zenon
  <2>3. i + 1 \in 1..(Len(p) + 1) /\ ~(i + 1 <= Len(p)) /\ (i + 1) - Len(p) = 1
    BY <1>4
  <2>4. r[i + 1] = y
    BY <2>1, <2>2, <2>3, Zenon
  <2>5. \A j \in 1..i : j \in 1..(Len(p) + 1) /\ j <= Len(p)
    BY <1>4
  <2>. QED
    BY <1>4, <2>2, <2>4, <2>5, Zenon
<1>8. PICK t : t = r \o q
  BY Zenon
<1>9. /\ t \in Seq(S) /\ Len(t) = Len(s) + 1
      /\ \A j \in 1..Len(t) : t[j] = IF j <= i THEN s[j] ELSE IF j = i + 1 THEN y ELSE s[j - 1]
  <2>1. /\ t \in Seq(S) /\ Len(t) = Len(r) + Len(q)
        /\ \A j \in 1..(Len(r) + Len(q)) : t[j] = IF j <= Len(r) THEN r[j] ELSE q[j - Len(r)]
    BY <1>5, <1>7, <1>8, ConcatProperties, Zenon
  <2>2. Len(t) = Len(s) + 1
    BY <1>5, <1>7, <2>1
  <2>3. ASSUME NEW j \in 1..Len(t)
        PROVE  t[j] = IF j <= i THEN s[j] ELSE IF j = i + 1 THEN y ELSE s[j - 1]
    <3>1. CASE j <= i + 1
      <4>1. j \in 1..(Len(r) + Len(q)) /\ j <= Len(r)
        BY <1>5, <1>7, <2>1, <3>1, Zenon
      <4>2. t[j] = r[j]
        BY <2>1, <4>1, Zenon
      <4>3. CASE j <= i
        BY <1>7, <4>2, <4>3
      <4>4. CASE j = i + 1
        BY <1>7, <4>2, <4>4
      <4>. QED
        BY <3>1, <4>3, <4>4
    <3>2. CASE ~(j <= i + 1)
      <4>1. /\ j \in 1..(Len(r) + Len(q)) /\ ~(j <= Len(r))
            /\ j - Len(r) \in 1..(Len(s) - i) /\ i + (j - Len(r)) = j - 1
        BY <1>5, <1>7, <2>1, <3>2
      <4>2. t[j] = q[j - Len(r)]
        BY <2>1, <4>1, Zenon
      <4>3. q[j - Len(r)] = s[i + (j - Len(r))]
        BY <1>5, <4>1, Zenon
      <4>4. t[j] = s[j - 1]
        BY <4>1, <4>2, <4>3, Zenon
      <4>5. ~(j <= i) /\ j # i + 1
        BY <3>2
      <4>. QED
        BY <4>4, <4>5, Zenon
    <3>. QED
      BY <3>1, <3>2, Zenon
  <2>. QED
    BY <2>1, <2>2, <2>3, Zenon
<1>10. \A j \in 1..Len(s) : s[j] # y
  BY Zenon DEF Elems
<1>11. Once(t)
  <2> SUFFICES ASSUME NEW j \in 1..Len(t), NEW h \in 1..Len(t), t[j] = t[h] PROVE j = h
    BY Zenon DEF Once
  <2>. DEFINE place(n) == IF n <= i THEN n ELSE n - 1
  <2>1. ASSUME NEW n \in 1..Len(t), n # i + 1
        PROVE  place(n) \in 1..Len(s) /\ t[n] = s[place(n)] /\ t[n] # y
    BY <1>9, <1>10, <2>1
  <2>2. t[i + 1] = y
    BY <1>9
  <2>3. CASE j = i + 1 \/ h = i + 1
    BY <2>1, <2>2, <2>3
  <2>4. CASE j # i + 1 /\ h # i + 1
    <3>1. place(j) = place(h)
      BY <2>1, <2>4, Zenon DEF Once
    <3>. QED
      BY <2>4, <3>1
  <2>. QED
    BY <2>3, <2>4, Zenon
<1>12. ASSUME NEW z PROVE z \in Elems(t) <=> z \in Elems(s) \cup {y}
  <2>1. ASSUME NEW j \in 1..Len(t), z = t[j] PROVE z \in Elems(s) \cup {y}
    <3>1. z = y \/ \E h \in 1..Len(s) : z = s[h]
      BY <1>9, <2>1
    <3>. QED
      BY <3>1, Zenon DEF Elems
  <2>2. ASSUME NEW j \in 1..Len(s), z = s[j] PROVE z \in Elems(t)
    <3>1. \E h \in 1..Len(t) : t[h] = s[j]
      <4>1. CASE j <= i
        BY <1>9, <4>1
      <4>2. CASE j > i
        <5>1. j + 1 \in 1..Len(t) /\ t[j + 1] = s[j]
          BY <1>9, <4>2
        <5>. QED
          BY <5>1, Zenon
      <4>. QED
        BY <4>1, <4>2
    <3>. QED
      BY <2>2, <3>1, Zenon DEF Elems
  <2>3. y \in Elems(t)
    <3>1. i + 1 \in 1..Len(t) /\ t[i + 1] = y
      BY <1>9
    <3>. QED
      BY <3>1, Zenon DEF Elems
  <2>. QED
    BY <2>1, <2>2, <2>3, Zenon DEF Elems
<1>13. LinkAfter(s, x, y) = t
  BY <1>1, <1>2, <1>3, <1>6, <1>8, Zenon DEF LinkAfter
<1>. QED
  BY <1>9, <1>11, <1>12, <1>13, Zenon

(* Putting a new element at the head keeps the others.                     *)
LEMMA HeadFacts ==
    ASSUME NEW S, NEW s \in Seq(S), Once(s), NEW y \in S, y \notin Elems(s)
    PROVE  /\ <<y>> \o s \in Seq(S) /\ Once(<<y>> \o s)
           /\ Elems(<<y>> \o s) = Elems(s) \cup {y}
<1>1. PICK t : t = <<y>> \o s
  BY Zenon
<1>2. <<y>> \in Seq(S) /\ Len(<<y>>) = 1 /\ <<y>>[1] = y
  OBVIOUS
<1>3. /\ t \in Seq(S) /\ Len(t) = 1 + Len(s)
      /\ \A j \in 1..(1 + Len(s)) : t[j] = IF j <= 1 THEN <<y>>[j] ELSE s[j - 1]
  BY <1>1, <1>2, ConcatProperties, Zenon
<1>4. Len(s) \in Nat
  OBVIOUS
<1>5. t[1] = y /\ \A j \in 1..Len(t) : j # 1 => j - 1 \in 1..Len(s) /\ t[j] = s[j - 1]
  BY <1>2, <1>3, <1>4
<1>6. \A j \in 1..Len(s) : j + 1 \in 1..Len(t) /\ t[j + 1] = s[j] /\ s[j] # y
  <2>1. \A j \in 1..Len(s) : s[j] # y
    BY Zenon DEF Elems
  <2>2. ASSUME NEW j \in 1..Len(s) PROVE j + 1 \in 1..Len(t) /\ j + 1 # 1 /\ (j + 1) - 1 = j
    BY <1>3, <1>4
  <2>. QED
    BY <1>5, <2>1, <2>2, Zenon
<1>7. Once(t)
  <2> SUFFICES ASSUME NEW j \in 1..Len(t), NEW h \in 1..Len(t), t[j] = t[h] PROVE j = h
    BY Zenon DEF Once
  <2>1. CASE j = 1 \/ h = 1
    <3>1. ASSUME NEW i \in 1..Len(t), i # 1 PROVE t[i] # y
      <4>1. i - 1 \in 1..Len(s) /\ t[i] = s[i - 1]
        BY <1>5, <3>1, Zenon
      <4>2. s[i - 1] # y
        BY <1>6, <4>1, Zenon
      <4>. QED
        BY <4>1, <4>2, Zenon
    <3>. QED
      BY <1>5, <2>1, <3>1, Zenon
  <2>2. CASE j # 1 /\ h # 1
    <3>1. j - 1 = h - 1
      BY <1>5, <2>2, Zenon DEF Once
    <3>. QED
      BY <3>1
  <2>. QED
    BY <2>1, <2>2, Zenon
<1>8. 1 \in 1..Len(t)
  BY <1>3, <1>4
<1>9. ASSUME NEW z PROVE z \in Elems(t) <=> z \in Elems(s) \cup {y}
  <2>1. ASSUME NEW j \in 1..Len(t), z = t[j] PROVE z \in Elems(s) \cup {y}
    <3>1. CASE j = 1
      BY <1>5, <2>1, <3>1, Zenon
    <3>2. CASE j # 1
      BY <1>5, <2>1, <3>2, Zenon DEF Elems
    <3>. QED
      BY <3>1, <3>2, Zenon
  <2>2. ASSUME NEW j \in 1..Len(s), z = s[j] PROVE z \in Elems(t)
    BY <1>6, <2>2, Zenon DEF Elems
  <2>3. y \in Elems(t)
    BY <1>5, <1>8, Zenon DEF Elems
  <2>. QED
    BY <2>1, <2>2, <2>3, Zenon DEF Elems
<1>. QED
  BY <1>1, <1>3, <1>7, <1>9, Zenon

(* What follows an element is another element, or nothing.                 *)
LEMMA AfterFacts ==
    ASSUME NEW S, NEW s \in Seq(S), Once(s), NEW x \in Elems(s), None \notin S
    PROVE  After(s, x) = None \/ After(s, x) \in Elems(s) \ {x}
<1>1. PICK i \in 1..Len(s) : /\ i = CHOOSE j \in 1..Len(s) : s[j] = x
                             /\ s[i] = x /\ \A j \in 1..Len(s) : s[j] = x => j = i
  BY PlaceFacts, ZenonT(30)
<1>2. After(s, x) = IF i = Len(s) THEN None ELSE s[i + 1]
  BY <1>1, Zenon DEF After
<1>3. CASE i = Len(s)
  BY <1>2, <1>3, Zenon
<1>4. CASE i # Len(s)
  <2>1. i + 1 \in 1..Len(s) /\ i + 1 # i
    BY <1>4
  <2>2. s[i + 1] # x
    BY <1>1, <2>1, Zenon
  <2>. QED
    BY <1>2, <1>4, <2>1, <2>2, Zenon DEF Elems
<1>. QED
  BY <1>3, <1>4, Zenon

(* What a search in a chain finds.                                         *)
LEMMA MatchFacts ==
    ASSUME NEW s \in Seq(Objects \cup {Hand}), NEW n \in Nat \ {0}, NEW k, NEW all \in BOOLEAN
    PROVE  \/ /\ Match(s, n, k, all) = None
              /\ \A j \in n..Len(s) : s[j] = Hand \/ obj[s[j]].key # k \/ (~all /\ obj[s[j]].marked)
           \/ \E j \in n..Len(s) :
                 /\ Match(s, n, k, all) = s[j] /\ s[j] \in Objects /\ s[j] # None
                 /\ obj[s[j]].key = k /\ (all \/ ~obj[s[j]].marked)
<1>. DEFINE hits == {j \in n..Len(s) : s[j] # Hand /\ obj[s[j]].key = k /\ (all \/ ~obj[s[j]].marked)}
<1>1. CASE hits = {}
  BY <1>1, Zenon DEF Match
<1>2. CASE hits # {}
  <2>1. hits \subseteq Nat
    OBVIOUS
  <2>2. \E j \in hits : \A h \in hits : j <= h
    <3>. HIDE DEF hits
    <3>. QED
      BY <1>2, <2>1, Least, Zenon
  <2>3. PICK j \in hits : Match(s, n, k, all) = s[j]
    BY <1>2, <2>2, Zenon DEF Match
  <2>4. s[j] \in Objects /\ s[j] # None
    BY CacheAssumption
  <2>. QED
    BY <2>3, <2>4, Zenon
<1>. QED
  BY <1>1, <1>2, Zenon
----------------------------------------------------------------------------
(* The moves of the marker.                                                *)

(* A chain is replaced by one with the same objects.                       *)
LEMMA PutChain ==
    ASSUME NEW ch, NEW bk, NEW ob, ChainsInv(ch, bk, ob), NEW b \in Buckets,
           NEW t \in Seq(Objects \cup {Hand}), Once(t), Elems(t) \ {Hand} = Elems(ch[b]) \ {Hand},
           NEW new, Hand \in Elems(t) => b = new,
           \A c \in Buckets : c # b /\ Hand \in Elems(ch[c]) => c = new
    PROVE  ChainsInv([ch EXCEPT ![b] = t], new, ob)
<1>. DEFINE r == [ch EXCEPT ![b] = t]
<1>1. r \in Chains /\ r[b] = t /\ \A c \in Buckets : c # b => r[c] = ch[c]
  BY Zenon DEF ChainsInv, Chains
<1>. HIDE DEF r
<1>2. ASSUME NEW c \in Buckets
      PROVE  /\ Once(r[c])
             /\ \A o \in Objects :
                   o \in Elems(r[c]) <=> ob[o].status = "cached" /\ BucketOf[ob[o].key] = c
             /\ Hand \in Elems(r[c]) => c = new
  <2>1. CASE c = b
    <3>1. \A o \in Objects : o \in Elems(t) <=> o \in Elems(ch[b])
      BY CacheAssumption, Zenon
    <3>. QED
      BY <1>1, <2>1, <3>1, Zenon DEF ChainsInv
  <2>2. CASE c # b
    BY <1>1, <2>2, Zenon DEF ChainsInv
  <2>. QED
    BY <2>1, <2>2, Zenon
<1>. QED
  BY <1>1, <1>2, Zenon DEF ChainsInv, r

(* The chains with the marker in a chain, or in none when the buckets are  *)
(* exhausted.                                                              *)
Marked(r, ob) ==
    /\ r.bucket \in 0..NumBuckets
    /\ ChainsInv(r.chain, r.bucket, ob)
    /\ r.bucket # NumBuckets => Hand \in Elems(r.chain[r.bucket])

(* InsertInvalidElement leaves the chains as they are but for the marker.  *)
LEMMA InsertMarkerFacts ==
    ASSUME NEW ch, NEW bk, NEW ob, ChainsInv(ch, bk, ob), \A c \in Buckets : Hand \notin Elems(ch[c]),
           NEW b \in 0..NumBuckets
    PROVE  Marked(InsertMarker(ch, b), ob)
<1>. DEFINE full == {c \in b..(NumBuckets - 1) : ch[c] # <<>>}
            r == InsertMarker(ch, b)
<1>1. CASE full = {}
  <2>1. r = [chain |-> ch, bucket |-> NumBuckets]
    BY <1>1, Zenon DEF InsertMarker
  <2>2. NumBuckets \in 0..NumBuckets
    BY CacheAssumption
  <2>3. ChainsInv(ch, NumBuckets, ob)
    BY Zenon DEF ChainsInv
  <2>. QED
    BY <2>1, <2>2, <2>3 DEF Marked
<1>2. CASE full # {}
  <2>1. full \subseteq Nat /\ full \subseteq Buckets
    BY CacheAssumption DEF Buckets
  <2>2. \E j \in full : \A h \in full : j <= h
    <3>. HIDE DEF full
    <3>. QED
      BY <1>2, <2>1, Least, Zenon
  <2>3. PICK c \in full : r = [chain |-> [ch EXCEPT ![c] = <<Hand>> \o @], bucket |-> c]
    BY <1>2, <2>2, Zenon DEF InsertMarker
  <2>4. c \in Buckets /\ c \in 0..NumBuckets
    BY <2>1, CacheAssumption DEF Buckets
  <2>5. PICK t : t = <<Hand>> \o ch[c]
    BY Zenon
  <2>6. ch[c] \in Seq(Objects \cup {Hand}) /\ Once(ch[c]) /\ Hand \notin Elems(ch[c]) /\ ch \in Chains
    BY <2>4, Zenon DEF ChainsInv, Chains
  <2>7. t \in Seq(Objects \cup {Hand}) /\ Once(t) /\ Elems(t) = Elems(ch[c]) \cup {Hand}
    BY <2>5, <2>6, HeadFacts
  <2>8. ChainsInv([ch EXCEPT ![c] = t], c, ob)
    BY <2>4, <2>7, PutChain, Zenon
  <2>9. r = [chain |-> [ch EXCEPT ![c] = t], bucket |-> c]
    BY <2>3, <2>5, Zenon
  <2>10. Hand \in Elems([ch EXCEPT ![c] = t][c])
    BY <2>4, <2>6, <2>7, Zenon DEF Chains
  <2>. QED
    BY <2>4, <2>8, <2>9, <2>10 DEF Marked
<1>. QED
  BY <1>1, <1>2, Zenon

(* CSyncHashtableIter::Advance moves the marker and nothing else.          *)
LEMMA AdvanceFacts ==
    ASSUME TypeOK, ChainsInv(chain, bucket, obj)
    PROVE  Marked(Advance, obj)
<1>. DEFINE s == chain[bucket]
            v == After(s, Hand)
            rest == Unlink(s, Hand)
            S == Objects \cup {Hand}
<1>1. /\ bucket \in Buckets /\ bucket \in 0..NumBuckets /\ bucket + 1 \in 0..NumBuckets
      /\ s \in Seq(S) /\ Once(s) /\ chain \in Chains
      /\ \A c \in Buckets : c # bucket => Hand \notin Elems(chain[c])
  BY CacheAssumption DEF TypeOK, ChainsInv, Chains, Buckets
<1>2. CASE Hand \notin Elems(s)
  <2>1. \A c \in Buckets : Hand \notin Elems(chain[c])
    BY <1>1, <1>2, Zenon
  <2>2. Advance = InsertMarker(chain, bucket)
    BY <1>2, Zenon DEF Advance
  <2>. QED
    BY <1>1, <2>1, <2>2, InsertMarkerFacts, Zenon
<1>3. CASE Hand \in Elems(s)
  <2>1. rest \in Seq(S) /\ Once(rest) /\ Elems(rest) = Elems(s) \ {Hand}
    <3>. HIDE DEF s, S
    <3>. QED
      BY <1>1, <1>3, UnlinkFacts, Zenon
  <2>2. v = None \/ v \in Elems(s) \ {Hand}
    <3>1. None \notin S
      BY CacheAssumption, Zenon
    <3>. HIDE DEF s, S
    <3>. QED
      BY <1>1, <1>3, <3>1, AfterFacts, Zenon
  <2>3. CASE v # None /\ After(s, v) # None
    <3>1. PICK t : t = LinkAfter(rest, v, Hand)
      BY Zenon
    <3>2. t \in Seq(S) /\ Once(t) /\ Elems(t) = Elems(rest) \cup {Hand}
      <4>1. v \in Elems(rest) /\ Hand \notin Elems(rest) /\ Hand \in S
        BY <2>1, <2>2, <2>3, Zenon
      <4>. HIDE DEF rest, v, S
      <4>. QED
        BY <2>1, <3>1, <4>1, LinkFacts
    <3>3. Advance = [chain |-> [chain EXCEPT ![bucket] = t], bucket |-> bucket]
      BY <1>3, <2>3, <3>1, Zenon DEF Advance
    <3>4. ChainsInv([chain EXCEPT ![bucket] = t], bucket, obj)
      <4>1. Elems(t) \ {Hand} = Elems(chain[bucket]) \ {Hand}
        BY <2>1, <3>2, Zenon
      <4>. HIDE DEF s, rest, v
      <4>. QED
        BY <1>1, <3>2, <4>1, PutChain, Zenon
    <3>5. Hand \in Elems([chain EXCEPT ![bucket] = t][bucket])
      BY <1>1, <3>2, Zenon DEF Chains
    <3>. QED
      BY <1>1, <3>3, <3>4, <3>5, Zenon DEF Marked
  <2>4. CASE ~(v # None /\ After(s, v) # None)
    <3>1. PICK t : t = rest
      BY Zenon
    <3>2. PICK ch : ch = [chain EXCEPT ![bucket] = t]
      BY Zenon
    <3>3. Advance = InsertMarker(ch, bucket + 1)
      BY <1>3, <2>4, <3>1, <3>2, Zenon DEF Advance
    <3>4. t \in Seq(S) /\ Once(t) /\ Elems(t) = Elems(s) \ {Hand}
      BY <2>1, <3>1, Zenon
    <3>5. ChainsInv(ch, bucket, obj)
      <4>1. Elems(t) \ {Hand} = Elems(chain[bucket]) \ {Hand} /\ Hand \notin Elems(t)
        BY <3>4, Zenon
      <4>. HIDE DEF s, rest, v
      <4>. QED
        BY <1>1, <3>2, <3>4, <4>1, PutChain, Zenon
    <3>6. \A c \in Buckets : Hand \notin Elems(ch[c])
      <4>1. ch[bucket] = t /\ \A c \in Buckets : c # bucket => ch[c] = chain[c]
        BY <1>1, <3>2, Zenon DEF Chains
      <4>. QED
        BY <1>1, <3>4, <4>1, Zenon
    <3>. QED
      BY <1>1, <3>3, <3>5, <3>6, InsertMarkerFacts, Zenon
  <2>. QED
    BY <2>3, <2>4, Zenon
<1>. QED
  BY <1>2, <1>3, Zenon

(* Where EvictEntriesOnePass looks, and what it sees there.                *)
LEMMA LookFacts ==
    ASSUME TypeOK, ChainsInv(chain, bucket, obj), HandReady
    PROVE  Marked(Look, obj)
<1>1. CASE advanced
  <2>1. Look = [chain |-> chain, bucket |-> bucket] /\ bucket \in 0..NumBuckets
    BY <1>1, CacheAssumption DEF Look, TypeOK, Buckets
  <2>2. Hand \in Elems(chain[bucket])
    BY <1>1, Zenon DEF HandReady
  <2>. QED
    BY <2>1, <2>2, Zenon DEF Marked
<1>2. CASE ~advanced
  BY <1>2, AdvanceFacts, Zenon DEF Look
<1>. QED
  BY <1>1, <1>2, Zenon

(* What the hand points to is a cached object of the chain it is in.       *)
LEMMA SeenFacts ==
    ASSUME TypeOK, ChainsInv(chain, bucket, obj), HandReady, Seen # None
    PROVE  /\ Look.bucket \in Buckets /\ Seen \in Objects /\ obj[Seen].status = "cached"
           /\ BucketOf[obj[Seen].key] = Look.bucket
<1>. DEFINE b == Look.bucket
            s == Look.chain[b]
<1>1. b # NumBuckets /\ Seen = After(s, Hand)
  BY Zenon DEF Seen
<1>2. b \in Buckets
  BY <1>1, LookFacts, CacheAssumption DEF Marked, Buckets
<1>3. Hand \in Elems(s) /\ s \in Seq(Objects \cup {Hand}) /\ Once(s)
      /\ \A o \in Objects : o \in Elems(s) <=> obj[o].status = "cached" /\ BucketOf[obj[o].key] = b
  BY <1>1, <1>2, LookFacts, Zenon DEF Marked, ChainsInv, Chains
<1>4. None \notin Objects \cup {Hand}
  BY CacheAssumption, Zenon
<1>5. Seen \in Elems(s) \ {Hand}
  <2>. HIDE DEF s
  <2>. QED
    BY <1>1, <1>3, <1>4, AfterFacts, Zenon
<1>6. Seen \in Objects
  BY <1>3, <1>5 DEF Elems
<1>. QED
  BY <1>2, <1>3, <1>5, <1>6, Zenon
----------------------------------------------------------------------------
(* The users of objects.                                                   *)

Records == [status : {"free", "new", "cached", "refused"}, key : Keys \cup {None}, refs : Nat,
            clock : 0..GClockInit, marked : BOOLEAN, bytes : 0..MaxBytes, cust : 0..MaxRefs]

(* What the number of accessors that hold an entry says about them.        *)
LEMMA PinsFacts ==
    ASSUME NEW o
    PROVE  /\ Pins(o) \in Nat
           /\ Pins(o) = 0 <=> \A a \in Accessors : entry[a] # o
           /\ Pins(o) = 1 => \A a, b \in Accessors : entry[a] = o /\ entry[b] = o => a = b
<1>1. PICK T : T = {a \in Accessors : entry[a] = o}
  BY Zenon
<1>2. IsFiniteSet(T)
  BY <1>1, CacheAssumption, FS_Subset, Zenon
<1>3. Cardinality(T) \in Nat /\ (Cardinality(T) = 0 <=> T = {})
  BY <1>2, FS_CardinalityType, FS_EmptySet, Zenon
<1>4. Cardinality(T) = 1 => \E x : T = {x}
  BY <1>2, FS_Singleton, Zenon
<1>. QED
  BY <1>1, <1>3, <1>4 DEF Pins

(* An accessor that moves from one entry to another takes its count along. *)
LEMMA PinsMove ==
    ASSUME TypeOK, NEW a \in Accessors, NEW x, entry' = [entry EXCEPT ![a] = x], NEW o
    PROVE  Pins(o)' = Pins(o) + (IF x = o THEN 1 ELSE 0) - (IF entry[a] = o THEN 1 ELSE 0)
<1>1. PICK T : T = {b \in Accessors : entry[b] = o}
  BY Zenon
<1>2. PICK U : U = {b \in Accessors : entry'[b] = o}
  BY Zenon
<1>3. entry'[a] = x /\ \A b \in Accessors : b # a => entry'[b] = entry[b]
  BY Zenon DEF TypeOK
<1>4. IsFiniteSet(T) /\ IsFiniteSet(T \ {a})
  BY <1>1, CacheAssumption, FS_Subset, FS_RemoveElement, Zenon
<1>5. Cardinality(T \ {a}) = IF entry[a] = o THEN Cardinality(T) - 1 ELSE Cardinality(T)
  BY <1>1, <1>4, FS_RemoveElement, Zenon
<1>6. Cardinality(U) = IF x = o THEN Cardinality(T \ {a}) + 1 ELSE Cardinality(T \ {a})
  <2>1. CASE x = o
    <3>1. U = (T \ {a}) \cup {a} /\ a \notin T \ {a}
      BY <1>1, <1>2, <1>3, <2>1, Zenon
    <3>. QED
      BY <1>4, <2>1, <3>1, FS_AddElement, Zenon
  <2>2. CASE x # o
    <3>1. U = T \ {a}
      BY <1>1, <1>2, <1>3, <2>2, Zenon
    <3>. QED
      BY <2>2, <3>1, Zenon
  <2>. QED
    BY <2>1, <2>2, Zenon
<1>7. Cardinality(T) \in Nat
  BY <1>4, FS_CardinalityType, Zenon
<1>8. Pins(o) = Cardinality(T) /\ Pins(o)' = Cardinality(U)
  BY <1>1, <1>2, Zenon DEF Pins
<1>. QED
  BY <1>5, <1>6, <1>7, <1>8

(* Chains are about the status and the key of an object.                   *)
LEMMA SameChains ==
    ASSUME NEW ch, NEW bk, NEW ob, NEW new, ChainsInv(ch, bk, ob),
           \A o \in Objects : /\ new[o].status = "cached" <=> ob[o].status = "cached"
                              /\ ob[o].status = "cached" => new[o].key = ob[o].key
    PROVE  ChainsInv(ch, bk, new)
  BY Zenon DEF ChainsInv

(* An entry goes, from its chain and from the objects.                     *)
Removes(ch, bk, ob, e, r, b, t, new) ==
    /\ ob \in [Objects -> Records] /\ ChainsInv(ch, bk, ob) /\ e \in Objects
    /\ ob[e].status = "cached" /\ r.status = "free"
    /\ b \in Buckets /\ b = BucketOf[ob[e].key]
    /\ t = [ch EXCEPT ![b] = Unlink(ch[b], e)] /\ new = [ob EXCEPT ![e] = r]

(* What is left is a table of the objects that are left.                   *)
LEMMA RemoveChain ==
    ASSUME NEW ch, NEW bk, NEW ob, NEW e, NEW r, NEW b, NEW t, NEW new,
           Removes(ch, bk, ob, e, r, b, t, new)
    PROVE  /\ ChainsInv(t, bk, new)
           /\ \A c \in Buckets : Hand \in Elems(t[c]) <=> Hand \in Elems(ch[c])
<1>. PICK u : u = Unlink(ch[b], e)
  BY Zenon
<1>. /\ ob \in [Objects -> Records] /\ ChainsInv(ch, bk, ob) /\ e \in Objects
     /\ ob[e].status = "cached" /\ r.status = "free"
     /\ b \in Buckets /\ b = BucketOf[ob[e].key]
     /\ t = [ch EXCEPT ![b] = u] /\ new = [ob EXCEPT ![e] = r]
  BY Zenon DEF Removes
<1>m. new[e] = r /\ \A o \in Objects : o # e => new[o] = ob[o]
  BY Zenon
<1>2. /\ ch[b] \in Seq(Objects \cup {Hand}) /\ Once(ch[b]) /\ e \in Elems(ch[b]) /\ ch \in Chains
      /\ e # Hand
  BY CacheAssumption, Zenon DEF ChainsInv, Chains
<1>4. u \in Seq(Objects \cup {Hand}) /\ Once(u) /\ Elems(u) = Elems(ch[b]) \ {e}
  BY <1>2, UnlinkFacts, Zenon
<1>5. t[b] = u /\ (\A c \in Buckets : c # b => t[c] = ch[c]) /\ t \in Chains
  BY <1>2, <1>4, Zenon DEF Chains
<1>6. ASSUME NEW c \in Buckets
      PROVE  /\ Once(t[c])
             /\ \A o \in Objects :
                   o \in Elems(t[c]) <=> new[o].status = "cached" /\ BucketOf[new[o].key] = c
             /\ Hand \in Elems(t[c]) => c = bk
  <2>1. CASE c = b
    BY <1>m, <1>4, <1>5, <2>1 DEF ChainsInv
  <2>2. CASE c # b
    BY <1>m, <1>5, <2>2 DEF ChainsInv
  <2>. QED
    BY <2>1, <2>2, Zenon
<1>7. ASSUME NEW c \in Buckets PROVE Hand \in Elems(t[c]) <=> Hand \in Elems(ch[c])
  BY <1>2, <1>4, <1>5, Zenon
<1>. QED
  BY <1>5, <1>6, <1>7, Zenon DEF ChainsInv

(* An entry comes, at the head of its chain.                               *)
Adds(ch, bk, ob, e, r, b, u, t, new) ==
    /\ ob \in [Objects -> Records] /\ ChainsInv(ch, bk, ob) /\ e \in Objects
    /\ ob[e].status # "cached" /\ r.status = "cached" /\ r.key = ob[e].key
    /\ b \in Buckets /\ b = BucketOf[ob[e].key]
    /\ u \in Seq(Objects \cup {Hand}) /\ Once(u) /\ Elems(u) = Elems(ch[b]) \cup {e}
    /\ t = [ch EXCEPT ![b] = u] /\ new = [ob EXCEPT ![e] = r]

(* What is there then is a table of the objects that are there then.       *)
LEMMA AddChain ==
    ASSUME NEW ch, NEW bk, NEW ob, NEW e, NEW r, NEW b, NEW u, NEW t, NEW new,
           Adds(ch, bk, ob, e, r, b, u, t, new)
    PROVE  /\ ChainsInv(t, bk, new)
           /\ \A c \in Buckets : Hand \in Elems(t[c]) <=> Hand \in Elems(ch[c])
<1>. /\ ob \in [Objects -> Records] /\ ChainsInv(ch, bk, ob) /\ e \in Objects
     /\ ob[e].status # "cached" /\ r.status = "cached" /\ r.key = ob[e].key
     /\ b \in Buckets /\ b = BucketOf[ob[e].key]
     /\ u \in Seq(Objects \cup {Hand}) /\ Once(u) /\ Elems(u) = Elems(ch[b]) \cup {e}
     /\ t = [ch EXCEPT ![b] = u] /\ new = [ob EXCEPT ![e] = r]
  BY Zenon DEF Adds
<1>m. new[e] = r /\ \A o \in Objects : o # e => new[o] = ob[o]
  BY Zenon
<1>2. /\ ch[b] \in Seq(Objects \cup {Hand}) /\ Once(ch[b]) /\ e \notin Elems(ch[b]) /\ ch \in Chains
      /\ e # Hand
  BY CacheAssumption, Zenon DEF ChainsInv, Chains
<1>4. u \in Seq(Objects \cup {Hand}) /\ Once(u) /\ \A z : z \in Elems(u) <=> z \in Elems(ch[b]) \/ z = e
  BY Zenon
<1>5. t[b] = u /\ (\A c \in Buckets : c # b => t[c] = ch[c]) /\ t \in Chains
  BY <1>2, <1>4, Zenon DEF Chains
<1>6. ASSUME NEW c \in Buckets
      PROVE  /\ Once(t[c])
             /\ \A o \in Objects :
                   o \in Elems(t[c]) <=> new[o].status = "cached" /\ BucketOf[new[o].key] = c
             /\ Hand \in Elems(t[c]) => c = bk
  <2>1. CASE c = b
    <3>1. Once(t[c]) /\ (Hand \in Elems(t[c]) => c = bk)
      BY <1>2, <1>4, <1>5, <2>1 DEF ChainsInv
    <3>2. ASSUME NEW o \in Objects
          PROVE  o \in Elems(t[c]) <=> new[o].status = "cached" /\ BucketOf[new[o].key] = c
      <4>1. CASE o = e
        <5>1. o \in Elems(t[c])
          BY <1>4, <1>5, <2>1, <4>1, Zenon
        <5>2. new[o].status = "cached" /\ BucketOf[new[o].key] = c
          BY <1>m, <2>1, <4>1, Zenon
        <5>. QED
          BY <5>1, <5>2, Zenon
      <4>2. CASE o # e
        <5>1. o \in Elems(t[c]) <=> o \in Elems(ch[c])
          BY <1>4, <1>5, <2>1, <4>2, Zenon
        <5>. QED
          BY <1>m, <4>2, <5>1 DEF ChainsInv
      <4>. QED
        BY <4>1, <4>2, Zenon
    <3>. QED
      BY <3>1, <3>2, Zenon
  <2>2. CASE c # b
    <3>1. t[c] = ch[c]
      BY <1>5, <2>2, Zenon
    <3>2. ASSUME NEW o \in Objects
          PROVE  o \in Elems(ch[c]) <=> new[o].status = "cached" /\ BucketOf[new[o].key] = c
      <4>1. CASE o = e
        BY <1>m, <2>2, <4>1 DEF ChainsInv
      <4>2. CASE o # e
        BY <1>m, <4>2 DEF ChainsInv
      <4>. QED
        BY <4>1, <4>2, Zenon
    <3>. QED
      BY <3>1, <3>2, Zenon DEF ChainsInv
  <2>. QED
    BY <2>1, <2>2, Zenon
<1>7. ASSUME NEW c \in Buckets PROVE Hand \in Elems(t[c]) <=> Hand \in Elems(ch[c])
  BY <1>2, <1>4, <1>5, Zenon
<1>. QED
  BY <1>5, <1>6, <1>7, Zenon DEF ChainsInv
----------------------------------------------------------------------------
(* The steps.  Each keeps the invariant, and is a step of the promise or   *)
(* leaves what users see alone.                                            *)

Live == {o \in Objects : obj[o].status # "free"}

Customers == [o \in Objects |-> obj[o].cust]

Implements == [Promise!Next]_<<Live, entry, Customers>>

(* A new cache satisfies the invariant, and is a new cache of the promise. *)
LEMMA InitInv == Init => IInv /\ Promise!Init
<1> SUFFICES ASSUME Init PROVE IInv /\ Promise!Init
  BY Zenon
<1> USE CacheAssumption
<1>1. /\ \A o \in Objects : obj[o] = NoObject
      /\ \A b \in Buckets : chain[b] = <<>> /\ Elems(chain[b]) = {} /\ Once(chain[b])
      /\ \A a \in Accessors : entry[a] = None /\ refused[a] = None
  BY DEF Init, Elems, Once
<1>2. TypeOK
  <2>1. NoObject \in Records
    BY DEF NoObject, Records
  <2>2. chain \in Chains /\ bucket \in Buckets
    BY DEF Init, Chains, Buckets
  <2>3. advanced \in BOOLEAN
    BY Zenon DEF Init
  <2>4. size \in 0..(Word - 1) /\ quota \in Quotas /\ unique \in BOOLEAN
    BY DEF Init
  <2>5. entry \in [Accessors -> Objects \cup {None}] /\ refused \in [Accessors -> Objects \cup {None}]
    BY Zenon DEF Init
  <2>6. loop \in [at : {"idle", "evict", "insert"}, freed : Nat, toFree : Nat,
                  retry : 0..GClockInit, acc : Accessors \cup {None}, new : Objects \cup {None}]
    BY DEF Init, Idle
  <2>7. obj \in [Objects -> Records]
    BY <2>1, Zenon DEF Init
  <2>. QED
    BY <2>2, <2>3, <2>4, <2>5, <2>6, <2>7, Zenon DEF TypeOK, Chains, Records
<1>3. RefsExact
  <2>1. ASSUME NEW o \in Objects PROVE Pins(o) = 0
    BY <1>1, PinsFacts, Zenon
  <2>. QED
    BY <1>1, <2>1 DEF RefsExact, NoObject
<1>4. ObjectsInv
  <2>1. loop.new = None
    BY Zenon DEF Init, Idle
  <2>2. NoObject.status = "free"
    BY Zenon DEF NoObject
  <2>3. \A o \in Objects : o # None
    BY Zenon
  <2>4. \A o \in Objects : /\ obj[o].status = "free" /\ obj[o] = NoObject
                           /\ obj[o].status # "new" /\ o # loop.new
    BY <1>1, <2>1, <2>2, <2>3, Zenon
  <2>. QED
    BY <1>1, <2>4, Zenon DEF ObjectsInv
<1>5. LoopInv
  BY Zenon DEF Init, LoopInv, Idle
<1>6. ChainsInv(chain, bucket, obj)
  BY <1>1, <1>2 DEF ChainsInv, Chains, TypeOK, NoObject
<1>7. HandReady
  BY <1>1, Zenon DEF HandReady, Init, Idle
<1>8. UniqueKeys
  BY <1>1 DEF UniqueKeys, Cached, NoObject
<1>9. Promise!Init
  <2>1. {o \in Objects : obj[o].status # "free"} = {}
    BY <1>1 DEF NoObject
  <2>2. [o \in Objects |-> obj[o].cust] = [o \in Objects |-> 0]
    BY <1>1 DEF NoObject
  <2>. QED
    BY <2>1, <2>2, Zenon DEF Promise!Init, Init
<1>. QED
  BY <1>2, <1>3, <1>4, <1>5, <1>6, <1>7, <1>8, <1>9, Zenon DEF IInv

(* The objects keep their status and their key.                            *)
LEMMA KeptInv ==
    ASSUME IInv, UNCHANGED <<unique, refused>>,
           \A o \in Objects : /\ obj'[o].status = obj[o].status /\ obj'[o].key = obj[o].key
                              /\ obj[o].status = "free" => obj'[o] = obj[o],
           \A a \in Accessors : entry'[a] # None => obj[entry'[a]].status = "cached" /\ entry'[a] \in Objects,
           loop.acc # None => entry'[loop.acc] = None,
           loop'.new = loop.new /\ loop'.acc = loop.acc,
           loop'.at = "idle" => loop' = Idle,
           loop'.at = "insert" => loop'.new # None,
           ChainsInv(chain', bucket', obj)
    PROVE  ObjectsInv' /\ LoopInv' /\ ChainsInv(chain', bucket', obj') /\ UniqueKeys'
<1>1. ObjectsInv'
  <2>1. \A o \in Objects : /\ obj'[o].status = "free" => obj'[o] = NoObject
                           /\ obj'[o].status # "free" => obj'[o].key \in Keys
                           /\ obj'[o].status = "new" <=> o = loop'.new
    BY DEF IInv, ObjectsInv
  <2>2. \A a \in Accessors :
        /\ entry'[a] # None => obj'[entry'[a]].status = "cached"
        /\ refused'[a] # None => obj'[refused'[a]].status = "refused"
        /\ \A b \in Accessors : refused'[a] # None /\ refused'[a] = refused'[b] => a = b
    <3>1. \A a \in Accessors : entry'[a] # None => obj'[entry'[a]].status = "cached"
      BY Zenon
    <3>2. \A a \in Accessors :
             /\ refused[a] # None => refused[a] \in Objects /\ obj[refused[a]].status = "refused"
             /\ \A b \in Accessors : refused[a] # None /\ refused[a] = refused[b] => a = b
      BY DEF IInv, ObjectsInv, TypeOK
    <3>. QED
      BY <3>1, <3>2, Zenon
  <2>. QED
    BY <2>1, <2>2, Zenon DEF ObjectsInv
<1>2. LoopInv'
  BY Zenon DEF IInv, LoopInv
<1>3. ChainsInv(chain', bucket', obj')
  BY SameChains
<1>4. UniqueKeys'
  BY DEF IInv, UniqueKeys, Cached
<1>. QED
  BY <1>1, <1>2, <1>3, <1>4, Zenon

(* The type invariant, with the sets of records and of chains named.       *)
LEMMA ObjTyped == TypeOK <=> /\ obj \in [Objects -> Records] /\ chain \in Chains
                             /\ bucket \in Buckets /\ advanced \in BOOLEAN /\ size \in 0..(Word - 1)
                             /\ quota \in Quotas /\ unique \in BOOLEAN
                             /\ entry \in [Accessors -> Objects \cup {None}]
                             /\ refused \in [Accessors -> Objects \cup {None}]
                             /\ loop \in [at : {"idle", "evict", "insert"}, freed : Nat, toFree : Nat,
                                          retry : 0..GClockInit, acc : Accessors \cup {None},
                                          new : Objects \cup {None}]
  BY Zenon DEF TypeOK, Records, Chains

(* Nothing but the members of one object changes.                          *)
LEMMA OneObject ==
    ASSUME IInv, NEW o \in Objects, NEW r \in Records, obj' = [obj EXCEPT ![o] = r],
           r.status = obj[o].status, r.key = obj[o].key, obj[o].status # "free",
           r.refs - r.cust = obj[o].refs - obj[o].cust,
           UNCHANGED <<chain, bucket, advanced, size, quota, unique, entry, refused, loop>>
    PROVE  IInv'
<1>1. obj \in [Objects -> Records]
  BY ObjTyped, Zenon DEF IInv
<1>2. obj' \in [Objects -> Records] /\ obj'[o] = r /\ \A p \in Objects : p # o => obj'[p] = obj[p]
  BY <1>1, Zenon
<1>3. TypeOK'
  BY <1>2, Zenon DEF IInv, TypeOK, Records
<1>4. RefsExact'
  <2> SUFFICES ASSUME NEW p \in Objects
               PROVE  obj'[p].refs = obj'[p].cust + Pins(p)'
                                     + (IF obj'[p].status \in {"new", "cached"} THEN 1 ELSE 0)
    BY Zenon DEF RefsExact
  <2>1. Pins(p)' = Pins(p) /\ Pins(p) \in Nat
    BY PinsFacts, Zenon DEF Pins
  <2>2. obj[p].refs = obj[p].cust + Pins(p) + (IF obj[p].status \in {"new", "cached"} THEN 1 ELSE 0)
    BY Zenon DEF IInv, RefsExact
  <2>3. CASE p = o
    <3>1. r.refs \in Nat /\ r.cust \in Nat /\ obj[o].refs \in Nat /\ obj[o].cust \in Nat
      BY <1>1 DEF Records
    <3>. QED
      BY <1>2, <2>1, <2>2, <2>3, <3>1
  <2>4. CASE p # o
    BY <1>2, <2>1, <2>2, <2>4, Zenon
  <2>. QED
    BY <2>3, <2>4, Zenon
<1>5. ObjectsInv' /\ LoopInv' /\ ChainsInv(chain', bucket', obj') /\ UniqueKeys'
  <2>1. \A p \in Objects : /\ obj'[p].status = obj[p].status /\ obj'[p].key = obj[p].key
                           /\ obj[p].status = "free" => obj'[p] = obj[p]
    BY <1>2, Zenon
  <2>2. \A a \in Accessors : entry'[a] # None => obj[entry'[a]].status = "cached" /\ entry'[a] \in Objects
    BY DEF IInv, ObjectsInv, TypeOK
  <2>3. /\ loop.acc # None => entry'[loop.acc] = None
        /\ loop'.at = "idle" => loop' = Idle
        /\ loop'.at = "insert" => loop'.new # None
    BY Zenon DEF IInv, LoopInv
  <2>4. ChainsInv(chain', bucket', obj)
    BY Zenon DEF IInv
  <2>. QED
    BY <2>1, <2>2, <2>3, <2>4, KeptInv, Zenon
<1>6. HandReady'
  BY Zenon DEF IInv, HandReady, Evicting
<1>. QED
  BY <1>3, <1>4, <1>5, <1>6, Zenon DEF IInv

(* A free object has no users.                                             *)
LEMMA FreeUnused ==
    ASSUME IInv, NEW o \in Objects, obj[o].status = "free"
    PROVE  obj[o].cust = 0 /\ obj[o].refs = 0 /\ Pins(o) = 0
<1>1. obj[o].cust = 0 /\ obj[o].refs = 0
  BY DEF IInv, ObjectsInv, NoObject
<1>2. 0 = 0 + Pins(o) + 0
  BY <1>1, Zenon DEF IInv, RefsExact
<1>. QED
  BY <1>1, <1>2, PinsFacts

(* CCacheAccessor::MarkForDeletion.                                        *)
LEMMA StepMark == ASSUME IInv, NEW a \in Accessors, MarkForDeletion(a) PROVE IInv' /\ Implements
<1>1. PICK o \in Objects : o = entry[a]
  BY Zenon DEF IInv, TypeOK, MarkForDeletion
<1>2. PICK r : r = [obj[o] EXCEPT !.marked = TRUE]
  BY Zenon
<1>3. obj[o] \in Records /\ obj \in [Objects -> Records]
  BY ObjTyped, Zenon DEF IInv
<1>4. /\ r \in Records /\ r.status = obj[o].status /\ r.key = obj[o].key /\ r.refs = obj[o].refs
      /\ r.cust = obj[o].cust
  BY <1>2, <1>3, Zenon DEF Records
<1>5. obj' = [obj EXCEPT ![o] = r]
  BY <1>1, <1>2, Zenon DEF MarkForDeletion
<1>6. obj[o].status # "free"
  BY <1>1, CacheAssumption, Zenon DEF IInv, ObjectsInv
<1>7. r.refs - r.cust = obj[o].refs - obj[o].cust
  BY <1>4, Zenon
<1>8. IInv'
  BY <1>4, <1>5, <1>6, <1>7, OneObject, Zenon DEF MarkForDeletion
<1>9. Implements
  <2>1. Live' = Live /\ Customers' = Customers
    BY <1>3, <1>4, <1>5, Zenon DEF Live, Customers
  <2>. QED
    BY <2>1, Zenon DEF Implements, MarkForDeletion
<1>. QED
  BY <1>8, <1>9, Zenon

(* A customer allocates in the memory pool of an object.                   *)
LEMMA StepGrow == ASSUME IInv, NEW o \in Objects, Grow(o) PROVE IInv' /\ Implements
<1>1. PICK r : r = [obj[o] EXCEPT !.bytes = @ + 1]
  BY Zenon
<1>2. obj[o] \in Records /\ obj \in [Objects -> Records]
  BY ObjTyped, Zenon DEF IInv
<1>3. /\ r \in Records /\ r.status = obj[o].status /\ r.key = obj[o].key /\ r.refs = obj[o].refs
      /\ r.cust = obj[o].cust
  <2>1. obj[o].bytes + 1 \in 0..MaxBytes
    BY <1>2, CacheAssumption DEF Grow, Records
  <2>. QED
    BY <1>1, <1>2, <2>1, Zenon DEF Records
<1>4. obj' = [obj EXCEPT ![o] = r]
  BY <1>1, Zenon DEF Grow
<1>5. obj[o].status # "free"
  BY FreeUnused DEF Grow
<1>6. r.refs - r.cust = obj[o].refs - obj[o].cust
  BY <1>3, Zenon
<1>7. IInv'
  BY <1>3, <1>4, <1>5, <1>6, OneObject, Zenon DEF Grow
<1>8. Implements
  <2>1. Live' = Live /\ Customers' = Customers
    BY <1>2, <1>3, <1>4, Zenon DEF Live, Customers
  <2>. QED
    BY <2>1, Zenon DEF Implements, Grow
<1>. QED
  BY <1>7, <1>8, Zenon

(* A customer releases an object.                                          *)
LEMMA StepCustomerRelease == ASSUME IInv, NEW o \in Objects, CustomerRelease(o) PROVE IInv' /\ Implements
<1>1. PICK r : r = [obj[o] EXCEPT !.cust = @ - 1, !.refs = @ - 1]
  BY Zenon
<1>2. obj[o] \in Records /\ obj \in [Objects -> Records]
  BY ObjTyped, Zenon DEF IInv
<1>3. obj[o].refs >= obj[o].cust /\ obj[o].cust > 0 /\ obj[o].refs \in Nat /\ obj[o].cust \in 0..MaxRefs
  BY <1>2, PinsFacts DEF IInv, RefsExact, CustomerRelease, Records
<1>4. /\ r \in Records /\ r.status = obj[o].status /\ r.key = obj[o].key
      /\ r.refs = obj[o].refs - 1 /\ r.cust = obj[o].cust - 1
  <2>1. obj[o].refs - 1 \in Nat /\ obj[o].cust - 1 \in 0..MaxRefs
    BY <1>3, CacheAssumption
  <2>. QED
    BY <1>1, <1>2, <2>1, Zenon DEF Records
<1>5. obj' = [obj EXCEPT ![o] = r]
  BY <1>1, Zenon DEF CustomerRelease
<1>6. obj[o].status # "free"
  BY <1>3, FreeUnused
<1>7. r.refs - r.cust = obj[o].refs - obj[o].cust
  BY <1>3, <1>4
<1>8. IInv'
  BY <1>4, <1>5, <1>6, <1>7, OneObject, Zenon DEF CustomerRelease
<1>9. Implements
  <2>1. Live' = Live /\ Customers' = [Customers EXCEPT ![o] = @ - 1] /\ Customers[o] > 0
    BY <1>2, <1>3, <1>4, <1>5, Zenon DEF Live, Customers
  <2>2. Promise!CustomerLeaves(o)
    BY <2>1, Zenon DEF Promise!CustomerLeaves, CustomerRelease, Live, Customers
  <2>. QED
    BY <2>2, Zenon DEF Implements, Promise!Next
<1>. QED
  BY <1>8, <1>9, Zenon

(* A search from the head of the chain of a key.                           *)
LEMMA FoundFacts ==
    ASSUME IInv, NEW k \in Keys, NEW all \in BOOLEAN, NEW e, e = Match(chain[BucketOf[k]], 1, k, all)
    PROVE  /\ e # None => e \in Objects /\ obj[e].status = "cached" /\ obj[e].key = k
           /\ e = None /\ all => \A o \in Objects : obj[o].status = "cached" => obj[o].key # k
<1>1. PICK b \in Buckets : b = BucketOf[k]
  BY CacheAssumption, Zenon DEF Buckets
<1>2. PICK s : s = chain[b]
  BY Zenon
<1>3. /\ s \in Seq(Objects \cup {Hand})
      /\ \A o \in Objects : o \in Elems(s) <=> obj[o].status = "cached" /\ BucketOf[obj[o].key] = b
  BY <1>1, <1>2 DEF IInv, ChainsInv, Chains
<1>4. \/ /\ e = None
         /\ \A j \in 1..Len(s) : s[j] = Hand \/ obj[s[j]].key # k \/ (~all /\ obj[s[j]].marked)
      \/ \E j \in 1..Len(s) :
            /\ e = s[j] /\ s[j] \in Objects /\ s[j] # None
            /\ obj[s[j]].key = k /\ (all \/ ~obj[s[j]].marked)
  <2>1. e = Match(s, 1, k, all) /\ 1 \in Nat \ {0}
    BY <1>1, <1>2
  <2>. QED
    BY <1>3, <2>1, MatchFacts
<1>5. ASSUME e # None PROVE e \in Objects /\ obj[e].status = "cached" /\ obj[e].key = k
  BY <1>3, <1>4, <1>5, Zenon DEF Elems
<1>6. ASSUME e = None, all, NEW o \in Objects, obj[o].status = "cached" PROVE obj[o].key # k
  <2> SUFFICES ASSUME obj[o].key = k PROVE FALSE
    BY Zenon
  <2>1. o \in Elems(s)
    BY <1>1, <1>3, <1>6, Zenon
  <2>2. PICK j \in 1..Len(s) : s[j] = o
    BY <2>1, Zenon DEF Elems
  <2>. QED
    BY <1>4, <1>6, <2>2, CacheAssumption, Zenon
<1>. QED
  BY <1>5, <1>6, Zenon

(* CCacheAccessor::Lookup: the accessor and a customer take the object.    *)
LEMMA StepLookup == ASSUME IInv, NEW a \in Accessors, NEW k \in Keys, Lookup(a, k) PROVE IInv' /\ Implements
<1>1. PICK e : e = Match(chain[BucketOf[k]], 1, k, FALSE)
  BY Zenon
<1>2. e \in Objects /\ obj[e].status = "cached" /\ e # None
  BY <1>1, FoundFacts, Zenon DEF Lookup
<1>3. /\ loop = Idle /\ entry[a] = None /\ obj[e].cust < MaxRefs /\ obj' = Obtain(e)
      /\ entry' = [entry EXCEPT ![a] = e]
      /\ UNCHANGED <<chain, bucket, advanced, size, quota, unique, refused, loop>>
  BY <1>1, Zenon DEF Lookup
<1>4. obj \in [Objects -> Records] /\ obj[e] \in Records /\ entry \in [Accessors -> Objects \cup {None}]
  BY <1>2, ObjTyped, Zenon DEF IInv
<1>5. PICK r : r = [obj[e] EXCEPT !.clock = GClockInit, !.refs = @ + 2, !.cust = @ + 1]
  BY Zenon
<1>6. /\ r \in Records /\ r.status = "cached" /\ r.key = obj[e].key
      /\ r.refs = obj[e].refs + 2 /\ r.cust = obj[e].cust + 1
  <2>1. obj[e].refs + 2 \in Nat /\ obj[e].cust + 1 \in 0..MaxRefs /\ GClockInit \in 0..GClockInit
    BY <1>3, <1>4, CacheAssumption DEF Records
  <2>. QED
    BY <1>2, <1>4, <1>5, <2>1, Zenon DEF Records
<1>7. obj' \in [Objects -> Records] /\ obj'[e] = r /\ \A o \in Objects : o # e => obj'[o] = obj[o]
  <2>1. obj' = [obj EXCEPT ![e] = r]
    BY <1>3, <1>4, <1>5, Zenon DEF Obtain
  <2>. QED
    BY <1>2, <1>4, <1>6, <2>1, Zenon
<1>8. entry' \in [Accessors -> Objects \cup {None}] /\ entry'[a] = e /\ \A b \in Accessors : b # a => entry'[b] = entry[b]
  BY <1>2, <1>3, <1>4, Zenon
<1>9. TypeOK'
  BY <1>3, <1>7, <1>8, Zenon DEF IInv, TypeOK, Records
<1>10. RefsExact'
  <2> SUFFICES ASSUME NEW p \in Objects
               PROVE  obj'[p].refs = obj'[p].cust + Pins(p)'
                                     + (IF obj'[p].status \in {"new", "cached"} THEN 1 ELSE 0)
    BY Zenon DEF RefsExact
  <2>1. Pins(p)' = Pins(p) + (IF e = p THEN 1 ELSE 0) /\ Pins(p) \in Nat
    <3>1. Pins(p)' = Pins(p) + (IF e = p THEN 1 ELSE 0) - (IF entry[a] = p THEN 1 ELSE 0)
      BY <1>3, PinsMove, Zenon DEF IInv
    <3>2. entry[a] # p
      BY <1>3, CacheAssumption, Zenon
    <3>. QED
      BY <3>1, <3>2, PinsFacts
  <2>2. obj[p].refs = obj[p].cust + Pins(p) + (IF obj[p].status \in {"new", "cached"} THEN 1 ELSE 0)
    BY Zenon DEF IInv, RefsExact
  <2>3. obj[p].refs \in Nat /\ obj[p].cust \in Nat
    BY <1>4 DEF Records
  <2>4. CASE p = e
    BY <1>2, <1>6, <1>7, <2>1, <2>2, <2>3, <2>4
  <2>5. CASE p # e
    BY <1>7, <2>1, <2>2, <2>3, <2>5
  <2>. QED
    BY <2>4, <2>5, Zenon
<1>11. ObjectsInv' /\ LoopInv' /\ ChainsInv(chain', bucket', obj') /\ UniqueKeys'
  <2>1. \A p \in Objects : /\ obj'[p].status = obj[p].status /\ obj'[p].key = obj[p].key
                           /\ obj[p].status = "free" => obj'[p] = obj[p]
    BY <1>2, <1>6, <1>7, Zenon
  <2>2. \A b \in Accessors : entry'[b] # None => obj[entry'[b]].status = "cached" /\ entry'[b] \in Objects
    <3>1. \A b \in Accessors : entry[b] # None => obj[entry[b]].status = "cached" /\ entry[b] \in Objects
      BY <1>4 DEF IInv, ObjectsInv
    <3>. QED
      BY <1>2, <1>8, <3>1, Zenon
  <2>3. /\ loop.acc = None
        /\ loop'.at = "idle" => loop' = Idle
        /\ loop'.at = "insert" => loop'.new # None
    BY <1>3, Zenon DEF Idle
  <2>4. ChainsInv(chain', bucket', obj)
    BY <1>3, Zenon DEF IInv
  <2>. QED
    BY <1>3, <2>1, <2>2, <2>3, <2>4, KeptInv, Zenon
<1>12. HandReady'
  BY <1>3, Zenon DEF IInv, HandReady, Evicting
<1>13. Implements
  <2>1. Live' = Live /\ e \in Live
    BY <1>2, <1>6, <1>7, Zenon DEF Live
  <2>2. Customers' = [Customers EXCEPT ![e] = @ + 1]
    BY <1>2, <1>6, <1>7, Zenon DEF Customers
  <2>3. Promise!Take(a, e)
    BY <1>3, <2>1, <2>2, Zenon DEF Promise!Take, Live, Customers
  <2>. QED
    BY <1>2, <2>3, Zenon DEF Implements, Promise!Next
<1>. QED
  BY <1>9, <1>10, <1>11, <1>12, <1>13, Zenon DEF IInv

(* An eviction that starts has something to free.                          *)
LEMMA StartFacts ==
    ASSUME TypeOK, NEW q \in Quotas, OverQuota(q), NEW a \in Accessors \cup {None}, NEW o \in Objects \cup {None},
           NEW l, l = StartEvict(q, a, o)
    PROVE  /\ l \in [at : {"idle", "evict", "insert"}, freed : Nat, toFree : Nat, retry : 0..GClockInit,
                     acc : Accessors \cup {None}, new : Objects \cup {None}]
           /\ l.at = "evict" /\ l.freed < l.toFree /\ l.acc = a /\ l.new = o
<1>1. size \in Nat /\ q \in Nat /\ size > q /\ 0 \in 0..GClockInit
  BY CacheAssumption DEF TypeOK, OverQuota
<1>2. PICK f : f = (10 * size - 9 * q) \div 10
  BY Zenon
<1>3. f \in Nat /\ 0 < f
  BY <1>1, <1>2
<1>. QED
  BY <1>1, <1>2, <1>3, Zenon DEF StartEvict

(* CCacheAccessor::Insert makes an object before the eviction starts.      *)
LEMMA StepInsert ==
    ASSUME IInv, NEW a \in Accessors, NEW k \in Keys, NEW n \in Sizes, NEW o \in Objects, Insert(a, k, n, o)
    PROVE  IInv' /\ Implements
<1>0. /\ loop = Idle /\ entry[a] = None /\ refused[a] = None /\ obj[o].status = "free"
      /\ UNCHANGED <<chain, bucket, advanced, size, quota, unique, entry, refused>>
  BY Zenon DEF Insert
<1>1. PICK r : r = [status |-> "new", key |-> k, refs |-> 2, clock |-> GClockInit, marked |-> FALSE,
                    bytes |-> n, cust |-> 1]
  BY Zenon
<1>2. r \in Records /\ r.status = "new" /\ r.key = k /\ r.refs = 2 /\ r.cust = 1
  <2>1. 1 \in 0..MaxRefs /\ GClockInit \in 0..GClockInit /\ n \in 0..MaxBytes
    BY CacheAssumption
  <2>. QED
    BY <1>1, <2>1, Zenon DEF Records
<1>3. obj \in [Objects -> Records] /\ quota \in Quotas
  BY ObjTyped, Zenon DEF IInv
<1>4. obj' \in [Objects -> Records] /\ obj'[o] = r /\ \A p \in Objects : p # o => obj'[p] = obj[p]
  <2>1. obj' = [obj EXCEPT ![o] = r]
    BY <1>1, Zenon DEF Insert
  <2>. QED
    BY <1>2, <1>3, <2>1, Zenon
<1>5. /\ loop' \in [at : {"idle", "evict", "insert"}, freed : Nat, toFree : Nat, retry : 0..GClockInit,
                    acc : Accessors \cup {None}, new : Objects \cup {None}]
      /\ loop'.acc = a /\ loop'.new = o /\ loop'.at \in {"evict", "insert"}
      /\ loop'.at = "evict" => loop'.freed < loop'.toFree
  <2>1. CASE OverQuota(quota)
    <3>1. loop' = StartEvict(quota, a, o)
      BY <2>1, Zenon DEF Insert
    <3>. QED
      BY <1>3, <2>1, <3>1, StartFacts DEF IInv
  <2>2. CASE ~OverQuota(quota)
    <3>1. loop' = [at |-> "insert", freed |-> 0, toFree |-> 0, retry |-> 0, acc |-> a, new |-> o]
      BY <2>2, Zenon DEF Insert, Idle
    <3>2. 0 \in 0..GClockInit
      BY CacheAssumption
    <3>. QED
      BY <3>1, <3>2, Zenon
  <2>. QED
    BY <2>1, <2>2, Zenon
<1>6. TypeOK'
  BY <1>0, <1>4, <1>5, Zenon DEF IInv, TypeOK, Records
<1>7. o # None /\ a # None /\ loop.new = None
  BY <1>0, CacheAssumption, Zenon DEF Idle
<1>8. RefsExact'
  <2> SUFFICES ASSUME NEW p \in Objects
               PROVE  obj'[p].refs = obj'[p].cust + Pins(p)'
                                     + (IF obj'[p].status \in {"new", "cached"} THEN 1 ELSE 0)
    BY Zenon DEF RefsExact
  <2>1. Pins(p)' = Pins(p)
    BY <1>0, Zenon DEF Pins
  <2>2. CASE p = o
    <3>1. Pins(p) = 0
      BY <1>0, <2>2, FreeUnused, Zenon
    <3>. QED
      BY <1>2, <1>4, <2>1, <2>2, <3>1
  <2>3. CASE p # o
    BY <1>4, <2>1, <2>3, Zenon DEF IInv, RefsExact
  <2>. QED
    BY <2>2, <2>3, Zenon
<1>9. ObjectsInv'
  <2>1. ASSUME NEW p \in Objects
        PROVE  /\ obj'[p].status = "free" => obj'[p] = NoObject
               /\ obj'[p].status # "free" => obj'[p].key \in Keys
               /\ obj'[p].status = "new" <=> p = loop'.new
    <3>1. CASE p = o
      BY <1>2, <1>4, <1>5, <3>1, Zenon
    <3>2. CASE p # o
      <4>1. obj'[p] = obj[p] /\ p # loop'.new /\ p # loop.new
        BY <1>4, <1>5, <1>7, <3>2, CacheAssumption, Zenon
      <4>. QED
        BY <4>1 DEF IInv, ObjectsInv
    <3>. QED
      BY <3>1, <3>2, Zenon
  <2>2. ASSUME NEW c \in Accessors
        PROVE  /\ entry'[c] # None => obj'[entry'[c]].status = "cached"
               /\ refused'[c] # None => obj'[refused'[c]].status = "refused"
               /\ \A b \in Accessors : refused'[c] # None /\ refused'[c] = refused'[b] => c = b
    <3>1. /\ entry[c] # None => obj[entry[c]].status = "cached" /\ entry[c] \in Objects
          /\ refused[c] # None => obj[refused[c]].status = "refused" /\ refused[c] \in Objects
      BY DEF IInv, ObjectsInv, TypeOK
    <3>2. \A b \in Accessors : refused[c] # None /\ refused[c] = refused[b] => c = b
      BY Zenon DEF IInv, ObjectsInv
    <3>. QED
      BY <1>0, <1>4, <3>1, <3>2, Zenon
  <2>. QED
    BY <2>1, <2>2, Zenon DEF ObjectsInv
<1>10. LoopInv'
  BY <1>0, <1>5, <1>7, Zenon DEF LoopInv
<1>11. ChainsInv(chain', bucket', obj')
  <2>1. ChainsInv(chain', bucket', obj)
    BY <1>0, Zenon DEF IInv
  <2>2. \A p \in Objects : /\ obj'[p].status = "cached" <=> obj[p].status = "cached"
                           /\ obj[p].status = "cached" => obj'[p].key = obj[p].key
    BY <1>0, <1>2, <1>4, Zenon
  <2>. QED
    BY <2>1, <2>2, SameChains, Zenon
<1>12. HandReady'
  BY <1>0, <1>5, Zenon DEF IInv, HandReady, Evicting
<1>13. UniqueKeys'
  <2>1. Cached' = Cached /\ \A p \in Cached : obj'[p].key = obj[p].key
    BY <1>0, <1>2, <1>4, Zenon DEF Cached
  <2>. QED
    BY <1>0, <2>1 DEF IInv, UniqueKeys
<1>14. Implements
  <2>1. Live' = Live \cup {o} /\ o \notin Live
    BY <1>0, <1>2, <1>4, Zenon DEF Live
  <2>2. Customers' = [Customers EXCEPT ![o] = 1]
    BY <1>2, <1>4, Zenon DEF Customers
  <2>3. Promise!Make(o)
    BY <1>0, <2>1, <2>2, Zenon DEF Promise!Make, Live, Customers
  <2>. QED
    BY <2>3, Zenon DEF Implements, Promise!Next
<1>. QED
  BY <1>6, <1>8, <1>9, <1>10, <1>11, <1>12, <1>13, <1>14, Zenon DEF IInv

(* SetCacheQuota may start an eviction.                                    *)
LEMMA StepSetCacheQuota == ASSUME IInv, NEW q \in Quotas, SetCacheQuota(q) PROVE IInv' /\ Implements
<1>0. /\ loop = Idle /\ quota' = q
      /\ UNCHANGED <<chain, bucket, advanced, size, unique, obj, entry, refused>>
  BY Zenon DEF SetCacheQuota
<1>1. /\ loop' \in [at : {"idle", "evict", "insert"}, freed : Nat, toFree : Nat, retry : 0..GClockInit,
                    acc : Accessors \cup {None}, new : Objects \cup {None}]
      /\ loop'.acc = loop.acc /\ loop'.new = loop.new /\ loop.acc = None
      /\ loop' = Idle \/ loop'.at = "evict"
      /\ loop'.at = "evict" => loop'.freed < loop'.toFree
  <2>1. CASE OverQuota(q)
    <3>1. loop' = StartEvict(q, None, None)
      BY <2>1, Zenon DEF SetCacheQuota
    <3>2. loop.acc = None /\ loop.new = None
      BY <1>0, Zenon DEF Idle
    <3>. QED
      BY <2>1, <3>1, <3>2, StartFacts DEF IInv
  <2>2. CASE ~OverQuota(q)
    BY <1>0, <2>2 DEF SetCacheQuota, IInv, TypeOK, Idle
  <2>. QED
    BY <2>1, <2>2, Zenon
<1>2. TypeOK'
  BY <1>0, <1>1, Zenon DEF IInv, TypeOK
<1>3. RefsExact'
  BY <1>0, Zenon DEF IInv, RefsExact, Pins
<1>4. ObjectsInv' /\ LoopInv' /\ ChainsInv(chain', bucket', obj') /\ UniqueKeys'
  <2>1. \A b \in Accessors : entry'[b] # None => obj[entry'[b]].status = "cached" /\ entry'[b] \in Objects
    BY <1>0 DEF IInv, ObjectsInv, TypeOK
  <2>2. /\ loop'.at = "idle" => loop' = Idle
        /\ loop'.at = "insert" => loop'.new # None
    BY <1>1 DEF Idle
  <2>3. ChainsInv(chain', bucket', obj)
    BY <1>0, Zenon DEF IInv
  <2>. QED
    BY <1>0, <1>1, <2>1, <2>2, <2>3, KeptInv, Zenon
<1>5. HandReady'
  BY <1>0, <1>1, Zenon DEF IInv, HandReady, Evicting, Idle
<1>6. Implements
  BY <1>0, Zenon DEF Implements, Live, Customers
<1>. QED
  BY <1>2, <1>3, <1>4, <1>5, <1>6, Zenon DEF IInv

(* What an insertion knows: its object is new and its accessor has none.   *)
LEMMA InsertFacts ==
    ASSUME IInv, loop.at = "insert"
    PROVE  /\ loop.new \in Objects /\ loop.acc \in Accessors /\ obj[loop.new].status = "new"
           /\ obj[loop.new].key \in Keys /\ BucketOf[obj[loop.new].key] \in Buckets
           /\ entry[loop.acc] = None /\ refused[loop.acc] = None
<1>1. loop.new # None /\ loop.acc # None
  BY Zenon DEF IInv, LoopInv
<1>2. loop.new \in Objects /\ loop.acc \in Accessors
  BY <1>1, ObjTyped, Zenon DEF IInv
<1>3. obj[loop.new].status = "new" /\ obj[loop.new].key \in Keys
  BY <1>2, Zenon DEF IInv, ObjectsInv
<1>. QED
  BY <1>1, <1>2, <1>3, CacheAssumption, Zenon DEF IInv, LoopInv, Buckets

(* InsertEntry takes a new object into the table.                          *)
LEMMA StepInsertEntry == ASSUME IInv, InsertEntry PROVE IInv' /\ Implements
<1>o. PICK o : o = loop.new
  BY Zenon
<1>a. PICK a : a = loop.acc
  BY Zenon
<1>0. /\ loop.at = "insert" /\ (~unique \/ Find(obj[o].key) = None)
      /\ chain' = [chain EXCEPT ![BucketOf[obj[o].key]] = <<o>> \o @]
      /\ size' = (size + obj[o].bytes) % Word
      /\ obj' = [obj EXCEPT ![o].status = "cached", ![o].refs = @ + 1]
      /\ entry' = [entry EXCEPT ![a] = o] /\ loop' = Idle
      /\ UNCHANGED <<bucket, advanced, quota, unique, refused>>
  BY <1>o, <1>a, Zenon DEF InsertEntry
<1>1. /\ o \in Objects /\ a \in Accessors /\ obj[o].status = "new" /\ obj[o].key \in Keys
      /\ BucketOf[obj[o].key] \in Buckets /\ entry[a] = None /\ refused[a] = None /\ o # None
  BY <1>o, <1>a, <1>0, InsertFacts, CacheAssumption, Zenon
<1>2. /\ obj \in [Objects -> Records] /\ obj[o] \in Records
      /\ entry \in [Accessors -> Objects \cup {None}] /\ size \in Nat
  BY <1>1, ObjTyped DEF IInv
<1>3. PICK r : r = [obj[o] EXCEPT !.status = "cached", !.refs = @ + 1]
  BY Zenon
<1>4. /\ r \in Records /\ r.status = "cached" /\ r.key = obj[o].key /\ r.refs = obj[o].refs + 1
      /\ r.cust = obj[o].cust
  <2>1. obj[o].refs + 1 \in Nat
    BY <1>2 DEF Records
  <2>. QED
    BY <1>2, <1>3, <2>1, Zenon DEF Records
<1>5. obj' \in [Objects -> Records] /\ obj'[o] = r /\ \A p \in Objects : p # o => obj'[p] = obj[p]
  <2>1. obj' = [obj EXCEPT ![o] = r]
    BY <1>0, <1>2, <1>3, Zenon
  <2>. QED
    BY <1>1, <1>2, <1>4, <2>1, Zenon
<1>6. /\ entry' \in [Accessors -> Objects \cup {None}] /\ entry'[a] = o
      /\ \A b \in Accessors : b # a => entry'[b] = entry[b]
  BY <1>0, <1>1, <1>2, Zenon
<1>7. /\ ChainsInv(chain', bucket', obj')
      /\ \A b \in Buckets : Hand \in Elems(chain'[b]) <=> Hand \in Elems(chain[b])
  <2>1. ChainsInv(chain, bucket, obj) /\ obj[o].status # "cached"
    BY <1>1, Zenon DEF IInv
  <2>2. obj' = [obj EXCEPT ![o] = r]
    BY <1>0, <1>2, <1>3, Zenon
  <2>3. PICK b \in Buckets : b = BucketOf[obj[o].key]
    BY <1>1, Zenon
  <2>6. PICK u : u = <<o>> \o chain[b]
    BY Zenon
  <2>7. chain' = [chain EXCEPT ![b] = u] /\ bucket' = bucket
    BY <1>0, <2>3, <2>6, Zenon
  <2>5. /\ ChainsInv(chain', bucket, obj')
        /\ \A c \in Buckets : Hand \in Elems(chain'[c]) <=> Hand \in Elems(chain[c])
    <3>1. obj \in [Objects -> Records] /\ o \in Objects /\ r.status = "cached" /\ r.key = obj[o].key
      BY <1>1, <1>2, <1>4, Zenon
    <3>2. chain[b] \in Seq(Objects \cup {Hand}) /\ Once(chain[b]) /\ o \notin Elems(chain[b])
      BY <1>1, <2>1, <2>3, Zenon DEF ChainsInv, Chains
    <3>3. u \in Seq(Objects \cup {Hand}) /\ Once(u) /\ Elems(u) = Elems(chain[b]) \cup {o}
      BY <1>1, <2>6, <3>2, HeadFacts
    <3>4. Adds(chain, bucket, obj, o, r, b, u, chain', obj')
      BY <2>1, <2>2, <2>3, <2>7, <3>1, <3>3, Zenon DEF Adds
    <3>. QED
      BY <3>4, AddChain, Zenon
  <2>. QED
    BY <2>5, <2>7, Zenon
<1>8. TypeOK'
  <2>1. size' \in 0..(Word - 1)
    <3>1. size + obj[o].bytes \in Int
      BY <1>2 DEF Records
    <3>. QED
      BY <1>0, <3>1, CacheAssumption
  <2>2. chain' \in Chains
    BY <1>7, Zenon DEF ChainsInv
  <2>3. loop' \in [at : {"idle", "evict", "insert"}, freed : Nat, toFree : Nat, retry : 0..GClockInit,
                   acc : Accessors \cup {None}, new : Objects \cup {None}]
    BY <1>0, CacheAssumption DEF Idle
  <2>. QED
    BY <1>0, <1>5, <1>6, <2>1, <2>2, <2>3, Zenon DEF IInv, TypeOK, Records, Chains
<1>9. RefsExact'
  <2> SUFFICES ASSUME NEW p \in Objects
               PROVE  obj'[p].refs = obj'[p].cust + Pins(p)'
                                     + (IF obj'[p].status \in {"new", "cached"} THEN 1 ELSE 0)
    BY Zenon DEF RefsExact
  <2>1. Pins(p)' = Pins(p) + (IF o = p THEN 1 ELSE 0) /\ Pins(p) \in Nat
    <3>1. Pins(p)' = Pins(p) + (IF o = p THEN 1 ELSE 0) - (IF entry[a] = p THEN 1 ELSE 0)
      <4>1. TypeOK /\ entry' = [entry EXCEPT ![a] = o]
        BY <1>0, Zenon DEF IInv
      <4>. QED
        BY <1>1, <4>1, PinsMove, Zenon
    <3>2. entry[a] # p
      BY <1>1, CacheAssumption, Zenon
    <3>. QED
      BY <3>1, <3>2, PinsFacts
  <2>2. obj[p].refs = obj[p].cust + Pins(p) + (IF obj[p].status \in {"new", "cached"} THEN 1 ELSE 0)
    BY Zenon DEF IInv, RefsExact
  <2>3. obj[p].refs \in Nat /\ obj[p].cust \in Nat
    BY <1>2 DEF Records
  <2>4. CASE p = o
    BY <1>1, <1>4, <1>5, <2>1, <2>2, <2>3, <2>4
  <2>5. CASE p # o
    BY <1>5, <2>1, <2>2, <2>3, <2>5
  <2>. QED
    BY <2>4, <2>5, Zenon
<1>10. loop'.new = None /\ loop'.acc = None /\ loop'.at = "idle"
  BY <1>0, Zenon DEF Idle
<1>11. ObjectsInv'
  <2>1. ASSUME NEW p \in Objects
        PROVE  /\ obj'[p].status = "free" => obj'[p] = NoObject
               /\ obj'[p].status # "free" => obj'[p].key \in Keys
               /\ obj'[p].status = "new" <=> p = loop'.new
    <3>0. p # None
      BY CacheAssumption, Zenon
    <3>1. CASE p = o
      BY <1>1, <1>4, <1>5, <1>10, <3>0, <3>1, Zenon
    <3>2. CASE p # o
      <4>1. obj'[p] = obj[p] /\ p # loop'.new /\ p # loop.new
        BY <1>o, <1>5, <1>10, <3>0, <3>2, Zenon
      <4>. QED
        BY <4>1 DEF IInv, ObjectsInv
    <3>. QED
      BY <3>1, <3>2, Zenon
  <2>2. ASSUME NEW c \in Accessors
        PROVE  /\ entry'[c] # None => obj'[entry'[c]].status = "cached"
               /\ refused'[c] # None => obj'[refused'[c]].status = "refused"
               /\ \A b \in Accessors : refused'[c] # None /\ refused'[c] = refused'[b] => c = b
    <3>1. /\ entry[c] # None => obj[entry[c]].status = "cached" /\ entry[c] \in Objects
          /\ refused[c] # None => obj[refused[c]].status = "refused" /\ refused[c] \in Objects
      BY DEF IInv, ObjectsInv, TypeOK
    <3>2. \A b \in Accessors : refused[c] # None /\ refused[c] = refused[b] => c = b
      BY Zenon DEF IInv, ObjectsInv
    <3>3. entry'[c] # None => obj'[entry'[c]].status = "cached"
      BY <1>1, <1>4, <1>5, <1>6, <3>1, Zenon
    <3>. QED
      BY <1>0, <1>1, <1>5, <3>1, <3>2, <3>3, Zenon
  <2>. QED
    BY <2>1, <2>2, Zenon DEF ObjectsInv
<1>12. LoopInv'
  BY <1>0, <1>10, Zenon DEF LoopInv
<1>13. HandReady'
  <2>1. bucket \in Buckets
    BY ObjTyped, Zenon DEF IInv
  <2>. QED
    BY <1>0, <1>7, <1>10, <2>1, Zenon DEF IInv, HandReady
<1>14. UniqueKeys'
  <2> SUFFICES ASSUME unique, NEW p \in Cached', NEW q \in Cached', obj'[p].key = obj'[q].key PROVE p = q
    BY <1>0, Zenon DEF UniqueKeys
  <2>1. \A c \in Objects : obj[c].status = "cached" => obj[c].key # obj[o].key
    BY <1>0, <1>1, FoundFacts, Zenon DEF Find
  <2>2. CASE p = o \/ q = o
    BY <1>4, <1>5, <2>1, <2>2, Zenon DEF Cached
  <2>3. CASE p # o /\ q # o
    BY <1>5, <2>3, Zenon DEF IInv, UniqueKeys, Cached
  <2>. QED
    BY <2>2, <2>3, Zenon
<1>15. Implements
  <2>1. Live' = Live /\ o \in Live
    BY <1>1, <1>4, <1>5, Zenon DEF Live
  <2>2. Customers' = Customers
    BY <1>4, <1>5, Zenon DEF Customers
  <2>3. Promise!Take(a, o)
    BY <1>0, <1>1, <2>1, <2>2, Zenon DEF Promise!Take, Live, Customers
  <2>. QED
    BY <1>1, <2>3, Zenon DEF Implements, Promise!Next
<1>. QED
  BY <1>8, <1>9, <1>11, <1>12, <1>7, <1>13, <1>14, <1>15, Zenon DEF IInv

(* InsertEntry finds the key: the accessor takes the object that is there. *)
LEMMA StepInsertFound == ASSUME IInv, InsertFound PROVE IInv' /\ Implements
<1>o. PICK o : o = loop.new
  BY Zenon
<1>a. PICK a : a = loop.acc
  BY Zenon
<1>e. PICK e : e = Find(obj[o].key)
  BY Zenon
<1>0. /\ loop.at = "insert" /\ unique /\ e # None
      /\ obj' = [obj EXCEPT ![e].clock = GClockInit, ![e].refs = @ + 1,
                            ![o].status = "refused", ![o].refs = @ - 1]
      /\ entry' = [entry EXCEPT ![a] = e] /\ refused' = [refused EXCEPT ![a] = o] /\ loop' = Idle
      /\ UNCHANGED <<chain, bucket, advanced, size, quota, unique>>
  BY <1>o, <1>a, <1>e, Zenon DEF InsertFound
<1>1. /\ o \in Objects /\ a \in Accessors /\ obj[o].status = "new" /\ obj[o].key \in Keys
      /\ entry[a] = None /\ refused[a] = None /\ o # None
  BY <1>o, <1>a, <1>0, InsertFacts, CacheAssumption, Zenon
<1>2. e \in Objects /\ obj[e].status = "cached" /\ e # o
  <2>1. PICK k \in Keys : k = obj[o].key
    BY <1>1, Zenon
  <2>2. PICK all \in BOOLEAN : all = TRUE
    BY Zenon
  <2>3. e = Match(chain[BucketOf[k]], 1, k, all)
    BY <1>e, <2>1, <2>2, Zenon DEF Find
  <2>4. e \in Objects /\ obj[e].status = "cached"
    BY <1>0, <2>3, FoundFacts
  <2>. QED
    BY <1>1, <2>4, Zenon
<1>3. /\ obj \in [Objects -> Records] /\ obj[o] \in Records /\ obj[e] \in Records
      /\ entry \in [Accessors -> Objects \cup {None}] /\ refused \in [Accessors -> Objects \cup {None}]
  BY <1>1, <1>2, ObjTyped, Zenon DEF IInv
<1>r. PICK r : r = [obj[o] EXCEPT !.status = "refused", !.refs = @ - 1]
  BY Zenon
<1>x. PICK x : x = [obj[e] EXCEPT !.clock = GClockInit, !.refs = @ + 1]
  BY Zenon
<1>4. /\ r \in Records /\ r.status = "refused" /\ r.key = obj[o].key /\ r.refs = obj[o].refs - 1
      /\ r.cust = obj[o].cust
  <2>1. obj[o].refs = obj[o].cust + Pins(o) + 1 /\ Pins(o) \in Nat
    BY <1>1, PinsFacts, Zenon DEF IInv, RefsExact
  <2>2. obj[o].refs - 1 \in Nat
    BY <1>3, <2>1 DEF Records
  <2>. QED
    BY <1>3, <1>r, <2>2, Zenon DEF Records
<1>5. /\ x \in Records /\ x.status = "cached" /\ x.key = obj[e].key /\ x.refs = obj[e].refs + 1
      /\ x.cust = obj[e].cust
  <2>1. obj[e].refs + 1 \in Nat /\ GClockInit \in 0..GClockInit
    BY <1>3, CacheAssumption DEF Records
  <2>. QED
    BY <1>2, <1>3, <1>x, <2>1, Zenon DEF Records
<1>6. /\ obj' \in [Objects -> Records] /\ obj'[o] = r /\ obj'[e] = x
      /\ \A p \in Objects : p # o /\ p # e => obj'[p] = obj[p]
  <2>1. obj' = [[obj EXCEPT ![e] = x] EXCEPT ![o] = r]
    BY <1>0, <1>1, <1>2, <1>3, <1>r, <1>x, Zenon
  <2>. QED
    BY <1>1, <1>2, <1>3, <1>4, <1>5, <2>1, Zenon
<1>7. /\ entry' \in [Accessors -> Objects \cup {None}] /\ entry'[a] = e
      /\ refused' \in [Accessors -> Objects \cup {None}] /\ refused'[a] = o
      /\ \A b \in Accessors : b # a => entry'[b] = entry[b] /\ refused'[b] = refused[b]
  BY <1>0, <1>1, <1>2, <1>3, Zenon
<1>8. TypeOK'
  <2>1. loop' \in [at : {"idle", "evict", "insert"}, freed : Nat, toFree : Nat, retry : 0..GClockInit,
                   acc : Accessors \cup {None}, new : Objects \cup {None}]
    BY <1>0, CacheAssumption DEF Idle
  <2>. QED
    BY <1>0, <1>6, <1>7, <2>1, Zenon DEF IInv, TypeOK, Records
<1>9. RefsExact'
  <2> SUFFICES ASSUME NEW p \in Objects
               PROVE  obj'[p].refs = obj'[p].cust + Pins(p)'
                                     + (IF obj'[p].status \in {"new", "cached"} THEN 1 ELSE 0)
    BY Zenon DEF RefsExact
  <2>1. Pins(p)' = Pins(p) + (IF e = p THEN 1 ELSE 0) /\ Pins(p) \in Nat
    <3>1. Pins(p)' = Pins(p) + (IF e = p THEN 1 ELSE 0) - (IF entry[a] = p THEN 1 ELSE 0)
      <4>1. TypeOK /\ entry' = [entry EXCEPT ![a] = e]
        BY <1>0, Zenon DEF IInv
      <4>. QED
        BY <1>1, <4>1, PinsMove, ZenonT(30)
    <3>2. entry[a] # p
      BY <1>1, CacheAssumption, Zenon
    <3>. QED
      BY <3>1, <3>2, PinsFacts
  <2>2. obj[p].refs = obj[p].cust + Pins(p) + (IF obj[p].status \in {"new", "cached"} THEN 1 ELSE 0)
    BY Zenon DEF IInv, RefsExact
  <2>3. obj[p].refs \in Nat /\ obj[p].cust \in Nat
    BY <1>3 DEF Records
  <2>4. CASE p = o
    BY <1>1, <1>2, <1>4, <1>6, <2>1, <2>2, <2>3, <2>4
  <2>5. CASE p = e
    BY <1>2, <1>5, <1>6, <2>1, <2>2, <2>3, <2>5
  <2>6. CASE p # o /\ p # e
    BY <1>6, <2>1, <2>2, <2>3, <2>6
  <2>. QED
    BY <2>4, <2>5, <2>6, Zenon
<1>10. loop'.new = None /\ loop'.acc = None /\ loop'.at = "idle"
  BY <1>0, Zenon DEF Idle
<1>11. ObjectsInv'
  <2>1. ASSUME NEW p \in Objects
        PROVE  /\ obj'[p].status = "free" => obj'[p] = NoObject
               /\ obj'[p].status # "free" => obj'[p].key \in Keys
               /\ obj'[p].status = "new" <=> p = loop'.new
    <3>0. p # None
      BY CacheAssumption, Zenon
    <3>1. CASE p = o
      BY <1>1, <1>4, <1>6, <1>10, <3>0, <3>1, Zenon
    <3>2. CASE p = e
      <4>1. obj[e].key \in Keys
        BY <1>2, Zenon DEF IInv, ObjectsInv
      <4>. QED
        BY <1>2, <1>5, <1>6, <1>10, <3>0, <3>2, <4>1, Zenon
    <3>3. CASE p # o /\ p # e
      <4>1. obj'[p] = obj[p] /\ p # loop'.new /\ p # loop.new
        BY <1>o, <1>6, <1>10, <3>0, <3>3, Zenon
      <4>. QED
        BY <4>1 DEF IInv, ObjectsInv
    <3>. QED
      BY <3>1, <3>2, <3>3, Zenon
  <2>2. ASSUME NEW c \in Accessors
        PROVE  /\ entry'[c] # None => obj'[entry'[c]].status = "cached"
               /\ refused'[c] # None => obj'[refused'[c]].status = "refused"
               /\ \A b \in Accessors : refused'[c] # None /\ refused'[c] = refused'[b] => c = b
    <3>1. \A b \in Accessors :
             /\ entry[b] # None => obj[entry[b]].status = "cached" /\ entry[b] \in Objects
             /\ refused[b] # None => obj[refused[b]].status = "refused" /\ refused[b] \in Objects
      BY DEF IInv, ObjectsInv, TypeOK
    <3>2. \A b \in Accessors : refused[c] # None /\ refused[c] = refused[b] => c = b
      BY Zenon DEF IInv, ObjectsInv
    <3>3. \A b \in Accessors : refused[b] # o
      BY <1>1, <3>1, Zenon
    <3>4. CASE c = a
      BY <1>2, <1>4, <1>5, <1>6, <1>7, <3>3, <3>4, Zenon
    <3>5. CASE c # a
      <4>1. entry'[c] # None => obj'[entry'[c]].status = "cached"
        BY <1>1, <1>5, <1>6, <1>7, <3>1, <3>5
      <4>2. refused'[c] # None => obj'[refused'[c]].status = "refused"
        BY <1>2, <1>4, <1>6, <1>7, <3>1, <3>5
      <4>3. \A b \in Accessors : refused'[c] # None /\ refused'[c] = refused'[b] => c = b
        BY <1>7, <3>2, <3>3, <3>5, Zenon
      <4>. QED
        BY <4>1, <4>2, <4>3, Zenon
    <3>. QED
      BY <3>4, <3>5, Zenon
  <2>. QED
    BY <2>1, <2>2, Zenon DEF ObjectsInv
<1>12. LoopInv'
  BY <1>0, <1>10, Zenon DEF LoopInv
<1>13. ChainsInv(chain', bucket', obj')
  <2>1. ChainsInv(chain, bucket, obj) /\ chain' = chain /\ bucket' = bucket
    BY <1>0, Zenon DEF IInv
  <2>2. \A p \in Objects : /\ obj'[p].status = "cached" <=> obj[p].status = "cached"
                           /\ obj[p].status = "cached" => obj'[p].key = obj[p].key
    BY <1>1, <1>2, <1>4, <1>5, <1>6, Zenon
  <2>. QED
    BY <2>1, <2>2, SameChains, Zenon
<1>14. HandReady'
  BY <1>0, <1>10, Zenon DEF IInv, HandReady
<1>15. UniqueKeys'
  <2>1. \A p \in Objects : /\ obj'[p].status = "cached" <=> obj[p].status = "cached"
                           /\ obj[p].status = "cached" => obj'[p].key = obj[p].key
    BY <1>1, <1>2, <1>4, <1>5, <1>6, Zenon
  <2>. QED
    BY <1>0, <2>1, Zenon DEF IInv, UniqueKeys, Cached
<1>16. Implements
  <2>1. Live' = Live /\ e \in Live
    BY <1>1, <1>2, <1>4, <1>5, <1>6, Zenon DEF Live
  <2>2. Customers' = Customers
    BY <1>4, <1>5, <1>6, Zenon DEF Customers
  <2>3. Promise!Take(a, e)
    BY <1>0, <1>1, <2>1, <2>2, Zenon DEF Promise!Take, Live, Customers
  <2>. QED
    BY <1>1, <1>2, <2>3, Zenon DEF Implements, Promise!Next
<1>. QED
  BY <1>8, <1>9, <1>11, <1>12, <1>13, <1>14, <1>15, <1>16, Zenon DEF IInv

(* An accessor a leaves e for n, when the objects are ob: n has the        *)
(* reference of a already, e has it still.                                 *)
Releases(a, e, n, ob) ==
    /\ loop = Idle /\ a \in Accessors /\ e \in Objects /\ e = entry[a]
    /\ n \in Objects \cup {None} /\ n # e
    /\ ob \in [Objects -> Records]
    /\ \A p \in Objects :
        /\ ob[p].status = "cached" <=> obj[p].status = "cached"
        /\ obj[p].status = "cached" => ob[p].key = obj[p].key
        /\ ob[p].status = "free" => ob[p] = NoObject
        /\ ob[p].status # "free" => ob[p].key \in Keys
        /\ ob[p].status # "new"
        /\ ob[p].refs = ob[p].cust + Pins(p) + (IF n = p THEN 1 ELSE 0)
                        + (IF ob[p].status \in {"new", "cached"} THEN 1 ELSE 0)
    /\ n # None => ob[n].status = "cached"
    /\ refused' \in [Accessors -> Objects \cup {None}]
    /\ \A c \in Accessors :
        /\ refused'[c] # None => ob[refused'[c]].status = "refused"
        /\ \A b \in Accessors : refused'[c] # None /\ refused'[c] = refused'[b] => c = b
    /\ entry' = [entry EXCEPT ![a] = n]
    /\ ReleaseEntry(e, ob)
    /\ UNCHANGED <<bucket, advanced, size, quota, unique, loop>>

(* The release of an entry.  When it goes, nobody but the accessor has it. *)
LEMMA ReleaseFacts ==
    ASSUME IInv, NEW a, NEW e, NEW n, NEW ob, Releases(a, e, n, ob)
    PROVE  /\ IInv'
           /\ \A p \in Objects : p # e => obj'[p] = ob[p]
           /\ obj'[e].cust = ob[e].cust
           /\ \/ obj'[e].status = "cached"
              \/ /\ obj'[e].status = "free" /\ ob[e].cust = 0
                 /\ \A c \in Accessors : c # a => entry[c] # e
<1>0. /\ loop = Idle /\ a \in Accessors /\ e \in Objects /\ e = entry[a]
      /\ n \in Objects \cup {None} /\ n # e /\ ob \in [Objects -> Records]
      /\ n # None => ob[n].status = "cached"
      /\ refused' \in [Accessors -> Objects \cup {None}] /\ entry' = [entry EXCEPT ![a] = n]
      /\ ReleaseEntry(e, ob)
      /\ UNCHANGED <<bucket, advanced, size, quota, unique, loop>>
  BY Zenon DEF Releases
<1>1. \A p \in Objects :
        /\ ob[p].status = "cached" <=> obj[p].status = "cached"
        /\ obj[p].status = "cached" => ob[p].key = obj[p].key
        /\ ob[p].status = "free" => ob[p] = NoObject
        /\ ob[p].status # "free" => ob[p].key \in Keys
        /\ ob[p].status # "new"
  BY Zenon DEF Releases
<1>2. \A p \in Objects : ob[p].refs = ob[p].cust + Pins(p) + (IF n = p THEN 1 ELSE 0)
                                      + (IF ob[p].status \in {"new", "cached"} THEN 1 ELSE 0)
  BY Zenon DEF Releases
<1>3. \A c \in Accessors :
        /\ refused'[c] # None => ob[refused'[c]].status = "refused"
        /\ \A b \in Accessors : refused'[c] # None /\ refused'[c] = refused'[b] => c = b
  BY Zenon DEF Releases
<1>4. /\ ob[e].status = "cached" /\ ob[e] \in Records /\ e # None /\ ob[e].key \in Keys
      /\ entry \in [Accessors -> Objects \cup {None}]
  <2>1. e # None
    BY <1>0, CacheAssumption, Zenon
  <2>2. obj[e].status = "cached"
    BY <1>0, <2>1, Zenon DEF IInv, ObjectsInv
  <2>. QED
    BY <1>0, <1>1, <2>1, <2>2, ObjTyped, Zenon DEF IInv
<1>5. ob[e].refs = ob[e].cust + Pins(e) + 1 /\ Pins(e) \in Nat /\ Pins(e) # 0
  <2>1. Pins(e) \in Nat /\ Pins(e) # 0
    BY <1>0, PinsFacts, Zenon
  <2>2. ob[e].refs = ob[e].cust + Pins(e) + 0 + 1
    BY <1>0, <1>2, <1>4, Zenon
  <2>. QED
    BY <1>4, <2>1, <2>2 DEF Records
<1>6. PICK r : r = IF LastRelease(ob[e]) THEN NoObject ELSE [ob[e] EXCEPT !.refs = @ - 1]
  BY Zenon
<1>7. ob[e].refs \in Nat /\ ob[e].cust \in Nat
  BY <1>4 DEF Records
<1>8. ASSUME LastRelease(ob[e])
      PROVE  /\ r = NoObject /\ ob[e].cust = 0 /\ Pins(e) = 1
             /\ \A c \in Accessors : c # a => entry[c] # e
  <2>1. r = NoObject /\ ob[e].refs = 2
    BY <1>6, <1>8, Zenon DEF LastRelease
  <2>2. ob[e].cust = 0 /\ Pins(e) = 1
    BY <1>5, <1>7, <2>1
  <2>. QED
    BY <1>0, <2>1, <2>2, PinsFacts, Zenon
<1>9. ASSUME ~LastRelease(ob[e])
      PROVE  /\ r \in Records /\ r.status = "cached" /\ r.key = ob[e].key /\ r.refs = ob[e].refs - 1
             /\ r.cust = ob[e].cust
  <2>1. ob[e].refs - 1 \in Nat
    BY <1>5, <1>7
  <2>. QED
    BY <1>4, <1>6, <1>9, <2>1, Zenon DEF Records
<1>10. r \in Records
  <2>1. NoObject \in Records
    BY CacheAssumption DEF NoObject, Records
  <2>. QED
    BY <1>8, <1>9, <2>1, Zenon
<1>11. obj' = [ob EXCEPT ![e] = r]
  BY <1>0, <1>6, Zenon DEF ReleaseEntry
<1>12. obj' \in [Objects -> Records] /\ obj'[e] = r /\ \A p \in Objects : p # e => obj'[p] = ob[p]
  BY <1>0, <1>10, <1>11, Zenon
<1>13. /\ entry' \in [Accessors -> Objects \cup {None}] /\ entry'[a] = n
       /\ \A c \in Accessors : c # a => entry'[c] = entry[c]
  BY <1>0, <1>4, Zenon
<1>14. ChainsInv(chain, bucket, ob)
  <2>1. ChainsInv(chain, bucket, obj)
    BY Zenon DEF IInv
  <2>. QED
    BY <1>1, <2>1, SameChains, Zenon
<1>15. /\ ChainsInv(chain', bucket, obj')
       /\ \A b \in Buckets : Hand \in Elems(chain'[b]) <=> Hand \in Elems(chain[b])
  <2>1. CASE LastRelease(ob[e])
    <3>1. PICK b : b = BucketOf[ob[e].key]
      BY Zenon
    <3>2. b \in Buckets /\ r.status = "free"
      BY <1>4, <1>8, <2>1, <3>1, CacheAssumption DEF Buckets, NoObject
    <3>3. chain' = [chain EXCEPT ![b] = Unlink(chain[b], e)]
      BY <1>0, <2>1, <3>1, Zenon DEF ReleaseEntry
    <3>4. Removes(chain, bucket, ob, e, r, b, chain', obj')
      BY <1>0, <1>4, <1>11, <1>14, <3>1, <3>2, <3>3, Zenon DEF Removes
    <3>. QED
      BY <3>4, RemoveChain, Zenon
  <2>2. CASE ~LastRelease(ob[e])
    <3>1. chain' = chain
      BY <1>0, <2>2, Zenon DEF ReleaseEntry
    <3>2. \A p \in Objects : /\ obj'[p].status = "cached" <=> ob[p].status = "cached"
                             /\ ob[p].status = "cached" => obj'[p].key = ob[p].key
      BY <1>4, <1>9, <1>12, <2>2, Zenon
    <3>. QED
      BY <1>14, <3>1, <3>2, SameChains, Zenon
  <2>. QED
    BY <2>1, <2>2, Zenon
<1>16. TypeOK'
  <2>1. chain' \in Chains
    BY <1>15, Zenon DEF ChainsInv
  <2>. QED
    BY <1>0, <1>12, <1>13, <2>1, Zenon DEF IInv, TypeOK, Records, Chains
<1>17. RefsExact'
  <2> SUFFICES ASSUME NEW p \in Objects
               PROVE  obj'[p].refs = obj'[p].cust + Pins(p)'
                                     + (IF obj'[p].status \in {"new", "cached"} THEN 1 ELSE 0)
    BY Zenon DEF RefsExact
  <2>1. Pins(p)' = Pins(p) + (IF n = p THEN 1 ELSE 0) - (IF e = p THEN 1 ELSE 0) /\ Pins(p) \in Nat
    <3>1. TypeOK /\ entry' = [entry EXCEPT ![a] = n] /\ a \in Accessors
      BY <1>0, Zenon DEF IInv
    <3>2. Pins(p)' = Pins(p) + (IF n = p THEN 1 ELSE 0) - (IF entry[a] = p THEN 1 ELSE 0)
      BY <3>1, PinsMove, Zenon
    <3>. QED
      BY <1>0, <3>2, PinsFacts, Zenon
  <2>2. ob[p].refs = ob[p].cust + Pins(p) + (IF n = p THEN 1 ELSE 0)
                     + (IF ob[p].status \in {"new", "cached"} THEN 1 ELSE 0)
    BY <1>2, Zenon
  <2>3. ob[p].refs \in Nat /\ ob[p].cust \in Nat
    BY <1>0 DEF Records
  <2>4. CASE p = e /\ LastRelease(ob[e])
    <3>1. Pins(p)' = 0
      BY <1>0, <1>8, <2>1, <2>4
    <3>2. obj'[p] = NoObject
      BY <1>8, <1>12, <2>4, Zenon
    <3>. QED
      BY <3>1, <3>2 DEF NoObject
  <2>5. CASE p = e /\ ~LastRelease(ob[e])
    BY <1>0, <1>5, <1>7, <1>9, <1>12, <2>1, <2>5
  <2>6. CASE p # e
    BY <1>12, <2>1, <2>2, <2>3, <2>6
  <2>. QED
    BY <2>4, <2>5, <2>6, Zenon
<1>18. loop'.new = None /\ loop'.acc = None /\ loop'.at = "idle" /\ loop' = Idle
  BY <1>0, Zenon DEF Idle
<1>19. ObjectsInv'
  <2>1. ASSUME NEW p \in Objects
        PROVE  /\ obj'[p].status = "free" => obj'[p] = NoObject
               /\ obj'[p].status # "free" => obj'[p].key \in Keys
               /\ obj'[p].status = "new" <=> p = loop'.new
    <3>0. p # None
      BY CacheAssumption, Zenon
    <3>1. CASE p = e
      <4>1. r.status # "new" /\ (r.status = "free" => r = NoObject) /\ (r.status # "free" => r.key \in Keys)
        BY <1>4, <1>8, <1>9 DEF NoObject
      <4>. QED
        BY <1>12, <1>18, <3>0, <3>1, <4>1, Zenon
    <3>2. CASE p # e
      BY <1>1, <1>12, <1>18, <3>0, <3>2, Zenon
    <3>. QED
      BY <3>1, <3>2, Zenon
  <2>2. ASSUME NEW c \in Accessors
        PROVE  /\ entry'[c] # None => obj'[entry'[c]].status = "cached"
               /\ refused'[c] # None => obj'[refused'[c]].status = "refused"
               /\ \A b \in Accessors : refused'[c] # None /\ refused'[c] = refused'[b] => c = b
    <3>1. entry[c] # None => ob[entry[c]].status = "cached" /\ entry[c] \in Objects
      BY <1>1, <1>4 DEF IInv, ObjectsInv
    <3>2. refused'[c] # None => refused'[c] \in Objects /\ ob[refused'[c]].status = "refused"
      BY <1>0, <1>3, Zenon
    <3>3. refused'[c] # None => obj'[refused'[c]].status = "refused"
      BY <1>4, <1>12, <3>2, Zenon
    <3>4. entry'[c] # None => obj'[entry'[c]].status = "cached"
      <4>1. CASE c = a
        BY <1>0, <1>12, <1>13, <4>1, Zenon
      <4>2. CASE c # a /\ entry[c] # e
        BY <1>12, <1>13, <3>1, <4>2, Zenon
      <4>3. CASE c # a /\ entry[c] = e
        <5>1. ~LastRelease(ob[e])
          BY <1>8, <4>3, Zenon
        <5>. QED
          BY <1>9, <1>12, <1>13, <4>3, <5>1, Zenon
      <4>. QED
        BY <4>1, <4>2, <4>3, Zenon
    <3>. QED
      BY <1>3, <3>3, <3>4, Zenon
  <2>. QED
    BY <2>1, <2>2, Zenon DEF ObjectsInv
<1>20. LoopInv'
  BY <1>18, Zenon DEF LoopInv
<1>21. HandReady'
  <2>1. bucket \in Buckets
    BY ObjTyped, Zenon DEF IInv
  <2>. QED
    BY <1>0, <1>15, <1>18, <2>1, Zenon DEF IInv, HandReady
<1>22. UniqueKeys'
  <2>1. \A p \in Objects : obj'[p].status = "cached" => obj[p].status = "cached" /\ obj'[p].key = obj[p].key
    <3> SUFFICES ASSUME NEW p \in Objects, obj'[p].status = "cached"
                 PROVE  obj[p].status = "cached" /\ obj'[p].key = obj[p].key
      BY Zenon
    <3>1. CASE p = e
      <4>1. ~LastRelease(ob[e])
        BY <1>8, <1>12, <3>1 DEF NoObject
      <4>. QED
        BY <1>1, <1>4, <1>9, <1>12, <3>1, <4>1, Zenon
    <3>2. CASE p # e
      BY <1>1, <1>12, <3>2, Zenon
    <3>. QED
      BY <3>1, <3>2, Zenon
  <2>. QED
    BY <1>0, <2>1, Zenon DEF IInv, UniqueKeys, Cached
<1>23. bucket' = bucket
  BY <1>0, Zenon
<1>24. IInv'
  BY <1>15, <1>16, <1>17, <1>19, <1>20, <1>21, <1>22, <1>23, Zenon DEF IInv
<1>25. /\ obj'[e].cust = ob[e].cust
       /\ \/ obj'[e].status = "cached"
          \/ /\ obj'[e].status = "free" /\ ob[e].cust = 0
             /\ \A c \in Accessors : c # a => entry[c] # e
  BY <1>8, <1>9, <1>12 DEF NoObject
<1>. QED
  BY <1>12, <1>24, <1>25, Zenon

(* The place of a cached entry in its chain.                               *)
LEMMA EntryPlace ==
    ASSUME IInv, NEW e \in Objects, obj[e].status = "cached", NEW s, s = chain[BucketOf[obj[e].key]],
           NEW i, i = CHOOSE j \in 1..Len(s) : s[j] = e
    PROVE  /\ s \in Seq(Objects \cup {Hand}) /\ i \in 1..Len(s) /\ \A j \in 1..Len(s) : s[j] = e => j = i
           /\ \A o \in Objects : o \in Elems(s) => obj[o].status = "cached"
<1>1. PICK b \in Buckets : b = BucketOf[obj[e].key]
  BY CacheAssumption, Zenon DEF IInv, ObjectsInv, Buckets
<1>2. /\ s \in Seq(Objects \cup {Hand}) /\ Once(s) /\ e \in Elems(s)
      /\ \A o \in Objects : o \in Elems(s) => obj[o].status = "cached"
  BY <1>1 DEF IInv, ChainsInv, Chains
<1>3. \E j \in 1..Len(s) : s[j] = e
  BY <1>2, Zenon DEF Elems
<1>. QED
  BY <1>2, <1>3, Zenon DEF Once

(* The next entry with the key is another one.                             *)
Follows(s, e, i, m, k, all, n) ==
    /\ s \in Seq(Objects \cup {Hand}) /\ i \in 1..Len(s) /\ \A j \in 1..Len(s) : s[j] = e => j = i
    /\ \A o \in Objects : o \in Elems(s) => obj[o].status = "cached"
    /\ m \in Nat \ {0} /\ m = 1 + i /\ all \in BOOLEAN /\ n = Match(s, m, k, all)

(* What is found behind an entry is another one, and cached.               *)
LEMMA NextFacts ==
    ASSUME NEW s, NEW e, NEW i, NEW m, NEW k, NEW all, NEW n, Follows(s, e, i, m, k, all, n)
    PROVE  n = None \/ (n \in Objects /\ n # e /\ n # None /\ obj[n].status = "cached")
<1>. /\ s \in Seq(Objects \cup {Hand}) /\ i \in 1..Len(s) /\ \A j \in 1..Len(s) : s[j] = e => j = i
     /\ \A o \in Objects : o \in Elems(s) => obj[o].status = "cached"
     /\ m \in Nat \ {0} /\ m = 1 + i /\ all \in BOOLEAN /\ n = Match(s, m, k, all)
  BY Zenon DEF Follows
<1>1. \/ /\ n = None
         /\ \A j \in m..Len(s) : s[j] = Hand \/ obj[s[j]].key # k \/ (~all /\ obj[s[j]].marked)
      \/ \E j \in m..Len(s) :
            /\ n = s[j] /\ s[j] \in Objects /\ s[j] # None
            /\ obj[s[j]].key = k /\ (all \/ ~obj[s[j]].marked)
  BY MatchFacts
<1>2. CASE n # None
  <2>1. PICK j \in m..Len(s) : n = s[j] /\ s[j] \in Objects
    BY <1>1, <1>2, Zenon
  <2>2. j \in 1..Len(s) /\ j # i
    BY <2>1
  <2>3. n \in Elems(s)
    BY <2>1, <2>2, Zenon DEF Elems
  <2>4. n # e
    BY <2>1, <2>2, Zenon
  <2>. QED
    BY <1>2, <2>1, <2>3, <2>4, Zenon
<1>. QED
  BY <1>2, Zenon

(* CCacheAccessor::Next moves the accessor; its old entry may go.          *)
LEMMA StepNextEntry == ASSUME IInv, NEW a \in Accessors, NextEntry(a) PROVE IInv' /\ Implements
<1>e. PICK e : e = entry[a]
  BY Zenon
<1>s. PICK s : s = chain[BucketOf[obj[e].key]]
  BY Zenon
<1>i. PICK i : i = CHOOSE j \in 1..Len(s) : s[j] = e
  BY Zenon
<1>m. PICK m : m = 1 + i
  BY Zenon
<1>k. PICK k : k = obj[e].key
  BY Zenon
<1>l. PICK all \in BOOLEAN : all = FALSE
  BY Zenon
<1>n. PICK n : n = Match(s, m, k, all)
  BY Zenon
<1>b. PICK ob : ob = IF n = None THEN obj ELSE [obj EXCEPT ![n].refs = @ + 1]
  BY Zenon
<1>0. /\ loop = Idle /\ e # None /\ entry' = [entry EXCEPT ![a] = n] /\ ReleaseEntry(e, ob)
      /\ UNCHANGED <<bucket, advanced, size, quota, unique, refused, loop>>
  BY <1>e, <1>s, <1>i, <1>m, <1>k, <1>l, <1>n, <1>b, Zenon DEF NextEntry
<1>1. /\ obj \in [Objects -> Records] /\ entry \in [Accessors -> Objects \cup {None}]
      /\ refused \in [Accessors -> Objects \cup {None}]
  BY ObjTyped, Zenon DEF IInv
<1>2. e \in Objects /\ obj[e].status = "cached"
  BY <1>0, <1>1, <1>e DEF IInv, ObjectsInv
<1>3. n = None \/ (n \in Objects /\ n # e /\ n # None /\ obj[n].status = "cached")
  <2>1. /\ s \in Seq(Objects \cup {Hand}) /\ i \in 1..Len(s) /\ \A j \in 1..Len(s) : s[j] = e => j = i
        /\ \A o \in Objects : o \in Elems(s) => obj[o].status = "cached"
    BY <1>2, <1>s, <1>i, EntryPlace
  <2>2. m \in Nat \ {0}
    BY <1>m, <2>1
  <2>3. all \in BOOLEAN
    BY <1>l, Zenon
  <2>. QED
    <3>1. Follows(s, e, i, m, k, all, n)
      BY <1>m, <1>n, <2>1, <2>2, <2>3, Zenon DEF Follows
    <3>. QED
      BY <3>1, NextFacts, Zenon
<1>4. /\ ob \in [Objects -> Records]
      /\ \A p \in Objects : /\ ob[p].status = obj[p].status /\ ob[p].key = obj[p].key /\ ob[p].cust = obj[p].cust
                            /\ p # n => ob[p] = obj[p]
                            /\ ob[p].refs = obj[p].refs + (IF n = p THEN 1 ELSE 0)
  <2>1. CASE n = None
    <3>1. \A p \in Objects : p # n
      BY <2>1, CacheAssumption, Zenon
    <3>2. \A p \in Objects : obj[p].refs \in Nat
      BY <1>1, Zenon DEF Records
    <3>. QED
      BY <1>1, <1>b, <2>1, <3>1, <3>2
  <2>2. CASE n # None
    <3>1. PICK r : r = [obj[n] EXCEPT !.refs = @ + 1]
      BY Zenon
    <3>2. /\ r \in Records /\ r.status = obj[n].status /\ r.key = obj[n].key /\ r.cust = obj[n].cust
          /\ r.refs = obj[n].refs + 1
      <4>1. obj[n] \in Records /\ obj[n].refs + 1 \in Nat
        BY <1>1, <1>3, <2>2 DEF Records
      <4>. QED
        BY <3>1, <4>1, Zenon DEF Records
    <3>3. ob = [obj EXCEPT ![n] = r]
      BY <1>b, <2>2, <3>1, Zenon
    <3>4. \A p \in Objects : obj[p].refs \in Nat
      BY <1>1, Zenon DEF Records
    <3>. QED
      BY <1>1, <1>3, <2>2, <3>2, <3>3, <3>4
  <2>. QED
    BY <2>1, <2>2, Zenon
<1>5. Releases(a, e, n, ob)
  <2>1. n \in Objects \cup {None} /\ n # e /\ (n # None => ob[n].status = "cached")
    BY <1>0, <1>3, <1>4, Zenon
  <2>2. ASSUME NEW p \in Objects
        PROVE  /\ ob[p].status = "cached" <=> obj[p].status = "cached"
               /\ obj[p].status = "cached" => ob[p].key = obj[p].key
               /\ ob[p].status = "free" => ob[p] = NoObject
               /\ ob[p].status # "free" => ob[p].key \in Keys
               /\ ob[p].status # "new"
    <3>1. p # loop.new
      BY <1>0, CacheAssumption, Zenon DEF Idle
    <3>2. ob[p].status = "free" => p # n
      BY <1>3, <1>4, CacheAssumption, Zenon
    <3>. QED
      BY <1>4, <3>1, <3>2 DEF IInv, ObjectsInv
  <2>3. ASSUME NEW p \in Objects
        PROVE  ob[p].refs = ob[p].cust + Pins(p) + (IF n = p THEN 1 ELSE 0)
                            + (IF ob[p].status \in {"new", "cached"} THEN 1 ELSE 0)
    <3>1. obj[p].refs = obj[p].cust + Pins(p) + (IF obj[p].status \in {"new", "cached"} THEN 1 ELSE 0)
      BY Zenon DEF IInv, RefsExact
    <3>2. Pins(p) \in Nat /\ obj[p].cust \in Nat
      BY <1>1, PinsFacts DEF Records
    <3>. QED
      BY <1>4, <3>1, <3>2
  <2>4. ASSUME NEW c \in Accessors
        PROVE  /\ refused'[c] # None => ob[refused'[c]].status = "refused"
               /\ \A b \in Accessors : refused'[c] # None /\ refused'[c] = refused'[b] => c = b
    BY <1>0, <1>1, <1>4 DEF IInv, ObjectsInv
  <2>. QED
    BY <1>0, <1>1, <1>2, <1>4, <1>e, <2>1, <2>2, <2>3, <2>4, Zenon DEF Releases
<1>6. /\ IInv'
      /\ \A p \in Objects : p # e => obj'[p] = ob[p]
      /\ obj'[e].cust = ob[e].cust
      /\ \/ obj'[e].status = "cached"
         \/ /\ obj'[e].status = "free" /\ ob[e].cust = 0
            /\ \A c \in Accessors : c # a => entry[c] # e
  BY <1>5, ReleaseFacts
<1>7. Implements
  <2>1. PICK gone : gone = IF obj'[e].status = "free" THEN {e} ELSE {}
    BY Zenon
  <2>2. Customers' = Customers
    BY <1>4, <1>6 DEF Customers
  <2>3. Live' = Live \ gone /\ gone \in SUBSET Live
    BY <1>2, <1>4, <1>6, <2>1 DEF Live
  <2>4. n # None => n \in Live \ gone
    BY <1>3, <2>1, Zenon DEF Live
  <2>5. \A o \in gone : Customers[o] = 0 /\ \A c \in Accessors \ {a} : entry[c] # o
    BY <1>2, <1>4, <1>6, <2>1, Zenon DEF Customers
  <2>6. Promise!Leave(a, n, gone)
    BY <1>0, <2>2, <2>3, <2>4, <2>5, Zenon DEF Promise!Leave, Promise!Unused, Live, Customers
  <2>7. n \in Objects \cup {None} /\ gone \in SUBSET {o \in Objects : obj[o].status # "free"}
    BY <1>3, <2>3, Zenon DEF Live
  <2>. QED
    BY <2>6, <2>7, Zenon DEF Implements, Promise!Next
<1>. QED
  BY <1>6, <1>7, Zenon

(* The destructor of an accessor: its entry and the object it kept may go. *)
LEMMA StepDestroyAccessor == ASSUME IInv, NEW a \in Accessors, DestroyAccessor(a) PROVE IInv' /\ Implements
<1>e. PICK e : e = entry[a]
  BY Zenon
<1>x. PICK x : x = refused[a]
  BY Zenon
<1>b. PICK ob : ob = [o \in Objects |-> IF o = x THEN NoObject ELSE obj[o]]
  BY Zenon
<1>0. /\ loop = Idle /\ (x # None => obj[x].cust = 0)
      /\ IF e # None THEN ReleaseEntry(e, ob) ELSE obj' = ob /\ UNCHANGED chain
      /\ entry' = [entry EXCEPT ![a] = None] /\ refused' = [refused EXCEPT ![a] = None]
      /\ UNCHANGED <<bucket, advanced, size, quota, unique, loop>>
  BY <1>e, <1>x, <1>b, Zenon DEF DestroyAccessor
<1>1. /\ obj \in [Objects -> Records] /\ entry \in [Accessors -> Objects \cup {None}]
      /\ refused \in [Accessors -> Objects \cup {None}]
  BY ObjTyped, Zenon DEF IInv
<1>2. /\ x # None => x \in Objects /\ obj[x].status = "refused"
      /\ e # None => e \in Objects /\ obj[e].status = "cached"
  BY <1>1, <1>e, <1>x DEF IInv, ObjectsInv
<1>3. x # None => Pins(x) = 0
  <2>1. ASSUME x # None, NEW c \in Accessors PROVE entry[c] # x
    BY <1>2, <2>1, Zenon DEF IInv, ObjectsInv
  <2>. QED
    BY <2>1, PinsFacts, Zenon
<1>4. /\ ob \in [Objects -> Records]
      /\ \A p \in Objects : /\ p # x => ob[p] = obj[p]
                            /\ p = x => ob[p] = NoObject
  <2>1. NoObject \in Records
    BY CacheAssumption DEF NoObject, Records
  <2>. QED
    BY <1>1, <1>b, <2>1, Zenon
<1>5. \A p \in Objects :
        /\ ob[p].status = "cached" <=> obj[p].status = "cached"
        /\ obj[p].status = "cached" => ob[p].key = obj[p].key
        /\ ob[p].status = "free" => ob[p] = NoObject
        /\ ob[p].status # "free" => ob[p].key \in Keys
        /\ ob[p].status # "new"
        /\ ob[p].cust = obj[p].cust
  <2> SUFFICES ASSUME NEW p \in Objects
               PROVE  /\ ob[p].status = "cached" <=> obj[p].status = "cached"
                      /\ obj[p].status = "cached" => ob[p].key = obj[p].key
                      /\ ob[p].status = "free" => ob[p] = NoObject
                      /\ ob[p].status # "free" => ob[p].key \in Keys
                      /\ ob[p].status # "new"
                      /\ ob[p].cust = obj[p].cust
    BY Zenon
  <2>1. CASE p = x
    <3>1. obj[p].status = "refused" /\ obj[p].cust = 0
      BY <1>0, <1>2, <2>1, CacheAssumption, Zenon
    <3>. QED
      BY <1>4, <2>1, <3>1 DEF NoObject
  <2>2. CASE p # x
    <3>1. p # loop.new
      BY <1>0, CacheAssumption, Zenon DEF Idle
    <3>. QED
      BY <1>4, <2>2, <3>1 DEF IInv, ObjectsInv
  <2>. QED
    BY <2>1, <2>2, Zenon
<1>6. \A p \in Objects : ob[p].refs = ob[p].cust + Pins(p)
                                      + (IF ob[p].status \in {"new", "cached"} THEN 1 ELSE 0)
  <2> SUFFICES ASSUME NEW p \in Objects
               PROVE  ob[p].refs = ob[p].cust + Pins(p)
                                   + (IF ob[p].status \in {"new", "cached"} THEN 1 ELSE 0)
    BY Zenon
  <2>1. CASE p = x
    <3>1. Pins(p) = 0 /\ ob[p] = NoObject
      BY <1>3, <1>4, <2>1, CacheAssumption, Zenon
    <3>. QED
      BY <3>1 DEF NoObject
  <2>2. CASE p # x
    BY <1>4, <2>2, Zenon DEF IInv, RefsExact
  <2>. QED
    BY <2>1, <2>2, Zenon
<1>7. refused' \in [Accessors -> Objects \cup {None}]
  BY <1>0, <1>1, Zenon
<1>8. \A c \in Accessors :
        /\ refused'[c] # None => ob[refused'[c]].status = "refused"
        /\ \A b \in Accessors : refused'[c] # None /\ refused'[c] = refused'[b] => c = b
  <2> SUFFICES ASSUME NEW c \in Accessors, refused'[c] # None
               PROVE  /\ ob[refused'[c]].status = "refused"
                      /\ \A b \in Accessors : refused'[c] = refused'[b] => c = b
    BY Zenon
  <2>1. c # a /\ refused'[c] = refused[c]
    BY <1>0, <1>1, Zenon
  <2>2. /\ refused[c] \in Objects /\ obj[refused[c]].status = "refused"
        /\ \A b \in Accessors : refused[c] = refused[b] => c = b
    BY <1>1, <2>1 DEF IInv, ObjectsInv
  <2>3. refused[c] # x
    BY <1>x, <2>1, <2>2, Zenon
  <2>4. ob[refused'[c]].status = "refused"
    BY <1>4, <2>1, <2>2, <2>3, Zenon
  <2>5. ASSUME NEW b \in Accessors, refused'[c] = refused'[b] PROVE c = b
    <3>1. b # a
      BY <1>0, <1>1, <2>5, Zenon
    <3>2. refused'[b] = refused[b]
      BY <1>0, <1>1, <3>1, Zenon
    <3>. QED
      BY <2>1, <2>2, <2>5, <3>2, Zenon
  <2>. QED
    BY <2>4, <2>5, Zenon
<1>9. CASE e # None
  <2>1. Releases(a, e, None, ob)
    <3>1. ASSUME NEW p \in Objects
          PROVE  ob[p].refs = ob[p].cust + Pins(p) + (IF None = p THEN 1 ELSE 0)
                              + (IF ob[p].status \in {"new", "cached"} THEN 1 ELSE 0)
      <4>1. None # p
        BY CacheAssumption, Zenon
      <4>2. ob[p].cust \in Nat /\ Pins(p) \in Nat
        BY <1>4, PinsFacts DEF Records
      <4>. QED
        BY <1>6, <4>1, <4>2
    <3>. QED
      BY <1>0, <1>2, <1>4, <1>5, <1>7, <1>8, <1>9, <1>e, <3>1, Zenon DEF Releases
  <2>2. /\ IInv'
        /\ \A p \in Objects : p # e => obj'[p] = ob[p]
        /\ obj'[e].cust = ob[e].cust
        /\ \/ obj'[e].status = "cached"
           \/ /\ obj'[e].status = "free" /\ ob[e].cust = 0
              /\ \A c \in Accessors : c # a => entry[c] # e
    BY <2>1, ReleaseFacts
  <2>3. PICK gone : gone = (IF obj'[e].status = "free" THEN {e} ELSE {}) \cup (IF x # None THEN {x} ELSE {})
    BY Zenon
  <2>4. Customers' = Customers
    BY <1>5, <2>2 DEF Customers
  <2>5. Live' = Live \ gone /\ gone \in SUBSET Live
    <3>1. \A p \in Objects : p \in gone <=> (p = e /\ obj'[e].status = "free") \/ p = x
      BY <1>2, <2>3, CacheAssumption, Zenon
    <3>2. \A z : z \in gone => z \in Objects /\ obj[z].status # "free"
      BY <1>2, <1>9, <2>3, Zenon
    <3>3. ASSUME NEW p \in Objects
          PROVE  obj'[p].status # "free" <=> obj[p].status # "free" /\ p \notin gone
      <4>1. CASE p = e
        BY <1>2, <1>9, <2>2, <3>1, <4>1, Zenon
      <4>2. CASE p = x
        BY <1>2, <1>4, <1>9, <2>2, <3>1, <4>2 DEF NoObject
      <4>3. CASE p # e /\ p # x
        BY <1>4, <2>2, <3>1, <4>3, Zenon
      <4>. QED
        BY <4>1, <4>2, <4>3, Zenon
    <3>. QED
      BY <3>2, <3>3, Zenon DEF Live
  <2>6. \A o \in gone : Customers[o] = 0 /\ \A c \in Accessors \ {a} : entry[c] # o
    <3>1. \A c \in Accessors : x # None => entry[c] # x
      BY <1>3, PinsFacts, Zenon
    <3>. QED
      BY <1>0, <1>2, <1>5, <1>9, <2>2, <2>3, <3>1, Zenon DEF Customers
  <2>7. Promise!Leave(a, None, gone)
    BY <1>0, <2>4, <2>5, <2>6, Zenon DEF Promise!Leave, Promise!Unused, Live, Customers
  <2>8. gone \in SUBSET {o \in Objects : obj[o].status # "free"}
    BY <2>5, Zenon DEF Live
  <2>. QED
    BY <2>2, <2>7, <2>8, Zenon DEF Implements, Promise!Next
<1>10. CASE e = None
  <2>1. obj' = ob /\ chain' = chain /\ entry' = entry
    BY <1>0, <1>1, <1>10, <1>e, Zenon
  <2>2. TypeOK'
    BY <1>0, <1>4, <1>7, <2>1, Zenon DEF IInv, TypeOK, Records
  <2>3. RefsExact'
    <3>1. \A p \in Objects : Pins(p)' = Pins(p)
      BY <2>1, Zenon DEF Pins
    <3>. QED
      BY <1>6, <2>1, <3>1, Zenon DEF RefsExact
  <2>4. ObjectsInv'
    <3>1. \A p \in Objects : p # loop'.new
      BY <1>0, CacheAssumption, Zenon DEF Idle
    <3>2. \A c \in Accessors : entry'[c] # None => obj'[entry'[c]].status = "cached"
      <4>1. \A c \in Accessors : entry[c] # None => entry[c] \in Objects /\ obj[entry[c]].status = "cached"
        BY <1>1 DEF IInv, ObjectsInv, TypeOK
      <4>. QED
        BY <1>5, <2>1, <4>1, Zenon
    <3>. QED
      BY <1>5, <1>8, <2>1, <3>1, <3>2, Zenon DEF ObjectsInv
  <2>5. LoopInv'
    BY <1>0, Zenon DEF LoopInv, Idle
  <2>6. ChainsInv(chain', bucket', obj')
    <3>1. ChainsInv(chain', bucket', obj)
      BY <1>0, <2>1, Zenon DEF IInv
    <3>. QED
      BY <1>5, <2>1, <3>1, SameChains, Zenon
  <2>7. HandReady'
    BY <1>0, <2>1, Zenon DEF IInv, HandReady, Evicting
  <2>8. UniqueKeys'
    BY <1>0, <1>5, <2>1, Zenon DEF IInv, UniqueKeys, Cached
  <2>9. Implements
    <3>1. PICK gone : gone = IF x # None THEN {x} ELSE {}
      BY Zenon
    <3>2. Customers' = Customers
      BY <1>5, <2>1, Zenon DEF Customers
    <3>3. Live' = Live \ gone /\ gone \in SUBSET Live
      <4>1. \A p \in Objects : p \in gone <=> p = x
        BY <3>1, CacheAssumption, Zenon
      <4>2. \A p \in Objects : obj'[p].status # "free" <=> obj[p].status # "free" /\ p # x
        BY <1>4, <2>1 DEF NoObject
      <4>3. gone \in SUBSET Live
        BY <1>2, <3>1, Zenon DEF Live
      <4>. QED
        BY <4>1, <4>2, <4>3, Zenon DEF Live
    <3>4. \A o \in gone : Customers[o] = 0 /\ \A c \in Accessors \ {a} : entry[c] # o
      <4>1. \A c \in Accessors : x # None => entry[c] # x
        BY <1>3, PinsFacts, Zenon
      <4>. QED
        BY <1>0, <1>2, <3>1, <4>1, Zenon DEF Customers
    <3>5. Promise!Leave(a, None, gone)
      BY <1>0, <3>2, <3>3, <3>4, Zenon DEF Promise!Leave, Promise!Unused, Live, Customers
    <3>6. gone \in SUBSET {o \in Objects : obj[o].status # "free"}
      BY <3>3, Zenon DEF Live
    <3>. QED
      BY <3>5, <3>6, Zenon DEF Implements, Promise!Next
  <2>. QED
    BY <2>2, <2>3, <2>4, <2>5, <2>6, <2>7, <2>8, <2>9, Zenon DEF IInv
<1>. QED
  BY <1>9, <1>10, Zenon

(* The operation that an eviction was part of goes on.                     *)
LEMMA AfterEvictFacts ==
    ASSUME IInv, NEW l, l = AfterEvict
    PROVE  /\ l \in [at : {"idle", "evict", "insert"}, freed : Nat, toFree : Nat, retry : 0..GClockInit,
                     acc : Accessors \cup {None}, new : Objects \cup {None}]
           /\ l.new = loop.new /\ l.acc = loop.acc /\ l.at # "evict"
           /\ l.at = "idle" => l = Idle
           /\ l.at = "insert" => l.new # None
<1>1. /\ loop.new \in Objects \cup {None} /\ loop.acc \in Accessors \cup {None}
      /\ loop.new = None <=> loop.acc = None
  BY ObjTyped, Zenon DEF IInv, LoopInv
<1>2. CASE loop.acc = None
  <2>1. l = Idle /\ 0 \in 0..GClockInit
    BY <1>2, CacheAssumption DEF AfterEvict
  <2>. QED
    BY <1>1, <1>2, <2>1 DEF Idle
<1>3. CASE loop.acc # None
  <2>1. l = [at |-> "insert", freed |-> 0, toFree |-> 0, retry |-> 0, acc |-> loop.acc, new |-> loop.new]
    BY <1>3, Zenon DEF AfterEvict, Idle
  <2>2. 0 \in 0..GClockInit
    BY CacheAssumption
  <2>. QED
    BY <1>1, <1>3, <2>1, <2>2
<1>. QED
  BY <1>2, <1>3, Zenon

(* A round of an eviction that changes no more than counters.              *)
Rounds(t, b) ==
    /\ chain' = t /\ bucket' = b /\ b \in Buckets /\ ChainsInv(t, b, obj)
    /\ advanced' \in BOOLEAN /\ (advanced' => Hand \in Elems(t[b]))
    /\ obj' \in [Objects -> Records]
    /\ \A p \in Objects :
        /\ obj'[p].status = obj[p].status /\ obj'[p].key = obj[p].key
        /\ obj'[p].refs = obj[p].refs /\ obj'[p].cust = obj[p].cust
        /\ obj[p].status = "free" => obj'[p] = obj[p]
    /\ loop' \in [at : {"idle", "evict", "insert"}, freed : Nat, toFree : Nat, retry : 0..GClockInit,
                  acc : Accessors \cup {None}, new : Objects \cup {None}]
    /\ loop'.new = loop.new /\ loop'.acc = loop.acc
    /\ loop'.at = "idle" => loop' = Idle
    /\ loop'.at = "insert" => loop'.new # None
    /\ loop'.at = "evict" => loop'.freed < loop'.toFree
    /\ UNCHANGED <<size, quota, unique, entry, refused>>

(* Such a round keeps the invariant and is not visible to users.           *)
LEMMA RoundFacts == ASSUME IInv, NEW t, NEW b, Rounds(t, b) PROVE IInv' /\ Implements
<1>0. /\ chain' = t /\ bucket' = b /\ b \in Buckets /\ ChainsInv(t, b, obj)
      /\ obj' \in [Objects -> Records]
      /\ loop' \in [at : {"idle", "evict", "insert"}, freed : Nat, toFree : Nat, retry : 0..GClockInit,
                    acc : Accessors \cup {None}, new : Objects \cup {None}]
      /\ UNCHANGED <<size, quota, unique, entry, refused>>
  BY Zenon DEF Rounds
<1>1. \A p \in Objects :
        /\ obj'[p].status = obj[p].status /\ obj'[p].key = obj[p].key
        /\ obj'[p].refs = obj[p].refs /\ obj'[p].cust = obj[p].cust
        /\ obj[p].status = "free" => obj'[p] = obj[p]
  BY Zenon DEF Rounds
<1>2. /\ loop'.new = loop.new /\ loop'.acc = loop.acc
      /\ loop'.at = "idle" => loop' = Idle
      /\ loop'.at = "insert" => loop'.new # None
      /\ loop'.at = "evict" => loop'.freed < loop'.toFree
  BY Zenon DEF Rounds
<1>3. advanced' \in BOOLEAN /\ (advanced' => Hand \in Elems(t[b]))
  BY Zenon DEF Rounds
<1>4. TypeOK'
  <2>1. t \in Chains
    BY <1>0, Zenon DEF ChainsInv
  <2>. QED
    BY <1>0, <1>3, <2>1, Zenon DEF IInv, TypeOK, Records, Chains
<1>5. RefsExact'
  <2>1. \A p \in Objects : Pins(p)' = Pins(p)
    BY <1>0, Zenon DEF Pins
  <2>. QED
    BY <1>1, <2>1, Zenon DEF IInv, RefsExact
<1>6. ObjectsInv' /\ LoopInv' /\ ChainsInv(chain', bucket', obj') /\ UniqueKeys'
  <2>1. \A p \in Objects : /\ obj'[p].status = obj[p].status /\ obj'[p].key = obj[p].key
                           /\ obj[p].status = "free" => obj'[p] = obj[p]
    BY <1>1, Zenon
  <2>2. \A c \in Accessors : entry'[c] # None => obj[entry'[c]].status = "cached" /\ entry'[c] \in Objects
    BY <1>0 DEF IInv, ObjectsInv, TypeOK
  <2>3. loop.acc # None => entry'[loop.acc] = None
    BY <1>0, Zenon DEF IInv, LoopInv
  <2>4. ChainsInv(chain', bucket', obj) /\ UNCHANGED <<unique, refused>>
    BY <1>0, Zenon
  <2>. QED
    BY <1>2, <2>1, <2>2, <2>3, <2>4, KeptInv, Zenon
<1>7. HandReady'
  <2>1. \A c \in Buckets : Hand \in Elems(t[c]) => c = b
    BY <1>0, Zenon DEF ChainsInv
  <2>. QED
    BY <1>0, <1>2, <1>3, <2>1, Zenon DEF HandReady, Evicting
<1>8. Implements
  <2>1. Live' = Live /\ Customers' = Customers
    BY <1>1, Zenon DEF Live, Customers
  <2>. QED
    BY <1>0, <2>1, Zenon DEF Implements
<1>. QED
  BY <1>4, <1>5, <1>6, <1>7, <1>8, Zenon DEF IInv

(* Where the hand looks, for names that do not change.                     *)
LEMMA LookPlace ==
    ASSUME IInv, NEW t, t = Look.chain, NEW b, b = Look.bucket
    PROVE  /\ b \in 0..NumBuckets /\ ChainsInv(t, b, obj)
           /\ b # NumBuckets => b \in Buckets /\ Hand \in Elems(t[b])
           /\ b = NumBuckets => \A c \in Buckets : Hand \notin Elems(t[c])
           /\ b = NumBuckets => ~advanced
<1>1. Marked(Look, obj)
  BY LookFacts, Zenon DEF IInv
<1>2. b \in 0..NumBuckets /\ ChainsInv(t, b, obj) /\ (b # NumBuckets => Hand \in Elems(t[b]))
  BY <1>1, Zenon DEF Marked
<1>3. b # NumBuckets => b \in Buckets
  BY <1>2, CacheAssumption DEF Buckets
<1>4. b = NumBuckets => \A c \in Buckets : Hand \notin Elems(t[c])
  <2>1. \A c \in Buckets : c # NumBuckets
    BY CacheAssumption DEF Buckets
  <2>. QED
    BY <1>2, <2>1 DEF ChainsInv
<1>5. b = NumBuckets => ~advanced
  <2>1. bucket # NumBuckets
    BY CacheAssumption DEF IInv, TypeOK, Buckets
  <2>. QED
    BY <2>1, Zenon DEF Look
<1>. QED
  BY <1>2, <1>3, <1>4, <1>5, Zenon

(* EvictEntriesOnePass passes over an entry in use or the end of a chain.  *)
LEMMA StepEvictSkip == ASSUME IInv, EvictSkip PROVE IInv' /\ Implements
<1>t. PICK t : t = Look.chain
  BY Zenon
<1>b. PICK b : b = Look.bucket
  BY Zenon
<1>0. /\ Evicting /\ b < NumBuckets /\ bucket' = b /\ chain' = t /\ advanced' = FALSE
      /\ UNCHANGED <<size, quota, unique, obj, entry, refused, loop>>
  BY <1>t, <1>b, Zenon DEF EvictSkip, HandServed
<1>1. b \in 0..NumBuckets /\ ChainsInv(t, b, obj) /\ (b # NumBuckets => b \in Buckets)
  BY <1>t, <1>b, LookPlace, Zenon
<1>2. b \in Buckets
  BY <1>0, <1>1, CacheAssumption
<1>3. advanced' \in BOOLEAN /\ (advanced' => Hand \in Elems(t[b]))
  BY <1>0, Zenon
<1>4. /\ obj \in [Objects -> Records]
      /\ loop \in [at : {"idle", "evict", "insert"}, freed : Nat, toFree : Nat, retry : 0..GClockInit,
                   acc : Accessors \cup {None}, new : Objects \cup {None}]
      /\ loop.at = "evict" /\ loop.freed < loop.toFree
  BY <1>0, ObjTyped, Zenon DEF IInv, Evicting
<1>5. Rounds(t, b)
  BY <1>0, <1>1, <1>2, <1>3, <1>4, Zenon DEF Rounds
<1>. QED
  BY <1>5, RoundFacts, Zenon

(* EvictEntriesOnePass counts an entry down.                               *)
LEMMA StepEvictTick == ASSUME IInv, EvictTick PROVE IInv' /\ Implements
<1>t. PICK t : t = Look.chain
  BY Zenon
<1>b. PICK b : b = Look.bucket
  BY Zenon
<1>e. PICK e : e = Seen
  BY Zenon
<1>0. /\ Evicting /\ e # None /\ Accessed(obj[e]) /\ bucket' = b /\ chain' = t /\ advanced' = FALSE
      /\ obj' = [obj EXCEPT ![e].clock = @ - 1]
      /\ UNCHANGED <<size, quota, unique, entry, refused, loop>>
  BY <1>t, <1>b, <1>e, Zenon DEF EvictTick, HandServed
<1>1. b \in Buckets /\ e \in Objects /\ obj[e].status = "cached"
  BY <1>0, <1>b, <1>e, SeenFacts, Zenon DEF IInv
<1>2. ChainsInv(t, b, obj)
  BY <1>t, <1>b, LookPlace, Zenon
<1>3. advanced' \in BOOLEAN /\ (advanced' => Hand \in Elems(t[b]))
  BY <1>0, Zenon
<1>4. /\ obj \in [Objects -> Records]
      /\ loop \in [at : {"idle", "evict", "insert"}, freed : Nat, toFree : Nat, retry : 0..GClockInit,
                   acc : Accessors \cup {None}, new : Objects \cup {None}]
      /\ loop.at = "evict" /\ loop.freed < loop.toFree
  BY <1>0, ObjTyped, Zenon DEF IInv, Evicting
<1>5. PICK r : r = [obj[e] EXCEPT !.clock = @ - 1]
  BY Zenon
<1>6. /\ r \in Records /\ r.status = obj[e].status /\ r.key = obj[e].key /\ r.refs = obj[e].refs
      /\ r.cust = obj[e].cust
  <2>1. obj[e] \in Records
    BY <1>1, <1>4, Zenon
  <2>2. obj[e].clock - 1 \in 0..GClockInit
    BY <1>0, <2>1, CacheAssumption DEF Accessed, Records
  <2>. QED
    BY <1>5, <2>1, <2>2, Zenon DEF Records
<1>7. obj' = [obj EXCEPT ![e] = r]
  BY <1>0, <1>4, <1>5, Zenon
<1>8. /\ obj' \in [Objects -> Records]
      /\ \A p \in Objects :
            /\ obj'[p].status = obj[p].status /\ obj'[p].key = obj[p].key
            /\ obj'[p].refs = obj[p].refs /\ obj'[p].cust = obj[p].cust
            /\ obj[p].status = "free" => obj'[p] = obj[p]
  BY <1>1, <1>4, <1>6, <1>7, Zenon
<1>9. Rounds(t, b)
  BY <1>0, <1>1, <1>2, <1>3, <1>4, <1>8, Zenon DEF Rounds
<1>. QED
  BY <1>9, RoundFacts, Zenon

(* EvictEntries ends when enough is freed.                                 *)
LEMMA StepEvictEnough == ASSUME IInv, EvictEnough PROVE IInv' /\ Implements
<1>0. /\ loop' = AfterEvict
      /\ UNCHANGED <<chain, bucket, advanced, size, quota, unique, obj, entry, refused>>
  BY Zenon DEF EvictEnough
<1>1. /\ loop' \in [at : {"idle", "evict", "insert"}, freed : Nat, toFree : Nat, retry : 0..GClockInit,
                    acc : Accessors \cup {None}, new : Objects \cup {None}]
      /\ loop'.new = loop.new /\ loop'.acc = loop.acc /\ loop'.at # "evict"
      /\ loop'.at = "idle" => loop' = Idle
      /\ loop'.at = "insert" => loop'.new # None
  BY <1>0, AfterEvictFacts, Zenon
<1>2. /\ obj \in [Objects -> Records] /\ bucket \in Buckets /\ ChainsInv(chain, bucket, obj)
  BY ObjTyped, Zenon DEF IInv
<1>3. advanced' \in BOOLEAN /\ (advanced' => Hand \in Elems(chain[bucket]))
  BY <1>0, Zenon DEF IInv, TypeOK, HandReady
<1>4. Rounds(chain, bucket)
  BY <1>0, <1>1, <1>2, <1>3, Zenon DEF Rounds
<1>. QED
  BY <1>4, RoundFacts, Zenon

(* EvictEntries rewinds the iterator at the end of a pass.                 *)
LEMMA StepEvictPassEnds == ASSUME IInv, EvictPassEnds PROVE IInv' /\ Implements
<1>t. PICK t : t = Look.chain
  BY Zenon
<1>b. PICK b : b = Look.bucket
  BY Zenon
<1>z. PICK z : z = 0
  BY Zenon
<1>0. /\ Evicting /\ b = NumBuckets /\ chain' = t /\ bucket' = z
      /\ loop' = IF LastPass THEN AfterEvict ELSE [loop EXCEPT !.retry = @ + 1]
      /\ UNCHANGED <<advanced, size, quota, unique, obj, entry, refused>>
  BY <1>t, <1>b, <1>z, Zenon DEF EvictPassEnds
<1>1. ChainsInv(t, b, obj) /\ (\A c \in Buckets : Hand \notin Elems(t[c])) /\ ~advanced
  BY <1>0, <1>t, <1>b, LookPlace, Zenon
<1>2. z \in Buckets /\ ChainsInv(t, z, obj)
  <2>1. z \in Buckets
    BY <1>z, CacheAssumption DEF Buckets
  <2>. QED
    BY <1>1, <2>1, Zenon DEF ChainsInv
<1>3. advanced' \in BOOLEAN /\ ~advanced'
  BY <1>0, <1>1, Zenon DEF IInv, TypeOK
<1>4. /\ loop' \in [at : {"idle", "evict", "insert"}, freed : Nat, toFree : Nat, retry : 0..GClockInit,
                    acc : Accessors \cup {None}, new : Objects \cup {None}]
      /\ loop'.new = loop.new /\ loop'.acc = loop.acc
      /\ loop'.at = "idle" => loop' = Idle
      /\ loop'.at = "insert" => loop'.new # None
      /\ loop'.at = "evict" => loop'.freed < loop'.toFree
  <2>1. CASE LastPass
    <3>1. loop' = AfterEvict
      BY <1>0, <2>1, Zenon
    <3>. QED
      BY <3>1, AfterEvictFacts, Zenon
  <2>2. CASE ~LastPass
    <3>1. loop \in [at : {"idle", "evict", "insert"}, freed : Nat, toFree : Nat, retry : 0..GClockInit,
                    acc : Accessors \cup {None}, new : Objects \cup {None}]
      BY ObjTyped, Zenon DEF IInv
    <3>2. loop.retry + 1 \in 0..GClockInit
      BY <2>2, <3>1, CacheAssumption DEF LastPass
    <3>. QED
      BY <1>0, <2>2, <3>1, <3>2, Zenon DEF Evicting
  <2>. QED
    BY <2>1, <2>2, Zenon
<1>5. obj \in [Objects -> Records]
  BY ObjTyped, Zenon DEF IInv
<1>6. Rounds(t, z)
  BY <1>0, <1>2, <1>3, <1>4, <1>5, Zenon DEF Rounds
<1>. QED
  BY <1>6, RoundFacts, Zenon

(* EvictEntriesOnePass removes an entry: nobody has its object.            *)
LEMMA StepEvictRemove == ASSUME IInv, EvictRemove PROVE IInv' /\ Implements
<1>t. PICK t : t = Look.chain
  BY Zenon
<1>b. PICK b : b = Look.bucket
  BY Zenon
<1>e. PICK e : e = Seen
  BY Zenon
<1>0. /\ Evicting /\ e # None /\ Evictable(obj[e]) /\ bucket' = b
      /\ chain' = [t EXCEPT ![b] = Unlink(t[b], e)] /\ advanced' = TRUE
      /\ size' = (size - obj[e].bytes) % Word
      /\ loop' = [loop EXCEPT !.freed = @ + obj[e].bytes]
      /\ obj' = [obj EXCEPT ![e] = NoObject]
      /\ UNCHANGED <<quota, unique, entry, refused>>
  BY <1>t, <1>b, <1>e, Zenon DEF EvictRemove
<1>1. /\ b \in Buckets /\ e \in Objects /\ obj[e].status = "cached" /\ BucketOf[obj[e].key] = b
  BY <1>0, <1>b, <1>e, SeenFacts, Zenon DEF IInv
<1>2. ChainsInv(t, b, obj) /\ Hand \in Elems(t[b])
  <2>1. b # NumBuckets
    BY <1>1, CacheAssumption DEF Buckets
  <2>. QED
    BY <1>t, <1>b, <2>1, LookPlace, Zenon
<1>3. /\ obj \in [Objects -> Records] /\ entry \in [Accessors -> Objects \cup {None}]
      /\ refused \in [Accessors -> Objects \cup {None}] /\ size \in Nat
      /\ loop \in [at : {"idle", "evict", "insert"}, freed : Nat, toFree : Nat, retry : 0..GClockInit,
                   acc : Accessors \cup {None}, new : Objects \cup {None}]
  BY ObjTyped DEF IInv
<1>4. obj[e].cust = 0 /\ Pins(e) = 0 /\ \A c \in Accessors : entry[c] # e
  <2>1. obj[e].refs = 1 /\ obj[e].cust \in Nat
    BY <1>0, <1>1, <1>3 DEF Evictable, Records
  <2>2. obj[e].refs = obj[e].cust + Pins(e) + 1
    BY <1>1, Zenon DEF IInv, RefsExact
  <2>3. Pins(e) \in Nat
    BY PinsFacts, Zenon
  <2>4. obj[e].cust = 0 /\ Pins(e) = 0
    BY <2>1, <2>2, <2>3
  <2>. QED
    BY <2>4, PinsFacts, Zenon
<1>5. /\ NoObject \in Records /\ NoObject.status = "free"
  BY CacheAssumption DEF NoObject, Records
<1>6. obj' \in [Objects -> Records] /\ obj'[e] = NoObject /\ \A p \in Objects : p # e => obj'[p] = obj[p]
  BY <1>0, <1>1, <1>3, <1>5, Zenon
<1>7. /\ ChainsInv(chain', bucket', obj')
      /\ \A c \in Buckets : Hand \in Elems(chain'[c]) <=> Hand \in Elems(t[c])
  <2>1. Removes(t, b, obj, e, NoObject, b, chain', obj')
    BY <1>0, <1>1, <1>2, <1>3, <1>5, Zenon DEF Removes
  <2>2. /\ ChainsInv(chain', b, obj')
        /\ \A c \in Buckets : Hand \in Elems(chain'[c]) <=> Hand \in Elems(t[c])
    BY <2>1, RemoveChain, Zenon
  <2>. QED
    BY <1>0, <2>2, Zenon
<1>8. advanced' \in BOOLEAN
  BY <1>0, Zenon
<1>9. /\ loop' \in [at : {"idle", "evict", "insert"}, freed : Nat, toFree : Nat, retry : 0..GClockInit,
                    acc : Accessors \cup {None}, new : Objects \cup {None}]
      /\ loop'.new = loop.new /\ loop'.acc = loop.acc /\ loop'.at = "evict"
  <2>1. loop.freed + obj[e].bytes \in Nat
    BY <1>1, <1>3 DEF Records
  <2>. QED
    BY <1>0, <1>3, <2>1 DEF Evicting
<1>10. TypeOK'
  <2>1. size' \in 0..(Word - 1)
    <3>1. size - obj[e].bytes \in Int
      BY <1>1, <1>3 DEF Records
    <3>. QED
      BY <1>0, <3>1, CacheAssumption
  <2>2. chain' \in Chains
    BY <1>7, Zenon DEF ChainsInv
  <2>. QED
    BY <1>0, <1>1, <1>6, <1>8, <1>9, <2>1, <2>2, Zenon DEF IInv, TypeOK, Records, Chains
<1>11. RefsExact'
  <2> SUFFICES ASSUME NEW p \in Objects
               PROVE  obj'[p].refs = obj'[p].cust + Pins(p)'
                                     + (IF obj'[p].status \in {"new", "cached"} THEN 1 ELSE 0)
    BY Zenon DEF RefsExact
  <2>1. Pins(p)' = Pins(p)
    BY <1>0, Zenon DEF Pins
  <2>2. CASE p = e
    BY <1>4, <1>6, <2>1, <2>2 DEF NoObject
  <2>3. CASE p # e
    BY <1>6, <2>1, <2>3, Zenon DEF IInv, RefsExact
  <2>. QED
    BY <2>2, <2>3, Zenon
<1>12. ObjectsInv'
  <2>1. ASSUME NEW p \in Objects
        PROVE  /\ obj'[p].status = "free" => obj'[p] = NoObject
               /\ obj'[p].status # "free" => obj'[p].key \in Keys
               /\ obj'[p].status = "new" <=> p = loop'.new
    <3>1. CASE p = e
      <4>1. p # loop.new
        BY <1>1, <3>1, Zenon DEF IInv, ObjectsInv
      <4>. QED
        BY <1>5, <1>6, <1>9, <3>1, <4>1, Zenon
    <3>2. CASE p # e
      BY <1>6, <1>9, <3>2 DEF IInv, ObjectsInv
    <3>. QED
      BY <3>1, <3>2, Zenon
  <2>2. ASSUME NEW c \in Accessors
        PROVE  /\ entry'[c] # None => obj'[entry'[c]].status = "cached"
               /\ refused'[c] # None => obj'[refused'[c]].status = "refused"
               /\ \A d \in Accessors : refused'[c] # None /\ refused'[c] = refused'[d] => c = d
    <3>1. /\ entry[c] # None => obj[entry[c]].status = "cached" /\ entry[c] \in Objects
          /\ refused[c] # None => obj[refused[c]].status = "refused" /\ refused[c] \in Objects
          /\ \A d \in Accessors : refused[c] # None /\ refused[c] = refused[d] => c = d
      BY <1>3 DEF IInv, ObjectsInv
    <3>. QED
      BY <1>0, <1>1, <1>4, <1>6, <3>1, Zenon
  <2>. QED
    BY <2>1, <2>2, Zenon DEF ObjectsInv
<1>13. LoopInv'
  BY <1>0, <1>9, Zenon DEF IInv, LoopInv
<1>14. HandReady'
  <2>1. \A c \in Buckets : Hand \in Elems(chain'[c]) => c = bucket'
    BY <1>7, Zenon DEF ChainsInv
  <2>2. Hand \in Elems(chain'[bucket'])
    BY <1>0, <1>1, <1>2, <1>7, Zenon
  <2>. QED
    BY <1>0, <2>1, <2>2, Zenon DEF HandReady
<1>15. UniqueKeys'
  BY <1>0, <1>1, <1>5, <1>6, Zenon DEF IInv, UniqueKeys, Cached
<1>16. Implements
  <2>1. Customers' = Customers
    BY <1>4, <1>6 DEF Customers, NoObject
  <2>2. Live' = Live \ {e} /\ e \in Live
    BY <1>1, <1>5, <1>6, Zenon DEF Live
  <2>3. Customers[e] = 0
    BY <1>1, <1>4, Zenon DEF Customers
  <2>4. Promise!Drop(e)
    BY <1>0, <1>4, <2>1, <2>2, <2>3, Zenon DEF Promise!Drop, Promise!Unused, Live, Customers
  <2>. QED
    BY <1>1, <2>4, Zenon DEF Implements, Promise!Next
<1>. QED
  BY <1>7, <1>10, <1>11, <1>12, <1>13, <1>14, <1>15, <1>16, Zenon DEF IInv
----------------------------------------------------------------------------
(* Every step keeps the invariant and the promise.                         *)
LEMMA StepInv == ASSUME IInv, [Next]_vars PROVE IInv' /\ Implements
<1>1. CASE UNCHANGED vars
  <2>1. IInv'
    <3>1. TypeOK'
      BY <1>1, Zenon DEF vars, IInv, TypeOK
    <3>2. RefsExact'
      BY <1>1, Zenon DEF vars, IInv, RefsExact, Pins
    <3>3. ObjectsInv' /\ LoopInv'
      BY <1>1, Zenon DEF vars, IInv, ObjectsInv, LoopInv
    <3>4. ChainsInv(chain', bucket', obj')
      BY <1>1, Zenon DEF vars, IInv
    <3>5. HandReady' /\ UniqueKeys'
      BY <1>1, Zenon DEF vars, IInv, HandReady, Evicting, UniqueKeys, Cached
    <3>. QED
      BY <3>1, <3>2, <3>3, <3>4, <3>5, Zenon DEF IInv
  <2>2. Implements
    BY <1>1, Zenon DEF vars, Implements, Live, Customers
  <2>. QED
    BY <2>1, <2>2, Zenon
<1>2. CASE Next
  <2>1. ASSUME NEW a \in Accessors, NEW k \in Keys, Lookup(a, k) PROVE IInv' /\ Implements
    BY <2>1, StepLookup, Zenon
  <2>2. ASSUME NEW a \in Accessors, NEW k \in Keys, NEW n \in Sizes, NEW o \in Objects, Insert(a, k, n, o)
        PROVE  IInv' /\ Implements
    BY <2>2, StepInsert, Zenon
  <2>3. ASSUME NEW a \in Accessors, NextEntry(a) \/ MarkForDeletion(a) \/ DestroyAccessor(a)
        PROVE  IInv' /\ Implements
    BY <2>3, StepNextEntry, StepMark, StepDestroyAccessor, Zenon
  <2>4. ASSUME InsertEntry \/ InsertFound PROVE IInv' /\ Implements
    BY <2>4, StepInsertEntry, StepInsertFound, Zenon
  <2>5. ASSUME NEW o \in Objects, CustomerRelease(o) \/ Grow(o) PROVE IInv' /\ Implements
    BY <2>5, StepCustomerRelease, StepGrow, Zenon
  <2>6. ASSUME NEW q \in Quotas, SetCacheQuota(q) PROVE IInv' /\ Implements
    BY <2>6, StepSetCacheQuota, Zenon
  <2>7. ASSUME EvictRound PROVE IInv' /\ Implements
    BY <2>7, StepEvictRemove, StepEvictSkip, StepEvictTick, StepEvictPassEnds, StepEvictEnough, Zenon DEF EvictRound
  <2>. QED
    BY <1>2, <2>1, <2>2, <2>3, <2>4, <2>5, <2>6, <2>7, Zenon DEF Next
<1>. QED
  BY <1>1, <1>2, Zenon

(* The inductive invariant holds in every state of the cache.              *)
THEOREM Inductive == Spec => []IInv
  BY InitInv, StepInv, PTL DEF Spec

(* The members of entries and accessors have their types: the clock        *)
(* counter of an entry never goes below zero, and no count of references   *)
(* does.                                                                   *)
THEOREM Types == Spec => []TypeOK
<1>1. IInv => TypeOK
  BY Zenon DEF IInv
<1>. QED
  BY <1>1, Inductive, PTL

(* Reference counts are exact: what EvictEntriesOnePass and ReleaseEntry   *)
(* take for an entry nobody uses is one.                                   *)
THEOREM CountsAreExact == Spec => []RefsExact
<1>1. IInv => RefsExact
  BY Zenon DEF IInv
<1>. QED
  BY <1>1, Inductive, PTL

(* The hash table has every cached object once, in the bucket of its key,  *)
(* wherever the clock hand has put its marker.                             *)
THEOREM TableIsExact == Spec => []TableExact
<1>1. IInv => TableExact
  <2> SUFFICES ASSUME IInv, NEW b \in Buckets
               PROVE  /\ Elems(chain[b]) \ {Hand} = {o \in Cached : BucketOf[obj[o].key] = b}
                      /\ Once(chain[b])
    BY Zenon DEF TableExact
  <2>1. /\ chain[b] \in Seq(Objects \cup {Hand}) /\ Once(chain[b])
        /\ \A o \in Objects : o \in Elems(chain[b]) <=> obj[o].status = "cached" /\ BucketOf[obj[o].key] = b
    BY Zenon DEF IInv, ChainsInv, Chains
  <2>2. \A z \in Elems(chain[b]) : z \in Objects \/ z = Hand
    BY <2>1 DEF Elems
  <2>3. Hand \notin Objects
    BY CacheAssumption, Zenon
  <2>. QED
    BY <2>1, <2>2, <2>3, Zenon DEF Cached
<1>. QED
  BY <1>1, Inductive, PTL

(* The clock hand is where the assertions of EvictEntries expect it, from  *)
(* one eviction to the next.                                               *)
THEOREM HandIsReady == Spec => []HandReady
<1>1. IInv => HandReady
  BY Zenon DEF IInv
<1>. QED
  BY <1>1, Inductive, PTL

(* A cache that InsertEntry keeps unique has no two entries with a key.    *)
THEOREM KeysAreUnique == Spec => []UniqueKeys
<1>1. IInv => UniqueKeys
  BY Zenon DEF IInv
<1>. QED
  BY <1>1, Inductive, PTL

(* The cache implements its promise: neither EvictEntries nor ReleaseEntry *)
(* nor InsertEntry takes an object from an accessor or a customer.         *)
THEOREM CacheKeepsPromise == Spec => PinsRespected
<1>1. Implements <=> [Promise!Next]_<<{o \in Objects : obj[o].status # "free"}, entry,
                                      [o \in Objects |-> obj[o].cust]>>
  BY Zenon DEF Implements, Live, Customers
<1>. QED
  BY <1>1, InitInv, StepInv, PTL DEF Spec, PinsRespected, Promise!Spec, Promise!vars
=============================================================================
