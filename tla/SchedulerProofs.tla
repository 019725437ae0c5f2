-------------------------- MODULE SchedulerProofs --------------------------
(***************************************************************************)
(* Proofs about the job scheduler, for any number of jobs and queues.      *)
(*                                                                         *)
(* IInv is the inductive invariant: what has to be known of the control    *)
(* point, the job tree, the queues and the ranks for the reference counts  *)
(* and the waiting list to stay exact.                                     *)
(***************************************************************************)
EXTENDS Scheduler, FiniteSetTheorems, WellFoundedInduction, TLAPS

InFlight == {"PreExecute", "Enqueue", "Execute", "Notify", "PostExecute"}

(* The thread's local job is the only running one.                         *)
ControlInv ==
    /\ pc = "Idle" => waiting = <<>>
    /\ pc \in InFlight => pj \in Jobs
    /\ \A j \in Jobs : ejs[j] = "Running" <=> pc \in InFlight /\ pj = j
    /\ ulpRunning = IF pc \in InFlight \ {"PreExecute"} THEN 1 ELSE 0
    /\ pc \in {"Enqueue", "Notify"} => pjq[pj] # None
    /\ pc = "PreExecute" => ulpRefs[pj] = 0
    /\ pc \in {"Enqueue", "Notify"} => Children(pj) = {}
    /\ pc = "PostExecute" /\ fCompleted =>
          Children(pj) = {} /\ (pjq[pj] # None => qCompleted[pjq[pj]])

(* Parents outlive their children; the jobs of a queue have its rank.      *)
TreeInv ==
    \A j \in Jobs : Live(j) =>
        /\ pjParent[j] # None => Live(pjParent[j])
        /\ pjq[j] # None => level[j] = Level[pjq[j]]
        /\ ejs[j] = "Suspended" => ulpRefs[j] > 0

(* A queue lists each of its jobs once, its main job first; the others are *)
(* suspended without children.  A completed queue is empty once notified.  *)
QueueInv ==
    \A q \in Queues :
        /\ NoDup(qList[q])
        /\ \A j \in Jobs : InList(j, qList[q]) =>
              /\ Live(j) /\ pjq[j] = q
              /\ j # qMain[q] =>
                    /\ Children(j) = {}
                    /\ \/ ejs[j] = "Suspended"
                       \/ pj = j /\ pc = "PostExecute" /\ ~fCompleted
        /\ ~qCompleted[q] => (qList[q] = <<>> <=> qMain[q] = None)
        /\ ~qCompleted[q] /\ qList[q] # <<>> => Head(qList[q]) = qMain[q]
        /\ qCompleted[q] /\ qList[q] # <<>> => pc = "Notify" /\ pjq[pj] = q
        /\ pc = "Notify" /\ pjq[pj] = q =>
              /\ qCompleted[q] /\ qMain[q] = pj
              /\ InList(pj, qList[q]) => Head(qList[q]) = pj
        /\ pc = "Execute" /\ pjq[pj] = q => ~qCompleted[q] /\ qMain[q] = pj

IInv == /\ TypeOK /\ ControlInv /\ TreeInv /\ QueueInv
        /\ RefsExact /\ WaitingExact
----------------------------------------------------------------------------
(* Membership and distinctness of the lists the scheduler manipulates:     *)
(* CSyncList::Push, CList::Append and the removal of the first element.    *)
LEMMA EmptyList == \A k : ~InList(k, <<>>)
  BY DEF InList

(* CSyncList::Push puts an element in front.                               *)
LEMMA PushList ==
    ASSUME NEW S, NEW s \in Seq(S), NEW j \in S
    PROVE  /\ <<j>> \o s \in Seq(S)
           /\ Len(<<j>> \o s) = Len(s) + 1
           /\ \A k : InList(k, <<j>> \o s) <=> k = j \/ InList(k, s)
           /\ NoDup(s) /\ ~InList(j, s) => NoDup(<<j>> \o s)
<1> DEFINE t == <<j>> \o s
<1>1. t \in Seq(S) /\ Len(t) = Len(s) + 1
  OBVIOUS
<1>2. t[1] = j /\ \A i \in 1..Len(s) : t[i + 1] = s[i]
  OBVIOUS
<1>3. \A i \in 1..Len(t) : i # 1 => i - 1 \in 1..Len(s) /\ t[i] = s[i - 1]
  BY <1>1, <1>2
<1>4. DOMAIN t = 1..Len(t) /\ DOMAIN s = 1..Len(s)
  BY <1>1
<1> HIDE DEF t
<1>5. \A k : InList(k, t) <=> k = j \/ InList(k, s)
  <2> TAKE k
  <2>1. InList(k, t) => k = j \/ InList(k, s)
    BY <1>1, <1>2, <1>3, <1>4 DEF InList
  <2>2. InList(j, t) /\ (InList(k, s) => InList(k, t))
    BY <1>1, <1>2, <1>4 DEF InList
  <2> QED
    BY <2>1, <2>2, Zenon
<1>6. NoDup(s) /\ ~InList(j, s) => NoDup(t)
  <2> SUFFICES ASSUME NoDup(s), ~InList(j, s),
                      NEW i \in DOMAIN t, NEW k \in DOMAIN t, t[i] = t[k]
               PROVE  i = k
    BY Zenon DEF NoDup
  <2>1. CASE i = 1
    BY <2>1, <1>1, <1>2, <1>3, <1>4 DEF InList
  <2>2. CASE k = 1
    BY <2>2, <1>1, <1>2, <1>3, <1>4 DEF InList
  <2>3. CASE i # 1 /\ k # 1
    <3>1. i - 1 \in DOMAIN s /\ k - 1 \in DOMAIN s /\ s[i - 1] = s[k - 1]
      BY <2>3, <1>1, <1>3, <1>4, Zenon
    <3>2. i - 1 = k - 1
      BY <3>1, Zenon DEF NoDup
    <3> QED
      BY <3>2, <1>1, <1>4
  <2> QED
    BY <2>1, <2>2, <2>3, Zenon
<1> QED
  BY <1>1, <1>5, <1>6, Zenon DEF t

(* CList::Append puts an element behind.                                   *)
LEMMA AppendList ==
    ASSUME NEW S, NEW s \in Seq(S), NEW j \in S
    PROVE  /\ Append(s, j) \in Seq(S)
           /\ Append(s, j) # <<>>
           /\ Head(Append(s, j)) = IF s = <<>> THEN j ELSE Head(s)
           /\ \A k : InList(k, Append(s, j)) <=> k = j \/ InList(k, s)
           /\ NoDup(s) /\ ~InList(j, s) => NoDup(Append(s, j))
<1> DEFINE t == Append(s, j)
<1>1. t \in Seq(S) /\ Len(t) = Len(s) + 1
  OBVIOUS
<1>2. t[Len(s) + 1] = j /\ \A i \in 1..Len(s) : t[i] = s[i]
  OBVIOUS
<1>3. DOMAIN t = 1..Len(t) /\ DOMAIN s = 1..Len(s)
  BY <1>1
<1>4. t # <<>> /\ Head(t) = IF s = <<>> THEN j ELSE Head(s)
  <2>1. t # <<>> /\ Head(t) = t[1]
    BY <1>1
  <2>2. CASE s = <<>>
    BY <2>1, <2>2, <1>2
  <2>3. CASE s # <<>>
    <3>1. 1 \in 1..Len(s) /\ Head(s) = s[1]
      BY <2>3
    <3> QED
      BY <3>1, <2>1, <2>3, <1>2, Zenon
  <2> QED
    BY <2>1, <2>2, <2>3, Zenon
<1>5. \A k : InList(k, t) <=> k = j \/ InList(k, s)
  BY <1>1, <1>2, <1>3 DEF InList
<1>6. NoDup(s) /\ ~InList(j, s) => NoDup(t)
  BY <1>1, <1>2, <1>3 DEF InList, NoDup
<1> QED
  BY <1>1, <1>4, <1>5, <1>6, Zenon

(* The removal of the first element leaves the others.                     *)
LEMMA TailList ==
    ASSUME NEW S, NEW s \in Seq(S), s # <<>>, NoDup(s)
    PROVE  /\ Head(s) \in S /\ InList(Head(s), s)
           /\ Tail(s) \in Seq(S) /\ Len(Tail(s)) = Len(s) - 1
           /\ \A k : InList(k, Tail(s)) <=> k # Head(s) /\ InList(k, s)
           /\ NoDup(Tail(s))
<1> DEFINE t == Tail(s)
<1>1. t \in Seq(S) /\ Len(t) = Len(s) - 1 /\ Len(s) > 0
  OBVIOUS
<1>2. Head(s) = s[1] /\ \A i \in 1..Len(t) : t[i] = s[i + 1]
  OBVIOUS
<1>3. DOMAIN t = 1..Len(t) /\ DOMAIN s = 1..Len(s) /\ 1 \in DOMAIN s
  BY <1>1
<1>4. \A i \in 1..Len(s) : i # 1 => i - 1 \in 1..Len(t) /\ s[i] = t[i - 1]
  BY <1>1, <1>2
<1>5. \A k : InList(k, t) => k # Head(s) /\ InList(k, s)
  BY <1>1, <1>2, <1>3 DEF InList, NoDup
<1>6. \A k : k # Head(s) /\ InList(k, s) => InList(k, t)
  BY <1>1, <1>2, <1>3, <1>4, ZenonT(30) DEF InList
<1>7. NoDup(t)
  BY <1>1, <1>2, <1>3 DEF NoDup
<1>8. Head(s) \in S /\ InList(Head(s), s)
  BY <1>1, <1>2, <1>3 DEF InList
<1> QED
  BY <1>1, <1>5, <1>6, <1>7, <1>8, Zenon

----------------------------------------------------------------------------
(* Sets of jobs are finite, so their cardinalities can be counted with.    *)
LEMMA JobSets ==
    ASSUME NEW S, S \subseteq Jobs
    PROVE  /\ IsFiniteSet(S) /\ Cardinality(S) \in Nat
           /\ Cardinality(S) = 0 <=> S = {}
  BY SchedulerAssumption, FS_Subset, FS_CardinalityType, FS_EmptySet, Zenon

(* The number of a job's children is a number, zero for none.              *)
LEMMA ChildCount ==
    \A k : /\ Cardinality(Children(k)) \in Nat
           /\ Cardinality(Children(k)) = 0 <=> Children(k) = {}
<1> TAKE k
<1>1. Children(k) \subseteq Jobs
  BY Zenon DEF Children
<1> QED
  BY <1>1, JobSets, Zenon

(* One more job is one more in the count.                                  *)
LEMMA JobSetAdd ==
    ASSUME NEW S, S \subseteq Jobs, NEW j \in Jobs, j \notin S
    PROVE  Cardinality(S \cup {j}) = Cardinality(S) + 1
  BY JobSets, FS_AddElement, Zenon

(* One job less is one less in the count.                                  *)
LEMMA JobSetRemove ==
    ASSUME NEW S, S \subseteq Jobs, NEW j \in S
    PROVE  Cardinality(S \ {j}) = Cardinality(S) - 1
  BY JobSets, FS_RemoveElement, Zenon

(* A nonempty set of numbers has a smallest element.                      *)
LEMMA SmallestNumber ==
    ASSUME NEW T, T \subseteq Nat, T # {}
    PROVE  \E x \in T : \A y \in T : x <= y
<1> DEFINE R == OpToRel(<, Nat)
<1>1. IsWellFoundedOn(R, Nat)
  BY NatLessThanWellFounded, ZenonT(30)
<1>2. \A x, y \in Nat : x < y => <<x, y>> \in R
  BY Zenon DEF OpToRel
<1> HIDE DEF R
<1>3. PICK x \in T : \A y \in T : ~ (<<y, x>> \in R)
  BY <1>1, WFMin, ZenonT(30)
<1>4. ASSUME NEW y \in T PROVE x <= y
  <2>1. x \in Nat /\ y \in Nat /\ ~(<<y, x>> \in R)
    BY <1>3, Zenon
  <2>2. ~(y < x)
    BY <2>1, <1>2, Zenon
  <2> QED
    BY <2>1, <2>2
<1> QED
  BY <1>4, Zenon

(* The scheduler starts empty.                                             *)
LEMMA InitInv == Init => IInv
<1> SUFFICES ASSUME Init PROVE IInv
  BY Zenon
<1> USE SchedulerAssumption
<1>1. TypeOK
  <2>1. <<>> \in Seq(Jobs)
    OBVIOUS
  <2>2. qList \in [Queues -> Seq(Jobs)]
    BY <2>1, Zenon DEF Init
  <2> QED
    BY <2>1, <2>2, ZenonT(30) DEF Init, TypeOK, JobState, ControlPoint
<1>2. \A j \in Jobs : ~Live(j)
  BY Zenon DEF Init, Live
<1>3. \A j \in Jobs : Children(j) = {}
  BY <1>2, Zenon DEF Children
<1>4. \A j : ~InList(j, <<>>)
  BY DEF InList
<1>5. ControlInv
  BY Zenon DEF Init, ControlInv, InFlight
<1>6. TreeInv
  BY <1>2, Zenon DEF TreeInv
<1>7. QueueInv
  BY <1>4 DEF Init, QueueInv, NoDup
<1>8. RefsExact
  <2>1. \A j \in Jobs : Cardinality(Children(j)) = 0
    BY <1>3, FS_EmptySet, Zenon
  <2> QED
    BY <2>1 DEF Init, RefsExact, RunRef, QueueRef
<1>9. WaitingExact
  <2>1. {j \in Jobs : Live(j)} = {}
    BY <1>2, Zenon
  <2>2. Cardinality({j \in Jobs : Live(j)}) = 0
    BY <2>1, FS_EmptySet, Zenon
  <2> QED
    BY <1>4, <2>2 DEF Init, WaitingExact, NoDup
<1> QED
  BY <1>1, <1>5, <1>6, <1>7, <1>8, <1>9, Zenon DEF IInv

(* Steps that neither add nor release a job leave the job tree as it is.   *)
LEMMA SameTree ==
    ASSUME pjParent' = pjParent, \A j \in Jobs : Live(j)' <=> Live(j)
    PROVE  /\ \A k : Children(k)' = Children(k)
           /\ {j \in Jobs : Live(j)}' = {j \in Jobs : Live(j)}
<1>1. \A k : Children(k)' = Children(k)
  BY Zenon DEF Children
<1> QED
  BY <1>1, Zenon

(* CScheduler::Run's return keeps the invariant.                           *)
LEMMA RunReturnsInv == IInv /\ RunReturns => IInv'
<1> SUFFICES ASSUME IInv, RunReturns PROVE IInv'
  BY Zenon
<1> USE SchedulerAssumption DEF IInv
<1>1. TypeOK'
  BY Zenon DEF TypeOK, RunReturns, jobVars, counters, queueVars, ControlPoint
<1>2. (\A k : Children(k)' = Children(k)) /\ UNCHANGED {j \in Jobs : Live(j)}
  BY SameTree, Zenon DEF RunReturns, jobVars, Live
<1>3. ControlInv'
  BY <1>2, Zenon DEF ControlInv, RunReturns, jobVars, counters, queueVars, InFlight
<1>4. TreeInv'
  BY Zenon DEF TreeInv, RunReturns, jobVars, Live
<1>5. QueueInv'
  BY <1>2, Zenon DEF QueueInv, RunReturns, jobVars, counters, queueVars, Live
<1>6. RefsExact'
  BY <1>2, Zenon DEF RefsExact, RunReturns, jobVars, queueVars, RunRef, QueueRef
<1>7. WaitingExact'
  BY <1>2, ZenonT(30) DEF WaitingExact, RunReturns, jobVars, counters
<1> QED
  BY <1>1, <1>3, <1>4, <1>5, <1>6, <1>7, Zenon

(* CScheduler::PjRetrieve keeps the invariant.                             *)
LEMMA PjRetrieveInv == IInv /\ PjRetrieve => IInv'
<1> SUFFICES ASSUME IInv, PjRetrieve PROVE IInv'
  BY Zenon
<1> USE SchedulerAssumption DEF IInv
<1> DEFINE h == Head(waiting)
<1>a. /\ waiting \in Seq(Jobs) /\ waiting # <<>> /\ NoDup(waiting)
      /\ h \in Jobs /\ InList(h, waiting) /\ ejs[h] = "Waiting" /\ ulpRefs[h] = 0
      /\ \A k : InList(k, Tail(waiting)) <=> k # h /\ InList(k, waiting)
      /\ NoDup(Tail(waiting)) /\ Tail(waiting) \in Seq(Jobs)
      /\ Len(Tail(waiting)) = Len(waiting) - 1
  BY TailList, Zenon DEF TypeOK, WaitingExact, PjRetrieve
<1>b. /\ ejs' = [ejs EXCEPT ![h] = "Running"] /\ pj' = h
      /\ waiting' = Tail(waiting)
  BY Zenon DEF PjRetrieve
<1> HIDE DEF h
<1>1. TypeOK'
  <2>1. ulpQueued - 1 \in Nat
    BY <1>a DEF WaitingExact, TypeOK
  <2> QED
    BY <1>a, <1>b, <2>1, Zenon DEF TypeOK, PjRetrieve, queueVars, ControlPoint, JobState
<1>2. \A j \in Jobs : Live(j)' <=> Live(j)
  BY <1>a, <1>b, Zenon DEF Live, TypeOK
<1>3. (\A k : Children(k)' = Children(k)) /\ UNCHANGED {j \in Jobs : Live(j)}
  BY <1>2, SameTree, Zenon DEF PjRetrieve
<1>4. ControlInv'
  BY <1>a, <1>b, <1>3, Zenon DEF ControlInv, TypeOK, PjRetrieve, queueVars, InFlight
<1>5. TreeInv'
  BY <1>a, <1>b, <1>2, Zenon DEF TreeInv, TypeOK, PjRetrieve
<1>6. QueueInv'
  BY <1>a, <1>b, <1>2, <1>3 DEF QueueInv, TypeOK, PjRetrieve, queueVars
<1>7. RefsExact'
  BY <1>a, <1>b, <1>3 DEF RefsExact, ControlInv, QueueInv, TypeOK, PjRetrieve, queueVars, RunRef, QueueRef
<1>8. WaitingExact'
  BY <1>a, <1>b, <1>3, ZenonT(30) DEF WaitingExact, TypeOK, PjRetrieve
<1> QED
  BY <1>1, <1>4, <1>5, <1>6, <1>7, <1>8, Zenon

(* CScheduler::PreExecute keeps the invariant.                             *)
LEMMA PreExecuteInv == IInv /\ PreExecute => IInv'
<1> SUFFICES ASSUME IInv, PreExecute PROVE IInv'
  BY Zenon
<1> USE SchedulerAssumption DEF IInv
<1>a. pj \in Jobs /\ ejs[pj] = "Running" /\ ulpRefs[pj] = 0
  BY Zenon DEF ControlInv, PreExecute, InFlight
<1>b. ulpRefs' = [ulpRefs EXCEPT ![pj] = 1]
  BY <1>a DEF PreExecute, TypeOK
<1>1. TypeOK'
  BY <1>a, <1>b DEF TypeOK, PreExecute, queueVars, ControlPoint
<1>2. (\A k : Children(k)' = Children(k)) /\ UNCHANGED {j \in Jobs : Live(j)}
  BY SameTree, Zenon DEF PreExecute, Live
<1>3. Children(pj) = {} /\ ~QueueRef(pj)
  BY <1>a, ChildCount DEF RefsExact, RunRef, PreExecute
<1>4. ControlInv'
  BY <1>a, <1>b, <1>2, <1>3, Zenon DEF ControlInv, TypeOK, PreExecute, queueVars, InFlight
<1>5. TreeInv'
  BY <1>a, <1>b, Zenon DEF TreeInv, TypeOK, PreExecute, Live
<1>6. QueueInv'
  BY <1>a, <1>b, <1>2 DEF QueueInv, TypeOK, PreExecute, queueVars, Live
<1>7. RefsExact'
  <2> SUFFICES ASSUME NEW k \in Jobs
               PROVE  ulpRefs'[k] = Cardinality(Children(k))
                        + (IF RunRef(k)' THEN 1 ELSE 0)
                        + (IF QueueRef(k)' THEN 1 ELSE 0)
    BY <1>2, Zenon DEF RefsExact
  <2>1. QueueRef(k)' <=> QueueRef(k)
    BY <1>a, Zenon DEF QueueRef, PreExecute, queueVars, TypeOK
  <2>2. ~RunRef(k) /\ (RunRef(k)' <=> k = pj)
    BY <1>a, Zenon DEF RunRef, PreExecute
  <2> QED
    BY <1>a, <1>b, <2>1, <2>2, ChildCount DEF RefsExact, TypeOK
<1>8. WaitingExact'
  BY <1>a, <1>b, <1>2, ZenonT(30) DEF WaitingExact, TypeOK, PreExecute
<1> QED
  BY <1>1, <1>4, <1>5, <1>6, <1>7, <1>8, Zenon

(* The heart of "nothing is stranded".  Suppose no job is waiting or       *)
(* running and some are left.  All are suspended, so each has a reference. *)
(* Take one of least rank: it has no children, so it is queued behind a    *)
(* main job, which has the rank of the queue too, hence no children, and   *)
(* no reference from the queue: it cannot be suspended.                    *)
LEMMA IdleIsEmpty == IInv /\ pc = "Idle" => NothingStranded
<1> SUFFICES ASSUME IInv, pc = "Idle", WaitsDescend PROVE NothingStranded
  BY Zenon DEF NothingStranded
<1> USE SchedulerAssumption DEF IInv
<1>1. \A j \in Jobs : Live(j) => ejs[j] = "Suspended"
  <2>1. \A j \in Jobs : ejs[j] # "Running"
    BY Zenon DEF ControlInv, InFlight
  <2>2. \A j \in Jobs : ejs[j] # "Waiting"
    BY DEF ControlInv, WaitingExact, InList
  <2> QED
    BY <2>1, <2>2, Zenon DEF Live, TypeOK, JobState
<1>2. \A j \in Jobs : ~Live(j)
  <2> SUFFICES ASSUME NEW j0 \in Jobs, Live(j0) PROVE FALSE
    BY Zenon
  <2> DEFINE L == {level[k] : k \in {i \in Jobs : Live(i)}}
  <2>1. L \subseteq Nat /\ L # {}
    BY DEF TypeOK
  <2>2. PICK n \in L : \A m \in L : n <= m
    BY <2>1, SmallestNumber, ZenonT(30)
  <2>3. PICK j \in Jobs : Live(j) /\ level[j] = n
    BY <2>2, Zenon
  <2>4. \A k \in Jobs : Live(k) => level[j] <= level[k]
    BY <2>2, <2>3, Zenon
  <2> HIDE DEF L
  <2>5. \A m \in Jobs : Live(m) /\ level[m] = level[j] =>
                           Children(m) = {} /\ QueueRef(m)
    <3> SUFFICES ASSUME NEW m \in Jobs, Live(m), level[m] = level[j]
                 PROVE  Children(m) = {} /\ QueueRef(m)
      BY Zenon
    <3>1. ASSUME NEW c \in Jobs, Live(c), pjParent[c] = m PROVE FALSE
      <4>1. level[c] < level[m]
        BY <3>1, SchedulerAssumption, Zenon DEF WaitsDescend
      <4>2. level[j] <= level[c] /\ level[c] \in Nat /\ level[m] \in Nat
        BY <2>4, <3>1, Zenon DEF TypeOK
      <4> QED
        BY <4>1, <4>2
    <3>2. Children(m) = {}
      BY <3>1, Zenon DEF Children
    <3>3. ~RunRef(m) /\ ulpRefs[m] > 0
      BY <1>1, Zenon DEF RunRef, TreeInv
    <3>4. Cardinality(Children(m)) = 0
      BY <3>2, ChildCount, Zenon
    <3>5. QueueRef(m)
      BY <3>3, <3>4 DEF RefsExact
    <3> QED
      BY <3>2, <3>5, Zenon
  <2>6. QueueRef(j)
    BY <2>3, <2>5, Zenon
  <2> DEFINE q == pjq[j]
             m == qMain[q]
  <2>7. q \in Queues /\ InList(j, qList[q]) /\ j # m
    BY <2>3, <2>6, Zenon DEF QueueRef, TypeOK
  <2>8. ~qCompleted[q] /\ qList[q] # <<>> /\ m = Head(qList[q])
    BY <2>7 DEF QueueInv, InList
  <2>9. m \in Jobs /\ InList(m, qList[q])
    <3>1. qList[q] \in Seq(Jobs) /\ NoDup(qList[q])
      BY <2>7, Zenon DEF TypeOK, QueueInv
    <3> QED
      BY <2>8, <3>1, TailList
  <2>10. Live(m) /\ pjq[m] = q
    BY <2>7, <2>9, Zenon DEF QueueInv
  <2>11. level[m] = level[j]
    BY <2>3, <2>7, <2>9, <2>10, Zenon DEF TreeInv
  <2>12. QueueRef(m)
    BY <2>5, <2>9, <2>10, <2>11, Zenon
  <2> QED
    BY <2>10, <2>12, Zenon DEF QueueRef
<1>3. \A q \in Queues : qList[q] = <<>>
  <2> SUFFICES ASSUME NEW q \in Queues, qList[q] # <<>> PROVE FALSE
    BY Zenon
  <2>1. qList[q] \in Seq(Jobs) /\ NoDup(qList[q])
    BY Zenon DEF TypeOK, QueueInv
  <2>2. Head(qList[q]) \in Jobs /\ InList(Head(qList[q]), qList[q])
    BY <2>1, TailList, Zenon
  <2> QED
    BY <1>2, <2>2, Zenon DEF QueueInv
<1>4. ulpTotal = 0 /\ ulpRunning = 0
  <2>1. {j \in Jobs : Live(j)} = {}
    BY <1>2, Zenon
  <2> QED
    BY <2>1, FS_EmptySet, ZenonT(30) DEF WaitingExact, ControlInv, InFlight
<1> QED
  BY <1>2, <1>3, <1>4, Zenon DEF NothingStranded

(* CJobQueue::Reset on a queue that passed its assertion.                  *)
LEMMA ResetQueueInv ==
    ASSUME NEW q \in Queues, IInv, ResetQueue(q) PROVE IInv'
<1> USE SchedulerAssumption DEF IInv
<1>b. /\ qList[q] = <<>> /\ \A j : ~InList(j, qList[q])
      /\ \A k \in Queues : k # q => qMain'[k] = qMain[k] /\ qCompleted'[k] = qCompleted[k]
      /\ qMain'[q] = None /\ ~qCompleted'[q]
      /\ UNCHANGED <<qList, pc, pj, pjq, ejs>> /\ pc = "Idle"
  BY EmptyList DEF ResetQueue, TypeOK, jobVars
<1>1. TypeOK'
  BY Zenon DEF TypeOK, ResetQueue, jobVars, counters
<1>2. (\A k : Children(k)' = Children(k)) /\ UNCHANGED {j \in Jobs : Live(j)}
  BY SameTree, Zenon DEF ResetQueue, jobVars, Live
<1>3. ControlInv'
  BY <1>2, Zenon DEF ControlInv, ResetQueue, jobVars, counters, InFlight
<1>4. TreeInv'
  BY Zenon DEF TreeInv, ResetQueue, jobVars, Live
<1>5. QueueInv'
  <2> SUFFICES ASSUME NEW r \in Queues PROVE QueueInv!(r)'
    BY Zenon DEF QueueInv
  <2>1. CASE r = q
    BY <1>b, <2>1 DEF NoDup
  <2>2. CASE r # q
    BY <1>b, <1>2, <2>2, SMTT(30) DEF QueueInv, Live
  <2> QED
    BY <2>1, <2>2, Zenon
<1>6. RefsExact'
  <2>1. \A j \in Jobs : (RunRef(j)' <=> RunRef(j)) /\ (QueueRef(j)' <=> QueueRef(j))
    BY <1>b, Zenon DEF RunRef, QueueRef, TypeOK
  <2> QED
    BY <2>1, <1>2, Zenon DEF RefsExact, ResetQueue, jobVars
<1>7. WaitingExact'
  BY <1>2, ZenonT(30) DEF WaitingExact, ResetQueue, jobVars, counters
<1> QED
  BY <1>1, <1>3, <1>4, <1>5, <1>6, <1>7, Zenon

(* Where the thread is in the middle of a job, that job is running.        *)
LEMMA InFlightJob ==
    IInv /\ pc \in InFlight =>
        /\ pj \in Jobs /\ ejs[pj] = "Running" /\ Live(pj)
        /\ pjq[pj] \in Queues \cup {None}
  BY Zenon DEF IInv, ControlInv, TypeOK, Live
----------------------------------------------------------------------------
(* The steps that enter a job queue, execute a job, finish the             *)
(* notification of a queue and add jobs preserve IInv.                     *)

(* EjqrCompleted: the operation is done, the queue is empty.               *)
LEMMA EjqrCompletedInv == IInv /\ EjqrCompleted => IInv'
<1> SUFFICES ASSUME IInv, EjqrCompleted PROVE IInv'
  BY Zenon
<1> USE SchedulerAssumption DEF IInv
<1>a. pj \in Jobs /\ ejs[pj] = "Running" /\ pjq[pj] \in Queues /\ Children(pj) = {}
  BY InFlightJob, Zenon DEF EjqrCompleted, ControlInv, InFlight
<1>1. TypeOK'
  BY Zenon DEF TypeOK, EjqrCompleted, jobVars, counters, queueVars, ControlPoint
<1>2. (\A k : Children(k)' = Children(k)) /\ UNCHANGED {j \in Jobs : Live(j)}
  BY SameTree, Zenon DEF EjqrCompleted, jobVars, Live
<1>3. ControlInv'
  BY <1>a, <1>2, Zenon DEF ControlInv, EjqrCompleted, jobVars, counters, queueVars, InFlight
<1>4. TreeInv'
  BY Zenon DEF TreeInv, EjqrCompleted, jobVars, Live
<1>5. QueueInv'
  BY <1>2 DEF QueueInv, EjqrCompleted, jobVars, queueVars, Live
<1>6. RefsExact'
  <2> SUFFICES ASSUME NEW k \in Jobs
               PROVE  (RunRef(k)' <=> RunRef(k)) /\ (QueueRef(k)' <=> QueueRef(k))
    BY <1>2, Zenon DEF RefsExact, EjqrCompleted, jobVars
  <2> QED
    BY Zenon DEF EjqrCompleted, jobVars, queueVars, RunRef, QueueRef
<1>7. WaitingExact'
  BY <1>2, ZenonT(30) DEF WaitingExact, EjqrCompleted, jobVars, counters
<1> QED
  BY <1>1, <1>3, <1>4, <1>5, <1>6, <1>7, Zenon

(* The main job comes back: the queue takes its reference again.           *)
LEMMA EjqrMainAgainInv == IInv /\ EjqrMainAgain => IInv'
<1> SUFFICES ASSUME IInv, EjqrMainAgain PROVE IInv'
  BY Zenon
<1> USE SchedulerAssumption DEF IInv
<1> DEFINE q == pjq[pj]
<1>a. /\ pc = "Enqueue" /\ pj \in Jobs /\ ejs[pj] = "Running" /\ q \in Queues
      /\ ~qCompleted[q] /\ qMain[q] = pj /\ ulpRefs[pj] \in Nat
  BY InFlightJob, Zenon DEF EjqrMainAgain, ControlInv, InFlight, TypeOK
<1>b. InList(pj, qList[q])
  <2>1. qList[q] # <<>> /\ Head(qList[q]) = pj
    BY <1>a DEF QueueInv
  <2>2. qList[q] \in Seq(Jobs) /\ NoDup(qList[q])
    BY <1>a, Zenon DEF QueueInv, TypeOK
  <2> QED
    BY <2>1, <2>2, TailList, Zenon
<1>c. /\ ulpRefs' = [ulpRefs EXCEPT ![pj] = ulpRefs[pj] + 1] /\ pc' = "Execute"
      /\ UNCHANGED <<ejs, pjParent, pjq, level, suspends, waiting, ulpTotal,
                     ulpRunning, ulpQueued, qMain, qCompleted, qList, pj, fCompleted>>
  BY Zenon DEF EjqrMainAgain, counters, queueVars
<1> HIDE DEF q
<1>1. TypeOK'
  BY <1>a, <1>c DEF TypeOK, ControlPoint
<1>2. (\A k : Children(k)' = Children(k)) /\ UNCHANGED {j \in Jobs : Live(j)}
  BY <1>c, SameTree, Zenon DEF Live
<1>3. ControlInv'
  BY <1>a, <1>c, <1>2, Zenon DEF ControlInv, InFlight
<1>4. TreeInv'
  BY <1>a, <1>c, Zenon DEF TreeInv, Live, TypeOK
<1>5. QueueInv'
  BY <1>a, <1>c, <1>2 DEF QueueInv, Live, q
<1>6. RefsExact'
  <2> SUFFICES ASSUME NEW k \in Jobs
               PROVE  ulpRefs'[k] = Cardinality(Children(k))
                        + (IF RunRef(k)' THEN 1 ELSE 0)
                        + (IF QueueRef(k)' THEN 1 ELSE 0)
    BY <1>2, Zenon DEF RefsExact
  <2>1. RunRef(k)' <=> RunRef(k)
    BY <1>a, <1>c, Zenon DEF RunRef
  <2>2. IF k = pj THEN ~QueueRef(k) /\ QueueRef(k)' ELSE QueueRef(k)' <=> QueueRef(k)
    BY <1>a, <1>b, <1>c, Zenon DEF QueueRef, q
  <2> QED
    BY <1>a, <1>c, <2>1, <2>2, ChildCount DEF RefsExact, TypeOK
<1>7. WaitingExact'
  BY <1>a, <1>c, <1>2, ZenonT(30) DEF WaitingExact, TypeOK
<1> QED
  BY <1>1, <1>3, <1>4, <1>5, <1>6, <1>7, Zenon

(* A job enters the queue, as its main job or behind the main job.         *)
LEMMA EjqrEnterInv ==
    ASSUME NEW q \in Queues, IInv, EjqrEnter(q) PROVE IInv'
<1> USE SchedulerAssumption DEF IInv
<1>a. /\ pc = "Enqueue" /\ pj \in Jobs /\ ejs[pj] = "Running" /\ q = pjq[pj]
      /\ ~qCompleted[q] /\ qMain[q] # pj /\ ulpRefs[pj] \in Nat /\ Live(pj)
      /\ Children(pj) = {} /\ qList[q] \in Seq(Jobs) /\ NoDup(qList[q])
  BY InFlightJob, Zenon DEF EjqrEnter, ControlInv, QueueInv, InFlight, TypeOK
<1>b. ~InList(pj, qList[q])
  BY <1>a, Zenon DEF QueueInv
<1> DEFINE l == Append(qList[q], pj)
<1>c. /\ l \in Seq(Jobs) /\ l # <<>> /\ NoDup(l)
      /\ Head(l) = IF qList[q] = <<>> THEN pj ELSE Head(qList[q])
      /\ \A k : InList(k, l) <=> k = pj \/ InList(k, qList[q])
  BY <1>a, <1>b, AppendList
<1>d. /\ ulpRefs' = [ulpRefs EXCEPT ![pj] = ulpRefs[pj] + 1]
      /\ qList' = [qList EXCEPT ![q] = l]
      /\ UNCHANGED <<ejs, pjParent, pjq, level, suspends, waiting, ulpTotal,
                     ulpRunning, ulpQueued, qCompleted, pj>>
      /\ qMain' = [qMain EXCEPT ![q] = IF qList[q] = <<>> THEN pj ELSE qMain[q]]
      /\ IF qList[q] = <<>> THEN pc' = "Execute" /\ fCompleted' = fCompleted
                            ELSE pc' = "PostExecute" /\ fCompleted' = FALSE
  BY Zenon DEF EjqrEnter, counters, TypeOK
<1>e. /\ qList[q] = <<>> <=> qMain[q] = None
      /\ qList[q] # <<>> => Head(qList[q]) = qMain[q]
  BY <1>a, Zenon DEF QueueInv
<1> HIDE DEF l
<1>f. /\ qList'[q] = l /\ qMain'[q] = IF qList[q] = <<>> THEN pj ELSE qMain[q]
      /\ \A r \in Queues : r # q => qList'[r] = qList[r] /\ qMain'[r] = qMain[r]
      /\ qList' \in [Queues -> Seq(Jobs)] /\ qMain' \in [Queues -> Jobs \cup {None}]
  BY <1>a, <1>c, <1>d, ZenonT(30) DEF TypeOK
<1>1. TypeOK'
  <2>1. pc' \in ControlPoint /\ fCompleted' \in BOOLEAN
    BY <1>d, ZenonT(30) DEF TypeOK, ControlPoint
  <2>2. ulpRefs' \in [Jobs -> Nat]
    BY <1>a, <1>d DEF TypeOK
  <2> QED
    BY <1>d, <1>f, <2>1, <2>2, Zenon DEF TypeOK
<1>2. (\A k : Children(k)' = Children(k)) /\ UNCHANGED {j \in Jobs : Live(j)}
  BY <1>d, SameTree, Zenon DEF Live
<1>3. ControlInv'
  BY <1>a, <1>d, <1>2, Zenon DEF ControlInv, InFlight
<1>4. TreeInv'
  BY <1>a, <1>d, Zenon DEF TreeInv, Live, TypeOK
<1>5. QueueInv'
  <2> SUFFICES ASSUME NEW r \in Queues PROVE QueueInv!(r)'
    BY Zenon DEF QueueInv
  <2>1. CASE r # q
    BY <2>1, <1>a, <1>d, <1>2 DEF QueueInv, Live, TypeOK
  <2>2. CASE r = q
    <3> USE <2>2, <1>a, <1>c, <1>d, <1>e, <1>f, <1>2 DEF QueueInv, Live
    <3>1. CASE qList[q] = <<>>
      <4>1. \A k : InList(k, l) => k = pj
        BY <3>1, EmptyList
      <4> QED
        BY <3>1, <4>1, Zenon
    <3>2. CASE qList[q] # <<>>
      BY <3>2, ZenonT(30)
    <3> QED
      BY <3>1, <3>2, Zenon
  <2> QED
    BY <2>1, <2>2, Zenon
<1>6. RefsExact'
  <2> SUFFICES ASSUME NEW k \in Jobs
               PROVE  ulpRefs'[k] = Cardinality(Children(k))
                        + (IF RunRef(k)' THEN 1 ELSE 0)
                        + (IF QueueRef(k)' THEN 1 ELSE 0)
    BY <1>2, Zenon DEF RefsExact
  <2>1. RunRef(k)' <=> RunRef(k)
    BY <1>a, <1>d, Zenon DEF RunRef
  <2>2. CASE k = pj
    <3>1. ~QueueRef(k) /\ QueueRef(k)'
      BY <2>2, <1>a, <1>b, <1>c, <1>d, Zenon DEF QueueRef, TypeOK
    <3> QED
      BY <1>a, <1>d, <2>1, <2>2, <3>1, ChildCount DEF RefsExact, TypeOK
  <2>3. CASE k # pj
    <3>1. QueueRef(k)' <=> QueueRef(k)
      <4>1. CASE pjq[k] # q
        BY <4>1, <2>3, <1>a, <1>d, <1>f DEF QueueRef, TypeOK
      <4>2. CASE pjq[k] = q /\ qList[q] = <<>>
        <5>1. ~InList(k, qList[q]) /\ ~InList(k, l)
          BY <4>2, <2>3, <1>c, EmptyList
        <5> QED
          BY <4>2, <5>1, <1>d, <1>f, Zenon DEF QueueRef
      <4>3. CASE pjq[k] = q /\ qList[q] # <<>>
        BY <4>3, <2>3, <1>a, <1>c, <1>d, <1>f, Zenon DEF QueueRef
      <4> QED
        BY <4>1, <4>2, <4>3, Zenon
    <3> QED
      BY <1>a, <1>d, <2>1, <2>3, <3>1, ChildCount, Zenon DEF RefsExact, TypeOK
  <2> QED
    BY <2>2, <2>3, Zenon
<1>7. WaitingExact'
  BY <1>a, <1>d, <1>2, ZenonT(30) DEF WaitingExact, TypeOK
<1> QED
  BY <1>1, <1>3, <1>4, <1>5, <1>6, <1>7, Zenon

(* The main job of a queue is the only job whose body runs for it.         *)
LEMMA ExecutingMain ==
    ASSUME IInv, pc = "Execute", pjq[pj] # None
    PROVE  /\ pjq[pj] \in Queues /\ qMain[pjq[pj]] = pj /\ ~qCompleted[pjq[pj]]
           /\ qList[pjq[pj]] # <<>> /\ Head(qList[pjq[pj]]) = pj
           /\ InList(pj, qList[pjq[pj]])
<1> USE SchedulerAssumption DEF IInv
<1> DEFINE q == pjq[pj]
<1>1. pj \in Jobs /\ q \in Queues
  BY InFlightJob, Zenon DEF InFlight
<1>2. qMain[q] = pj /\ ~qCompleted[q]
  BY <1>1, Zenon DEF QueueInv
<1>3. qList[q] # <<>> /\ Head(qList[q]) = pj
  BY <1>1, <1>2, Zenon DEF QueueInv
<1>4. qList[q] \in Seq(Jobs) /\ NoDup(qList[q])
  BY <1>1, Zenon DEF QueueInv, TypeOK
<1> QED
  BY <1>1, <1>2, <1>3, <1>4, TailList

(* The job is suspended: the queue, if any, gives up its reference.        *)
LEMMA FExecuteSuspendedInv == IInv /\ FExecuteSuspended => IInv'
<1> SUFFICES ASSUME IInv, FExecuteSuspended PROVE IInv'
  BY Zenon
<1> USE SchedulerAssumption DEF IInv
<1>a. /\ pc = "Execute" /\ pj \in Jobs /\ ejs[pj] = "Running" /\ Live(pj)
      /\ pjq[pj] \in Queues \cup {None} /\ ulpRefs[pj] \in Nat
  BY InFlightJob, Zenon DEF FExecuteSuspended, InFlight, TypeOK
<1>b. /\ pc' = "PostExecute" /\ fCompleted' = FALSE
      /\ suspends' = [suspends EXCEPT ![pj] = suspends[pj] + 1]
      /\ UNCHANGED <<ejs, pjParent, pjq, level, waiting, ulpTotal, ulpRunning,
                     ulpQueued, qMain, qCompleted, qList, pj>>
  BY Zenon DEF FExecuteSuspended, counters, queueVars
<1>c. RunRef(pj) /\ (QueueRef(pj) <=> pjq[pj] # None)
  BY <1>a, ExecutingMain, Zenon DEF RunRef, QueueRef
<1>d. ulpRefs' = [ulpRefs EXCEPT ![pj] = IF pjq[pj] = None THEN ulpRefs[pj]
                                         ELSE ulpRefs[pj] - 1]
  BY <1>a, ZenonT(30) DEF FExecuteSuspended, TypeOK
<1>e. ulpRefs[pj] = Cardinality(Children(pj)) + 1 + IF pjq[pj] = None THEN 0 ELSE 1
  BY <1>a, <1>c, Zenon DEF RefsExact
<1>f. /\ ulpRefs'[pj] = Cardinality(Children(pj)) + 1
      /\ \A k \in Jobs : k # pj => ulpRefs'[k] = ulpRefs[k]
      /\ ulpRefs' \in [Jobs -> Nat]
  BY <1>a, <1>d, <1>e, ChildCount DEF TypeOK
<1>1. TypeOK'
  <2>1. suspends' \in [Jobs -> Nat]
    <3>1. suspends \in [Jobs -> Nat] /\ suspends[pj] + 1 \in Nat
      BY <1>a DEF TypeOK
    <3> QED
      BY <1>b, <3>1, ZenonT(30)
  <2>2. fCompleted' \in BOOLEAN /\ pc' \in ControlPoint
    BY <1>b, ZenonT(30) DEF ControlPoint
  <2> QED
    BY <1>b, <1>f, <2>1, <2>2, Zenon DEF TypeOK
<1>2. (\A k : Children(k)' = Children(k)) /\ UNCHANGED {j \in Jobs : Live(j)}
  BY <1>b, SameTree, Zenon DEF Live
<1>3. ControlInv'
  BY <1>a, <1>b, <1>f, <1>2, Zenon DEF ControlInv, InFlight
<1>4. TreeInv'
  BY <1>a, <1>b, <1>f, ZenonT(30) DEF TreeInv, Live, TypeOK
<1>5. QueueInv'
  BY <1>a, <1>b, <1>2 DEF QueueInv, Live
<1>6. RefsExact'
  <2> SUFFICES ASSUME NEW k \in Jobs
               PROVE  ulpRefs'[k] = Cardinality(Children(k))
                        + (IF RunRef(k)' THEN 1 ELSE 0)
                        + (IF QueueRef(k)' THEN 1 ELSE 0)
    BY <1>2, Zenon DEF RefsExact
  <2>1. RunRef(k)' <=> RunRef(k)
    BY <1>a, <1>b, Zenon DEF RunRef
  <2>2. CASE k = pj
    <3>1. ~QueueRef(k)'
      BY <2>2, <1>a, <1>b, ExecutingMain, Zenon DEF QueueRef
    <3> QED
      BY <2>1, <2>2, <3>1, <1>c, <1>f, ChildCount
  <2>3. CASE k # pj
    <3>1. QueueRef(k)' <=> QueueRef(k)
      BY <2>3, <1>a, <1>b, Zenon DEF QueueRef
    <3> QED
      BY <1>f, <2>1, <2>3, <3>1, Zenon DEF RefsExact
  <2> QED
    BY <2>2, <2>3, Zenon
<1>7. WaitingExact'
  BY <1>a, <1>b, <1>f, <1>2, ZenonT(30) DEF WaitingExact, TypeOK
<1> QED
  BY <1>1, <1>3, <1>4, <1>5, <1>6, <1>7, Zenon

(* The job completes: its queue, if any, is marked completed and the jobs  *)
(* in it are about to be notified.                                         *)
LEMMA FExecuteCompletedInv == IInv /\ FExecuteCompleted => IInv'
<1> SUFFICES ASSUME IInv, FExecuteCompleted PROVE IInv'
  BY Zenon
<1> USE SchedulerAssumption DEF IInv
<1> DEFINE q == pjq[pj]
<1>a. /\ pc = "Execute" /\ pj \in Jobs /\ ejs[pj] = "Running" /\ Live(pj)
      /\ q \in Queues \cup {None} /\ Children(pj) = {}
  BY InFlightJob, Zenon DEF FExecuteCompleted, InFlight, TypeOK
<1>b. UNCHANGED <<ejs, pjParent, pjq, ulpRefs, level, suspends, waiting,
                  ulpTotal, ulpRunning, ulpQueued, qMain, qList, pj>>
  BY Zenon DEF FExecuteCompleted, jobVars, counters
<1>c. IF q = None THEN /\ pc' = "PostExecute" /\ fCompleted' = TRUE
                       /\ qCompleted' = qCompleted
                  ELSE /\ pc' = "Notify" /\ fCompleted' = fCompleted
                       /\ qCompleted' = [qCompleted EXCEPT ![q] = TRUE]
  BY Zenon DEF FExecuteCompleted
<1>2. (\A k : Children(k)' = Children(k)) /\ UNCHANGED {j \in Jobs : Live(j)}
  BY <1>b, SameTree, Zenon DEF Live
<1>4. TreeInv'
  BY <1>b, Zenon DEF TreeInv, Live
<1>7. WaitingExact'
  BY <1>b, <1>2, Zenon DEF WaitingExact
<1>8. CASE q = None
  <2>0. pc' = "PostExecute" /\ fCompleted' = TRUE /\ qCompleted' = qCompleted
    BY <1>8, <1>c, Zenon
  <2>1. TypeOK'
    BY <1>b, <2>0, Zenon DEF TypeOK, ControlPoint
  <2>2. ControlInv'
    BY <1>a, <1>b, <1>2, <1>8, <2>0, Zenon DEF ControlInv, InFlight
  <2>3. QueueInv'
    BY <1>a, <1>b, <1>2, <1>8, <2>0 DEF QueueInv, Live
  <2>4. \A k \in Jobs : (RunRef(k)' <=> RunRef(k)) /\ (QueueRef(k)' <=> QueueRef(k))
    BY <1>a, <1>b, <1>8, <2>0, Zenon DEF RunRef, QueueRef
  <2>5. RefsExact'
    BY <1>b, <1>2, <2>4, Zenon DEF RefsExact
  <2> QED
    BY <1>4, <1>7, <2>1, <2>2, <2>3, <2>5, Zenon
<1>9. CASE q # None
  <2>0. /\ pc' = "Notify" /\ fCompleted' = fCompleted
        /\ qCompleted' = [qCompleted EXCEPT ![q] = TRUE]
        /\ q \in Queues
    BY <1>9, <1>a, <1>c, Zenon
  <2>1. TypeOK'
    BY <1>b, <2>0, Zenon DEF TypeOK, ControlPoint
  <2>2. ControlInv'
    BY <1>a, <1>b, <1>2, <1>9, <2>0, Zenon DEF ControlInv, InFlight
  <2>3. QueueInv'
    <3> SUFFICES ASSUME NEW r \in Queues PROVE QueueInv!(r)'
      BY Zenon DEF QueueInv
    <3>1. CASE r = q
      BY <3>1, <1>a, <1>b, <1>2, <1>9, <2>0, ExecutingMain, SMTT(30) DEF QueueInv, Live, TypeOK
    <3>2. CASE r # q
      BY <3>2, <1>a, <1>b, <1>2, <1>9, <2>0 DEF QueueInv, Live, TypeOK
    <3> QED
      BY <3>1, <3>2, Zenon
  <2>4. \A k \in Jobs : (RunRef(k)' <=> RunRef(k)) /\ (QueueRef(k)' <=> QueueRef(k))
    BY <1>a, <1>b, <1>9, <2>0, Zenon DEF RunRef, QueueRef
  <2>5. RefsExact'
    BY <1>b, <1>2, <2>4, Zenon DEF RefsExact
  <2> QED
    BY <1>4, <1>7, <2>1, <2>2, <2>3, <2>5, Zenon
<1> QED
  BY <1>8, <1>9, Zenon

(* The queue is empty: the main job goes on to PostExecute.                *)
LEMMA NotifyDoneInv == IInv /\ NotifyDone => IInv'
<1> SUFFICES ASSUME IInv, NotifyDone PROVE IInv'
  BY Zenon
<1> USE SchedulerAssumption DEF IInv
<1> DEFINE q == pjq[pj]
<1>a. /\ pc = "Notify" /\ pj \in Jobs /\ ejs[pj] = "Running" /\ Live(pj)
      /\ q \in Queues /\ Children(pj) = {} /\ qList[q] = <<>>
  BY InFlightJob, SMTT(30) DEF NotifyDone, InFlight, TypeOK, ControlInv
<1>b. /\ UNCHANGED <<ejs, pjParent, pjq, ulpRefs, level, suspends, waiting,
                     ulpTotal, ulpRunning, ulpQueued, qMain, qCompleted, qList, pj>>
      /\ pc' = "PostExecute" /\ fCompleted' = TRUE
  BY SMTT(30) DEF NotifyDone, jobVars, counters, queueVars
<1>c. qCompleted[q] /\ qMain[q] = pj
  BY <1>a, Zenon DEF QueueInv
<1>1. TypeOK'
  BY <1>b, Zenon DEF TypeOK, ControlPoint
<1>2. (\A k : Children(k)' = Children(k)) /\ UNCHANGED {j \in Jobs : Live(j)}
  BY <1>b, SameTree, Zenon DEF Live
<1>3. ControlInv'
  BY <1>a, <1>b, <1>c, <1>2, Zenon DEF ControlInv, InFlight
<1>4. TreeInv'
  BY <1>b, SMTT(30) DEF TreeInv, Live
<1>5. QueueInv'
  BY <1>a, <1>b, <1>2 DEF QueueInv, Live
<1>6. RefsExact'
  <2>1. \A k \in Jobs : (RunRef(k)' <=> RunRef(k)) /\ (QueueRef(k)' <=> QueueRef(k))
    BY <1>a, <1>b, EmptyList, Zenon DEF RunRef, QueueRef
  <2> QED
    BY <1>b, <1>2, <2>1, Zenon DEF RefsExact
<1>7. WaitingExact'
  BY <1>b, <1>2, ZenonT(30) DEF WaitingExact
<1> QED
  BY <1>1, <1>3, <1>4, <1>5, <1>6, <1>7, Zenon

(* CScheduler::Add: the parent, if any, is the running job and gains one   *)
(* child and one reference; the new job starts with none.                  *)
LEMMA AddInv ==
    ASSUME IInv, NEW j \in Jobs, NEW q \in Queues \cup {None},
           NEW parent \in Jobs \cup {None}, NEW lvl \in Nat,
           Add(j, q, parent, lvl), q # None => lvl = Level[q],
           \/ parent = None /\ pc = "Idle" /\ pc' = "Retrieve"
           \/ parent = pj /\ pc = "Execute" /\ pc' = pc
    PROVE  IInv'
<1> USE SchedulerAssumption DEF IInv
<1>a. /\ ejs[j] = "Free" /\ ~Live(j) /\ ~InList(j, waiting)
      /\ \A k \in Queues : ~InList(j, qList[k])
      /\ \A k \in Jobs : Live(k) => pjParent[k] # j
      /\ parent # j /\ (pc \in InFlight => pj # j)
  <2>1. ejs[j] = "Free" /\ ~Live(j)
    BY Zenon DEF Add, Live
  <2>2. ~InList(j, waiting)
    BY <2>1, Zenon DEF WaitingExact
  <2>3. \A k \in Queues : ~InList(j, qList[k])
    BY <2>1, Zenon DEF QueueInv
  <2>4. \A k \in Jobs : Live(k) => pjParent[k] # j
    BY <2>1, Zenon DEF TreeInv
  <2>5. pc \in InFlight => pj # j
    BY <2>1, InFlightJob, Zenon
  <2> QED
    BY <2>1, <2>2, <2>3, <2>4, <2>5, Zenon DEF InFlight
<1>b. /\ ejs' = [ejs EXCEPT ![j] = "Waiting"]
      /\ pjParent' = [pjParent EXCEPT ![j] = parent]
      /\ pjq' = [pjq EXCEPT ![j] = q]
      /\ level' = [level EXCEPT ![j] = lvl]
      /\ suspends' = [suspends EXCEPT ![j] = 0]
      /\ waiting' = <<j>> \o waiting
      /\ ulpTotal' = ulpTotal + 1 /\ ulpQueued' = ulpQueued + 1
      /\ UNCHANGED <<ulpRunning, qMain, qCompleted, qList, pj, fCompleted>>
  BY Zenon DEF Add, queueVars
<1>c. \A k \in Jobs : ulpRefs'[k] = IF k = j THEN 0
                                    ELSE IF k = parent THEN ulpRefs[k] + 1
                                    ELSE ulpRefs[k]
  BY Zenon DEF Add
<1>d. /\ \A k \in Jobs : k # j => /\ ejs'[k] = ejs[k] /\ pjParent'[k] = pjParent[k]
                                  /\ pjq'[k] = pjq[k] /\ level'[k] = level[k]
      /\ ejs'[j] = "Waiting" /\ pjParent'[j] = parent /\ pjq'[j] = q /\ level'[j] = lvl
  BY <1>b, Zenon DEF TypeOK
<1>e. \A k \in Jobs : (Live(k)' <=> k = j \/ Live(k)) /\ (k # j => (Live(k)' <=> Live(k)))
  BY <1>d, Zenon DEF Live
<1>w. /\ waiting' \in Seq(Jobs) /\ Len(waiting') = Len(waiting) + 1 /\ NoDup(waiting')
      /\ \A k : InList(k, waiting') <=> k = j \/ InList(k, waiting)
  BY <1>a, <1>b, PushList, Zenon DEF TypeOK, WaitingExact
<1>1. TypeOK'
  <2>1. ulpRefs' \in [Jobs -> Nat]
    BY DEF Add, TypeOK
  <2>2. /\ ejs' \in [Jobs -> JobState] /\ pjParent' \in [Jobs -> Jobs \cup {None}]
        /\ pjq' \in [Jobs -> Queues \cup {None}]
    BY <1>b, Zenon DEF TypeOK, JobState
  <2>3. level' \in [Jobs -> Nat] /\ suspends' \in [Jobs -> Nat]
    BY <1>b, SMTT(30) DEF TypeOK
  <2>4. pc' \in ControlPoint
    BY Zenon DEF TypeOK, ControlPoint
  <2> QED
    BY <1>b, <1>w, <2>1, <2>2, <2>3, <2>4, SMTT(30) DEF TypeOK
<1>2. \A k \in Jobs : Children(k)' = IF k = parent THEN Children(k) \cup {j} ELSE Children(k)
  BY <1>a, <1>d, <1>e, Zenon DEF Children
<1>3. Children(j) = {} /\ \A k : j \notin Children(k)
  BY <1>a, SMTT(30) DEF Children
<1>4. ControlInv'
  BY <1>a, <1>b, <1>d, SMTT(30) DEF ControlInv, InFlight
<1>5. TreeInv'
  <2> SUFFICES ASSUME NEW k \in Jobs, Live(k)' PROVE TreeInv!(k)'
    BY Zenon DEF TreeInv
  <2>1. parent # None => parent \in Jobs /\ Live(parent)
    BY InFlightJob, Zenon DEF InFlight
  <2>2. CASE k = j
    BY <2>1, <2>2, <1>a, <1>d, <1>e, SMTT(30)
  <2>3. CASE k # j
    <3>1. Live(k) /\ pjParent[k] # j
      BY <2>3, <1>a, <1>e, Zenon
    <3>2. /\ pjParent[k] # None => Live(pjParent[k])'
          /\ pjq[k] # None => level'[k] = Level[pjq[k]]
      BY <2>3, <3>1, <1>d, <1>e, Zenon DEF TreeInv, TypeOK
    <3>3. ejs[k] = "Suspended" => ulpRefs'[k] > 0
      <4>1. ejs[k] = "Suspended" => ulpRefs[k] > 0 /\ ulpRefs[k] \in Nat
        BY <3>1, Zenon DEF TreeInv, TypeOK
      <4>2. ulpRefs'[k] = ulpRefs[k] \/ ulpRefs'[k] = ulpRefs[k] + 1
        BY <2>3, <1>c, SMTT(30)
      <4> QED
        BY <4>1, <4>2
    <3> QED
      BY <2>3, <3>2, <3>3, <1>d, Zenon
  <2> QED
    BY <2>2, <2>3, Zenon
<1>6. QueueInv'
  <2> SUFFICES ASSUME NEW r \in Queues PROVE QueueInv!(r)'
    BY SMTT(30) DEF QueueInv
  <2>1. \A k \in Jobs : InList(k, qList[r]) =>
           /\ k # j /\ Live(k)' /\ pjq'[k] = r /\ ejs'[k] = ejs[k]
           /\ k # qMain[r] => Children(k)' = {} /\ (ejs[k] = "Suspended")
    <3> SUFFICES ASSUME NEW k \in Jobs, InList(k, qList[r])
                 PROVE /\ k # j /\ Live(k)' /\ pjq'[k] = r /\ ejs'[k] = ejs[k]
                       /\ k # qMain[r] => Children(k)' = {} /\ (ejs[k] = "Suspended")
      BY SMTT(30)
    <3>1. k # j /\ Live(k)' /\ pjq'[k] = r /\ pjq[k] = r /\ ejs'[k] = ejs[k]
      BY <1>a, <1>d, <1>e, SMTT(30) DEF QueueInv
    <3>2. ASSUME k # qMain[r] PROVE Children(k) = {} /\ (ejs[k] = "Suspended")
      BY <3>2, Zenon DEF QueueInv
    <3>3. ASSUME k # qMain[r] PROVE k # parent
      BY <3>1, <3>3 DEF QueueInv
    <3> QED
      BY <3>1, <3>2, <3>3, <1>2, SMTT(30)
  <2>2. UNCHANGED <<qList, qMain, qCompleted, pj>> /\ pc' # "Notify" /\ pc # "Notify"
    BY <1>b, SMTT(30)
  <2>3. ASSUME pc' = "Execute", pjq'[pj] = r
        PROVE  ~qCompleted[r] /\ qMain[r] = pj
    <3>1. pc = "Execute"
      BY <1>b, <2>3, Zenon
    <3>2. pj \in Jobs /\ pj # j
      BY <3>1, <1>a, InFlightJob, Zenon DEF InFlight
    <3>3. pjq[pj] = r
      BY <3>2, <1>d, <2>3, Zenon
    <3> QED
      BY <3>1, <3>3, Zenon DEF QueueInv
  <2> QED
    BY <2>1, <2>2, <2>3, SMTT(30) DEF QueueInv
<1>7. RefsExact'
  <2> SUFFICES ASSUME NEW k \in Jobs
               PROVE  ulpRefs'[k] = Cardinality(Children(k)')
                        + (IF RunRef(k)' THEN 1 ELSE 0)
                        + (IF QueueRef(k)' THEN 1 ELSE 0)
    BY Zenon DEF RefsExact
  <2>1. RunRef(k)' <=> RunRef(k)
    BY <1>b, Zenon DEF RunRef
  <2>2. CASE k = j
    <3>1. ~RunRef(k)
      BY <2>2, <1>a, Zenon DEF RunRef, InFlight
    <3>2. ~QueueRef(k)'
      BY <2>2, <1>a, <1>b, <1>d, SMTT(30) DEF QueueRef
    <3>3. Cardinality(Children(k)') = 0
      BY <2>2, <1>a, <1>2, <1>3, FS_EmptySet, SMTT(30)
    <3> QED
      BY <2>1, <2>2, <3>1, <3>2, <3>3, <1>c
  <2>3. CASE k # j
    <3>1. QueueRef(k)' <=> QueueRef(k)
      BY <2>3, <1>b, <1>d, Zenon DEF QueueRef
    <3>2. k = parent => Cardinality(Children(k)') = Cardinality(Children(k)) + 1
      <4>1. Children(k) \subseteq Jobs
        BY Zenon DEF Children
      <4> QED
        BY <4>1, <1>2, <1>3, JobSetAdd, Zenon
    <3>3. k # parent => Children(k)' = Children(k)
      BY <1>2, Zenon
    <3>4. ulpRefs[k] = Cardinality(Children(k)) + (IF RunRef(k) THEN 1 ELSE 0)
                         + (IF QueueRef(k) THEN 1 ELSE 0)
      BY SMTT(30) DEF RefsExact
    <3> QED
      BY <2>1, <2>3, <3>1, <3>2, <3>3, <3>4, <1>c, ChildCount, SMTT(30)
  <2> QED
    BY <2>2, <2>3, SMTT(30)
<1>8. WaitingExact'
  <2>1. {k \in Jobs : Live(k)}' = {k \in Jobs : Live(k)} \cup {j}
    BY <1>e, Zenon
  <2>2. Cardinality({k \in Jobs : Live(k)}') = Cardinality({k \in Jobs : Live(k)}) + 1
    BY <2>1, <1>a, JobSetAdd, SMTT(30)
  <2>3. \A k \in Jobs : InList(k, waiting) => k # parent
    BY InFlightJob, SMTT(30) DEF WaitingExact, InFlight
  <2>4. \A k \in Jobs : InList(k, waiting') <=> ejs'[k] = "Waiting"
    BY <1>w, <1>d, SMTT(30) DEF WaitingExact
  <2>5. \A k \in Jobs : InList(k, waiting') => ulpRefs'[k] = 0
    BY <1>w, <1>c, <2>3, Zenon DEF WaitingExact
  <2> QED
    BY <1>b, <1>w, <2>2, <2>4, <2>5, Zenon DEF WaitingExact
<1> QED
  BY <1>1, <1>4, <1>5, <1>6, <1>7, <1>8, Zenon

(* CScheduler::Add of a job without a parent keeps the invariant.          *)
LEMMA ScheduleMainJobInv ==
    ASSUME NEW j \in Jobs, NEW q \in Queues, IInv, ScheduleMainJob(j, q)
    PROVE  IInv'
<1>1. Level[q] \in Nat /\ q # None
  BY SchedulerAssumption, Zenon
<1> QED
  BY <1>1, AddInv, Zenon DEF ScheduleMainJob

(* CScheduler::Add of a child keeps the invariant.                         *)
LEMMA AddChildInv ==
    ASSUME NEW j \in Jobs, NEW q \in Queues \cup {None}, IInv, AddChild(j, q)
    PROVE  IInv'
<1>1. pc = "Execute" /\ pc' = pc /\ pj \in Jobs /\ level[pj] \in Nat
  BY InFlightJob, Zenon DEF AddChild, InFlight, IInv, TypeOK
<1>2. ChildLevel(q) \in Nat /\ Add(j, q, pj, ChildLevel(q))
  BY <1>1, SchedulerAssumption DEF AddChild, ChildLevel
<1>3. q # None => ChildLevel(q) = Level[q]
  BY Zenon DEF ChildLevel
<1> QED
  BY <1>1, <1>2, <1>3, AddInv, Zenon
----------------------------------------------------------------------------
(* The steps that release and resume jobs preserve IInv, and the theorems  *)
(* about the scheduler.                                                    *)

(* What releasing job j does to the rest.                                  *)
OneIf(b) == IF b THEN 1 ELSE 0

JobCompleted(j) ==
    /\ pjParent[j] # None => /\ pjParent[j] \in Jobs /\ pjParent[j] # j
                             /\ ejs[pjParent[j]] = "Suspended"
                             /\ Children(pjParent[j]) # {}
    /\ \A k \in Jobs :
          /\ Live(k)' <=> Live(k) /\ k # j
          /\ Children(k)' \subseteq Children(k)
          /\ Cardinality(Children(k)') = Cardinality(Children(k)) - OneIf(k = pjParent[j])
          /\ k # j => /\ ulpRefs'[k] = ulpRefs[k] - OneIf(k = pjParent[j])
                      /\ ejs'[k] = ejs[k] \/ (k = pjParent[j] /\ ejs'[k] = "Waiting")
    /\ ulpRefs'[j] = 0 /\ ejs'[j] = "Free"
    /\ ulpRefs' \in [Jobs -> Nat] /\ ejs' \in [Jobs -> JobState]
    /\ waiting' \in Seq(Jobs) /\ ulpTotal' \in Nat /\ ulpQueued' \in Nat
    /\ TreeInv' /\ WaitingExact'

(* CScheduler::ResumeParent on a job that is done: its parent is suspended *)
(* and loses one child and one reference, and is resumed with the last.    *)
LEMMA CompleteJobEffect ==
    ASSUME IInv, NEW j \in Jobs, NEW refs \in [Jobs -> Nat], CompleteJob(j, refs),
           Live(j), ejs[j] # "Waiting", Children(j) = {},
           pc \in InFlight, j = pj \/ Children(pj) = {},
           refs[j] = 0, \A k \in Jobs : k # j => refs[k] = ulpRefs[k],
           UNCHANGED <<pjParent, pjq, level>>
    PROVE  JobCompleted(j)
<1> USE SchedulerAssumption DEF IInv, OneIf
<1> DEFINE p == pjParent[j]
           delta(k) == OneIf(k = p)
           wakes == p # None /\ ulpRefs[p] = 1
<1>1. p \in Jobs \cup {None} /\ p # j
  <2>1. p \in Jobs \cup {None}
    BY Zenon DEF TypeOK
  <2>2. p = j => j \in Children(j)
    BY Zenon DEF Children
  <2> QED
    BY <2>1, <2>2, Zenon
<1>2. ASSUME p # None
      PROVE  p \in Jobs /\ ejs[p] = "Suspended" /\ ulpRefs[p] > 0 /\ j \in Children(p)
  <2>1. p \in Jobs /\ j \in Children(p) /\ Live(p)
    BY <1>1, <1>2, Zenon DEF Children, TreeInv
  <2>2. ulpRefs[p] > 0
    <3>1. Cardinality(Children(p)) \in Nat \ {0}
      BY <2>1, ChildCount, Zenon
    <3> QED
      BY <2>1, <3>1 DEF RefsExact
  <2>3. ejs[p] # "Waiting"
    BY <2>1, <2>2 DEF WaitingExact
  <2>4. ejs[p] # "Running"
    BY <1>1, <2>1, Zenon DEF ControlInv
  <2> QED
    BY <2>1, <2>2, <2>3, <2>4, Zenon DEF Live, TypeOK, JobState
<1>3. ulpRefs' = [k \in Jobs |-> refs[k] - delta(k)]
  <2>1. ulpRefs' = [k \in Jobs |-> IF k = p THEN refs[k] - 1 ELSE refs[k]]
    BY Zenon DEF CompleteJob, RefsAfter
  <2>2. \A k \in Jobs : refs[k] - delta(k) = IF k = p THEN refs[k] - 1 ELSE refs[k]
    BY DEF OneIf
  <2> QED
    BY <2>1, <2>2, Zenon
<1>4. \A k \in Jobs : k # j => ulpRefs'[k] = ulpRefs[k] - delta(k)
  BY <1>3, Zenon
<1>5. ulpRefs'[j] = 0
  BY <1>1, <1>3
<1>6. ulpRefs' \in [Jobs -> Nat]
  <2>1. \A k \in Jobs : refs[k] - delta(k) \in Nat
    <3> TAKE k \in Jobs
    <3>1. refs[k] \in Nat /\ (k = p => refs[k] > 0)
      BY <1>1, <1>2, Zenon
    <3> QED
      BY <3>1
  <2> QED
    BY <1>3, <2>1, Zenon
<1>7. wakes <=> Resumes(j, refs)
  BY <1>1, Zenon DEF Resumes
<1>8. /\ ejs' = IF wakes THEN [ejs EXCEPT ![j] = "Free", ![p] = "Waiting"]
                ELSE [ejs EXCEPT ![j] = "Free"]
      /\ waiting' = IF wakes THEN <<p>> \o waiting ELSE waiting
      /\ ulpQueued' = IF wakes THEN ulpQueued + 1 ELSE ulpQueued
      /\ ulpTotal' = ulpTotal - 1
  BY <1>7, Zenon DEF CompleteJob
<1>9. /\ ejs' \in [Jobs -> JobState] /\ ejs'[j] = "Free"
      /\ \A k \in Jobs : k # j => ejs'[k] = IF wakes /\ k = p THEN "Waiting" ELSE ejs[k]
  <2>1. CASE wakes
    BY <2>1, <1>1, <1>2, <1>8, ZenonT(30) DEF TypeOK, JobState
  <2>2. CASE ~wakes
    BY <2>2, <1>1, <1>8, Zenon DEF TypeOK, JobState
  <2> QED
    BY <2>1, <2>2, Zenon
<1> HIDE DEF wakes
<1>10. \A k \in Jobs : Live(k)' <=> Live(k) /\ k # j
  <2>1. wakes => p \in Jobs /\ Live(p)
    BY <1>2, Zenon DEF wakes, Live
  <2> QED
    BY <1>9, <2>1, Zenon DEF Live
<1>11. \A k \in Jobs : Children(k)' = Children(k) \ {j}
  BY <1>10, Zenon DEF Children
<1>12. \A k \in Jobs : Cardinality(Children(k)') = Cardinality(Children(k)) - delta(k)
  <2> TAKE k \in Jobs
  <2>1. CASE k = p
    <3>1. Children(k) \subseteq Jobs /\ j \in Children(k)
      BY <2>1, <1>1, <1>2, Zenon DEF Children
    <3> QED
      BY <2>1, <3>1, <1>11, JobSetRemove, Zenon
  <2>2. CASE k # p
    <3>1. Children(k)' = Children(k)
      BY <2>2, <1>11, Zenon DEF Children
    <3> QED
      BY <2>2, <3>1, ChildCount
  <2> QED
    BY <2>1, <2>2, Zenon
<1>13. TreeInv'
  <2> SUFFICES ASSUME NEW k \in Jobs, Live(k)' PROVE TreeInv!(k)'
    BY Zenon DEF TreeInv
  <2>1. Live(k) /\ k # j
    BY <1>10, Zenon
  <2>2. pjParent[k] # None => pjParent[k] # j /\ pjParent[k] \in Jobs
    BY <2>1, Zenon DEF Children, TypeOK
  <2>3. ejs'[k] = "Suspended" => ulpRefs'[k] > 0
    <3>1. ulpRefs[k] \in Nat /\ (ejs[k] = "Suspended" => ulpRefs[k] > 0)
      BY <2>1, Zenon DEF TreeInv, TypeOK
    <3>2. CASE k = p
      <4>1. ulpRefs[k] # 1 \/ ejs'[k] = "Waiting"
        BY <3>2, <2>1, <1>9, SchedulerAssumption, Zenon DEF wakes
      <4> QED
        BY <3>1, <3>2, <4>1, <2>1, <1>2, <1>4, <1>9
    <3>3. CASE k # p
      BY <3>1, <3>3, <2>1, <1>4, <1>9
    <3> QED
      BY <3>2, <3>3, Zenon
  <2> QED
    BY <2>1, <2>2, <2>3, <1>10, Zenon DEF TreeInv
<1>14. WaitingExact' /\ waiting' \in Seq(Jobs) /\ ulpTotal' \in Nat /\ ulpQueued' \in Nat
  <2> DEFINE live == {k \in Jobs : Live(k)}
  <2>1. live' = live \ {j}
    BY <1>10, Zenon
  <2>2. Cardinality(live') = Cardinality(live) - 1 /\ Cardinality(live') \in Nat
    BY <2>1, JobSets, JobSetRemove, Zenon
  <2>3. ulpTotal' = Cardinality(live') /\ ulpTotal' \in Nat
    BY <2>2, <1>8, Zenon DEF WaitingExact
  <2>4. CASE wakes
    <3>1. p \in Jobs /\ ejs[p] = "Suspended" /\ ulpRefs'[p] = 0
      BY <2>4, <1>1, <1>2, <1>4 DEF wakes
    <3>2. /\ waiting \in Seq(Jobs) /\ ~InList(p, waiting) /\ NoDup(waiting)
          /\ ulpQueued = Len(waiting) /\ Len(waiting) \in Nat
      BY <3>1, Zenon DEF WaitingExact, TypeOK
    <3>3. waiting' = <<p>> \o waiting /\ ulpQueued' = ulpQueued + 1
      BY <2>4, <1>8, Zenon
    <3>4. /\ waiting' \in Seq(Jobs) /\ Len(waiting') = Len(waiting) + 1 /\ NoDup(waiting')
          /\ \A k : InList(k, waiting') <=> k = p \/ InList(k, waiting)
      BY <3>1, <3>2, <3>3, PushList, Zenon
    <3>5. \A k \in Jobs : InList(k, waiting') <=> ejs'[k] = "Waiting"
      BY <2>4, <3>1, <3>4, <1>1, <1>9, Zenon DEF WaitingExact
    <3>6. \A k \in Jobs : InList(k, waiting') => ulpRefs'[k] = 0
      BY <3>1, <3>4, <1>1, <1>4, <1>5, SMTT(30) DEF WaitingExact
    <3> QED
      BY <2>3, <3>2, <3>3, <3>4, <3>5, <3>6 DEF WaitingExact
  <2>5. CASE ~wakes
    <3>1. waiting' = waiting /\ ulpQueued' = ulpQueued
      BY <2>5, <1>8, Zenon
    <3>2. \A k \in Jobs : InList(k, waiting) <=> ejs'[k] = "Waiting"
      BY <2>5, <1>9, Zenon DEF WaitingExact
    <3>3. \A k \in Jobs : InList(k, waiting) => ulpRefs'[k] = 0
      <4> SUFFICES ASSUME NEW k \in Jobs, InList(k, waiting) PROVE ulpRefs'[k] = 0
        BY Zenon
      <4>1. ulpRefs[k] = 0 /\ ejs[k] = "Waiting"
        BY Zenon DEF WaitingExact
      <4>2. k # p
        BY <4>1, <1>1, <1>2, Zenon
      <4> QED
        BY <4>1, <4>2, <1>4, <1>5
    <3> QED
      BY <2>3, <3>1, <3>2, <3>3, Zenon DEF WaitingExact, TypeOK
  <2> QED
    BY <2>4, <2>5, Zenon
<1>15. \A k \in Jobs : k # j => ejs'[k] = ejs[k] \/ (k = p /\ ejs'[k] = "Waiting")
  BY <1>9, Zenon
<1>16. \A k \in Jobs : Children(k)' \subseteq Children(k)
  BY <1>11, Zenon
<1>17. p # None => p \in Jobs /\ p # j /\ ejs[p] = "Suspended" /\ Children(p) # {}
  BY <1>1, <1>2, Zenon
<1> QED
  BY <1>4, <1>5, <1>6, <1>9, <1>10, <1>12, <1>13, <1>14, <1>15, <1>16, <1>17, Zenon DEF JobCompleted

(* One turn of NotifyCompleted: the head of the list loses the queue's     *)
(* reference.  The main job keeps the thread's; any other job completes.   *)
LEMMA NotifyNextInv ==
    ASSUME NEW q \in Queues, IInv, NotifyNext(q) PROVE IInv'
<1> USE SchedulerAssumption DEF IInv
<1> DEFINE h == Head(qList[q])
           refs == [ulpRefs EXCEPT ![h] = ulpRefs[h] - 1]
<1>a. /\ pc = "Notify" /\ pj \in Jobs /\ ejs[pj] = "Running" /\ Live(pj)
      /\ pjq[pj] = q /\ Children(pj) = {} /\ qList[q] # <<>>
      /\ qCompleted[q] /\ qMain[q] = pj
  BY InFlightJob, Zenon DEF NotifyNext, InFlight, ControlInv, QueueInv
<1>b. /\ h \in Jobs /\ InList(h, qList[q]) /\ NoDup(Tail(qList[q]))
      /\ Tail(qList[q]) \in Seq(Jobs)
      /\ \A k : InList(k, Tail(qList[q])) <=> k # h /\ InList(k, qList[q])
  <2>1. qList[q] \in Seq(Jobs) /\ NoDup(qList[q])
    BY Zenon DEF QueueInv, TypeOK
  <2> QED
    BY <1>a, <2>1, TailList, Zenon
<1>c. Live(h) /\ pjq[h] = q /\ QueueRef(h) /\ Children(h) = {}
  BY <1>a, <1>b DEF QueueInv, QueueRef
<1>d. h # pj => ejs[h] = "Suspended" /\ ~RunRef(h)
  BY <1>a, <1>b, Zenon DEF QueueInv, RunRef
<1>e. ulpRefs[h] = IF h = pj THEN 2 ELSE 1
  <2>1. Cardinality(Children(h)) = 0
    BY <1>c, ChildCount, Zenon
  <2>2. RunRef(h) <=> h = pj
    BY <1>a, <1>d, Zenon DEF RunRef
  <2> QED
    BY <1>b, <1>c, <2>1, <2>2 DEF RefsExact
<1>f. /\ qList' = [qList EXCEPT ![q] = Tail(qList[q])]
      /\ UNCHANGED <<pjParent, pjq, level, suspends, ulpRunning, qMain,
                     qCompleted, pc, pj, fCompleted>>
  BY Zenon DEF NotifyNext
<1>g. qList' \in [Queues -> Seq(Jobs)]
  BY <1>b, <1>f, Zenon DEF TypeOK
<1>h. /\ qList'[q] = Tail(qList[q])
      /\ \A r \in Queues : r # q => qList'[r] = qList[r]
  BY <1>f, Zenon DEF TypeOK
<1>i. \A r \in Queues : NoDup(qList'[r])
  BY <1>b, <1>h, Zenon DEF QueueInv
<1>j. \A k \in Jobs, r \in Queues :
          InList(k, qList'[r]) <=> InList(k, qList[r]) /\ k # h
  <2>1. \A r \in Queues : InList(h, qList[r]) => r = q
    BY <1>b, <1>c, Zenon DEF QueueInv
  <2> QED
    BY <2>1, <1>b, <1>h, Zenon
<1>k. \A k \in Jobs : (RunRef(k)' <=> RunRef(k))
                      /\ (QueueRef(k)' <=> QueueRef(k) /\ k # h)
  BY <1>f, <1>j, Zenon DEF RunRef, QueueRef, TypeOK
<1>1. CASE h = pj
  <2>1. /\ ulpRefs' = [ulpRefs EXCEPT ![pj] = 1]
        /\ UNCHANGED <<ejs, waiting, ulpTotal, ulpQueued>>
    BY <1>1, <1>e DEF NotifyNext
  <2>2. (\A k : Children(k)' = Children(k)) /\ UNCHANGED {k \in Jobs : Live(k)}
    BY <1>f, <2>1, SameTree, Zenon DEF Live
  <2>3. TypeOK'
    BY <1>f, <1>g, <2>1, ZenonT(30) DEF TypeOK
  <2>4. ControlInv'
    BY <1>a, <1>f, <2>1, <2>2, Zenon DEF ControlInv
  <2>5. TreeInv'
    BY <1>a, <1>f, <2>1, Zenon DEF TreeInv, Live, TypeOK
  <2>6. QueueInv'
    <3> SUFFICES ASSUME NEW r \in Queues PROVE QueueInv!(r)'
      BY Zenon DEF QueueInv
    <3>1. CASE r = q
      BY <3>1, <1>1, <1>a, <1>f, <1>i, <1>j, <2>1, <2>2, Zenon DEF QueueInv, Live
    <3>2. CASE r # q
      BY <3>2, <1>a, <1>f, <1>h, <2>1, <2>2 DEF QueueInv, Live
    <3> QED
      BY <3>1, <3>2, Zenon
  <2>7. RefsExact'
    <3> SUFFICES ASSUME NEW k \in Jobs
                 PROVE  ulpRefs'[k] = Cardinality(Children(k))
                          + (IF RunRef(k)' THEN 1 ELSE 0)
                          + (IF QueueRef(k)' THEN 1 ELSE 0)
      BY <2>2, Zenon DEF RefsExact
    <3>1. CASE k = pj
      <4>1. Cardinality(Children(k)) = 0 /\ RunRef(k) /\ ~QueueRef(k)'
        BY <3>1, <1>1, <1>a, <1>k, ChildCount, ZenonT(30) DEF RunRef
      <4> QED
        BY <3>1, <4>1, <1>k, <2>1 DEF TypeOK
    <3>2. CASE k # pj
      BY <3>2, <1>1, <1>k, <2>1, Zenon DEF RefsExact, TypeOK
    <3> QED
      BY <3>1, <3>2, Zenon
  <2>8. WaitingExact'
    <3>1. ~InList(pj, waiting)
      BY <1>a, Zenon DEF WaitingExact
    <3> QED
      BY <3>1, <1>a, <2>1, <2>2, ZenonT(30) DEF WaitingExact, TypeOK
  <2> QED
    BY <2>3, <2>4, <2>5, <2>6, <2>7, <2>8, Zenon
<1>2. CASE h # pj
  <2> DEFINE p == pjParent[h]
             delta(k) == OneIf(k = p)
  <2>0. CompleteJob(h, refs) /\ refs \in [Jobs -> Nat] /\ refs[h] = 0
        /\ \A k \in Jobs : k # h => refs[k] = ulpRefs[k]
    BY <1>2, <1>b, <1>e, SMTT(30) DEF NotifyNext, TypeOK
  <2> HIDE DEF refs
  <2>1. JobCompleted(h)
    <3>1. ejs[h] # "Waiting" /\ pc \in InFlight /\ UNCHANGED <<pjParent, pjq, level>>
      BY <1>2, <1>a, <1>d, <1>f, Zenon DEF InFlight
    <3> QED
      BY <3>1, <2>0, <1>a, <1>b, <1>c, CompleteJobEffect, Zenon
  <2>2. TypeOK'
    BY <1>f, <1>g, <2>1, ZenonT(30) DEF TypeOK, JobCompleted
  <2>3. p # pj
    BY <1>a, <2>1, SMTT(30) DEF JobCompleted
  <2>4. ControlInv'
    <3>1. \A k \in Jobs : ejs'[k] = "Running" <=> ejs[k] = "Running"
      BY <1>2, <1>d, <2>1, Zenon DEF JobCompleted
    <3>2. ulpRunning' = ulpRunning /\ pc' = "Notify" /\ pj' = pj /\ pjq' = pjq
      BY <1>a, <1>f, Zenon
    <3>3. Children(pj)' = {}
      BY <1>a, <3>2, <2>1, Zenon DEF JobCompleted
    <3>4. /\ \A k \in Jobs : ejs[k] = "Running" <=> pj = k
          /\ ulpRunning = 1 /\ pjq[pj] # None
      BY <1>a, Zenon DEF ControlInv, InFlight
    <3> QED
      BY <1>a, <3>1, <3>2, <3>3, <3>4, Zenon DEF ControlInv, InFlight
  <2>5. QueueInv'
    <3> SUFFICES ASSUME NEW r \in Queues PROVE QueueInv!(r)'
      BY Zenon DEF QueueInv
    <3>1. \A k \in Jobs : InList(k, qList'[r]) =>
             /\ InList(k, qList[r]) /\ Live(k)' /\ pjq[k] = r
             /\ k # qMain[r] => Children(k)' = {} /\ ejs'[k] = "Suspended"
      <4> SUFFICES ASSUME NEW k \in Jobs, InList(k, qList'[r])
                   PROVE  /\ InList(k, qList[r]) /\ Live(k)' /\ pjq[k] = r
                          /\ k # qMain[r] => Children(k)' = {} /\ ejs'[k] = "Suspended"
        BY Zenon
      <4>1. InList(k, qList[r]) /\ k # h
        BY <1>j, Zenon
      <4>2. Live(k)' /\ pjq[k] = r
        BY <4>1, <2>1, Zenon DEF QueueInv, JobCompleted
      <4>3. ASSUME k # qMain[r] PROVE Children(k) = {} /\ ejs[k] = "Suspended"
        BY <4>1, <4>3, <1>a DEF QueueInv
      <4>4. ASSUME k # qMain[r] PROVE Children(k)' = {} /\ ejs'[k] = "Suspended"
        <5>1. Children(k) = {} /\ ejs[k] = "Suspended"
          BY <4>3, <4>4, Zenon
        <5>2. k # p
          BY <5>1, <2>1, Zenon DEF JobCompleted
        <5> QED
          BY <4>1, <5>1, <5>2, <2>1, Zenon DEF JobCompleted
      <4> QED
        BY <4>1, <4>2, <4>4, Zenon
    <3>2. /\ pc' = "Notify" /\ pc = "Notify" /\ pj' = pj /\ pjq' = pjq
          /\ qMain' = qMain /\ qCompleted' = qCompleted
      BY <1>a, <1>f, Zenon
    <3>3. CASE r = q
      <4>1. ~InList(pj, qList[q])
        BY <1>2, <1>a, Zenon DEF QueueInv
      <4>2. ~InList(pj, qList'[q])
        BY <4>1, <1>a, <1>j, Zenon
      <4>3. qCompleted[r] /\ pjq[pj] = r /\ qMain[r] = pj
        BY <3>3, <1>a, Zenon
      <4> QED
        BY <3>1, <3>2, <3>3, <4>2, <4>3, <1>i, Zenon
    <3>4. CASE r # q
      <4>1. qList'[r] = qList[r] /\ pjq[pj] # r
        BY <3>4, <1>a, <1>h, Zenon
      <4>2. /\ ~qCompleted[r] => (qList[r] = <<>> <=> qMain[r] = None)
            /\ ~qCompleted[r] /\ qList[r] # <<>> => Head(qList[r]) = qMain[r]
            /\ qCompleted[r] => qList[r] = <<>>
        BY <4>1, Zenon DEF QueueInv
      <4> QED
        BY <3>1, <3>2, <4>1, <4>2, <1>i, Zenon
    <3> QED
      BY <3>3, <3>4, Zenon
  <2>6. RefsExact'
    <3> SUFFICES ASSUME NEW k \in Jobs
                 PROVE  ulpRefs'[k] = Cardinality(Children(k)')
                          + (IF RunRef(k)' THEN 1 ELSE 0)
                          + (IF QueueRef(k)' THEN 1 ELSE 0)
      BY Zenon DEF RefsExact
    <3>1. CASE k = h
      <4>1. Children(k)' = {}
        BY <3>1, <1>c, <2>1, Zenon DEF JobCompleted
      <4>2. Cardinality(Children(k)') = 0
        BY <4>1, FS_EmptySet, Zenon
      <4>3. ~RunRef(k)' /\ ~QueueRef(k)'
        BY <3>1, <1>2, <1>d, <1>k, Zenon
      <4> QED
        BY <3>1, <4>2, <4>3, <2>1 DEF JobCompleted
    <3>2. CASE k # h
      <4>1. ulpRefs'[k] = ulpRefs[k] - delta(k)
        BY <3>2, <2>1, Zenon DEF JobCompleted
      <4>2. Cardinality(Children(k)') = Cardinality(Children(k)) - delta(k)
        BY <2>1, Zenon DEF JobCompleted
      <4>3. (RunRef(k)' <=> RunRef(k)) /\ (QueueRef(k)' <=> QueueRef(k))
        BY <3>2, <1>k, Zenon
      <4>4. ulpRefs[k] = Cardinality(Children(k)) + (IF RunRef(k) THEN 1 ELSE 0)
                           + (IF QueueRef(k) THEN 1 ELSE 0)
        BY Zenon DEF RefsExact
      <4> QED
        BY <4>1, <4>2, <4>3, <4>4, ChildCount DEF OneIf
    <3> QED
      BY <3>1, <3>2, Zenon
  <2> QED
    BY <2>1, <2>2, <2>4, <2>5, <2>6, Zenon DEF JobCompleted
<1> QED
  BY <1>1, <1>2, Zenon

(* EjrPostExecute: the thread gives up its reference; the job completes,   *)
(* is runnable again, or stays suspended with the references it has left.  *)
LEMMA PostExecuteInv == IInv /\ PostExecute => IInv'
<1> SUFFICES ASSUME IInv, PostExecute PROVE IInv'
  BY Zenon
<1> USE SchedulerAssumption DEF IInv
<1> DEFINE refs == [ulpRefs EXCEPT ![pj] = ulpRefs[pj] - 1]
<1>a. /\ pc = "PostExecute" /\ pj \in Jobs /\ ejs[pj] = "Running" /\ Live(pj)
      /\ pjq[pj] \in Queues \cup {None} /\ ulpRunning = 1
      /\ \A k \in Jobs : ejs[k] = "Running" <=> pj = k
  BY InFlightJob, Zenon DEF PostExecute, InFlight, ControlInv
<1>b. ulpRefs[pj] = Cardinality(Children(pj)) + 1 + OneIf(QueueRef(pj))
  BY <1>a, Zenon DEF RefsExact, RunRef, OneIf
<1>c. /\ refs \in [Jobs -> Nat] /\ refs[pj] = Cardinality(Children(pj)) + OneIf(QueueRef(pj))
      /\ \A k \in Jobs : k # pj => refs[k] = ulpRefs[k]
  <2>1. OneIf(QueueRef(pj)) \in Nat /\ Cardinality(Children(pj)) \in Nat
    BY ChildCount, Zenon DEF OneIf
  <2> QED
    BY <1>a, <1>b, <2>1 DEF TypeOK
<1>d. /\ ulpRunning' = 0 /\ pc' = "Retrieve"
      /\ UNCHANGED <<pjParent, pjq, level, suspends, qMain, qCompleted, qList, pj, fCompleted>>
  BY <1>a DEF PostExecute, queueVars
<1>e. \A k \in Jobs : /\ ~RunRef(k)' /\ (RunRef(k) <=> k = pj)
                      /\ QueueRef(k)' <=> QueueRef(k)
  BY <1>a, <1>d, Zenon DEF RunRef, QueueRef
<1>f. \A r \in Queues : qCompleted[r] => qList[r] = <<>>
  BY <1>a, Zenon DEF QueueInv
<1>1. CASE fCompleted
  <2>1. Children(pj) = {} /\ ~QueueRef(pj)
    <3>1. Children(pj) = {} /\ (pjq[pj] # None => qCompleted[pjq[pj]])
      BY <1>1, <1>a, Zenon DEF ControlInv
    <3> QED
      BY <3>1, <1>a, <1>f, EmptyList, Zenon DEF QueueRef
  <2>2. refs[pj] = 0
    <3>1. Cardinality(Children(pj)) = 0 /\ OneIf(QueueRef(pj)) = 0
      BY <2>1, ChildCount, Zenon DEF OneIf
    <3> QED
      BY <3>1, <1>c
  <2>3. CompleteJob(pj, refs)
    BY <1>1, Zenon DEF PostExecute
  <2> HIDE DEF refs
  <2>4. JobCompleted(pj)
    BY <2>1, <2>2, <2>3, <1>a, <1>c, <1>d, CompleteJobEffect, Zenon DEF InFlight
  <2>5. TypeOK'
    BY <2>4, <1>d, Zenon DEF TypeOK, JobCompleted, ControlPoint
  <2>6. ControlInv'
    <3>1. \A k \in Jobs : ejs'[k] # "Running"
      BY <2>4, <1>a, Zenon DEF JobCompleted
    <3> QED
      BY <3>1, <1>d, Zenon DEF ControlInv, InFlight
  <2>7. QueueInv'
    <3> SUFFICES ASSUME NEW r \in Queues PROVE QueueInv!(r)'
      BY Zenon DEF QueueInv
    <3>1. ~InList(pj, qList[r])
      <4> SUFFICES ASSUME InList(pj, qList[r]) PROVE FALSE
        BY Zenon
      <4>1. pjq[pj] = r
        BY <1>a, Zenon DEF QueueInv, InFlight
      <4>2. qCompleted[r]
        BY <4>1, <1>1, <1>a, Zenon DEF ControlInv
      <4>3. qList[r] = <<>>
        BY <4>2, <1>a, Zenon DEF QueueInv
      <4> QED
        BY <4>3, EmptyList, Zenon
    <3>2. \A k \in Jobs : InList(k, qList[r]) =>
             /\ Live(k)' /\ pjq[k] = r
             /\ k # qMain[r] => Children(k)' = {} /\ ejs'[k] = "Suspended"
      <4> SUFFICES ASSUME NEW k \in Jobs, InList(k, qList[r])
                   PROVE  /\ Live(k)' /\ pjq[k] = r
                          /\ k # qMain[r] => Children(k)' = {} /\ ejs'[k] = "Suspended"
        BY Zenon
      <4>1. k # pj /\ Live(k) /\ pjq[k] = r
        BY <3>1, Zenon DEF QueueInv
      <4>2. ASSUME k # qMain[r] PROVE Children(k) = {} /\ ejs[k] = "Suspended"
        BY <4>1, <4>2, Zenon DEF QueueInv
      <4>3. Live(k)'
        BY <4>1, <2>4, Zenon DEF JobCompleted
      <4>4. ASSUME k # qMain[r] PROVE Children(k)' = {} /\ ejs'[k] = "Suspended"
        <5>1. Children(k) = {} /\ ejs[k] = "Suspended"
          BY <4>2, <4>4, Zenon
        <5>2. k # pjParent[pj]
          BY <5>1, <2>4, Zenon DEF JobCompleted
        <5> QED
          BY <4>1, <5>1, <5>2, <2>4, Zenon DEF JobCompleted
      <4> QED
        BY <4>1, <4>3, <4>4, Zenon
    <3>3. /\ NoDup(qList[r])
          /\ ~qCompleted[r] => (qList[r] = <<>> <=> qMain[r] = None)
          /\ ~qCompleted[r] /\ qList[r] # <<>> => Head(qList[r]) = qMain[r]
          /\ qCompleted[r] => qList[r] = <<>>
      BY <1>f, Zenon DEF QueueInv
    <3> QED
      BY <3>2, <3>3, <1>d, SMTT(30)
  <2>8. RefsExact'
    <3> SUFFICES ASSUME NEW k \in Jobs
                 PROVE  ulpRefs'[k] = Cardinality(Children(k)')
                          + (IF RunRef(k)' THEN 1 ELSE 0)
                          + (IF QueueRef(k)' THEN 1 ELSE 0)
      BY Zenon DEF RefsExact
    <3>1. CASE k = pj
      <4>1. Children(k)' = {}
        BY <3>1, <2>1, <2>4, Zenon DEF JobCompleted
      <4>2. Cardinality(Children(k)') = 0
        BY <4>1, FS_EmptySet, Zenon
      <4>3. ulpRefs'[k] = 0
        BY <3>1, <2>4, Zenon DEF JobCompleted
      <4>4. ~RunRef(k)' /\ ~QueueRef(k)'
        BY <3>1, <1>e, <2>1, Zenon
      <4> QED
        BY <4>2, <4>3, <4>4
    <3>2. CASE k # pj
      <4>1. /\ ulpRefs'[k] = ulpRefs[k] - OneIf(k = pjParent[pj])
            /\ Cardinality(Children(k)') = Cardinality(Children(k)) - OneIf(k = pjParent[pj])
        BY <3>2, <2>4, Zenon DEF JobCompleted
      <4>2. ~RunRef(k)' /\ ~RunRef(k) /\ (QueueRef(k)' <=> QueueRef(k))
        BY <3>2, <1>e, Zenon
      <4>3. ulpRefs[k] = Cardinality(Children(k)) + (IF RunRef(k) THEN 1 ELSE 0)
                           + (IF QueueRef(k) THEN 1 ELSE 0)
        BY Zenon DEF RefsExact
      <4> QED
        BY <4>1, <4>2, <4>3, ChildCount DEF OneIf
    <3> QED
      BY <3>1, <3>2, Zenon
  <2> QED
    BY <2>4, <2>5, <2>6, <2>7, <2>8, Zenon DEF JobCompleted
<1>2. CASE ~fCompleted
  <2> DEFINE s == IF ulpRefs[pj] = 1 THEN "Waiting" ELSE "Suspended"
  <2>0. /\ ulpRefs' = refs /\ ejs' = [ejs EXCEPT ![pj] = s] /\ ulpTotal' = ulpTotal
        /\ waiting' = IF ulpRefs[pj] = 1 THEN <<pj>> \o waiting ELSE waiting
        /\ ulpQueued' = IF ulpRefs[pj] = 1 THEN ulpQueued + 1 ELSE ulpQueued
    BY <1>2, Zenon DEF PostExecute
  <2>1. /\ ejs'[pj] = s /\ \A k \in Jobs : k # pj => ejs'[k] = ejs[k]
        /\ ejs' \in [Jobs -> JobState]
    BY <2>0, <1>a, Zenon DEF TypeOK, JobState
  <2>2. \A k \in Jobs : Live(k)' <=> Live(k)
    BY <2>1, <1>a, Zenon DEF Live
  <2>3. (\A k : Children(k)' = Children(k)) /\ UNCHANGED {k \in Jobs : Live(k)}
    BY <2>2, <1>d, SameTree, Zenon
  <2>4. /\ ulpRefs' \in [Jobs -> Nat] /\ ulpRefs'[pj] = ulpRefs[pj] - 1
        /\ ulpRefs'[pj] = Cardinality(Children(pj)) + OneIf(QueueRef(pj))
        /\ \A k \in Jobs : k # pj => ulpRefs'[k] = ulpRefs[k]
    BY <2>0, <1>a, <1>c, Zenon DEF TypeOK
  <2>5. ulpRefs[pj] = 1 => Children(pj) = {} /\ ~QueueRef(pj) /\ ulpRefs'[pj] = 0
    BY <2>4, ChildCount DEF OneIf
  <2>6. ulpRefs[pj] # 1 => ulpRefs'[pj] > 0
    BY <2>4, <1>a DEF TypeOK
  <2> HIDE DEF refs
  <2>7. WaitingExact' /\ waiting' \in Seq(Jobs) /\ ulpQueued' \in Nat
    <3>0. /\ waiting \in Seq(Jobs) /\ ~InList(pj, waiting) /\ NoDup(waiting)
          /\ ulpQueued = Len(waiting) /\ Len(waiting) \in Nat
      BY <1>a, Zenon DEF WaitingExact, TypeOK
    <3>1. CASE ulpRefs[pj] = 1
      <4>1. waiting' = <<pj>> \o waiting /\ ulpQueued' = ulpQueued + 1
        BY <3>1, <2>0, Zenon
      <4>2. /\ waiting' \in Seq(Jobs) /\ Len(waiting') = Len(waiting) + 1 /\ NoDup(waiting')
            /\ \A k : InList(k, waiting') <=> k = pj \/ InList(k, waiting)
        BY <1>a, <3>0, <4>1, PushList, Zenon
      <4>3. \A k \in Jobs : InList(k, waiting') <=> ejs'[k] = "Waiting"
        BY <3>1, <4>2, <2>1, Zenon DEF WaitingExact
      <4>4. \A k \in Jobs : InList(k, waiting') => ulpRefs'[k] = 0
        BY <3>1, <4>2, <2>4, <2>5, Zenon DEF WaitingExact
      <4>5. ulpTotal' = Cardinality({j \in Jobs : Live(j)}')
        BY <2>0, <2>3, ZenonT(30) DEF WaitingExact
      <4>6. ulpQueued' = Len(waiting') /\ ulpQueued' \in Nat
        BY <3>0, <4>1, <4>2
      <4>7. WaitingExact'
        BY <4>2, <4>3, <4>4, <4>5, <4>6, Zenon DEF WaitingExact
      <4> QED
        BY <4>2, <4>6, <4>7, Zenon
    <3>2. CASE ulpRefs[pj] # 1
      <4>1. waiting' = waiting /\ ulpQueued' = ulpQueued
        BY <3>2, <2>0, Zenon
      <4>2. \A k \in Jobs : InList(k, waiting) <=> ejs'[k] = "Waiting"
        BY <3>0, <3>2, <2>1, Zenon DEF WaitingExact
      <4>3. \A k \in Jobs : InList(k, waiting) => ulpRefs'[k] = 0
        BY <3>0, <2>4, Zenon DEF WaitingExact
      <4>4. ulpTotal' = Cardinality({j \in Jobs : Live(j)}')
        BY <2>0, <2>3, ZenonT(30) DEF WaitingExact
      <4>5. WaitingExact'
        BY <3>0, <4>1, <4>2, <4>3, <4>4, Zenon DEF WaitingExact
      <4> QED
        BY <3>0, <4>1, <4>5, Zenon
    <3> QED
      BY <3>1, <3>2, Zenon
  <2>8. TypeOK'
    BY <1>d, <2>0, <2>1, <2>4, <2>7, Zenon DEF TypeOK, ControlPoint
  <2>9. ControlInv'
    <3>1. \A k \in Jobs : ejs'[k] # "Running"
      BY <2>1, <1>a, Zenon
    <3> QED
      BY <3>1, <1>d, Zenon DEF ControlInv, InFlight
  <2>10. TreeInv'
    <3> SUFFICES ASSUME NEW k \in Jobs, Live(k)' PROVE TreeInv!(k)'
      BY Zenon DEF TreeInv
    <3>1. Live(k) /\ (pjParent[k] # None => pjParent[k] \in Jobs)
      BY <2>2, Zenon DEF TypeOK
    <3>2. ejs'[k] = "Suspended" => ulpRefs'[k] > 0
      <4>1. CASE k = pj
        BY <4>1, <2>1, <2>6, Zenon
      <4>2. CASE k # pj
        BY <3>1, <4>2, <2>1, <2>4, Zenon DEF TreeInv
      <4> QED
        BY <4>1, <4>2, Zenon
    <3> QED
      BY <3>1, <3>2, <1>d, <2>2, Zenon DEF TreeInv
  <2>11. QueueInv'
    <3> SUFFICES ASSUME NEW r \in Queues PROVE QueueInv!(r)'
      BY Zenon DEF QueueInv
    <3>1. \A k \in Jobs : InList(k, qList[r]) =>
             /\ Live(k)' /\ pjq[k] = r
             /\ k # qMain[r] => Children(k)' = {} /\ ejs'[k] = "Suspended"
      <4> SUFFICES ASSUME NEW k \in Jobs, InList(k, qList[r])
                   PROVE  /\ Live(k)' /\ pjq[k] = r
                          /\ k # qMain[r] => Children(k)' = {} /\ ejs'[k] = "Suspended"
        BY Zenon
      <4>1. Live(k)' /\ pjq[k] = r
        BY <2>2, Zenon DEF QueueInv
      <4>2. ASSUME k # qMain[r] PROVE Children(k) = {} /\ (k # pj => ejs[k] = "Suspended")
        BY <4>2, Zenon DEF QueueInv
      <4>3. ASSUME k # qMain[r], k = pj PROVE ulpRefs[pj] # 1
        BY <4>1, <4>3, <2>5, Zenon DEF QueueRef
      <4>4. ASSUME k # qMain[r] PROVE Children(k)' = {} /\ ejs'[k] = "Suspended"
        BY <4>2, <4>3, <4>4, <2>1, <2>3, Zenon
      <4> QED
        BY <4>1, <4>4, Zenon
    <3>2. /\ NoDup(qList[r])
          /\ ~qCompleted[r] => (qList[r] = <<>> <=> qMain[r] = None)
          /\ ~qCompleted[r] /\ qList[r] # <<>> => Head(qList[r]) = qMain[r]
          /\ qCompleted[r] => qList[r] = <<>>
      BY <1>f, Zenon DEF QueueInv
    <3> QED
      BY <3>1, <3>2, <1>d, SMTT(30)
  <2>12. RefsExact'
    <3> SUFFICES ASSUME NEW k \in Jobs
                 PROVE  ulpRefs'[k] = Cardinality(Children(k))
                          + (IF RunRef(k)' THEN 1 ELSE 0)
                          + (IF QueueRef(k)' THEN 1 ELSE 0)
      BY <2>3, Zenon DEF RefsExact
    <3>1. CASE k = pj
      BY <3>1, <1>e, <2>4, ChildCount DEF OneIf
    <3>2. CASE k # pj
      BY <3>2, <1>e, <2>4, Zenon DEF RefsExact
    <3> QED
      BY <3>1, <3>2, Zenon
  <2> QED
    BY <2>7, <2>8, <2>9, <2>10, <2>11, <2>12, Zenon
<1> QED
  BY <1>1, <1>2, Zenon
----------------------------------------------------------------------------
(* A step that changes nothing keeps the invariant.                        *)
LEMMA UnchangedInv == IInv /\ UNCHANGED vars => IInv'
<1> SUFFICES ASSUME IInv, UNCHANGED vars PROVE IInv'
  BY Zenon
<1>1. UNCHANGED <<ejs, pjParent, pjq, ulpRefs, level, suspends, waiting, ulpTotal,
                  ulpRunning, ulpQueued, qMain, qCompleted, qList, pc, pj, fCompleted>>
  BY Zenon DEF vars, jobVars, counters, queueVars
<1>2. (\A k : Children(k)' = Children(k)) /\ UNCHANGED {j \in Jobs : Live(j)}
  BY <1>1, SameTree, Zenon DEF Live
<1>3. TypeOK' /\ ControlInv' /\ TreeInv'
  BY <1>1, <1>2, Zenon DEF IInv, TypeOK, ControlInv, TreeInv, Live
<1>4. QueueInv'
  BY <1>1, <1>2, ZenonT(30) DEF IInv, QueueInv, Live
<1>5. RefsExact' /\ WaitingExact'
  BY <1>1, <1>2, ZenonT(30) DEF IInv, RefsExact, WaitingExact, RunRef, QueueRef
<1> QED
  BY <1>3, <1>4, <1>5, Zenon DEF IInv

(* Every step of the scheduler keeps the invariant.                        *)
LEMMA NextInv == IInv /\ [Next]_vars => IInv'
  BY RunReturnsInv, PjRetrieveInv, PreExecuteInv, EjqrCompletedInv, EjqrMainAgainInv,
     EjqrEnterInv, AddChildInv, FExecuteSuspendedInv, FExecuteCompletedInv,
     NotifyNextInv, NotifyDoneInv, PostExecuteInv, ScheduleMainJobInv, ResetQueueInv,
     UnchangedInv, Zenon DEF Next, RunStep

(* IInv is an invariant of the scheduler.                                  *)
THEOREM SchedulerInvariant == Spec => []IInv
  BY InitInv, NextInv, PTL DEF Spec

(* The fields of CJob, CJobQueue and CScheduler keep their types; the      *)
(* unsigned counters are never decremented below zero.                     *)
THEOREM SchedulerTypes == Spec => []TypeOK
<1>1. IInv => TypeOK
  BY Zenon DEF IInv
<1> QED
  BY <1>1, SchedulerInvariant, PTL

(* Children, the thread and the job queues share one reference count per   *)
(* job, and it is exact whatever their order.                              *)
THEOREM SchedulerRefsExact == Spec => []RefsExact
<1>1. IInv => RefsExact
  BY Zenon DEF IInv
<1> QED
  BY <1>1, SchedulerInvariant, PTL

(* The waiting list is the set of runnable jobs, and the counters of       *)
(* CScheduler count it and the unfinished jobs.                            *)
THEOREM SchedulerWaitingExact == Spec => []WaitingExact
<1>1. IInv => WaitingExact
  BY Zenon DEF IInv
<1> QED
  BY <1>1, SchedulerInvariant, PTL

(* CJobQueue forces unique execution of an operation.                      *)
THEOREM SchedulerUniqueExecution == Spec => []UniqueExecution
<1>1. IInv => UniqueExecution
  <2> SUFFICES ASSUME IInv PROVE UniqueExecution
    BY Zenon
  <2>1. pc = "Execute" /\ pjq[pj] # None => qMain[pjq[pj]] = pj /\ ~qCompleted[pjq[pj]]
    BY ExecutingMain, Zenon
  <2>2. ASSUME NEW q \in Queues, ~qCompleted[q], qMain[q] # None
        PROVE  /\ Live(qMain[q]) /\ pjq[qMain[q]] = q
               /\ qList[q] # <<>> /\ Head(qList[q]) = qMain[q]
    <3>1. qList[q] # <<>> /\ Head(qList[q]) = qMain[q]
      BY <2>2, Zenon DEF IInv, QueueInv
    <3>2. qList[q] \in Seq(Jobs) /\ NoDup(qList[q])
      BY <2>2, SMTT(30) DEF IInv, QueueInv, TypeOK
    <3>3. qMain[q] \in Jobs /\ InList(qMain[q], qList[q])
      BY <3>1, <3>2, TailList, SMTT(30)
    <3> QED
      BY <2>2, <3>1, <3>3, Zenon DEF IInv, QueueInv
  <2> QED
    BY <2>1, <2>2, Zenon DEF UniqueExecution
<1> QED
  BY <1>1, SchedulerInvariant, PTL

(* CScheduler::Run leaves no job and no queued job behind, provided that   *)
(* the work jobs wait for is ordered by rank.                              *)
THEOREM SchedulerNothingStranded == Spec => []NothingStranded
<1>1. IInv => NothingStranded
  BY IdleIsEmpty, Zenon DEF NothingStranded
<1> QED
  BY <1>1, SchedulerInvariant, PTL

(* Jobs are released bottom up, and jobs of a queue only after the queue's *)
(* operation is completed: a step releases only the job PostExecute or     *)
(* NotifyNext is about.                                                    *)
THEOREM SchedulerReleasedInOrder == Spec => ReleasedInOrder
<1> DEFINE InOrder == \A j \in Jobs : Released(j) =>
                         Children(j) = {} /\ (pjq[j] # None => qCompleted[pjq[j]])
<1>1. ASSUME IInv, [Next]_vars PROVE InOrder
  <2> SUFFICES ASSUME NEW j \in Jobs, Live(j), ejs'[j] = "Free"
               PROVE  Children(j) = {} /\ (pjq[j] # None => qCompleted[pjq[j]])
    BY Zenon DEF Released, Live
  <2> USE <1>1 DEF Live
  <2>1. ASSUME NEW i \in Jobs, NEW q \in Queues \cup {None}, NEW p, NEW l, Add(i, q, p, l)
        PROVE  FALSE
    BY <2>1, Zenon DEF Add, IInv, TypeOK
  <2>2. CASE PostExecute
    <3>1. j = pj /\ fCompleted /\ pc = "PostExecute"
      <4>1. pc = "PostExecute" /\ pj \in Jobs /\ ejs[pj] = "Running"
        BY <2>2, InFlightJob, Zenon DEF PostExecute, InFlight
      <4>2. ~fCompleted => ejs'[j] # "Free"
        BY <2>2, <4>1, Zenon DEF PostExecute, IInv, TypeOK
      <4>3. fCompleted => j = pj
        <5> SUFFICES ASSUME fCompleted, j # pj PROVE FALSE
          BY Zenon
        <5>1. PICK refs : CompleteJob(pj, refs)
          BY <2>2, Zenon DEF PostExecute
        <5> QED
          BY <4>1, <5>1, Zenon DEF CompleteJob, IInv, TypeOK
      <4> QED
        BY <4>1, <4>2, <4>3, Zenon
    <3> QED
      BY <3>1, Zenon DEF IInv, ControlInv
  <2>3. ASSUME NEW q \in Queues, NotifyNext(q)
        PROVE  Children(j) = {} /\ (pjq[j] # None => qCompleted[pjq[j]])
    <3>1. pc = "Notify" /\ pjq[pj] = q /\ qList[q] # <<>> /\ pj \in Jobs /\ Children(pj) = {}
      BY <2>3, InFlightJob, SMTT(30) DEF NotifyNext, InFlight, IInv, ControlInv
    <3>2. qCompleted[q] /\ qMain[q] = pj
      BY <2>3, <3>1, Zenon DEF IInv, QueueInv
    <3>3. qList[q] \in Seq(Jobs) /\ NoDup(qList[q])
      BY <2>3, SMTT(30) DEF IInv, QueueInv, TypeOK
    <3> DEFINE h == Head(qList[q])
    <3>4. h \in Jobs /\ InList(h, qList[q])
      BY <3>1, <3>3, TailList, Zenon
    <3>5. pjq[h] = q /\ Children(h) = {}
      BY <2>3, <3>1, <3>2, <3>4, Zenon DEF IInv, QueueInv
    <3>6. \/ UNCHANGED ejs
          \/ \E refs : CompleteJob(h, refs)
      BY <2>3, Zenon DEF NotifyNext
    <3> HIDE DEF h
    <3>7. j = h
      BY <3>4, <3>6, Zenon DEF CompleteJob, IInv, TypeOK
    <3> QED
      BY <3>2, <3>5, <3>7, Zenon
  <2>4. CASE UNCHANGED ejs
    BY <2>4, Zenon
  <2>5. CASE PjRetrieve
    <3>1. Head(waiting) \in Jobs
      BY <2>5, TailList, Zenon DEF PjRetrieve, IInv, TypeOK, WaitingExact
    <3> QED
      BY <2>5, <3>1, Zenon DEF PjRetrieve, IInv, TypeOK
  <2> QED
    BY <2>1, <2>2, <2>3, <2>4, <2>5, ZenonT(30) DEF Next, RunStep, vars, jobVars, RunReturns, PreExecute,
       EjqrCompleted, EjqrMainAgain, EjqrEnter, AddChild, FExecuteSuspended,
       FExecuteCompleted, NotifyDone, ScheduleMainJob, ResetQueue
<1>2. IInv /\ [Next]_vars =>
        [\A j \in Jobs : Released(j) =>
              /\ Children(j) = {}
              /\ pjq[j] # None => qCompleted[pjq[j]]]_vars
  BY <1>1, Zenon
<1> QED
  BY <1>2, SchedulerInvariant, PTL DEF Spec, ReleasedInOrder
----------------------------------------------------------------------------
(* The order in which one thread with a LIFO list serves the jobs, and why *)
(* a job queue is contended only when jobs wait in a circle.  OrderInv     *)
(* says that the scheduler's list is the stack of a depth-first walk.  It  *)
(* is inductive together with IInv.                                        *)

(* Line(j) is a job with those that wait for it.  A job that a queue holds *)
(* back keeps all its ancestors from completing, for ever as it turns out. *)
Line(j) == Ancestors(j) \cup {j}
HeldBack(j) == \E q \in Queues : QueuedBehind(j, q)
Stuck(j) == \E x \in Jobs : HeldBack(x) /\ j \in Line(x)

(* The line of the job that runs or, between two jobs, is the next to run. *)
OnLine(j) ==
    IF pc \in InFlight THEN j \in Line(pj) ELSE waiting # <<>> /\ j \in Line(Head(waiting))
OpenMain(j) == pjq[j] # None /\ ~qCompleted[pjq[j]] /\ qMain[pjq[j]] = j
Below(a, b) == pjParent[b] = None \/ pjParent[b] \in Ancestors(a)

Circle == \E q \in Queues, j \in Jobs : QueuedBehind(j, q) /\ qMain[q] \in Ancestors(j)

(* The waiting list is a depth-first stack: the parent of a job in it is   *)
(* an ancestor of every job above.                                         *)
StackInv ==
    /\ \A i, k \in DOMAIN waiting : i < k => Below(waiting[i], waiting[k])
    /\ pc \in InFlight =>
          /\ \A i \in DOMAIN waiting : Below(pj, waiting[i]) \/ pjParent[waiting[i]] = pj
          /\ \A c \in Children(pj) : ejs[c] = "Waiting"

(* A job that has begun is on the line of the running one or stuck, and so *)
(* is the main job of an open queue.                                       *)
LineInv ==
    \A j \in Jobs : Live(j) =>
        OnLine(j) \/ Stuck(j) \/ (ejs[j] = "Waiting" /\ ~OpenMain(j))

(* So only an ancestor or a stuck job can hold a job back.                 *)
HeldInv ==
    /\ \A q \in Queues, j \in Jobs : QueuedBehind(j, q) => Stuck(qMain[q])
    /\ (\E j \in Jobs : HeldBack(j)) => Circle

Acyclic == \A j \in Jobs : Live(j) => j \notin Ancestors(j)
Unheld == pc = "Notify" => \A j \in Jobs : ~QueuedBehind(j, pjq[pj])

OrderInv == Acyclic /\ StackInv /\ LineInv /\ HeldInv /\ Unheld
----------------------------------------------------------------------------
(* Ancestors, which is defined as the smallest set of its kind, contains   *)
(* the parent and its ancestors, and nothing else.                         *)
Closed(S, j) == \A k \in S \cup {j} : pjParent[k] # None => pjParent[k] \in S

(* The parent of a job of the line is an ancestor.                         *)
LEMMA ParentAbove ==
    ASSUME TypeOK, NEW j \in Jobs, NEW k \in Line(j), pjParent[k] # None
    PROVE  pjParent[k] \in Ancestors(j)
  BY Zenon DEF Line, Ancestors, TypeOK

(* Ancestors of ancestors are ancestors.                                   *)
LEMMA AboveTrans ==
    ASSUME NEW j \in Jobs, NEW k \in Line(j)
    PROVE  Line(k) \subseteq Line(j) /\ Ancestors(k) \subseteq Ancestors(j)
<1>1. ASSUME NEW a \in Ancestors(k), NEW S \in SUBSET Jobs, Closed(S, j) PROVE a \in S
  <2>1. k \in S \cup {j}
    BY <1>1, Zenon DEF Line, Ancestors, Closed
  <2>2. Closed(S, k)
    BY <1>1, <2>1, Zenon DEF Closed
  <2>. QED
    BY <1>1, <2>2, Zenon DEF Ancestors, Closed
<1>2. Ancestors(k) \subseteq Ancestors(j)
  BY <1>1, Zenon DEF Ancestors, Closed
<1>. QED
  BY <1>2, Zenon DEF Line

(* The ancestors of a job lie within every set that holds its parent and   *)
(* the parents of its members.                                             *)
LEMMA AboveWithin ==
    ASSUME NEW j \in Jobs, NEW S \in SUBSET Jobs, Closed(S, j)
    PROVE  Ancestors(j) \subseteq S
  BY Zenon DEF Ancestors, Closed

(* Ancestors are the parent and its line.                                  *)
LEMMA AboveParent ==
    ASSUME TypeOK, NEW j \in Jobs
    PROVE  Ancestors(j) = IF pjParent[j] = None THEN {} ELSE Line(pjParent[j])
<1>1. CASE pjParent[j] = None
  BY <1>1, Zenon DEF Ancestors
<1>2. CASE pjParent[j] # None
  <2>1. pjParent[j] \in Jobs /\ pjParent[j] \in Ancestors(j)
    BY <1>2, ParentAbove, Zenon DEF TypeOK, Line
  <2>2. Line(pjParent[j]) \subseteq Ancestors(j)
    BY <2>1, AboveTrans, Zenon DEF Line
  <2>3. Closed(Line(pjParent[j]), j)
    BY <2>1, ParentAbove, Zenon DEF Closed, Line
  <2>4. Line(pjParent[j]) \in SUBSET Jobs
    BY <2>1, Zenon DEF Line, Ancestors
  <2>. QED
    BY <1>2, <2>2, <2>3, <2>4, AboveWithin, Zenon
<1>. QED
  BY <1>1, <1>2, Zenon

(* The ancestors of an unfinished job are unfinished and have children.    *)
LEMMA AboveLive ==
    ASSUME IInv, NEW j \in Jobs, Live(j), NEW a \in Ancestors(j)
    PROVE  a \in Jobs /\ Live(a) /\ Children(a) # {}
<1> DEFINE S == {b \in Jobs : Live(b) /\ Children(b) # {}}
<1>1. ASSUME NEW k \in Jobs, Live(k), pjParent[k] # None PROVE pjParent[k] \in S
  <2>1. pjParent[k] \in Jobs /\ Live(pjParent[k])
    BY <1>1, Zenon DEF IInv, TypeOK, TreeInv
  <2>2. k \in Children(pjParent[k])
    BY <1>1, Zenon DEF Children
  <2>. QED
    BY <2>1, <2>2, Zenon
<1>2. Closed(S, j)
  BY <1>1, Zenon DEF Closed
<1>. QED
  BY <1>2, AboveWithin, Zenon

(* Steps that leave the parents alone leave the ancestors alone.           *)
LEMMA SameAncestors ==
    ASSUME pjParent' = pjParent
    PROVE  \A j : Ancestors(j)' = Ancestors(j) /\ Line(j)' = Line(j)
  BY Zenon DEF Ancestors, Line

(* Steps after which the same jobs are held back behind the same ones.     *)
SameHolds ==
    /\ pjParent' = pjParent
    /\ \A q \in Queues, j \in Jobs :
          /\ QueuedBehind(j, q)' <=> QueuedBehind(j, q)
          /\ QueuedBehind(j, q) => qMain'[q] = qMain[q]

(* Then the same jobs are stuck.                                           *)
LEMMA SameHeld ==
    ASSUME SameHolds
    PROVE  /\ \A j \in Jobs : HeldBack(j)' <=> HeldBack(j)
           /\ \A j : Stuck(j)' <=> Stuck(j)
           /\ HeldInv => HeldInv'
<1>1. \A j \in Jobs : HeldBack(j)' <=> HeldBack(j)
  BY Zenon DEF SameHolds, HeldBack
<1>2. \A j : Ancestors(j)' = Ancestors(j) /\ Line(j)' = Line(j)
  BY SameAncestors, Zenon DEF SameHolds
<1>3. \A j : Stuck(j)' <=> Stuck(j)
  BY <1>1, <1>2, Zenon DEF Stuck
<1>4. Circle => Circle'
  BY <1>2, Zenon DEF Circle, SameHolds
<1>5. ASSUME HeldInv, NEW q \in Queues, NEW j \in Jobs, QueuedBehind(j, q)'
      PROVE  Stuck(qMain[q])'
  <2>1. QueuedBehind(j, q) /\ qMain'[q] = qMain[q]
    BY <1>5, Zenon DEF SameHolds
  <2>. QED
    BY <1>5, <2>1, <1>2, <1>1, Zenon DEF HeldInv, Stuck
<1>. QED
  BY <1>1, <1>3, <1>4, <1>5, Zenon DEF HeldInv

(* Steps of a job in flight that change neither the jobs nor the lists.    *)
LEMMA QuietOrder ==
    ASSUME IInv, OrderInv, pc \in InFlight, pc' \in InFlight,
           ejs' = ejs, pjParent' = pjParent, pjq' = pjq, waiting' = waiting, pj' = pj,
           qMain' = qMain, qList' = qList,
           \A q \in Queues : qCompleted[q] => qCompleted'[q],
           Unheld'
    PROVE  OrderInv'
<1>1. \A j : Ancestors(j)' = Ancestors(j) /\ Line(j)' = Line(j)
  BY SameAncestors, Zenon
<1>2. SameHolds
  BY Zenon DEF SameHolds, QueuedBehind
<1>3. /\ \A j : Stuck(j)' <=> Stuck(j)
      /\ HeldInv'
  BY <1>2, SameHeld, Zenon DEF OrderInv
<1>4. Acyclic'
  BY <1>1, Zenon DEF OrderInv, Acyclic, Live
<1>5. \A j : Children(j)' = Children(j)
  BY Zenon DEF Children, Live
<1>6. StackInv'
  BY <1>1, <1>5, Zenon DEF OrderInv, StackInv, Below
<1>7. LineInv'
  <2>1. ASSUME NEW j \in Jobs, ~OpenMain(j) PROVE ~OpenMain(j)'
    <3>1. pjq[j] \in Queues \cup {None}
      BY Zenon DEF IInv, TypeOK
    <3>. QED
      BY <2>1, <3>1, Zenon DEF OpenMain
  <2>2. \A j \in Jobs : OnLine(j)' <=> OnLine(j)
    BY <1>1, Zenon DEF OnLine
  <2>. QED
    BY <1>3, <2>1, <2>2, Zenon DEF OrderInv, LineInv, Live
<1>. QED
  BY <1>3, <1>4, <1>6, <1>7, Zenon DEF OrderInv

(* A main job that has no children holds nobody back: a job that it held   *)
(* back would be stuck below it.                                           *)
LEMMA ChildlessHoldsNone ==
    ASSUME IInv, OrderInv, NEW q \in Queues, Children(qMain[q]) = {}
    PROVE  \A j \in Jobs : ~QueuedBehind(j, q)
<1> SUFFICES ASSUME NEW j \in Jobs, QueuedBehind(j, q) PROVE FALSE
  BY Zenon
<1>1. PICK x \in Jobs : HeldBack(x) /\ qMain[q] \in Line(x)
  BY Zenon DEF OrderInv, HeldInv, Stuck
<1>2. PICK r \in Queues : QueuedBehind(x, r)
  BY <1>1, Zenon DEF HeldBack
<1>3. Live(x) /\ pjq[x] = r /\ x # qMain[r]
  BY <1>2, Zenon DEF QueuedBehind, IInv, QueueInv
<1>4. qMain[q] # x
  <2>1. ASSUME qMain[q] = x PROVE r = q
    <3>1. qList[q] # <<>>
      BY DEF QueuedBehind, InList
    <3>2. CASE qCompleted[q]
      <4>1. pc = "Notify" /\ pjq[pj] = q
        BY <3>1, <3>2, Zenon DEF IInv, QueueInv
      <4>. QED
        BY <4>1, Zenon DEF OrderInv, Unheld
    <3>3. CASE ~qCompleted[q]
      <4>1. Head(qList[q]) = qMain[q] /\ qList[q] \in Seq(Jobs)
        BY <3>1, <3>3, Zenon DEF IInv, QueueInv, TypeOK
      <4>2. InList(qMain[q], qList[q])
        BY <3>1, <4>1 DEF InList
      <4>. QED
        BY <2>1, <4>2, <1>3, Zenon DEF IInv, QueueInv
    <3>. QED
      BY <3>2, <3>3, Zenon
  <2>. QED
    BY <2>1, <1>3, Zenon
<1>5. qMain[q] \in Ancestors(x)
  BY <1>1, <1>4, Zenon DEF Line
<1>. QED
  BY <1>3, <1>5, AboveLive, Zenon

(* Steps of the running job before and after its execution.                *)
LEMMA QuietStepsOrder ==
    ASSUME IInv, OrderInv,
           \/ PreExecute \/ EjqrCompleted \/ EjqrMainAgain \/ FExecuteSuspended \/ NotifyDone
    PROVE  OrderInv'
<1>1. /\ pc \in InFlight /\ pc' \in InFlight /\ pc' # "Notify"
      /\ ejs' = ejs /\ pjParent' = pjParent /\ pjq' = pjq /\ waiting' = waiting /\ pj' = pj
      /\ qMain' = qMain /\ qList' = qList /\ qCompleted' = qCompleted
  BY Zenon DEF PreExecute, EjqrCompleted, EjqrMainAgain, FExecuteSuspended, NotifyDone, InFlight,
         jobVars, counters, queueVars
<1>2. Unheld'
  BY <1>1, Zenon DEF Unheld
<1>. QED
  BY <1>1, <1>2, QuietOrder, Zenon

(* CJob::FExecute's completion: nobody is held back behind the job.        *)
LEMMA FExecuteCompletedOrder == ASSUME IInv, OrderInv, FExecuteCompleted PROVE OrderInv'
<1>1. /\ pc = "Execute" /\ pc' \in {"Notify", "PostExecute"} /\ Children(pj) = {}
      /\ ejs' = ejs /\ pjParent' = pjParent /\ pjq' = pjq /\ waiting' = waiting /\ pj' = pj
      /\ qMain' = qMain /\ qList' = qList
      /\ pc' = "Notify" => pjq[pj] # None
  BY Zenon DEF FExecuteCompleted, jobVars, counters
<1>2. \A q \in Queues : qCompleted[q] => qCompleted'[q]
  BY Zenon DEF FExecuteCompleted, IInv, TypeOK
<1>3. pj \in Jobs
  BY <1>1, InFlightJob, Zenon DEF InFlight
<1>4. Unheld'
  <2>1. CASE pjq[pj] = None
    BY <1>1, <2>1, Zenon DEF Unheld
  <2>2. CASE pjq[pj] # None
    <3>1. pjq[pj] \in Queues /\ qMain[pjq[pj]] = pj
      BY <1>1, <1>3, <2>2, Zenon DEF IInv, TypeOK, QueueInv
    <3>2. \A j \in Jobs : ~QueuedBehind(j, pjq[pj])
      BY <1>1, <3>1, ChildlessHoldsNone, Zenon
    <3>. QED
      BY <1>1, <3>2, Zenon DEF Unheld, QueuedBehind
  <2>. QED
    BY <2>1, <2>2, Zenon
<1>. QED
  BY <1>1, <1>2, <1>4, QuietOrder, Zenon DEF InFlight

(* CJobQueue::NotifyCompleted: the queue lists its main job only.          *)
LEMMA NotifyNextOrder ==
    ASSUME IInv, OrderInv, NEW q \in Queues, NotifyNext(q) PROVE OrderInv'
<1>1. /\ pc = "Notify" /\ pc' = "Notify" /\ q = pjq[pj] /\ qList[q] # <<>>
      /\ pjParent' = pjParent /\ pjq' = pjq /\ pj' = pj /\ qMain' = qMain /\ qCompleted' = qCompleted
      /\ qList' = [qList EXCEPT ![q] = Tail(@)]
  BY Zenon DEF NotifyNext
<1>2. pj \in Jobs /\ qList[q] \in Seq(Jobs) /\ qList \in [Queues -> Seq(Jobs)] /\ qMain[q] = pj
  BY <1>1, InFlightJob, Zenon DEF IInv, TypeOK, QueueInv, InFlight
<1>3. Head(qList[q]) = pj /\ InList(pj, qList[q])
  <2>1. Head(qList[q]) \in Jobs /\ InList(Head(qList[q]), qList[q])
    BY <1>1, <1>2 DEF InList
  <2>. QED
    BY <1>1, <1>2, <2>1, Zenon DEF OrderInv, Unheld, QueuedBehind
<1>4. ulpRefs[pj] # 1
  <2>1. RunRef(pj) /\ QueueRef(pj)
    BY <1>1, <1>2, <1>3, SchedulerAssumption, Zenon DEF RunRef, QueueRef
  <2>2. Cardinality(Children(pj)) \in Nat
    BY ChildCount, Zenon
  <2>3. ulpRefs[pj] = Cardinality(Children(pj)) + 1 + 1
    BY <1>2, <2>1, Zenon DEF IInv, RefsExact
  <2>. QED
    BY <2>2, <2>3
<1>5. ejs' = ejs /\ waiting' = waiting
  BY <1>1, <1>3, <1>4, Zenon DEF NotifyNext
<1>6. \A j \in Jobs : ~QueuedBehind(j, q)
  BY <1>1, Zenon DEF OrderInv, Unheld
<1>7. \A j : InList(j, Tail(qList[q])) => InList(j, qList[q])
  BY <1>1, <1>2 DEF InList
<1>8. SameHolds
  <2>1. \A j \in Jobs : ~QueuedBehind(j, q)'
    BY <1>1, <1>2, <1>6, <1>7, Zenon DEF QueuedBehind
  <2>2. \A j \in Jobs, r \in Queues \ {q} : QueuedBehind(j, r)' <=> QueuedBehind(j, r)
    BY <1>1, <1>2, Zenon DEF QueuedBehind
  <2>. QED
    BY <1>1, <1>6, <2>1, <2>2, Zenon DEF SameHolds
<1>9. (\A j : Stuck(j)' <=> Stuck(j)) /\ HeldInv'
  BY <1>8, SameHeld, Zenon DEF OrderInv
<1>10. \A j : Ancestors(j)' = Ancestors(j) /\ Line(j)' = Line(j)
  BY <1>1, SameAncestors, Zenon
<1>11. \A j : Children(j)' = Children(j)
  BY <1>1, <1>5, Zenon DEF Children, Live
<1>12. Acyclic' /\ StackInv'
  BY <1>1, <1>5, <1>10, <1>11, Zenon DEF OrderInv, Acyclic, StackInv, Below, Live
<1>13. LineInv'
  BY <1>1, <1>5, <1>9, <1>10, Zenon DEF OrderInv, LineInv, Live, OnLine, OpenMain
<1>14. Unheld'
  BY <1>1, <1>6, <1>8, Zenon DEF Unheld, SameHolds
<1>. QED
  BY <1>9, <1>12, <1>13, <1>14, Zenon DEF OrderInv

(* CScheduler::PjRetrieve takes the job whose line it was.                 *)
LEMMA PjRetrieveOrder == ASSUME IInv, OrderInv, PjRetrieve PROVE OrderInv'
<1>1. /\ pc = "Retrieve" /\ pc' = "PreExecute" /\ waiting # <<>> /\ waiting \in Seq(Jobs)
      /\ pj' = Head(waiting) /\ waiting' = Tail(waiting)
      /\ ejs' = [ejs EXCEPT ![Head(waiting)] = "Running"] /\ ejs \in [Jobs -> JobState]
      /\ pjParent' = pjParent /\ pjq' = pjq
      /\ qMain' = qMain /\ qList' = qList /\ qCompleted' = qCompleted
  BY Zenon DEF PjRetrieve, queueVars, IInv, TypeOK
<1>2. PICK h \in Jobs : h = Head(waiting)
  BY <1>1
<1>3. /\ InList(h, waiting) /\ waiting[1] = h /\ 1 \in DOMAIN waiting
      /\ \A i \in DOMAIN waiting' : i + 1 \in DOMAIN waiting /\ waiting'[i] = waiting[i + 1] /\ i \in Nat \ {0}
  BY <1>1, <1>2 DEF InList
<1>4. ejs[h] = "Waiting" /\ ulpRefs[h] = 0
  BY <1>2, <1>3, Zenon DEF IInv, WaitingExact
<1>5. Children(h) = {}
  <2>1. ulpRefs[h] = Cardinality(Children(h)) + (IF RunRef(h) THEN 1 ELSE 0)
                       + (IF QueueRef(h) THEN 1 ELSE 0)
    BY Zenon DEF IInv, RefsExact
  <2>2. Cardinality(Children(h)) \in Nat /\ (Cardinality(Children(h)) = 0 <=> Children(h) = {})
    BY ChildCount, Zenon
  <2>. QED
    BY <1>4, <2>1, <2>2
<1>6. \A j \in Jobs : Live(j)' <=> Live(j)
  BY <1>1, <1>2, <1>4, Zenon DEF Live
<1>7. \A j : Children(j)' = Children(j)
  BY <1>1, <1>6, SameTree, Zenon
<1>8. \A j : Ancestors(j)' = Ancestors(j) /\ Line(j)' = Line(j)
  BY <1>1, SameAncestors, Zenon
<1>9. SameHolds
  BY <1>1, Zenon DEF SameHolds, QueuedBehind
<1>10. (\A j : Stuck(j)' <=> Stuck(j)) /\ HeldInv'
  BY <1>9, SameHeld, Zenon DEF OrderInv
<1>11. Acyclic' /\ Unheld'
  BY <1>1, <1>6, <1>8, Zenon DEF OrderInv, Acyclic, Unheld
<1>12. StackInv'
  <2>1. ASSUME NEW i \in DOMAIN waiting', NEW k \in DOMAIN waiting', i < k
        PROVE  Below(waiting[i], waiting[k])'
    <3>1. Below(waiting[i + 1], waiting[k + 1])
      BY <1>3, <2>1 DEF OrderInv, StackInv
    <3>. QED
      BY <1>1, <1>3, <1>8, <2>1, <3>1, Zenon DEF Below
  <2>2. ASSUME NEW i \in DOMAIN waiting' PROVE Below(pj, waiting[i])'
    <3>1. Below(waiting[1], waiting[i + 1])
      BY <1>3, <2>2 DEF OrderInv, StackInv
    <3>. QED
      BY <1>1, <1>2, <1>3, <1>8, <2>2, <3>1, Zenon DEF Below
  <2>3. Children(pj)' = {}
    BY <1>1, <1>2, <1>5, <1>7, Zenon
  <2>. QED
    BY <2>1, <2>2, <2>3, Zenon DEF StackInv
<1>13. LineInv'
  <2>1. \A j : OnLine(j)' <=> OnLine(j)
    BY <1>1, <1>2, <1>8, Zenon DEF OnLine, InFlight
  <2>2. OnLine(h)
    BY <1>1, <1>2, Zenon DEF OnLine, Line, InFlight
  <2>3. \A j : OpenMain(j)' <=> OpenMain(j)
    BY <1>1, Zenon DEF OpenMain
  <2>4. \A j \in Jobs : j # h => ejs'[j] = ejs[j]
    BY <1>1, <1>2, Zenon
  <2>. QED
    BY <1>6, <1>10, <2>1, <2>2, <2>3, <2>4, Zenon DEF OrderInv, LineInv
<1>. QED
  BY <1>10, <1>11, <1>12, <1>13, Zenon DEF OrderInv

(* The return of CScheduler::Run, CJobQueue::Reset of an empty queue, and  *)
(* steps that change nothing.                                              *)
LEMMA RestOrder ==
    ASSUME IInv, OrderInv,
           \/ RunReturns
           \/ \E q \in Queues : ResetQueue(q)
           \/ UNCHANGED vars
    PROVE  OrderInv'
<1>1. /\ ejs' = ejs /\ pjParent' = pjParent /\ pjq' = pjq /\ waiting' = waiting /\ qList' = qList
      /\ pc \in InFlight => pc' = pc /\ pj' = pj
      /\ pc \notin InFlight => pc' \notin InFlight
      /\ \A q \in Queues : \/ qMain'[q] = qMain[q] /\ qCompleted'[q] = qCompleted[q]
                           \/ qMain'[q] = None /\ qList[q] = <<>>
  <2>1. CASE RunReturns
    BY <2>1, Zenon DEF RunReturns, jobVars, queueVars, InFlight
  <2>2. CASE \E q \in Queues : ResetQueue(q)
    <3>1. qMain \in [Queues -> Jobs \cup {None}] /\ qCompleted \in [Queues -> BOOLEAN]
      BY Zenon DEF IInv, TypeOK
    <3>. QED
      BY <2>2, <3>1, Zenon DEF ResetQueue, jobVars, InFlight
  <2>3. CASE UNCHANGED vars
    BY <2>3, Zenon DEF vars, jobVars, queueVars
  <2>. QED
    BY <2>1, <2>2, <2>3, Zenon
<1>2. \A j : Ancestors(j)' = Ancestors(j) /\ Line(j)' = Line(j)
  BY <1>1, SameAncestors, Zenon
<1>3. \A j : Children(j)' = Children(j)
  BY <1>1, Zenon DEF Children, Live
<1>4. SameHolds
  <2>1. ASSUME NEW q \in Queues, NEW j \in Jobs
        PROVE  /\ QueuedBehind(j, q)' <=> QueuedBehind(j, q)
               /\ QueuedBehind(j, q) => qMain'[q] = qMain[q]
    <3>1. qList[q] = <<>> => ~InList(j, qList[q])
      BY EmptyList, Zenon
    <3>. QED
      BY <1>1, <3>1, Zenon DEF QueuedBehind
  <2>. QED
    BY <1>1, <2>1, Zenon DEF SameHolds
<1>5. (\A j : Stuck(j)' <=> Stuck(j)) /\ HeldInv'
  BY <1>4, SameHeld, Zenon DEF OrderInv
<1>6. Acyclic'
  BY <1>1, <1>2, Zenon DEF OrderInv, Acyclic, Live
<1>7. StackInv'
  BY <1>1, <1>2, <1>3, Zenon DEF OrderInv, StackInv, Below
<1>8. LineInv'
  <2>1. \A j : OnLine(j)' <=> OnLine(j)
    BY <1>1, <1>2, Zenon DEF OnLine
  <2>2. \A j \in Jobs : OpenMain(j)' => OpenMain(j)
    BY <1>1, SchedulerAssumption, Zenon DEF OpenMain, IInv, TypeOK
  <2>. QED
    BY <1>1, <1>5, <2>1, <2>2, Zenon DEF OrderInv, LineInv, Live
<1>9. Unheld'
  <2>1. pc' = "Notify" => pc = "Notify" /\ pj' = pj
    BY <1>1, Zenon DEF InFlight
  <2>2. pc = "Notify" => pjq[pj] \in Queues
    BY Zenon DEF IInv, TypeOK, ControlInv, InFlight
  <2>. QED
    BY <1>1, <1>4, <2>1, <2>2, Zenon DEF OrderInv, Unheld, SameHolds
<1>. QED
  BY <1>5, <1>6, <1>7, <1>8, <1>9, Zenon DEF OrderInv

(* CJobQueue::EjqrAdd of the first job of a queue, which holds nobody back.*)
LEMMA EjqrEnterFirstOrder ==
    ASSUME IInv, OrderInv, NEW q \in Queues, EjqrEnter(q), qList[q] = <<>> PROVE OrderInv'
<1>1. /\ pc = "Enqueue" /\ pc' = "Execute" /\ q = pjq[pj] /\ qMain' = [qMain EXCEPT ![q] = pj]
      /\ ejs' = ejs /\ pjParent' = pjParent /\ pjq' = pjq /\ waiting' = waiting /\ pj' = pj
      /\ qList' = [qList EXCEPT ![q] = <<pj>>] /\ qCompleted' = qCompleted
  <2>1. Append(<<>>, pj) = <<pj>>
    OBVIOUS
  <2>. QED
    BY <2>1, Zenon DEF EjqrEnter, counters
<1>2. qMain \in [Queues -> Jobs \cup {None}] /\ qList \in [Queues -> Seq(Jobs)]
  BY Zenon DEF IInv, TypeOK
<1>3. \A j : Ancestors(j)' = Ancestors(j) /\ Line(j)' = Line(j)
  BY <1>1, SameAncestors, Zenon
<1>4. \A j : Children(j)' = Children(j)
  BY <1>1, Zenon DEF Children, Live
<1>5. SameHolds
  <2>1. \A j \in Jobs : ~QueuedBehind(j, q)
    BY EmptyList, Zenon DEF QueuedBehind
  <2>2. \A j \in Jobs : ~QueuedBehind(j, q)'
    BY <1>1, <1>2 DEF QueuedBehind, InList
  <2>3. \A r \in Queues \ {q} : qList'[r] = qList[r] /\ qMain'[r] = qMain[r]
    BY <1>1, <1>2, Zenon
  <2>. QED
    BY <1>1, <2>1, <2>2, <2>3, Zenon DEF SameHolds, QueuedBehind
<1>6. (\A j : Stuck(j)' <=> Stuck(j)) /\ HeldInv'
  BY <1>5, SameHeld, Zenon DEF OrderInv
<1>7. Acyclic' /\ Unheld'
  BY <1>1, <1>3, Zenon DEF OrderInv, Acyclic, Live, Unheld
<1>8. StackInv'
  BY <1>1, <1>3, <1>4, Zenon DEF OrderInv, StackInv, Below, InFlight
<1>9. LineInv'
  <2>1. \A j : OnLine(j)' <=> OnLine(j)
    BY <1>1, <1>3, Zenon DEF OnLine, InFlight
  <2>2. OnLine(pj)
    BY <1>1, Zenon DEF OnLine, InFlight, Line
  <2>3. \A j \in Jobs \ {pj} : OpenMain(j)' => OpenMain(j)
    <3>1. \A j \in Jobs : pjq[j] = None \/ pjq[j] = q \/ pjq[j] \in Queues \ {q}
      BY Zenon DEF IInv, TypeOK
    <3>. QED
      BY <1>1, <1>2, <3>1, Zenon DEF OpenMain
  <2>. QED
    BY <1>1, <1>6, <2>1, <2>2, <2>3, Zenon DEF OrderInv, LineInv, Live
<1>. QED
  BY <1>6, <1>7, <1>8, <1>9, Zenon DEF OrderInv

(* CJobQueue::EjqrAdd of a later job: the main job of the queue is one of  *)
(* its ancestors, or stuck already.                                        *)
LEMMA EjqrEnterLaterOrder ==
    ASSUME IInv, OrderInv, NEW q \in Queues, EjqrEnter(q), qList[q] # <<>> PROVE OrderInv'
<1>1. /\ pc = "Enqueue" /\ pc' = "PostExecute" /\ q = pjq[pj] /\ qMain' = qMain /\ qMain[q] # pj
      /\ ejs' = ejs /\ pjParent' = pjParent /\ pjq' = pjq /\ waiting' = waiting /\ pj' = pj
      /\ qList' = [qList EXCEPT ![q] = Append(qList[q], pj)] /\ qCompleted' = qCompleted
      /\ ~qCompleted[q]
  BY Zenon DEF EjqrEnter, counters
<1>2. qList[q] \in Seq(Jobs) /\ qList \in [Queues -> Seq(Jobs)] /\ pj \in Jobs
  BY <1>1, InFlightJob, Zenon DEF IInv, TypeOK, InFlight
<1>p. PICK p \in Jobs : p = pj
  BY <1>2, Zenon
<1>3. \A j : Ancestors(j)' = Ancestors(j) /\ Line(j)' = Line(j)
  BY <1>1, SameAncestors, Zenon
<1>4. \A j : Children(j)' = Children(j)
  BY <1>1, Zenon DEF Children, Live
<1>5. \A k : InList(k, Append(qList[q], pj)) <=> k = pj \/ InList(k, qList[q])
  BY <1>2, AppendList, Zenon
<1>6. /\ \A r \in Queues, j \in Jobs : QueuedBehind(j, r)' <=> (QueuedBehind(j, r) \/ (j = p /\ r = q))
      /\ HeldBack(p)'
  <2>1. ASSUME NEW r \in Queues, NEW j \in Jobs
        PROVE  QueuedBehind(j, r)' <=> (QueuedBehind(j, r) \/ (j = p /\ r = q))
    <3>1. CASE r = q
      BY <1>1, <1>2, <1>p, <1>5, <3>1, Zenon DEF QueuedBehind
    <3>2. CASE r # q
      BY <1>1, <1>2, <3>2, Zenon DEF QueuedBehind
    <3>. QED
      BY <3>1, <3>2, Zenon
  <2>. QED
    BY <2>1, Zenon DEF HeldBack
<1>7. \A j \in Jobs : HeldBack(j) => HeldBack(j)'
  BY <1>6, Zenon DEF HeldBack
<1>8. \A j : Stuck(j) => Stuck(j)'
  BY <1>3, <1>7, Zenon DEF Stuck
<1>9. PICK m \in Jobs : m = qMain[q] /\ Live(m) /\ OpenMain(m)
  <2>1. Head(qList[q]) = qMain[q]
    BY <1>1, Zenon DEF IInv, QueueInv
  <2>2. InList(qMain[q], qList[q]) /\ qMain[q] \in Jobs
    BY <1>2, <2>1 DEF InList
  <2>3. Live(qMain[q]) /\ pjq[qMain[q]] = q
    BY <2>2, Zenon DEF IInv, QueueInv
  <2>. QED
    BY <1>1, <2>2, <2>3, SchedulerAssumption, Zenon DEF OpenMain
<1>10. m \in Ancestors(p) \/ Stuck(m)
  <2>1. OnLine(m) \/ Stuck(m)
    BY <1>9, Zenon DEF OrderInv, LineInv
  <2>. QED
    BY <1>1, <1>9, <1>p, <2>1, Zenon DEF OnLine, Line, InFlight
<1>11. ASSUME NEW r \in Queues, NEW j \in Jobs, QueuedBehind(j, r)' PROVE Stuck(qMain[r])'
  <2>1. CASE QueuedBehind(j, r)
    <3>1. Stuck(qMain[r])
      BY <2>1, Zenon DEF OrderInv, HeldInv
    <3>2. PICK x \in Jobs : HeldBack(x) /\ qMain[r] \in Line(x)
      BY <3>1, Zenon DEF Stuck
    <3>3. HeldBack(x)' /\ qMain'[r] \in Line(x)'
      BY <1>1, <1>3, <1>7, <3>2, Zenon
    <3>. QED
      BY <3>3, Zenon DEF Stuck
  <2>2. CASE r = q
    <3>1. PICK x \in Jobs : HeldBack(x)' /\ m \in Line(x)
      <4>1. CASE m \in Ancestors(p)
        BY <1>6, <4>1, Zenon DEF Line
      <4>2. CASE Stuck(m)
        BY <1>7, <4>2, Zenon DEF Stuck
      <4>. QED
        BY <1>10, <4>1, <4>2, Zenon
    <3>2. HeldBack(x)' /\ qMain'[r] \in Line(x)'
      BY <1>1, <1>3, <1>9, <2>2, <3>1, Zenon
    <3>. QED
      BY <3>2, Zenon DEF Stuck
  <2>. QED
    BY <1>6, <1>11, <2>1, <2>2, Zenon
<1>12. Circle'
  <2>1. CASE \E j \in Jobs : HeldBack(j)
    <3>1. PICK r \in Queues, j \in Jobs : QueuedBehind(j, r) /\ qMain[r] \in Ancestors(j)
      BY <2>1, Zenon DEF OrderInv, HeldInv, Circle
    <3>2. QueuedBehind(j, r)' /\ qMain'[r] \in Ancestors(j)'
      BY <1>1, <1>3, <1>6, <3>1, Zenon
    <3>. QED
      BY <3>2, Zenon DEF Circle
  <2>2. CASE ~\E j \in Jobs : HeldBack(j)
    <3>1. m \in Ancestors(p)
      BY <1>10, <2>2, Zenon DEF Stuck
    <3>2. QueuedBehind(p, q)' /\ qMain'[q] \in Ancestors(p)'
      BY <1>1, <1>3, <1>6, <1>9, <3>1, Zenon
    <3>. QED
      BY <3>2, Zenon DEF Circle
  <2>. QED
    BY <2>1, <2>2, Zenon
<1>13. HeldInv'
  BY <1>11, <1>12, Zenon DEF HeldInv
<1>14. Acyclic' /\ Unheld'
  BY <1>1, <1>3, Zenon DEF OrderInv, Acyclic, Live, Unheld
<1>15. StackInv'
  BY <1>1, <1>3, <1>4, Zenon DEF OrderInv, StackInv, Below, InFlight
<1>16. LineInv'
  BY <1>1, <1>3, <1>8, Zenon DEF OrderInv, LineInv, Live, OnLine, InFlight, OpenMain
<1>. QED
  BY <1>13, <1>14, <1>15, <1>16, Zenon DEF OrderInv

(* A new job has the line of its parent above it, and is above no job.     *)
LEMMA AddAncestors ==
    ASSUME IInv, NEW j \in Jobs, NEW q, NEW p, NEW l, Add(j, q, p, l), NEW k \in Jobs, Live(k)
    PROVE  Ancestors(k)' = Ancestors(k) /\ Line(k)' = Line(k) /\ j \notin Line(k)
<1>1. TypeOK /\ ejs[j] = "Free" /\ pjParent' = [pjParent EXCEPT ![j] = p]
      /\ pjParent \in [Jobs -> Jobs \cup {None}]
  BY Zenon DEF IInv, TypeOK, Add
<1>2. j \notin Line(k) /\ Line(k) \subseteq Jobs
  BY <1>1, AboveLive, Zenon DEF Live, Line
<1>3. \A i \in Line(k) : pjParent'[i] = pjParent[i] /\ (pjParent[i] # None => pjParent[i] \in Ancestors(k))
  BY <1>1, <1>2, ParentAbove, Zenon
<1>4. Ancestors(k)' \subseteq Ancestors(k)
  <2>1. PICK S : S = Ancestors(k)
    BY Zenon
  <2>2. S \in SUBSET Jobs /\ \A i \in S \cup {k} : pjParent'[i] # None => pjParent'[i] \in S
    BY <1>2, <1>3, <2>1, Zenon DEF Line
  <2>3. Ancestors(k)' \subseteq S
    BY <2>2, Zenon DEF Ancestors
  <2>. QED
    BY <2>1, <2>3, Zenon
<1>5. ASSUME NEW S \in SUBSET Jobs, \A i \in S \cup {k} : pjParent'[i] # None => pjParent'[i] \in S
      PROVE  Ancestors(k) \subseteq S
  <2>1. S \cap Ancestors(k) \in SUBSET Jobs /\ Closed(S \cap Ancestors(k), k)
    BY <1>2, <1>3, <1>5, Zenon DEF Closed, Line
  <2>2. Ancestors(k) \subseteq S \cap Ancestors(k)
    BY <2>1, AboveWithin, Zenon
  <2>. QED
    BY <2>2, Zenon
<1>6. Ancestors(k) \subseteq Ancestors(k)'
  BY <1>2, <1>5, Zenon DEF Ancestors, Line
<1>. QED
  BY <1>2, <1>4, <1>6, Zenon DEF Line

(* The ancestors, as a predicate that can be primed.                       *)
ParentLines ==
    \A j \in Jobs : Ancestors(j) = IF pjParent[j] = None THEN {} ELSE Line(pjParent[j])

(* It follows from the types,                                              *)
LEMMA ParentLinesNow == TypeOK => ParentLines
  BY AboveParent, Zenon DEF ParentLines

(* after a step too.                                                       *)
LEMMA ParentLinesNext == TypeOK' => ParentLines'
  BY ParentLinesNow, PTL

(* CScheduler::Add: a child of the running job comes on top of the stack,  *)
(* and a first job finds no other.                                         *)
LEMMA AddOrder ==
    ASSUME IInv, TypeOK', OrderInv, NEW j \in Jobs, NEW q \in Queues \cup {None}, NEW p, NEW l,
           Add(j, q, p, l),
           \/ pc = "Execute" /\ pc' = pc /\ p = pj
           \/ /\ pc = "Idle" /\ pc' = "Retrieve" /\ p = None
              /\ waiting = <<>> /\ \A k \in Jobs : ~Live(k)
    PROVE  OrderInv'
<1>1. /\ ejs[j] = "Free" /\ ejs' = [ejs EXCEPT ![j] = "Waiting"]
      /\ pjParent' = [pjParent EXCEPT ![j] = p] /\ pjq' = [pjq EXCEPT ![j] = q]
      /\ waiting' = <<j>> \o waiting /\ pj' = pj /\ qMain' = qMain /\ qList' = qList
      /\ qCompleted' = qCompleted
  BY Zenon DEF Add, queueVars
<1>2. /\ ejs \in [Jobs -> JobState] /\ pjParent \in [Jobs -> Jobs \cup {None}]
      /\ pjq \in [Jobs -> Queues \cup {None}] /\ waiting \in Seq(Jobs) /\ TypeOK
  BY Zenon DEF IInv, TypeOK
<1>3. /\ ~Live(j) /\ ejs'[j] = "Waiting" /\ pjParent'[j] = p /\ pjq'[j] = q
      /\ \A k \in Jobs \ {j} : /\ ejs'[k] = ejs[k] /\ pjParent'[k] = pjParent[k]
                               /\ pjq'[k] = pjq[k] /\ (Live(k)' <=> Live(k))
  BY <1>1, <1>2, Zenon DEF Live
<1>4. /\ \A k \in Jobs : Live(k) => /\ Ancestors(k)' = Ancestors(k) /\ Line(k)' = Line(k)
                                    /\ j \notin Line(k)
  BY AddAncestors, Zenon
<1>5. pc = "Execute" => pj \in Jobs /\ Live(pj) /\ p # None /\ p = pj /\ pj # j
  BY <1>3, InFlightJob, SchedulerAssumption, Zenon DEF InFlight
<1>6. Ancestors(j)' = IF p = None THEN {} ELSE Line(p)
  <2>1. Ancestors(j)' = IF pjParent'[j] = None THEN {} ELSE Line(pjParent[j])'
    BY ParentLinesNext, Zenon DEF ParentLines
  <2>2. CASE p = None
    BY <1>3, <2>1, <2>2, Zenon
  <2>3. CASE p # None
    <3>1. PICK r \in Jobs : r = p /\ Live(r)
      BY <1>5, <2>3, Zenon
    <3>2. Ancestors(j)' = Line(r)'
      BY <1>3, <2>1, <2>3, <3>1, Zenon DEF Line
    <3>. QED
      BY <1>4, <2>3, <3>1, <3>2, Zenon
  <2>. QED
    BY <2>2, <2>3, Zenon
<1>7. \A k \in Jobs, r \in Queues :
        /\ QueuedBehind(k, r)' <=> QueuedBehind(k, r)
        /\ QueuedBehind(k, r) => Live(k)
  BY <1>1, Zenon DEF QueuedBehind, IInv, QueueInv
<1>8. \A k \in Jobs : (HeldBack(k)' <=> HeldBack(k)) /\ (HeldBack(k) => Live(k))
  BY <1>7, Zenon DEF HeldBack
<1>9. \A k : Stuck(k)' <=> Stuck(k)
  BY <1>4, <1>8, Zenon DEF Stuck
<1>10. HeldInv'
  <2>1. Circle => Circle'
    BY <1>1, <1>4, <1>7, Zenon DEF Circle
  <2>2. ASSUME NEW r \in Queues, NEW k \in Jobs, QueuedBehind(k, r)' PROVE Stuck(qMain[r])'
    <3>1. PICK x \in Jobs : HeldBack(x) /\ qMain[r] \in Line(x)
      BY <1>7, <2>2, Zenon DEF OrderInv, HeldInv, Stuck
    <3>2. HeldBack(x)' /\ qMain'[r] \in Line(x)'
      BY <1>1, <1>4, <1>8, <3>1, Zenon
    <3>. QED
      BY <3>2, Zenon DEF Stuck
  <2>. QED
    BY <1>8, <2>1, <2>2, Zenon DEF OrderInv, HeldInv
<1>11. Acyclic'
  <2>1. j \notin Ancestors(j)'
    BY <1>4, <1>5, <1>6, Zenon
  <2>. QED
    BY <1>3, <1>4, <2>1, Zenon DEF OrderInv, Acyclic
<1>12. Unheld'
  BY Zenon DEF Unheld
<1>13. LineInv'
  <2>1. ~OpenMain(j)'
    <3> SUFFICES ASSUME q # None, ~qCompleted[q], qMain[q] = j PROVE FALSE
      BY <1>1, <1>3, Zenon DEF OpenMain
    <3>1. q \in Queues /\ qMain[q] # None
      BY SchedulerAssumption, Zenon
    <3>2. qList[q] # <<>> /\ Head(qList[q]) = j /\ qList[q] \in Seq(Jobs)
      BY <3>1, Zenon DEF IInv, QueueInv, TypeOK
    <3>3. InList(j, qList[q])
      BY <3>2 DEF InList
    <3>. QED
      BY <1>3, <3>1, <3>3, Zenon DEF IInv, QueueInv
  <2>2. ASSUME NEW k \in Jobs \ {j}, Live(k)
        PROVE  (OnLine(k) => OnLine(k)') /\ (OpenMain(k)' <=> OpenMain(k))
    <3>1. pc = "Execute" /\ Line(pj)' = Line(pj)
      BY <1>1, <1>4, <1>5, <2>2, Zenon DEF Line
    <3>. QED
      BY <1>1, <1>3, <3>1, Zenon DEF OnLine, OpenMain, InFlight
  <2>. QED
    BY <1>3, <1>9, <2>1, <2>2, Zenon DEF OrderInv, LineInv
<1>14. \A i \in DOMAIN waiting : waiting[i] \in Jobs /\ Live(waiting[i]) /\ waiting[i] # j
  BY <1>2, <1>3 DEF IInv, WaitingExact, InList, Live
<1>15. /\ waiting'[1] = j
       /\ \A i \in DOMAIN waiting' : i # 1 => i - 1 \in DOMAIN waiting /\ waiting'[i] = waiting[i - 1]
       /\ \A i \in DOMAIN waiting' : i \in Nat \ {0}
  BY <1>1, <1>2
<1>16. ASSUME NEW i \in DOMAIN waiting
       PROVE  pjParent'[waiting[i]] = None \/ pjParent'[waiting[i]] \in Line(p)
  <2>1. pc = "Execute"
    BY <1>16
  <2>2. Below(pj, waiting[i]) \/ pjParent[waiting[i]] = pj
    BY <1>16, <2>1, Zenon DEF OrderInv, StackInv, InFlight
  <2>. QED
    BY <1>3, <1>5, <1>14, <1>16, <2>1, <2>2, Zenon DEF Below, Line
<1>17. ASSUME NEW i \in DOMAIN waiting', NEW k \in DOMAIN waiting', i < k
       PROVE  Below(waiting[i], waiting[k])'
  <2>1. i \in Nat \ {0} /\ k \in Nat /\ k # 1 /\ k - 1 \in DOMAIN waiting /\ waiting'[k] = waiting[k - 1]
    BY <1>15, <1>17
  <2>2. CASE i = 1
    <3>1. p # None
      BY <1>2, <1>5, <2>1
    <3>2. pjParent'[waiting'[k]] = None \/ pjParent'[waiting'[k]] \in Line(p)
      BY <1>16, <2>1, Zenon
    <3>3. waiting'[i] = j /\ Ancestors(j)' = Line(p)
      BY <1>6, <1>15, <2>2, <3>1, Zenon
    <3>. QED
      BY <3>2, <3>3, Zenon DEF Below, Ancestors
  <2>3. CASE i # 1
    <3>1. i - 1 \in DOMAIN waiting /\ waiting'[i] = waiting[i - 1] /\ i - 1 < k - 1
      BY <1>15, <1>17, <2>1, <2>3
    <3>2. Below(waiting[i - 1], waiting[k - 1])
      BY <2>1, <3>1, Zenon DEF OrderInv, StackInv
    <3>3. PICK a \in Jobs, b \in Jobs \ {j} : a = waiting[i - 1] /\ b = waiting[k - 1] /\ Live(a)
      BY <1>14, <2>1, <3>1, Zenon
    <3>4. Below(a, b)'
      BY <1>3, <1>4, <3>2, <3>3, Zenon DEF Below
    <3>. QED
      BY <2>1, <3>1, <3>3, <3>4, Zenon DEF Below, Ancestors
  <2>. QED
    BY <2>2, <2>3, Zenon
<1>18. ASSUME pc' \in InFlight, NEW i \in DOMAIN waiting'
       PROVE  Below(pj, waiting[i])' \/ pjParent'[waiting'[i]] = pj'
  <2>1. pc = "Execute" /\ p = pj
    BY <1>18, Zenon DEF InFlight
  <2>2. CASE i = 1
    BY <1>1, <1>3, <1>15, <2>1, <2>2, Zenon
  <2>3. CASE i # 1
    <3>1. i - 1 \in DOMAIN waiting /\ waiting'[i] = waiting[i - 1]
      BY <1>15, <1>18, <2>3, Zenon
    <3>2. pjParent'[waiting'[i]] = None \/ pjParent'[waiting'[i]] \in Line(pj)
      BY <1>16, <2>1, <3>1, Zenon
    <3>3. Ancestors(pj)' = Ancestors(pj) /\ pj' = pj
      BY <1>1, <1>4, <1>5, <2>1, Zenon DEF Ancestors
    <3>. QED
      BY <3>2, <3>3, Zenon DEF Below, Line
  <2>. QED
    BY <2>2, <2>3, Zenon
<1>19. ASSUME pc' \in InFlight, NEW c \in Children(pj)' PROVE ejs'[c] = "Waiting"
  <2>1. pc = "Execute" /\ c \in Jobs /\ Live(c)' /\ pjParent'[c] = pj
    BY <1>1, <1>19, Zenon DEF InFlight, Children
  <2>2. c # j => c \in Children(pj)
    BY <1>3, <2>1, Zenon DEF Children
  <2>. QED
    BY <1>3, <2>1, <2>2, Zenon DEF OrderInv, StackInv, InFlight
<1>20. StackInv'
  BY <1>17, <1>18, <1>19, Zenon DEF StackInv
<1>. QED
  BY <1>10, <1>11, <1>12, <1>13, <1>20, Zenon DEF OrderInv

(* A job whose ancestors have the parents of all waiting jobs among them   *)
(* can be put on top of the stack.                                         *)
LEMMA PushOrder ==
    ASSUME TypeOK, StackInv, pjParent' = pjParent, NEW p \in Jobs, waiting' = <<p>> \o waiting,
           \A i \in DOMAIN waiting : Below(p, waiting[i])
    PROVE  /\ \A i, k \in DOMAIN waiting' : i < k => Below(waiting[i], waiting[k])'
           /\ waiting' # <<>> /\ Head(waiting') = p
<1>1. waiting \in Seq(Jobs)
  BY Zenon DEF TypeOK
<1>2. /\ waiting'[1] = p /\ waiting' # <<>> /\ Head(waiting') = p
      /\ \A i \in DOMAIN waiting' : i # 1 => i - 1 \in DOMAIN waiting /\ waiting'[i] = waiting[i - 1]
      /\ \A i \in DOMAIN waiting' : i \in Nat \ {0}
  BY <1>1
<1>3. \A j : Ancestors(j)' = Ancestors(j)
  BY SameAncestors, Zenon
<1>4. ASSUME NEW i \in DOMAIN waiting', NEW k \in DOMAIN waiting', i < k
      PROVE  Below(waiting[i], waiting[k])'
  <2>1. i \in Nat \ {0} /\ k \in Nat /\ k # 1 /\ k - 1 \in DOMAIN waiting /\ waiting'[k] = waiting[k - 1]
    BY <1>2, <1>4
  <2>2. CASE i = 1
    <3>1. Below(p, waiting[k - 1])
      BY <2>1, Zenon
    <3>. QED
      BY <1>2, <1>3, <2>1, <2>2, <3>1, Zenon DEF Below, Ancestors
  <2>3. CASE i # 1
    <3>1. i - 1 \in DOMAIN waiting /\ waiting'[i] = waiting[i - 1] /\ i - 1 < k - 1
      BY <1>2, <1>4, <2>1, <2>3
    <3>2. Below(waiting[i - 1], waiting[k - 1])
      BY <2>1, <3>1, Zenon DEF StackInv
    <3>. QED
      BY <1>3, <2>1, <3>1, <3>2, Zenon DEF Below, Ancestors
  <2>. QED
    BY <2>2, <2>3, Zenon
<1>. QED
  BY <1>2, <1>4, Zenon

(* If a child of j waits, then j is on the line of the next job.           *)
LEMMA ChildWaits ==
    ASSUME IInv, OrderInv, NEW j \in Jobs, NEW c \in Children(j), ejs[c] = "Waiting"
    PROVE  waiting # <<>> /\ Head(waiting) \in Jobs /\ Line(j) \subseteq Line(Head(waiting))
<1>1. waiting \in Seq(Jobs) /\ TypeOK /\ c \in Jobs /\ pjParent[c] = j
  BY Zenon DEF IInv, TypeOK, Children
<1>2. PICK i \in DOMAIN waiting : waiting[i] = c
  BY <1>1, Zenon DEF IInv, WaitingExact, InList
<1>3. waiting # <<>> /\ Head(waiting) = waiting[1] /\ waiting[1] \in Jobs /\ i \in Nat \ {0}
      /\ 1 \in DOMAIN waiting
  BY <1>1, <1>2
<1>4. j # None
  BY SchedulerAssumption, Zenon
<1>5. j \in Ancestors(waiting[1])
  <2>1. CASE i = 1
    BY <1>1, <1>2, <1>3, <1>4, <2>1, ParentAbove, Zenon DEF Line
  <2>2. CASE i # 1
    <3>1. Below(waiting[1], c)
      BY <1>2, <1>3, <2>2 DEF OrderInv, StackInv
    <3>. QED
      BY <1>1, <1>4, <3>1, Zenon DEF Below
  <2>. QED
    BY <2>1, <2>2, Zenon
<1>. QED
  BY <1>3, <1>5, AboveTrans, Zenon DEF Line

(* What all outcomes of CScheduler::EjrPostExecute have in common.         *)
LEMMA PostExecuteFrame ==
    ASSUME IInv, OrderInv, PostExecute
    PROVE  /\ pc = "PostExecute" /\ pc' \notin InFlight /\ pj \in Jobs /\ ejs[pj] = "Running" /\ TypeOK
           /\ pjParent' = pjParent /\ pjq' = pjq /\ qMain' = qMain /\ qCompleted' = qCompleted
           /\ qList' = qList /\ HeldInv' /\ Unheld'
           /\ \A j : /\ Ancestors(j)' = Ancestors(j) /\ Line(j)' = Line(j)
                     /\ (Stuck(j)' <=> Stuck(j)) /\ (OpenMain(j)' <=> OpenMain(j))
           /\ \A i \in DOMAIN waiting : Below(pj, waiting[i]) \/ pjParent[waiting[i]] = pj
           /\ \A i \in DOMAIN waiting : waiting[i] \in Jobs /\ ejs[waiting[i]] = "Waiting"
<1>1. /\ pc = "PostExecute" /\ pc' = "Retrieve"
      /\ pjParent' = pjParent /\ pjq' = pjq /\ qMain' = qMain /\ qCompleted' = qCompleted
      /\ qList' = qList
  BY Zenon DEF PostExecute, queueVars
<1>2. pj \in Jobs /\ ejs[pj] = "Running" /\ TypeOK
  BY <1>1, InFlightJob, Zenon DEF InFlight, IInv
<1>3. \A j : Ancestors(j)' = Ancestors(j) /\ Line(j)' = Line(j)
  BY <1>1, SameAncestors, Zenon
<1>4. SameHolds
  BY <1>1, Zenon DEF SameHolds, QueuedBehind
<1>5. HeldInv' /\ \A j : Stuck(j)' <=> Stuck(j)
  BY <1>4, SameHeld, Zenon DEF OrderInv
<1>6. (\A j : OpenMain(j)' <=> OpenMain(j)) /\ Unheld' /\ pc' \notin InFlight
  BY <1>1, Zenon DEF OpenMain, Unheld, InFlight
<1>7. \A i \in DOMAIN waiting : Below(pj, waiting[i]) \/ pjParent[waiting[i]] = pj
  BY <1>1, Zenon DEF OrderInv, StackInv, InFlight
<1>8. \A i \in DOMAIN waiting : waiting[i] \in Jobs /\ ejs[waiting[i]] = "Waiting"
  BY DEF IInv, TypeOK, WaitingExact, InList
<1>. QED
  BY <1>1, <1>2, <1>3, <1>5, <1>6, <1>7, <1>8, Zenon

(* The parents of the waiting jobs, when the running job has no children.  *)
LEMMA ChildlessBelow ==
    ASSUME IInv, OrderInv, PostExecute, Children(pj) = {}
    PROVE  \A i \in DOMAIN waiting : Below(pj, waiting[i])
  BY PostExecuteFrame, Zenon DEF Children, Live

(* The count of a parent is one when no other child is left.               *)
LEMMA LastChild ==
    ASSUME IInv, pc = "PostExecute", Children(pj) = {}, NEW p \in Jobs, p = pjParent[pj]
    PROVE  /\ Live(p) /\ p # pj /\ pj \in Children(p)
           /\ ulpRefs[p] = 1 <=> Children(p) = {pj}
<1>1. pj \in Jobs /\ Live(pj) /\ p # None
  BY InFlightJob, SchedulerAssumption, Zenon DEF InFlight
<1>2. pj \in Children(p) /\ Live(p) /\ p # pj
  BY <1>1, Zenon DEF Children, IInv, TreeInv
<1>3. ~RunRef(p)
  BY <1>2, Zenon DEF RunRef
<1>4. ~QueueRef(p)
  <2> SUFFICES ASSUME QueueRef(p) PROVE FALSE
    BY Zenon
  <2>1. pjq[p] \in Queues /\ InList(p, qList[pjq[p]]) /\ qMain[pjq[p]] # p
    BY <1>2, Zenon DEF QueueRef, IInv, TypeOK
  <2>. QED
    BY <1>2, <2>1, Zenon DEF IInv, QueueInv
<1>5. ulpRefs[p] = Cardinality(Children(p)) + 0 + 0
  BY <1>3, <1>4, Zenon DEF IInv, RefsExact
<1>6. Children(p) \subseteq Jobs /\ Cardinality(Children(p)) \in Nat
  BY ChildCount, Zenon DEF Children
<1>7. Cardinality(Children(p) \ {pj}) = Cardinality(Children(p)) - 1
  BY <1>2, <1>6, JobSetRemove, Zenon
<1>8. Cardinality(Children(p) \ {pj}) = 0 <=> Children(p) \ {pj} = {}
  BY <1>6, JobSets, Zenon
<1>9. ulpRefs[p] = 1 <=> Children(p) \ {pj} = {}
  BY <1>5, <1>6, <1>7, <1>8
<1>. QED
  BY <1>2, <1>9, Zenon

(* The completed job's ancestors are on the line of the next job: of the   *)
(* parent that resumes, or of a waiting child of the parent.  Or another   *)
(* child of the parent is stuck and they are too.                          *)
LEMMA CompletedOrder ==
    ASSUME IInv, OrderInv, PostExecute, fCompleted PROVE OrderInv'
<1>1. /\ pc = "PostExecute" /\ pc' \notin InFlight /\ pj \in Jobs /\ ejs[pj] = "Running" /\ TypeOK
      /\ pjParent' = pjParent /\ HeldInv' /\ Unheld'
      /\ \A j : /\ Ancestors(j)' = Ancestors(j) /\ Line(j)' = Line(j)
                /\ (Stuck(j)' <=> Stuck(j)) /\ (OpenMain(j)' <=> OpenMain(j))
      /\ \A i \in DOMAIN waiting : waiting[i] \in Jobs /\ ejs[waiting[i]] = "Waiting"
  BY PostExecuteFrame, Zenon
<1>2. Children(pj) = {}
  BY <1>1, Zenon DEF IInv, ControlInv
<1>3. \A i \in DOMAIN waiting : Below(pj, waiting[i])
  BY <1>2, ChildlessBelow, Zenon
<1>4. Ancestors(pj) = IF pjParent[pj] = None THEN {} ELSE Line(pjParent[pj])
  BY <1>1, AboveParent, Zenon
<1>5. PICK p : p = pjParent[pj]
  BY Zenon
<1>6. /\ ejs \in [Jobs -> JobState] /\ p \in Jobs \cup {None}
      /\ ulpRefs \in [Jobs -> Nat]
  BY <1>1, <1>5, Zenon DEF TypeOK
<1>7. /\ p # None /\ ulpRefs[p] = 1 =>
            /\ ejs' = [ejs EXCEPT ![pj] = "Free", ![p] = "Waiting"] /\ waiting' = <<p>> \o waiting
      /\ ~(p # None /\ ulpRefs[p] = 1) => ejs' = [ejs EXCEPT ![pj] = "Free"] /\ waiting' = waiting
  <2>1. PICK refs : refs = [ulpRefs EXCEPT ![pj] = @ - 1] /\ CompleteJob(pj, refs)
    BY Zenon DEF PostExecute
  <2>2. p # None => p \in Jobs /\ p # pj
    BY <1>1, <1>2, <1>5, <1>6, LastChild, Zenon
  <2>3. Resumes(pj, refs) <=> p # None /\ ulpRefs[p] = 1
    BY <1>5, <1>6, <2>1, <2>2, Zenon DEF Resumes
  <2>. QED
    BY <1>5, <2>1, <2>3, Zenon DEF CompleteJob
<1>8. p # None => p \in Jobs /\ Live(p) /\ p # pj /\ pj \in Children(p)
                  /\ (ulpRefs[p] = 1 <=> Children(p) = {pj})
  BY <1>1, <1>2, <1>5, <1>6, LastChild, Zenon
<1>9. \A k \in Jobs : Live(k)' => /\ k # pj /\ Live(k)
                                  /\ (ejs[k] = "Waiting" => ejs'[k] = "Waiting")
  BY <1>1, <1>6, <1>7, <1>8, Zenon DEF Live
<1>10. Acyclic'
  BY <1>1, <1>9, Zenon DEF OrderInv, Acyclic
<1>11. CASE p # None /\ ulpRefs[p] = 1
  <2>1. ASSUME NEW i \in DOMAIN waiting PROVE Below(p, waiting[i])
    <3>1. pjParent[waiting[i]] # p
      BY <1>1, <1>8, <1>11, <2>1, Zenon DEF Children, Live
    <3>. QED
      BY <1>3, <1>4, <1>5, <1>11, <2>1, <3>1, Zenon DEF Below, Line
  <2>2. /\ \A i, k \in DOMAIN waiting' : i < k => Below(waiting[i], waiting[k])'
        /\ waiting' # <<>> /\ Head(waiting') = p
    BY <1>1, <1>7, <1>8, <1>11, <2>1, PushOrder, Zenon DEF OrderInv
  <2>3. StackInv'
    BY <1>1, <2>2, Zenon DEF StackInv
  <2>4. \A k \in Jobs : k \in Line(p) => OnLine(k)'
    BY <1>1, <2>2, Zenon DEF OnLine, Line, Ancestors
  <2>5. \A k \in Jobs \ {pj} : OnLine(k) => OnLine(k)'
    BY <1>1, <1>4, <1>5, <1>11, <2>4, Zenon DEF OnLine, Line, InFlight
  <2>6. LineInv'
    BY <1>1, <1>9, <2>5, Zenon DEF OrderInv, LineInv
  <2>. QED
    BY <1>1, <1>10, <2>3, <2>6, Zenon DEF OrderInv
<1>12. CASE ~(p # None /\ ulpRefs[p] = 1)
  <2>1. waiting' = waiting
    BY <1>7, <1>12, Zenon
  <2>2. StackInv'
    BY <1>1, <2>1, Zenon DEF OrderInv, StackInv, Below
  <2>3. ASSUME NEW k \in Jobs \ {pj}, OnLine(k) PROVE OnLine(k)' \/ Stuck(k)
    <3>1. p # None /\ k \in Line(p)
      BY <1>1, <1>4, <1>5, <2>3, Zenon DEF OnLine, Line, InFlight
    <3>2. PICK c \in Children(p) : c # pj
      BY <1>8, <1>12, <3>1, Zenon
    <3>3. c \in Jobs /\ Live(c) /\ pjParent[c] = p /\ p \in Jobs /\ p \in Ancestors(c)
      BY <1>1, <1>8, <3>1, <3>2, ParentAbove DEF Children, Line
    <3>4. ~OnLine(c)
      <4>1. ASSUME c \in Line(p) PROVE FALSE
        <5>1. p \in Ancestors(p)
          BY <3>3, <4>1, AboveTrans, Zenon
        <5>. QED
          BY <1>8, <3>1, <5>1, Zenon DEF OrderInv, Acyclic
      <4>. QED
        BY <1>1, <1>4, <1>5, <3>1, <3>2, <4>1, Zenon DEF OnLine, Line, InFlight
    <3>5. CASE Stuck(c)
      <4>1. PICK x \in Jobs : HeldBack(x) /\ c \in Line(x)
        BY <3>5, Zenon DEF Stuck
      <4>2. p \in Line(x)
        BY <3>3, <4>1, AboveTrans, Zenon DEF Line
      <4>3. k \in Line(x)
        BY <3>1, <4>1, <4>2, AboveTrans, Zenon
      <4>. QED
        BY <4>1, <4>3, Zenon DEF Stuck
    <3>6. CASE ejs[c] = "Waiting"
      <4>1. waiting # <<>> /\ Head(waiting) \in Jobs /\ Line(p) \subseteq Line(Head(waiting))
        BY <3>2, <3>3, <3>6, ChildWaits, Zenon
      <4>. QED
        BY <1>1, <2>1, <3>1, <4>1, Zenon DEF OnLine, Line, Ancestors
    <3>. QED
      BY <3>3, <3>4, <3>5, <3>6, Zenon DEF OrderInv, LineInv
  <2>4. LineInv'
    BY <1>1, <1>9, <2>3, Zenon DEF OrderInv, LineInv
  <2>. QED
    BY <1>1, <1>10, <2>2, <2>4, Zenon DEF OrderInv
<1>. QED
  BY <1>11, <1>12, Zenon

(* A job that yields is the next to run; one that waits has a child on top *)
(* of the stack, or a queue holds it back and its whole line is stuck.     *)
LEMMA UnfinishedOrder ==
    ASSUME IInv, OrderInv, PostExecute, ~fCompleted PROVE OrderInv'
<1>1. /\ pc = "PostExecute" /\ pc' \notin InFlight /\ pj \in Jobs /\ ejs[pj] = "Running" /\ TypeOK
      /\ pjParent' = pjParent /\ HeldInv' /\ Unheld'
      /\ \A j : /\ Ancestors(j)' = Ancestors(j) /\ Line(j)' = Line(j)
                /\ (Stuck(j)' <=> Stuck(j)) /\ (OpenMain(j)' <=> OpenMain(j))
  BY PostExecuteFrame, Zenon
<1>2. /\ ulpRefs[pj] = Cardinality(Children(pj)) + 1 + (IF QueueRef(pj) THEN 1 ELSE 0)
      /\ Cardinality(Children(pj)) \in Nat /\ (Cardinality(Children(pj)) = 0 <=> Children(pj) = {})
  <2>1. RunRef(pj)
    BY <1>1, Zenon DEF RunRef
  <2>. QED
    BY <1>1, <2>1, ChildCount, Zenon DEF IInv, RefsExact
<1>3. ejs \in [Jobs -> JobState] /\ \E s \in {"Waiting", "Suspended"} : ejs' = [ejs EXCEPT ![pj] = s]
  BY <1>1, Zenon DEF PostExecute, TypeOK
<1>4. \A k \in Jobs : (Live(k)' <=> Live(k)) /\ (k # pj => ejs'[k] = ejs[k])
  BY <1>1, <1>3, Zenon DEF Live
<1>5. Acyclic'
  BY <1>1, <1>4, Zenon DEF OrderInv, Acyclic
<1>6. \A k \in Jobs : OnLine(k) <=> k \in Line(pj)
  BY <1>1, Zenon DEF OnLine, InFlight
<1>7. CASE ulpRefs[pj] = 1
  <2>1. waiting' = <<pj>> \o waiting
    BY <1>7, Zenon DEF PostExecute
  <2>2. Children(pj) = {}
    BY <1>2, <1>7
  <2>3. PICK p \in Jobs : p = pj
    BY <1>1, Zenon
  <2>4. \A i \in DOMAIN waiting : Below(p, waiting[i])
    BY <2>2, <2>3, ChildlessBelow, Zenon
  <2>5. /\ \A i, k \in DOMAIN waiting' : i < k => Below(waiting[i], waiting[k])'
        /\ waiting' # <<>> /\ Head(waiting') = p
    BY <1>1, <2>1, <2>3, <2>4, PushOrder, Zenon DEF OrderInv
  <2>6. StackInv'
    BY <1>1, <2>5, Zenon DEF StackInv
  <2>7. \A k \in Jobs : OnLine(k) => OnLine(k)'
    BY <1>1, <1>6, <2>3, <2>5, Zenon DEF OnLine, Line, Ancestors
  <2>8. OnLine(pj)
    BY <1>1, <1>6, Zenon DEF Line
  <2>9. LineInv'
    BY <1>1, <1>4, <2>7, <2>8, Zenon DEF OrderInv, LineInv
  <2>. QED
    BY <1>1, <1>5, <2>6, <2>9, Zenon DEF OrderInv
<1>8. CASE ulpRefs[pj] # 1
  <2>1. waiting' = waiting
    BY <1>8, Zenon DEF PostExecute
  <2>2. StackInv'
    BY <1>1, <2>1, Zenon DEF OrderInv, StackInv, Below
  <2>3. ASSUME NEW k \in Jobs, OnLine(k) PROVE OnLine(k)' \/ Stuck(k)
    <3>1. CASE Children(pj) # {}
      <4>1. PICK c \in Children(pj) : ejs[c] = "Waiting"
        BY <1>1, <3>1, Zenon DEF OrderInv, StackInv, InFlight
      <4>2. waiting # <<>> /\ Head(waiting) \in Jobs /\ Line(pj) \subseteq Line(Head(waiting))
        BY <1>1, <4>1, ChildWaits, Zenon
      <4>. QED
        BY <1>1, <1>6, <2>1, <2>3, <4>2, Zenon DEF OnLine, Line, Ancestors
    <3>2. CASE QueueRef(pj)
      <4>1. pjq[pj] \in Queues /\ QueuedBehind(pj, pjq[pj])
        BY <1>1, <3>2, Zenon DEF QueueRef, QueuedBehind, TypeOK
      <4>. QED
        BY <1>1, <1>6, <2>3, <4>1, Zenon DEF Stuck, HeldBack
    <3>. QED
      BY <1>2, <1>8, <3>1, <3>2
  <2>4. LineInv'
    <3>1. OnLine(pj)
      BY <1>1, <1>6, Zenon DEF Line
    <3>. QED
      BY <1>1, <1>4, <2>3, <3>1, Zenon DEF OrderInv, LineInv
  <2>. QED
    BY <1>1, <1>5, <2>2, <2>4, Zenon DEF OrderInv
<1>. QED
  BY <1>7, <1>8, Zenon
----------------------------------------------------------------------------
(* Every step of the scheduler keeps the order.                            *)
LEMMA NextOrder == IInv /\ OrderInv /\ [Next]_vars => OrderInv'
<1> SUFFICES ASSUME IInv, OrderInv, [Next]_vars PROVE OrderInv'
  BY Zenon
<1>1. TypeOK'
  BY NextInv, Zenon DEF IInv
<1>2. ASSUME NEW j \in Jobs, NEW q \in Queues, ScheduleMainJob(j, q) PROVE OrderInv'
  <2>1. pc = "Idle" /\ waiting = <<>> /\ \A r \in Queues : qList[r] = <<>>
    BY <1>2, Zenon DEF ScheduleMainJob, IInv, ControlInv
  <2>2. \A k : ~Stuck(k)
    BY <2>1, EmptyList, Zenon DEF Stuck, HeldBack, QueuedBehind
  <2>3. \A k \in Jobs : ~Live(k)
    <3>1. \A k \in Jobs : ejs[k] # "Waiting"
      BY <2>1, EmptyList, Zenon DEF IInv, WaitingExact
    <3>. QED
      BY <2>1, <2>2, <3>1, Zenon DEF OrderInv, LineInv, OnLine, InFlight
  <2>. QED
    BY <1>1, <1>2, <2>1, <2>3, AddOrder, Zenon DEF ScheduleMainJob
<1>3. ASSUME NEW j \in Jobs, NEW q \in Queues \cup {None}, AddChild(j, q) PROVE OrderInv'
  BY <1>1, <1>3, AddOrder, Zenon DEF AddChild
<1>4. ASSUME PostExecute PROVE OrderInv'
  BY <1>4, CompletedOrder, UnfinishedOrder, Zenon
<1>5. ASSUME NEW q \in Queues, EjqrEnter(q) PROVE OrderInv'
  BY <1>5, EjqrEnterFirstOrder, EjqrEnterLaterOrder, Zenon
<1>. QED
  BY <1>2, <1>3, <1>4, <1>5, PjRetrieveOrder, RestOrder, QuietStepsOrder,
     FExecuteCompletedOrder, NotifyNextOrder, Zenon DEF Next, RunStep

(* The scheduler starts without jobs.                                      *)
LEMMA InitOrder == Init => OrderInv
<1> SUFFICES ASSUME Init PROVE OrderInv
  BY Zenon
<1>1. /\ \A j \in Jobs : ~Live(j)
      /\ waiting = <<>> /\ pc = "Idle"
      /\ \A q \in Queues, j \in Jobs : ~QueuedBehind(j, q)
  BY EmptyList, Zenon DEF Init, Live, QueuedBehind
<1>. QED
  BY <1>1 DEF OrderInv, Acyclic, StackInv, LineInv, HeldInv, Unheld, InFlight, HeldBack

(* A queue whose main job is done lists no other job, for any number of    *)
(* jobs and queues, and a job that is held back waits in a circle with one *)
(* of its own ancestors: with one thread and CScheduler's LIFO list,       *)
(* CJobQueue::NotifyCompleted never has anyone to wake.                    *)
THEOREM SchedulerContendedOnlyInCycle == Spec => []ContendedOnlyInCycle
<1>1. ASSUME IInv, OrderInv PROVE ContendedOnlyInCycle
  <2>1. (\E q \in Queues, j \in Jobs : QueuedBehind(j, q)) =>
          \E q \in Queues, j \in Jobs : QueuedBehind(j, q) /\ qMain[q] \in Ancestors(j)
    BY <1>1, Zenon DEF OrderInv, HeldInv, HeldBack, Circle
  <2>2. ASSUME pc = "Notify" PROVE Len(qList[pjq[pj]]) <= 1
    <3>1. PICK q \in Queues : q = pjq[pj]
      BY <1>1, <2>2, Zenon DEF IInv, TypeOK, ControlInv, InFlight
    <3>2. qList[q] \in Seq(Jobs) /\ NoDup(qList[q]) /\ \A j \in Jobs : ~QueuedBehind(j, q)
      BY <1>1, <2>2, <3>1, Zenon DEF IInv, TypeOK, QueueInv, OrderInv, Unheld
    <3>3. \A i \in DOMAIN qList[q] : qList[q][i] = qMain[q]
      BY <3>2 DEF QueuedBehind, InList
    <3>4. \A i, k \in DOMAIN qList[q] : i = k
      BY <3>2, <3>3, Zenon DEF NoDup
    <3>5. ASSUME Len(qList[q]) > 1 PROVE FALSE
      <4>1. 1 \in DOMAIN qList[q] /\ 2 \in DOMAIN qList[q]
        BY <3>2, <3>5
      <4>. QED
        BY <3>4, <4>1
    <3>. QED
      BY <3>1, <3>2, <3>5
  <2>. QED
    BY <2>1, <2>2, Zenon DEF ContendedOnlyInCycle
<1>2. Spec => []OrderInv
  <2>1. Init => OrderInv
    BY InitOrder, Zenon
  <2>2. IInv /\ OrderInv /\ [Next]_vars => OrderInv'
    BY NextOrder, Zenon
  <2>. QED
    BY <2>1, <2>2, SchedulerInvariant, PTL DEF Spec
<1>. QED
  BY <1>1, <1>2, SchedulerInvariant, PTL
=============================================================================
