----------------------- MODULE DuplicateGroupsProofs -----------------------
(***************************************************************************)
(* Proofs about the duplicate links, for any number of groups.             *)
(*                                                                         *)
(* The inductive invariant adds to the properties that every group has a   *)
(* master above it, that the two ends of the link being added stand for    *)
(* the two groups being marked, and that a group whose link has been       *)
(* resolved points directly to its master.                                 *)
(***************************************************************************)
EXTENDS DuplicateGroups, TLAPS

Master(m) == dup[m] = None
Resolved(g) == dup[g] = None \/ dup[dup[g]] = None

HasMaster == \A g \in Groups : \E m \in Groups : Master(m) /\ cls[m] = cls[g] /\ g <= m

LinkInv ==
    pc = "Link" =>
        /\ src \in Groups /\ dest \in Groups /\ src < dest
        /\ fst \in Groups /\ snd \in Groups
        /\ \/ cls[src] = cls[fst] /\ cls[dest] = cls[snd]
           \/ cls[src] = cls[snd] /\ cls[dest] = cls[fst]

ClimbInv ==
    pc = "Climb" =>
        /\ todo # <<>> /\ tgt \in Groups
        /\ dup[Head(todo)] # None /\ dup[Head(todo)] <= tgt
        /\ cls[tgt] = cls[Head(todo)]

MarkedInv ==
    /\ fst = None <=> snd = None
    /\ pc # "Link" /\ fst # None =>
          /\ cls[fst] = cls[snd]
          /\ \A g \in {fst, snd} : Resolved(g) \/ \E i \in 1..Len(todo) : todo[i] = g
    /\ pc \in {"Idle", "Link"} => todo = <<>>

IInv == /\ TypeOK /\ LinksAscend /\ ClassesExact /\ HasMaster
        /\ LinkInv /\ ClimbInv /\ MarkedInv
----------------------------------------------------------------------------
(* The links of a fresh memo satisfy the invariant.                        *)
LEMMA InitInv == Init => IInv
  BY GroupsAssumption DEF Init, IInv, TypeOK, LinksAscend, ClassesExact, HasMaster,
     LinkInv, ClimbInv, MarkedInv, Master, Groups, None

(* Steps that change neither the links nor the classes.                    *)
LEMMA SameLinks ==
    ASSUME IInv, UNCHANGED <<dup, cls>> PROVE (LinksAscend /\ ClassesExact /\ HasMaster)'
  BY DEF IInv, LinksAscend, ClassesExact, HasMaster, Master

(* The call of CMemo::MarkDuplicates keeps the invariant.                  *)
LEMMA MarkDuplicatesInv ==
    ASSUME IInv, NEW g \in Groups, NEW h \in Groups, MarkDuplicates(g, h) PROVE IInv'
<1> USE GroupsAssumption
<1>1. TypeOK'
  BY DEF IInv, TypeOK, MarkDuplicates, Lesser, Greater
<1>2. (LinksAscend /\ ClassesExact /\ HasMaster)'
  BY SameLinks DEF MarkDuplicates
<1>3. LinkInv'
  BY DEF IInv, LinkInv, MarkDuplicates, Lesser, Greater, Groups, TypeOK
<1>4. ClimbInv' /\ MarkedInv'
  BY DEF IInv, ClimbInv, MarkedInv, MarkDuplicates, Groups, None
<1> QED
  BY <1>1, <1>2, <1>3, <1>4 DEF IInv

(* One turn of CGroup::AddDuplicateGrp's loop, which follows a link, keeps *)
(* the invariant.                                                          *)
LEMMA FollowLinkInv == IInv /\ FollowLink => IInv'
<1> SUFFICES ASSUME IInv, FollowLink PROVE IInv'
  OBVIOUS
<1> USE GroupsAssumption
<1>a. /\ pc = "Link" /\ src \in Groups /\ dest \in Groups /\ dup[src] \in Groups
      /\ dup[src] # dest /\ cls[dup[src]] = cls[src]
  BY DEF IInv, TypeOK, FollowLink, LinkInv, ClassesExact
<1>1. TypeOK'
  BY <1>a DEF IInv, TypeOK, FollowLink, Lesser, Greater
<1>2. (LinksAscend /\ ClassesExact /\ HasMaster)'
  BY SameLinks DEF FollowLink
<1>3. LinkInv'
  BY <1>a DEF IInv, LinkInv, FollowLink, Lesser, Greater, Groups
<1>4. ClimbInv' /\ MarkedInv'
  BY <1>a DEF IInv, ClimbInv, MarkedInv, FollowLink
<1> QED
  BY <1>1, <1>2, <1>3, <1>4 DEF IInv

(* The end of the chain gets the link: its class and that of the other end *)
(* become one, whose master is the other end's.                            *)
LEMMA AddLinkInv == IInv /\ AddLink => IInv'
<1> SUFFICES ASSUME IInv, AddLink PROVE IInv'
  OBVIOUS
<1> USE GroupsAssumption
<1>a. /\ pc = "Link" /\ src \in Groups /\ dest \in Groups /\ src < dest
      /\ fst \in Groups /\ snd \in Groups /\ dup[src] = None
      /\ \/ cls[src] = cls[fst] /\ cls[dest] = cls[snd]
         \/ cls[src] = cls[snd] /\ cls[dest] = cls[fst]
  BY DEF IInv, LinkInv, AddLink
<1>b. /\ dup \in [Groups -> Groups \cup {None}] /\ cls \in [Groups -> Groups]
      /\ dup' \in [Groups -> Groups \cup {None}] /\ cls' \in [Groups -> Groups]
      /\ dup'[src] = dest /\ \A g \in Groups : g # src => dup'[g] = dup[g]
  BY <1>a DEF IInv, TypeOK, AddLink
<1>c. PICK m \in Groups : Master(m) /\ cls[m] = cls[dest] /\ dest <= m
  BY <1>a DEF IInv, HasMaster
<1>d. m # src /\ cls[src] # cls[dest] /\ src < m
  BY <1>a, <1>c DEF IInv, ClassesExact, Master, Groups
<1>e. \A g, h \in Groups :
         cls'[g] = cls'[h] <=> \/ cls[g] = cls[h]
                               \/ cls[g] = cls[src] /\ cls[h] = cls[dest]
                               \/ cls[g] = cls[dest] /\ cls[h] = cls[src]
  BY <1>a, <1>d DEF AddLink
<1>1. TypeOK'
  BY <1>b DEF IInv, TypeOK, AddLink
<1>2. LinksAscend'
  BY <1>a, <1>b DEF IInv, LinksAscend
<1>3. ClassesExact'
  <2>1. ASSUME NEW g \in Groups, dup'[g] # None PROVE cls'[dup'[g]] = cls'[g]
    <3>1. CASE g = src
      BY <3>1, <1>a, <1>b, <1>e
    <3>2. CASE g # src
      BY <3>2, <2>1, <1>b, <1>e DEF IInv, ClassesExact
    <3> QED
      BY <3>1, <3>2
  <2>2. ASSUME NEW g \in Groups, NEW h \in Groups,
               dup'[g] = None, dup'[h] = None, cls'[g] = cls'[h]
        PROVE  g = h
    <3>1. g # src /\ h # src /\ dup[g] = None /\ dup[h] = None
      <4>1. dest # None
        BY <1>a DEF Groups, None
      <4> QED
        BY <4>1, <2>2, <1>b
    <3>2. cls[g] # cls[src] /\ cls[h] # cls[src]
      BY <3>1, <1>a DEF IInv, ClassesExact
    <3>3. cls[g] = cls[h]
      BY <3>2, <2>2, <1>e
    <3> QED
      BY <3>1, <3>3 DEF IInv, ClassesExact
  <2> QED
    BY <2>1, <2>2 DEF ClassesExact
<1>4. HasMaster'
  <2> SUFFICES ASSUME NEW g \in Groups
               PROVE  \E k \in Groups : dup'[k] = None /\ cls'[k] = cls'[g] /\ g <= k
    BY DEF HasMaster, Master
  <2>1. PICK k \in Groups : dup[k] = None /\ cls[k] = cls[g] /\ g <= k
    BY DEF IInv, HasMaster, Master
  <2>2. CASE k = src
    <3>1. dup'[m] = None /\ cls'[m] = cls'[g]
      BY <2>1, <2>2, <1>b, <1>c, <1>d, <1>e DEF Master
    <3>2. g <= m
      BY <2>1, <2>2, <1>d DEF Groups
    <3> QED
      BY <3>1, <3>2
  <2>3. CASE k # src
    BY <2>1, <2>3, <1>b, <1>e
  <2> QED
    BY <2>2, <2>3
<1>5. LinkInv'
  <2>1. cls'[src] = cls'[fst] /\ cls'[dest] = cls'[snd]
    BY <1>a, <1>e
  <2> QED
    BY <2>1, <1>a DEF LinkInv, AddLink
<1>6. ClimbInv' /\ MarkedInv'
  BY <1>a DEF IInv, ClimbInv, MarkedInv, AddLink
<1> QED
  BY <1>1, <1>2, <1>3, <1>4, <1>5, <1>6 DEF IInv

(* The end of that loop, the link being there, keeps the invariant.        *)
LEMMA LinkedInv == IInv /\ Linked => IInv'
<1> SUFFICES ASSUME IInv, Linked PROVE IInv'
  OBVIOUS
<1>a. /\ pc = "Link" /\ fst \in Groups /\ snd \in Groups /\ cls[fst] = cls[snd]
  BY GroupsAssumption DEF IInv, LinkInv, Linked, ClassesExact, Groups, None
<1>1. TypeOK'
  BY <1>a DEF IInv, TypeOK, Linked
<1>2. (LinksAscend /\ ClassesExact /\ HasMaster)'
  BY SameLinks DEF Linked
<1>3. LinkInv' /\ ClimbInv'
  BY DEF LinkInv, ClimbInv, Linked
<1>4. MarkedInv'
  <2>1. todo' = <<fst, snd>> /\ Len(todo') = 2 /\ todo'[1] = fst /\ todo'[2] = snd
    BY DEF Linked
  <2> QED
    BY <2>1, <1>a DEF IInv, MarkedInv, Linked
<1> QED
  BY <1>1, <1>2, <1>3, <1>4 DEF IInv

(* The call of CGroup::ResolveDuplicateMaster keeps the invariant.         *)
LEMMA ResolveCallInv ==
    ASSUME IInv, NEW g \in Groups, ResolveDuplicateMaster(g) PROVE IInv'
<1>1. TypeOK'
  BY DEF IInv, TypeOK, ResolveDuplicateMaster
<1>2. (LinksAscend /\ ClassesExact /\ HasMaster)'
  BY SameLinks DEF ResolveDuplicateMaster
<1>3. LinkInv' /\ ClimbInv'
  BY DEF LinkInv, ClimbInv, ResolveDuplicateMaster
<1>4. MarkedInv'
  BY DEF IInv, MarkedInv, Resolved, ResolveDuplicateMaster
<1> QED
  BY <1>1, <1>2, <1>3, <1>4 DEF IInv

(* What removing the first group from todo leaves.                         *)
LEMMA TailTodo ==
    ASSUME todo \in Seq(Groups), todo # <<>>
    PROVE  /\ Head(todo) \in Groups /\ Tail(todo) \in Seq(Groups)
           /\ \A g : (\E i \in 1..Len(todo) : todo[i] = g) =>
                g = Head(todo) \/ \E i \in 1..Len(Tail(todo)) : Tail(todo)[i] = g
<1>1. /\ Head(todo) \in Groups /\ Tail(todo) \in Seq(Groups) /\ Head(todo) = todo[1]
      /\ Len(Tail(todo)) = Len(todo) - 1 /\ Len(todo) \in Nat
      /\ \A i \in 1..Len(Tail(todo)) : Tail(todo)[i] = todo[i + 1]
  OBVIOUS
<1>2. ASSUME NEW i \in 1..Len(todo), i # 1
      PROVE  i - 1 \in 1..Len(Tail(todo)) /\ Tail(todo)[i - 1] = todo[i]
  BY <1>1, <1>2
<1> QED
  BY <1>1, <1>2

(* Its return for a group without a link keeps the invariant.              *)
LEMMA ResolveNoneInv == IInv /\ ResolveNone => IInv'
<1> SUFFICES ASSUME IInv, ResolveNone PROVE IInv'
  OBVIOUS
<1>a. /\ todo \in Seq(Groups) /\ todo # <<>> /\ dup[Head(todo)] = None
      /\ pc = "Resolve" /\ pc' = pc
  BY DEF IInv, TypeOK, ResolveNone
<1>1. TypeOK'
  BY <1>a, TailTodo DEF IInv, TypeOK, ResolveNone
<1>2. (LinksAscend /\ ClassesExact /\ HasMaster)'
  BY SameLinks DEF ResolveNone
<1>3. LinkInv' /\ ClimbInv'
  BY <1>a DEF LinkInv, ClimbInv
<1>4. MarkedInv'
  <2>1. Resolved(Head(todo))
    BY <1>a DEF Resolved
  <2> QED
    BY <1>a, <2>1, TailTodo DEF IInv, MarkedInv, Resolved, ResolveNone
<1> QED
  BY <1>1, <1>2, <1>3, <1>4 DEF IInv

(* Its start for a group with a link keeps the invariant.                  *)
LEMMA ResolveStartInv == IInv /\ ResolveStart => IInv'
<1> SUFFICES ASSUME IInv, ResolveStart PROVE IInv'
  OBVIOUS
<1>a. /\ todo # <<>> /\ dup[Head(todo)] # None /\ Head(todo) \in Groups
      /\ dup[Head(todo)] \in Groups /\ pc = "Resolve" /\ pc' = "Climb"
      /\ cls[dup[Head(todo)]] = cls[Head(todo)]
  BY TailTodo DEF IInv, TypeOK, ResolveStart, ClassesExact
<1>1. TypeOK'
  BY <1>a DEF IInv, TypeOK, ResolveStart
<1>2. (LinksAscend /\ ClassesExact /\ HasMaster)'
  BY SameLinks DEF ResolveStart
<1>3. LinkInv' /\ ClimbInv'
  BY <1>a, GroupsAssumption DEF LinkInv, ClimbInv, ResolveStart, Groups
<1>4. MarkedInv'
  BY <1>a DEF IInv, MarkedInv, Resolved, ResolveStart
<1> QED
  BY <1>1, <1>2, <1>3, <1>4 DEF IInv

(* One turn of its loop up the chain keeps the invariant.                  *)
LEMMA ClimbStepInv == IInv /\ Climb => IInv'
<1> SUFFICES ASSUME IInv, Climb PROVE IInv'
  OBVIOUS
<1>a. /\ pc = "Climb" /\ tgt \in Groups /\ dup[tgt] # None /\ dup[tgt] \in Groups
      /\ todo # <<>> /\ dup[Head(todo)] # None /\ dup[Head(todo)] <= tgt
      /\ Head(todo) \in Groups /\ dup[Head(todo)] \in Groups
      /\ cls[tgt] = cls[Head(todo)] /\ cls[dup[tgt]] = cls[tgt] /\ tgt < dup[tgt]
  BY TailTodo DEF IInv, TypeOK, Climb, ClimbInv, ClassesExact, LinksAscend
<1>1. TypeOK'
  BY <1>a DEF IInv, TypeOK, Climb
<1>2. (LinksAscend /\ ClassesExact /\ HasMaster)'
  BY SameLinks DEF Climb
<1>3. LinkInv'
  BY <1>a DEF LinkInv, Climb
<1>4. ClimbInv'
  <2>1. dup[Head(todo)] <= dup[tgt]
    BY <1>a, GroupsAssumption DEF Groups
  <2> QED
    BY <1>a, <2>1 DEF ClimbInv, Climb
<1>5. MarkedInv'
  BY <1>a DEF IInv, MarkedInv, Resolved, Climb
<1> QED
  BY <1>1, <1>2, <1>3, <1>4, <1>5 DEF IInv

(* The link of the first group now goes to the master of its class.        *)
LEMMA ShortenInv == IInv /\ Shorten => IInv'
<1> SUFFICES ASSUME IInv, Shorten PROVE IInv'
  OBVIOUS
<1>h. PICK h : h = Head(todo)
  OBVIOUS
<1>a. /\ pc = "Climb" /\ pc' = "Resolve" /\ tgt \in Groups /\ dup[tgt] = None
      /\ todo # <<>> /\ todo \in Seq(Groups) /\ h \in Groups /\ dup[h] \in Groups
      /\ dup[h] # None /\ dup[h] <= tgt /\ h < dup[h] /\ cls[tgt] = cls[h]
  BY <1>h, TailTodo DEF IInv, TypeOK, Shorten, ClimbInv, LinksAscend
<1>b. tgt # None /\ h < tgt /\ h # tgt
  BY <1>a, GroupsAssumption DEF Groups, None
<1>c. /\ todo' = Tail(todo) /\ UNCHANGED <<fst, snd, src, dest, tgt, cls>>
      /\ dup' \in [Groups -> Groups \cup {None}]
      /\ dup'[h] = tgt /\ \A g \in Groups : g # h => dup'[g] = dup[g]
  BY <1>h, <1>a DEF IInv, TypeOK, Shorten
<1>d. \A g \in Groups : dup'[g] = None <=> dup[g] = None
  BY <1>a, <1>b, <1>c
<1>1. TypeOK'
  BY <1>a, <1>c, TailTodo DEF IInv, TypeOK
<1>2. LinksAscend'
  BY <1>a, <1>b, <1>c DEF IInv, LinksAscend
<1>3. ClassesExact'
  BY <1>a, <1>c, <1>d DEF IInv, ClassesExact
<1>4. HasMaster'
  BY <1>c, <1>d DEF IInv, HasMaster, Master
<1>5. LinkInv' /\ ClimbInv'
  BY <1>a DEF LinkInv, ClimbInv
<1>6. MarkedInv'
  <2>1. Resolved(h)'
    BY <1>a, <1>b, <1>c DEF Resolved
  <2>2. ASSUME NEW g \in Groups, Resolved(g) PROVE Resolved(g)'
    <3>1. CASE g = h
      BY <2>1, <3>1
    <3>2. CASE g # h /\ dup[g] = None
      BY <3>2, <1>c DEF Resolved
    <3>3. CASE g # h /\ dup[g] # None
      <4>1. dup[g] \in Groups /\ dup[dup[g]] = None
        BY <2>2, <3>3 DEF IInv, TypeOK, Resolved
      <4> QED
        BY <4>1, <3>3, <1>c, <1>d DEF Resolved
    <3> QED
      BY <3>1, <3>2, <3>3
  <2>3. ASSUME fst # None, NEW g \in {fst, snd}
        PROVE  Resolved(g)' \/ \E i \in 1..Len(todo') : todo'[i] = g
    <3>1. g \in Groups /\ (Resolved(g) \/ \E i \in 1..Len(todo) : todo[i] = g)
      BY <2>3, <1>a DEF IInv, TypeOK, MarkedInv
    <3> QED
      BY <3>1, <2>1, <2>2, <1>h, <1>a, <1>c, TailTodo
  <2> QED
    BY <2>3, <1>a, <1>c DEF IInv, MarkedInv
<1> QED
  BY <1>1, <1>2, <1>3, <1>4, <1>5, <1>6 DEF IInv

(* Its return keeps the invariant.                                         *)
LEMMA ReturnInv == IInv /\ Return => IInv'
<1> SUFFICES ASSUME IInv, Return PROVE IInv'
  OBVIOUS
<1>1. TypeOK' /\ LinkInv' /\ ClimbInv'
  BY DEF IInv, TypeOK, LinkInv, ClimbInv, Return
<1>2. (LinksAscend /\ ClassesExact /\ HasMaster)'
  BY SameLinks DEF Return
<1>3. MarkedInv'
  BY DEF IInv, MarkedInv, Resolved, Return
<1> QED
  BY <1>1, <1>2, <1>3 DEF IInv

(* Every step of the links keeps the invariant.                            *)
LEMMA NextInv == IInv /\ [Next]_vars => IInv'
<1> SUFFICES ASSUME IInv, [Next]_vars PROVE IInv'
  OBVIOUS
<1>1. CASE UNCHANGED vars
  BY <1>1 DEF vars, IInv, TypeOK, LinksAscend, ClassesExact, HasMaster, Master,
     LinkInv, ClimbInv, MarkedInv, Resolved
<1>2. CASE LoopStep
  BY <1>2, LinkedInv, AddLinkInv, FollowLinkInv, ResolveNoneInv, ResolveStartInv,
     ClimbStepInv, ShortenInv, ReturnInv DEF LoopStep
<1>3. ASSUME NEW g \in Groups, NEW h \in Groups, MarkDuplicates(g, h) PROVE IInv'
  BY <1>3, MarkDuplicatesInv
<1>4. ASSUME NEW g \in Groups, ResolveDuplicateMaster(g) PROVE IInv'
  BY <1>4, ResolveCallInv
<1> QED
  BY <1>1, <1>2, <1>3, <1>4 DEF Next

(* The inductive invariant holds in every reachable state.                 *)
THEOREM LinksInvariant == Spec => []IInv
  BY InitInv, NextInv, PTL DEF Spec

(* The types of the links and of the locals of the loops.                  *)
THEOREM LinksTypes == Spec => []TypeOK
<1>1. IInv => TypeOK
  BY DEF IInv
<1> QED
  BY <1>1, LinksInvariant, PTL

(* AddDuplicateGrp keeps the links ordered by group id, so no chain of     *)
(* duplicates is ever circular.                                            *)
THEOREM LinksAscending == Spec => []LinksAscend
<1>1. IInv => LinksAscend
  BY DEF IInv
<1> QED
  BY <1>1, LinksInvariant, PTL

(* MarkDuplicates joins exactly the classes of its two arguments: links    *)
(* stay within a class and each class keeps one master.                    *)
THEOREM LinkedClassesExact == Spec => []ClassesExact
<1>1. IInv => ClassesExact
  BY DEF IInv
<1> QED
  BY <1>1, LinksInvariant, PTL

(* FDuplicateGroups recognises the two groups that were just marked.       *)
THEOREM MarkedRecognised == Spec => []MarkedIsRecognised
<1>1. IInv => MarkedIsRecognised
  <2> SUFFICES ASSUME IInv, pc = "Idle", fst # None
               PROVE  cls[fst] = cls[snd] /\ FDuplicateGroups(fst, snd)
    BY DEF MarkedIsRecognised
  <2>1. /\ fst \in Groups /\ snd \in Groups /\ cls[fst] = cls[snd]
        /\ Resolved(fst) /\ Resolved(snd)
    <3>1. todo = <<>> /\ Len(todo) = 0
      BY DEF IInv, MarkedInv
    <3> QED
      BY <3>1 DEF IInv, TypeOK, MarkedInv
  <2>2. \A g \in {fst, snd} : dup[g] # None =>
           dup[g] \in Groups /\ cls[dup[g]] = cls[g] /\ dup[dup[g]] = None
    BY <2>1 DEF IInv, TypeOK, ClassesExact, Resolved
  <2>3. \A g, h \in Groups : dup[g] = None /\ dup[h] = None /\ cls[g] = cls[h] => g = h
    BY DEF IInv, ClassesExact
  <2>4. CASE dup[fst] = None /\ dup[snd] = None
    BY <2>1, <2>3, <2>4 DEF FDuplicateGroups
  <2>5. CASE dup[fst] = None /\ dup[snd] # None
    BY <2>1, <2>2, <2>3, <2>5 DEF FDuplicateGroups
  <2>6. CASE dup[fst] # None /\ dup[snd] = None
    BY <2>1, <2>2, <2>3, <2>6 DEF FDuplicateGroups
  <2>7. CASE dup[fst] # None /\ dup[snd] # None
    BY <2>1, <2>2, <2>3, <2>7 DEF FDuplicateGroups
  <2> QED
    BY <2>1, <2>4, <2>5, <2>6, <2>7
<1> QED
  BY <1>1, LinksInvariant, PTL

(* FDuplicateGroups only recognises groups that are in one class.          *)
THEOREM RecognisedMarked == Spec => []RecognisedIsMarked
<1>1. IInv => RecognisedIsMarked
  <2> SUFFICES ASSUME IInv, NEW g \in Groups, NEW h \in Groups, FDuplicateGroups(g, h)
               PROVE  cls[g] = cls[h]
    BY DEF RecognisedIsMarked
  <2>1. \A k \in Groups : k # None
    BY GroupsAssumption DEF Groups, None
  <2>2. \A k \in Groups : dup[k] # None => cls[dup[k]] = cls[k]
    BY DEF IInv, ClassesExact
  <2> QED
    BY <2>1, <2>2 DEF FDuplicateGroups
<1> QED
  BY <1>1, LinksInvariant, PTL

(* Relinking and shortening only ever move a link up its chain.            *)
THEOREM LinksClimb == Spec => LinksOnlyClimb
<1>1. IInv /\ [Next]_vars => [\A g \in Groups : dup[g] # None => dup'[g] >= dup[g]]_vars
  <2> SUFFICES ASSUME IInv, Next, NEW g \in Groups, dup[g] # None
               PROVE  dup'[g] >= dup[g]
    OBVIOUS
  <2>1. dup[g] \in Groups /\ dup[g] >= dup[g]
    BY GroupsAssumption DEF IInv, TypeOK, Groups
  <2>2. CASE AddLink
    BY <2>1, <2>2 DEF AddLink, IInv, TypeOK
  <2>3. CASE Shorten
    BY <2>1, <2>3, GroupsAssumption DEF Shorten, IInv, TypeOK, ClimbInv, Groups
  <2>4. ASSUME ~AddLink, ~Shorten PROVE UNCHANGED dup
    BY <2>4 DEF Next, LoopStep, Linked, FollowLink, ResolveNone, ResolveStart, Climb,
       Return, MarkDuplicates, ResolveDuplicateMaster
  <2> QED
    BY <2>1, <2>2, <2>3, <2>4
<1> QED
  BY <1>1, LinksInvariant, PTL DEF Spec, LinksOnlyClimb
=============================================================================
