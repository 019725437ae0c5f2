-------------------------- MODULE DuplicateGroups --------------------------
(***************************************************************************)
(* The duplicate links between memo groups (CGroup::m_pgroupDuplicate):    *)
(* CMemo::MarkDuplicates declares two groups equivalent by linking them    *)
(* (CGroup::AddDuplicateGrp) and then shortens the links of both           *)
(* (CGroup::ResolveDuplicateMaster).  One action per turn of their loops.  *)
(*                                                                         *)
(* A group is identified by its id.  cls is the specification's own record *)
(* of the equivalence: it only looks at the pairs that were marked.        *)
(***************************************************************************)
EXTENDS Naturals, Sequences

CONSTANT N              \* number of groups in the memo

ASSUME GroupsAssumption == N \in Nat

Groups == 1..N
None == 0               \* the null pointer

VARIABLES
    dup,        \* CGroup::m_pgroupDuplicate
    pc,         \* where MarkDuplicates is
    fst, snd,   \* its arguments; the last ones while it is idle
    src, dest,  \* pgroupSrc and pgroupDest of AddDuplicateGrp
    todo,       \* the groups whose link is still to be resolved
    tgt,        \* pgroupTarget of ResolveDuplicateMaster
    cls         \* the name of each group's equivalence class

vars == <<dup, pc, fst, snd, src, dest, todo, tgt, cls>>

Init ==
    /\ dup = [g \in Groups |-> None]
    /\ pc = "Idle"
    /\ fst = None /\ snd = None
    /\ src = None /\ dest = None
    /\ todo = <<>>
    /\ tgt = None
    /\ cls = [g \in Groups |-> g]

Lesser(g, h) == IF g > h THEN h ELSE g
Greater(g, h) == IF g > h THEN g ELSE h
----------------------------------------------------------------------------
(* CMemo::MarkDuplicates, up to the loop of AddDuplicateGrp.  Its callers  *)
(* have compared the two groups.                                           *)
MarkDuplicates(g, h) ==
    /\ pc = "Idle" /\ g # h
    /\ fst' = g /\ snd' = h
    /\ src' = Lesser(g, h) /\ dest' = Greater(g, h)
    /\ pc' = "Link"
    /\ UNCHANGED <<dup, todo, tgt, cls>>

(* The loop ends: the link is there.                                       *)
Linked ==
    /\ pc = "Link" /\ dup[src] = dest
    /\ pc' = "Resolve"
    /\ todo' = <<fst, snd>>
    /\ UNCHANGED <<dup, fst, snd, src, dest, tgt, cls>>

(* Mutation: an existing link is overwritten instead of being followed.    *)
AddLinkOverwrites ==
    /\ pc = "Link" /\ dup[src] # dest
    /\ dup' = [dup EXCEPT ![src] = dest]
    /\ cls' = [g \in Groups |-> IF cls[g] = cls[fst] THEN cls[snd] ELSE cls[g]]
    /\ UNCHANGED <<pc, fst, snd, src, dest, todo, tgt>>

AddLink ==
    /\ pc = "Link" /\ dup[src] = None
    /\ dup' = [dup EXCEPT ![src] = dest]
    /\ cls' = [g \in Groups |-> IF cls[g] = cls[fst] THEN cls[snd] ELSE cls[g]]
    /\ UNCHANGED <<pc, fst, snd, src, dest, todo, tgt>>

(* Mutation: after following a link the two ends are not put in order.     *)
FollowLinkUnordered ==
    /\ pc = "Link" /\ dup[src] # dest /\ dup[src] # None
    /\ src' = dup[src]
    /\ UNCHANGED <<dup, pc, fst, snd, dest, todo, tgt, cls>>

FollowLink ==
    /\ pc = "Link" /\ dup[src] # dest /\ dup[src] # None
    /\ src' = Lesser(dup[src], dest)
    /\ dest' = Greater(dup[src], dest)
    /\ UNCHANGED <<dup, pc, fst, snd, todo, tgt, cls>>
----------------------------------------------------------------------------
(* CGroup::ResolveDuplicateMaster as CMemo::FRehash and CGroup::MergeGroup *)
(* call it.                                                                *)
ResolveDuplicateMaster(g) ==
    /\ pc = "Idle"
    /\ todo' = <<g>>
    /\ pc' = "Resolve"
    /\ UNCHANGED <<dup, fst, snd, src, dest, tgt, cls>>

ResolveNone ==
    /\ pc = "Resolve" /\ todo # <<>> /\ dup[Head(todo)] = None
    /\ todo' = Tail(todo)
    /\ UNCHANGED <<dup, pc, fst, snd, src, dest, tgt, cls>>

ResolveStart ==
    /\ pc = "Resolve" /\ todo # <<>> /\ dup[Head(todo)] # None
    /\ tgt' = dup[Head(todo)]
    /\ pc' = "Climb"
    /\ UNCHANGED <<dup, fst, snd, src, dest, todo, cls>>

(* Mutation: the loop never gets to the end of the chain.                  *)
ClimbStays ==
    /\ pc = "Climb" /\ dup[tgt] # None
    /\ UNCHANGED vars

Climb ==
    /\ pc = "Climb" /\ dup[tgt] # None
    /\ tgt' = dup[tgt]
    /\ UNCHANGED <<dup, pc, fst, snd, src, dest, todo, cls>>

(* Mutation: the reference to the target group is not updated.             *)
ShortenForgets ==
    /\ pc = "Climb" /\ dup[tgt] = None
    /\ todo' = Tail(todo)
    /\ pc' = "Resolve"
    /\ UNCHANGED <<dup, fst, snd, src, dest, tgt, cls>>

Shorten ==
    /\ pc = "Climb" /\ dup[tgt] = None
    /\ dup' = [dup EXCEPT ![Head(todo)] = tgt]
    /\ todo' = Tail(todo)
    /\ pc' = "Resolve"
    /\ UNCHANGED <<fst, snd, src, dest, tgt, cls>>

Return ==
    /\ pc = "Resolve" /\ todo = <<>>
    /\ pc' = "Idle"
    /\ UNCHANGED <<dup, fst, snd, src, dest, todo, tgt, cls>>

LoopStep ==
    \/ Linked \/ AddLink \/ FollowLink
    \/ ResolveNone \/ ResolveStart \/ Climb \/ Shorten \/ Return

Next ==
    \/ LoopStep
    \/ \E g, h \in Groups : MarkDuplicates(g, h)
    \/ \E g \in Groups : ResolveDuplicateMaster(g)

Spec == Init /\ [][Next]_vars
FairSpec == Spec /\ WF_vars(LoopStep)
----------------------------------------------------------------------------
(* CGroup::FDuplicateGroups: what FMatchGroups compares child groups with. *)
FDuplicateGroups(g, h) ==
    \/ g = h
    \/ g = dup[h]
    \/ h = dup[g]
    \/ dup[g] # None /\ dup[g] = dup[h]

(* The types of the links and of the locals of the loops.                  *)
TypeOK ==
    /\ dup \in [Groups -> Groups \cup {None}]
    /\ pc \in {"Idle", "Link", "Resolve", "Climb"}
    /\ fst \in Groups \cup {None} /\ snd \in Groups \cup {None}
    /\ src \in Groups \cup {None} /\ dest \in Groups \cup {None}
    /\ todo \in Seq(Groups)
    /\ tgt \in Groups \cup {None}
    /\ cls \in [Groups -> Groups]

(* "add link following monotonic ordering of group IDs" (AddDuplicateGrp), *)
(* which ResolveDuplicateMaster asserts and needs in order to terminate.   *)
LinksAscend == \A g \in Groups : dup[g] # None => g < dup[g]

(* The links connect exactly the groups that were marked, whatever chains  *)
(* the two groups are already on: a link never leaves its class, and every *)
(* class has one group without a link, its master.                         *)
ClassesExact ==
    /\ \A g \in Groups : dup[g] # None => cls[dup[g]] = cls[g]
    /\ \A g, h \in Groups :
          dup[g] = None /\ dup[h] = None /\ cls[g] = cls[h] => g = h

(* When MarkDuplicates returns, its arguments are equivalent, and          *)
(* FDuplicateGroups, which looks one link deep, recognises them.           *)
MarkedIsRecognised ==
    pc = "Idle" /\ fst # None =>
        /\ cls[fst] = cls[snd]
        /\ FDuplicateGroups(fst, snd)

(* FDuplicateGroups never takes two groups for equivalent that are not,    *)
(* also in the middle of a relinking.                                      *)
RecognisedIsMarked ==
    \A g, h \in Groups : FDuplicateGroups(g, h) => cls[g] = cls[h]

(* A group never loses its link and a link only ever moves up its chain.   *)
LinksOnlyClimb ==
    [][\A g \in Groups : dup[g] # None => dup'[g] >= dup[g]]_vars

(* The loops of AddDuplicateGrp and ResolveDuplicateMaster terminate.      *)
MarkReturns == (pc # "Idle") ~> (pc = "Idle")
=============================================================================
