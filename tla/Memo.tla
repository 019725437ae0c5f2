-------------------------------- MODULE Memo --------------------------------
(***************************************************************************)
(* The memo of the optimizer: groups of equivalent expressions (CMemo,     *)
(* CGroup, CGroupExpression) as the engine fills it with the results of    *)
(* transformations (CEngine::PgroupInsert, InsertXformResult), and the     *)
(* merge of duplicate groups that ends the exploration of a search stage   *)
(* (CMemo::GroupMerge, CMemo::FRehash).                                    *)
(*                                                                         *)
(* Transformations are left open: any expression over existing groups that *)
(* means the same as the group it is meant for may be an alternative.      *)
(* mean is the specification's own record of what a group stands for.      *)
(* Scalar groups are left out.                                             *)
(***************************************************************************)
EXTENDS Naturals, Sequences, FiniteSets

CONSTANTS
    Ops,                 \* operators, order-sensitive in their inputs
    Arity(_),            \* number of inputs of an operator
    Sem(_, _),           \* what an operator applied to meanings means
    Columns(_),          \* output columns of an expression with a meaning
    BucketOf(_, _),      \* hash table bucket of an operator and group ids
    Query,               \* the query: operators and groups, in memo order
    MaxGroups, MaxGExprs,    \* bounds on the size of the memo
    MaxStages                \* number of search stages

None == 0                \* the null pointer; groups are numbered from 1

VARIABLES
    gx,       \* all group expressions, in the order of their creation
    dup,      \* CGroup::m_pgroupDuplicate, of the groups created so far
    ulGExprs, \* CGroup::m_ulGExprs
    mean,     \* what a group means
    table,    \* CMemo::m_sht: pairs of a bucket and a group expression
    root,     \* CMemo::m_pgroupRoot
    pc,       \* "Explore", "Insert", "Merge", "Rehash" or "Done"
    work,     \* the alternative being inserted by InsertXformResult
    cursor,   \* the next group of GroupMerge's loop
    list,     \* listGExprs of FRehash
    fNewDupGroups,
    stage     \* CEngine::m_ulCurrSearchStage

graph == <<gx, dup, ulGExprs, mean, table>>
vars == <<graph, root, pc, work, cursor, list, fNewDupGroups, stage>>

Groups == DOMAIN dup
GExprs == DOMAIN gx
Tuples(n, S) == [1..n -> S]

(* The query is inserted bottom up: the inputs of a node come before it.   *)
ASSUME MemoAssumption ==
    /\ \A op \in Ops : Arity(op) \in Nat
    /\ Len(Query) \in Nat \ {0} /\ DOMAIN Query = 1..Len(Query)
    /\ \A g \in DOMAIN Query :
          Query[g].op \in Ops /\ Query[g].kids \in Tuples(Arity(Query[g].op), 1..(g - 1))

(* The group expressions in a group's list m_listGExprs.                   *)
Listed(g) == {e \in GExprs : gx[e].home = g /\ ~gx[e].dup}
----------------------------------------------------------------------------
(* CGroup::FDuplicateGroups.                                               *)
FDuplicateGroups(d, g, h) ==
    g = h \/ g = d[h] \/ h = d[g] \/ (d[g] # None /\ d[g] = d[h])

(* The end of a chain of links d, as PgroupDuplicateMaster finds it.       *)
MasterIn(d, g) ==
    LET m[h \in DOMAIN d] == IF d[h] = None THEN h ELSE m[d[h]] IN m[g]

(* The links after CMemo::MarkDuplicates (see DuplicateGroups).            *)
AddDuplicateGrp(d, g, h) ==
    LET add[p \in (DOMAIN d) \X (DOMAIN d)] ==
            LET s == p[1]
                t == p[2]
            IN  IF s > t THEN add[<<t, s>>]
                ELSE IF d[s] = t THEN d
                ELSE IF d[s] = None THEN [d EXCEPT ![s] = t]
                ELSE add[<<d[s], t>>]
    IN  add[<<g, h>>]

Resolve(d, g) == IF d[g] = None THEN d ELSE [d EXCEPT ![g] = MasterIn(d, g)]

Marked(d, g, h) == Resolve(Resolve(AddDuplicateGrp(d, g, h), g), h)

(* The anonymous FReachable of CGroup.cpp: a search from the master of s   *)
(* along the inputs of the expressions listed in the masters it meets.     *)
FReachable(s, t) ==
    LET next(S) == {MasterIn(dup, gx[p[1]].kids[p[2]]) :
                      p \in {q \in GExprs \X (1..2) :
                          /\ q[2] \in DOMAIN gx[q[1]].kids
                          /\ gx[q[1]].home \in S /\ ~gx[q[1]].dup}}
        from[n \in Nat] == IF n = 0 THEN {MasterIn(dup, s)}
                           ELSE LET S == from[n - 1] IN S \cup next(S)
    IN  MasterIn(dup, t) \in from[Len(dup)]
----------------------------------------------------------------------------
(* CGroup::HashValue and CGroupExpression::HashValue.                      *)
GroupHash(g) == IF dup[g] # None /\ ulGExprs[g] = 0 THEN dup[g] ELSE g

HashValue(op, kids) ==
    BucketOf(op, [i \in DOMAIN kids |-> GroupHash(kids[i])])

(* Mutation: the last input is not compared.                               *)
MatchesButLast(op, kids, e) ==
    /\ gx[e].op = op
    /\ \A i \in 1..(Len(kids) - 1) : FDuplicateGroups(dup, kids[i], gx[e].kids[i])

(* CGroupExpression::Matches and CGroup::FMatchGroups.                     *)
Matches(op, kids, e) ==
    /\ gx[e].op = op
    /\ \A i \in DOMAIN kids : FDuplicateGroups(dup, kids[i], gx[e].kids[i])

(* The group expressions the hash table accessor may find.                 *)
Find(op, kids) ==
    {e \in GExprs : <<HashValue(op, kids), e>> \in table /\ Matches(op, kids, e)}

Meaning(op, kids) == Sem(op, [i \in DOMAIN kids |-> mean[kids[i]]])

(* The second CMemo::PgroupInsert, for an expression that was not found:   *)
(* into the table, into the target group, which may be a new one (Add).    *)
InsertInto(target, op, kids, prov) ==
    /\ gx' = Append(gx, [op |-> op, kids |-> kids, home |-> target,
                         dup |-> FALSE, prov |-> prov])
    /\ table' = table \cup {<<HashValue(op, kids), Len(gx) + 1>>}
    /\ IF target \in Groups
       THEN /\ ulGExprs' = [ulGExprs EXCEPT ![target] = @ + 1]
            /\ UNCHANGED <<dup, mean>>
       ELSE /\ ulGExprs' = Append(ulGExprs, 1)
            /\ dup' = Append(dup, None)
            /\ mean' = Append(mean, Meaning(op, kids))
----------------------------------------------------------------------------
(* CEngine::Init has inserted the query, one group for each of its nodes;  *)
(* the last one is the root.                                               *)
Init ==
    /\ gx = [g \in DOMAIN Query |-> [op |-> Query[g].op, kids |-> Query[g].kids,
                                     home |-> g, dup |-> FALSE, prov |-> FALSE]]
    /\ dup = [g \in DOMAIN Query |-> None]
    /\ ulGExprs = [g \in DOMAIN Query |-> 1]
    /\ mean = LET m[g \in DOMAIN Query] ==
                      Sem(Query[g].op, [i \in DOMAIN Query[g].kids |-> m[Query[g].kids[i]]])
              IN  m
    /\ table = {<<BucketOf(Query[g].op, Query[g].kids), g>> : g \in DOMAIN Query}
    /\ root = Len(Query)
    /\ pc = "Explore" /\ work = <<>> /\ cursor = 0 /\ list = {}
    /\ fNewDupGroups = FALSE /\ stage = 1

(* CGroupExpression::operator[]: the inputs of the expressions listed in a *)
(* group, as jobs and bindings see them.                                   *)
Child(g) == IF ulGExprs[g] = 0 THEN dup[g] ELSE g

Children(g) == UNION {{Child(gx[e].kids[i]) : i \in DOMAIN gx[e].kids} : e \in Listed(g)}

Descendants(g) ==
    LET from[n \in Nat] == IF n = 0 THEN Children(g)
                           ELSE LET S == from[n - 1] IN S \cup UNION {Children(h) : h \in S}
    IN  from[Len(dup)]

(* A transformation of an expression of the target group, which a job has  *)
(* reached from the root, returns an alternative of it, of DSL provenance  *)
(* if the transformation or the expression is.  InsertXformResult starts   *)
(* to insert it.  Its inputs are groups bound below the target, or, at     *)
(* most one and with None for it in kids, a new expression over such.      *)
XformResult(target, op, kids, fop, fkids, prov) ==
    /\ prov \/ \E e \in Listed(target) : ~gx[e].prov
    /\ IF kids = fkids
       THEN (\A i \in DOMAIN kids : kids[i] # None) /\ Len(gx) < MaxGExprs
       ELSE /\ \E i \in DOMAIN kids :
                  kids[i] = None /\ \A j \in DOMAIN kids \ {i} : kids[j] # None
            /\ Len(gx) + 2 <= MaxGExprs /\ Len(dup) < MaxGroups
    /\ mean[target] =
          Sem(op, [i \in DOMAIN kids |-> IF kids[i] = None THEN Meaning(fop, fkids)
                                         ELSE mean[kids[i]]])
    /\ work' = [target |-> target, op |-> op, kids |-> kids, fop |-> fop,
                fkids |-> fkids, prov |-> prov]
    /\ pc' = "Insert"
    /\ UNCHANGED <<graph, root, cursor, list, fNewDupGroups, stage>>

WithChild(g) ==
    [work EXCEPT !.kids = [i \in DOMAIN @ |-> IF @[i] = None THEN g ELSE @[i]]]

Fresh == \E i \in DOMAIN work.kids : work.kids[i] = None

(* CEngine::InsertExpressionChildren: PgroupInsert without a target group. *)
InsertChild ==
    /\ pc = "Insert" /\ Fresh
    /\ \/ \E e \in Find(work.fop, work.fkids) :
             /\ work' = WithChild(gx[e].home)
             /\ UNCHANGED graph
       \/ /\ Find(work.fop, work.fkids) = {}
          /\ InsertInto(Len(dup) + 1, work.fop, work.fkids, work.prov)
          /\ work' = WithChild(Len(dup) + 1)
    /\ UNCHANGED <<root, pc, cursor, list, fNewDupGroups, stage>>

(* The guard of CEngine::PgroupInsert against memo cycles.                 *)
ClosesCycle ==
    work.prov /\ \E i \in DOMAIN work.kids : FReachable(work.kids[i], work.target)

MayMark(g, h) ==
    /\ g # h /\ Columns(mean[g]) = Columns(mean[h])
    /\ work.prov => ~FReachable(g, h) /\ ~FReachable(h, g)

(* CEngine::PgroupInsert of the root of the alternative, and the rest of   *)
(* InsertXformResult: an expression found elsewhere makes its group a      *)
(* duplicate of the target group.                                          *)
InsertRoot ==
    /\ pc = "Insert" /\ ~Fresh
    /\ \/ ClosesCycle /\ UNCHANGED graph
       \/ /\ ~ClosesCycle
          /\ \E e \in Find(work.op, work.kids) :
                dup' = IF MayMark(work.target, gx[e].home)
                       THEN Marked(dup, work.target, gx[e].home) ELSE dup
          /\ UNCHANGED <<gx, ulGExprs, mean, table>>
       \/ /\ ~ClosesCycle /\ Find(work.op, work.kids) = {}
          /\ InsertInto(work.target, work.op, work.kids, work.prov)
    /\ work' = <<>>
    /\ pc' = "Explore"
    /\ UNCHANGED <<root, cursor, list, fNewDupGroups, stage>>
----------------------------------------------------------------------------
(* The exploration of the root group is complete: CEngine::                *)
(* FinalizeExploration calls CMemo::GroupMerge.                            *)
GroupMerge ==
    /\ pc = "Explore"
    /\ pc' = "Merge"
    /\ cursor' = Len(dup)
    /\ UNCHANGED <<graph, root, work, list, fNewDupGroups, stage>>

(* The loop of CGroup::MergeGroup moves n expressions from g to t.         *)
MovedCounts(g, t, n) == [ulGExprs EXCEPT ![g] = @ - n, ![t] = @ + n]

(* CGroup::MergeGroup of one group; the newest group comes first.          *)
MergeGroup ==
    /\ pc = "Merge" /\ cursor > 0
    /\ IF dup[cursor] = None THEN UNCHANGED graph
       ELSE LET t == MasterIn(dup, cursor)
                moved == Listed(cursor)
            IN  /\ dup' = Resolve(dup, cursor)
                /\ gx' = [e \in GExprs |-> IF e \in moved
                                           THEN [gx[e] EXCEPT !.home = t] ELSE gx[e]]
                /\ ulGExprs' = MovedCounts(cursor, t, Cardinality(moved))
                /\ UNCHANGED <<mean, table>>
    /\ cursor' = cursor - 1
    /\ UNCHANGED <<root, pc, work, list, fNewDupGroups, stage>>

InTable == {e \in GExprs : \E p \in table : p[2] = e}

(* Mutation: the table is not rehashed.                                    *)
StartRehashSkips ==
    /\ pc = "Merge" /\ cursor = 0
    /\ root' = IF dup[root] # None THEN dup[root] ELSE root
    /\ pc' = "Done"
    /\ UNCHANGED <<graph, work, cursor, list, fNewDupGroups, stage>>

(* The root is redirected, and FRehash empties the table into its list.    *)
StartRehash ==
    /\ pc = "Merge" /\ cursor = 0
    /\ root' = IF dup[root] # None THEN dup[root] ELSE root
    /\ list' = InTable /\ table' = {}
    /\ fNewDupGroups' = FALSE
    /\ pc' = "Rehash"
    /\ UNCHANGED <<gx, dup, ulGExprs, mean, work, cursor, stage>>

(* Two expressions that match: do their groups have to be joined, and may  *)
(* they, as far as expressions of DSL provenance are concerned?            *)
Resolved2(g, h) == IF g = h THEN dup ELSE Resolve(Resolve(dup, g), h)

JoinsGroups(g, h) == ~FDuplicateGroups(Resolved2(g, h), g, h)

CollapsesCycle(e, f) ==
    /\ gx[e].prov \/ gx[f].prov
    /\ JoinsGroups(gx[e].home, gx[f].home)
    /\ \/ FReachable(gx[e].home, gx[f].home)
       \/ FReachable(gx[f].home, gx[e].home)

(* Mutation: the count of the group is not decremented.                    *)
SetDuplicateMiscounts(e) ==
    /\ gx' = [gx EXCEPT ![e].dup = TRUE]
    /\ UNCHANGED ulGExprs

(* CGroupExpression::SetDuplicate and CGroup::MoveDuplicateGExpr.          *)
SetDuplicate(e) ==
    /\ gx' = [gx EXCEPT ![e].dup = TRUE]
    /\ ulGExprs' = [ulGExprs EXCEPT ![gx[e].home] = @ - 1]

(* CMemo::FRehash, when e matches f in the table.                           *)
RehashDuplicate(e, f) ==
    LET g == gx[e].home
        h == gx[f].home
        joins == JoinsGroups(g, h)
    IN  IF CollapsesCycle(e, f)
        THEN /\ dup' = Resolved2(g, h)
             /\ UNCHANGED <<gx, ulGExprs, fNewDupGroups>>
        ELSE /\ SetDuplicate(e)
             /\ dup' = IF joins THEN Marked(Resolved2(g, h), g, h) ELSE Resolved2(g, h)
             /\ fNewDupGroups' = (fNewDupGroups \/ joins)

(* One turn of the loop of CMemo::FRehash; the order of the list is that   *)
(* of the hash table, hence any.                                           *)
Rehash(e) ==
    /\ pc = "Rehash" /\ e \in list
    /\ list' = list \ {e}
    /\ LET found == Find(gx[e].op, gx[e].kids)
       IN  \/ /\ found = {}
              /\ table' = table \cup {<<HashValue(gx[e].op, gx[e].kids), e>>}
              /\ UNCHANGED <<gx, dup, ulGExprs, fNewDupGroups>>
           \/ \E f \in found : RehashDuplicate(e, f) /\ UNCHANGED table
    /\ UNCHANGED <<mean, root, pc, work, cursor, stage>>

(* Mutations: duplicates found by the rehash are not merged; the merge is  *)
(* repeated although there are none.                                       *)
RehashDoneOnce ==
    /\ pc = "Rehash" /\ list = {}
    /\ pc' = "Done" /\ cursor' = 0
    /\ UNCHANGED <<graph, root, work, list, fNewDupGroups, stage>>

RehashDoneRepeats ==
    /\ pc = "Rehash" /\ list = {}
    /\ pc' = "Merge" /\ cursor' = Len(dup)
    /\ UNCHANGED <<graph, root, work, list, fNewDupGroups, stage>>

RehashDone ==
    /\ pc = "Rehash" /\ list = {}
    /\ pc' = IF fNewDupGroups THEN "Merge" ELSE "Done"
    /\ cursor' = IF fNewDupGroups THEN Len(dup) ELSE 0
    /\ UNCHANGED <<graph, root, work, list, fNewDupGroups, stage>>

(* The next search stage explores the merged memo.                         *)
NextStage ==
    /\ pc = "Done" /\ stage < MaxStages
    /\ stage' = stage + 1
    /\ pc' = "Explore"
    /\ UNCHANGED <<graph, root, work, cursor, list, fNewDupGroups>>

Finished == pc = "Done" /\ stage = MaxStages /\ UNCHANGED vars

Explore ==
    /\ pc = "Explore"
    /\ \E target \in {root} \cup Descendants(root) :
          LET Bound == Descendants(target)
          IN  \E op \in Ops : \E kids \in Tuples(Arity(op), Bound \cup {None}), prov \in BOOLEAN :
                 \/ XformResult(target, op, kids, op, kids, prov)
                 \/ \E fop \in Ops : \E fkids \in Tuples(Arity(fop), Bound) :
                       XformResult(target, op, kids, fop, fkids, prov)

MergeStep ==
    MergeGroup \/ StartRehash \/ (\E e \in list : Rehash(e)) \/ RehashDone

Next ==
    \/ Explore \/ InsertChild \/ InsertRoot
    \/ GroupMerge \/ MergeStep
    \/ NextStage \/ Finished

Spec == Init /\ [][Next]_vars
FairSpec == Spec /\ WF_vars(MergeStep)
----------------------------------------------------------------------------
(* The types of the memo's fields.                                         *)
TypeOK ==
    /\ \A e \in GExprs :
          /\ gx[e].op \in Ops /\ gx[e].kids \in Tuples(Arity(gx[e].op), Groups)
          /\ gx[e].home \in Groups /\ gx[e].dup \in BOOLEAN /\ gx[e].prov \in BOOLEAN
    /\ dup \in [Groups -> Groups \cup {None}]
    /\ ulGExprs \in [Groups -> 0..Len(gx)]
    /\ InTable \subseteq GExprs /\ root \in Groups /\ list \subseteq GExprs
    /\ cursor \in 0..Len(dup)

(* Whatever is found, marked, merged and rehashed, every expression of a   *)
(* group means what the group means, and only groups with the same meaning *)
(* are ever linked.                                                        *)
SameMeaning ==
    /\ \A e \in GExprs : Meaning(gx[e].op, gx[e].kids) = mean[gx[e].home]
    /\ \A g \in Groups : dup[g] # None => mean[dup[g]] = mean[g]

(* m_ulGExprs counts the expressions listed in the group at every point of *)
(* the merge; CGroup::HashValue and CGroupExpression::operator[] take      *)
(* "merged into another group" from it.                                    *)
CountsExact == \A g \in Groups : ulGExprs[g] = Cardinality(Listed(g))

(* While transformations insert expressions, every expression is in the    *)
(* bucket of its current hash value: a lookup cannot miss it because the   *)
(* hash of its input groups has changed in the meantime.                   *)
TableCurrent ==
    pc \in {"Explore", "Insert", "Done"} =>
        \A p \in table : p[1] = HashValue(gx[p[2]].op, gx[p[2]].kids)

SameResolved(e, f) ==
    /\ gx[e].op = gx[f].op
    /\ \A i \in DOMAIN gx[e].kids :
          MasterIn(dup, gx[e].kids[i]) = MasterIn(dup, gx[f].kids[i])

(* When GroupMerge returns, each class of duplicates is one group: all its *)
(* expressions are listed in the master, the links are one step long and   *)
(* the root is a master.  A lookup of any expression of the memo succeeds, *)
(* and no two expressions in the table have the same operator and inputs.  *)
(* Only DSL provenance may have kept an expression out of the table.       *)
MergeComplete ==
    pc = "Done" =>
        /\ \A g \in Groups : ulGExprs[g] = 0 <=> dup[g] # None
        /\ \A g \in Groups : dup[g] # None => dup[dup[g]] = None
        /\ dup[root] = None
        /\ \A e \in GExprs : \E f \in InTable : SameResolved(e, f)
        /\ \A e, f \in InTable : SameResolved(e, f) => e = f
        /\ (\A e \in GExprs : ~gx[e].prov) => InTable = {e \in GExprs : ~gx[e].dup}

(* An expression is only ever dropped in favour of one that says the same: *)
(* the merge loses no alternative of a class.                              *)
NoAlternativeLost ==
    \A e \in GExprs : gx[e].dup =>
        \E f \in GExprs : /\ ~gx[f].dup /\ SameResolved(e, f)
                          /\ MasterIn(dup, gx[f].home) = MasterIn(dup, gx[e].home)

(* GroupMerge terminates: "keep merging groups until we have no new        *)
(* duplicates".                                                            *)
MergeTerminates == (pc = "Merge") ~> (pc = "Done")

(* The classes of groups a class depends on, through the expressions listed *)
(* in any of its groups.                                                   *)
Inputs(m) ==
    {MasterIn(dup, gx[p[1]].kids[p[2]]) :
        p \in {q \in GExprs \X (1..2) : /\ q[2] \in DOMAIN gx[q[1]].kids
                                        /\ MasterIn(dup, gx[q[1]].home) = m
                                        /\ ~gx[q[1]].dup}}

Below(m) ==
    LET from[n \in Nat] == IF n = 0 THEN Inputs(m)
                           ELSE LET S == from[n - 1] IN S \cup UNION {Inputs(k) : k \in S}
    IN  from[Len(dup)]

(* No group depends on itself.                                             *)
Acyclic == \A g \in Groups : MasterIn(dup, g) \notin Below(MasterIn(dup, g))
=============================================================================
