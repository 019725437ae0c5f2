------------------------------- MODULE Search -------------------------------
(***************************************************************************)
(* One search of the optimizer (CEngine::Optimize): in every search stage  *)
(* a job optimizes the root group, for which it has the group implemented, *)
(* for which it has it explored, and so on down the memo.  The jobs are    *)
(* the state machines CJobGroupExploration, CJobGroupExpressionExploration,*)
(* CJobTransformation, CJobGroupImplementation,                            *)
(* CJobGroupExpressionImplementation, CJobGroupOptimization and            *)
(* CJobGroupExpressionOptimization; the memo they work on is that of Memo, *)
(* with its merge at the end of the exploration of the root.               *)
(*                                                                         *)
(* The scheduler is taken at its promise (see Scheduler): the job added    *)
(* last runs first, a job goes on when its children have completed, the    *)
(* second job of an operation under way waits for the first.  One action   *)
(* is one call of a job's FExecute.  Siblings are scheduled in the order   *)
(* of their creation, which after a merge need not be that of the list.    *)
(*                                                                         *)
(* Every stage may run out of time at any moment (CSearchStage::FTimedOut),*)
(* which ends every job that is executed from then on.                     *)
(*                                                                         *)
(* Every group has one optimization context in each stage, and every       *)
(* expression one implementation with one request: required properties,    *)
(* enforcers, cost bounds, optimization levels, CTE producers and DPHyper  *)
(* regions are left out.  Which of two plans of a group is the cheaper one *)
(* is left open.                                                           *)
(***************************************************************************)
EXTENDS Memo

CONSTANT MaxResults      \* alternatives the transformations of an expression give

VARIABLES
    estate,    \* CGroup::m_estate
    xstate,    \* CGroupExpression::m_estate, of logical expressions
    circular,  \* the expressions with m_ecirculardependency set
    phys,      \* the logical expressions that have an implementation
    poc,       \* the state of a group's context of this stage
    plan,      \* the best expression of a group's contexts of all stages, or None
    jobs,      \* the waiting jobs, each followed by those that wait for it
    open,      \* the job queues with a main job, and
    done,      \*   those with m_fCompleted set
    stuck,     \* a job had to queue up in this stage
    main,      \* the group of the main job of this stage
    late       \* CSearchStage::FTimedOut of this stage

searchVars == <<estate, xstate, circular, phys, poc, plan, jobs, open, done, stuck, main, late>>
allVars == <<vars, searchVars>>

Unexplored == 0
Exploring == 1
Explored == 2
Implementing == 3
Implemented == 4

(* The states of COptimizationContext, and no context at all.              *)
NoContext == 0
Unoptimized == 1
Optimizing == 2
Optimized == 3

(* A job that was just scheduled.  step is the state of its state machine, *)
(* last is CJobGroup::m_pgexprLastScheduled or the number of results.      *)
Job(kind, tgt) == [kind |-> kind, tgt |-> tgt, step |-> 0, last |-> 0, held |-> FALSE]

GroupKinds == {"GroupExploration", "GroupImplementation", "GroupOptimization"}

Top == Head(jobs)
Queue(j) == <<j.kind, j.tgt>>

(* Children are scheduled one by one, and the last one is run first.       *)
Backwards(s) == [i \in DOMAIN s |-> s[Len(s) + 1 - i]]
InOrder(S) ==
    LET sorted[T \in SUBSET S] ==
            IF T = {} THEN <<>>
            ELSE LET m == CHOOSE e \in T : \A f \in T : e <= f
                 IN  <<m>> \o sorted[T \ {m}]
    IN  sorted[S]

Spawn(kind, tgts) == Backwards([i \in DOMAIN tgts |-> Job(kind, tgts[i])])
Suspended(job, children) == children \o <<job>> \o Tail(jobs)

(* The children of an expression, as CGroupExpression::operator[] returns. *)
ChildGroups(e) == [i \in DOMAIN gx[e].kids |-> Child(gx[e].kids[i])]

SearchInit ==
    /\ Init
    /\ estate = [g \in Groups |-> Unexplored]
    /\ xstate = [e \in GExprs |-> Unexplored]
    /\ circular = {} /\ phys = {}
    /\ poc = [g \in Groups |-> IF g = root THEN Unoptimized ELSE NoContext]
    /\ plan = [g \in Groups |-> None]
    /\ jobs = <<Job("GroupOptimization", root)>>
    /\ open = {} /\ done = {} /\ stuck = FALSE
    /\ main = root /\ late = FALSE
----------------------------------------------------------------------------
(* CJobQueue::EjqrAdd of the job on top: it executes unless its operation  *)
(* is completed, or is under way in another job.                           *)
Queued == Top.kind \in GroupKinds /\ Top.step = 0

Ready ==
    /\ pc = "Explore" /\ jobs # <<>> /\ ~Top.held
    /\ Queued => Queue(Top) \notin open \cup done

Executes(kind) == Ready /\ Top.kind = kind /\ ~late

(* The first started job below is the one the job on top is a child of.    *)
HoldParent(s) ==
    LET started == {i \in DOMAIN s : s[i].step > 0}
    IN  IF started = {} THEN s
        ELSE [s EXCEPT ![CHOOSE i \in started : \A k \in started : i <= k].held = TRUE]

Enter == open' = IF Queued THEN open \cup {Queue(Top)} ELSE open

(* Mutations: NotifyCompleted marks the queue as completed and leaves the  *)
(* job in it; it does not mark it.                                         *)
CompleteStays ==
    /\ jobs' = Tail(jobs)
    /\ open' = open
    /\ done' = IF Top.kind \in GroupKinds THEN done \cup {Queue(Top)} ELSE done

CompleteUnmarked ==
    /\ jobs' = Tail(jobs)
    /\ UNCHANGED <<open, done>>

(* CScheduler::CompleteQueued and CJobQueue::NotifyCompleted.              *)
Complete ==
    /\ jobs' = Tail(jobs)
    /\ open' = open \ {Queue(Top)}
    /\ done' = IF Top.kind \in GroupKinds THEN done \cup {Queue(Top)} ELSE done

Suspend(job, children) ==
    /\ jobs' = Suspended(job, children)
    /\ Enter
    /\ UNCHANGED done

(* A job whose operation is completed; a job that waits in the queue of an *)
(* operation under way, and a job with such a child, which does not go on. *)
FindsCompleted ==
    /\ pc = "Explore" /\ jobs # <<>> /\ Queued /\ Queue(Top) \in done
    /\ jobs' = Tail(jobs)
    /\ UNCHANGED <<vars, estate, xstate, circular, phys, poc, plan, open, done, stuck, main, late>>

QueuesUp ==
    /\ pc = "Explore" /\ jobs # <<>> /\ Queued /\ Queue(Top) \in open
    /\ jobs' = HoldParent(Tail(jobs))
    /\ stuck' = TRUE
    /\ UNCHANGED <<vars, estate, xstate, circular, phys, poc, plan, open, done, main, late>>

IsHeld ==
    /\ pc = "Explore" /\ jobs # <<>> /\ Top.held
    /\ jobs' = HoldParent(Tail(jobs))
    /\ UNCHANGED <<vars, estate, xstate, circular, phys, poc, plan, open, done, stuck, main, late>>

(* CSearchStage::FTimedOut: the time of the stage is up.                   *)
TimesOut ==
    /\ pc = "Explore" /\ jobs # <<>> /\ ~late
    /\ late' = TRUE
    /\ UNCHANGED <<vars, estate, xstate, circular, phys, poc, plan, jobs, open, done, stuck, main>>

(* Mutation: a group whose exploration was ended counts as explored.       *)
CutShortExplored ==
    /\ Ready /\ late
    /\ Complete
    /\ estate' = IF Top.kind = "GroupExploration" THEN [estate EXCEPT ![Top.tgt] = Explored]
                 ELSE estate
    /\ UNCHANGED <<vars, xstate, circular, phys, poc, plan, stuck, main, late>>

(* CJobStateMachine::FRun then ends a job where it is: the job counts as   *)
(* completed and has changed nothing.  If time runs out within FRun, the   *)
(* group may have got its first state; nobody looks at it before it is     *)
(* reset.                                                                  *)
CutShort ==
    /\ Ready /\ late
    /\ Complete
    /\ UNCHANGED <<vars, estate, xstate, circular, phys, poc, plan, stuck, main, late>>
----------------------------------------------------------------------------
(* CJobGroupExploration::FScheduleGroupExpressions.                        *)
Unexpl(g) == {e \in Listed(g) : e > Top.last /\ xstate[e] < Explored}

GroupExploration ==
    LET g == Top.tgt
        new == Unexpl(g)
    IN  /\ Executes("GroupExploration") /\ Top.step < 2
        /\ IF new # {}
           THEN /\ Suspend([Top EXCEPT !.step = 1, !.last = InOrder(new)[Cardinality(new)]],
                           Spawn("GroupExpressionExploration", InOrder(new)))
                /\ estate' = [estate EXCEPT ![g] = Exploring]
                /\ UNCHANGED vars
           ELSE /\ estate' = [estate EXCEPT ![g] = Explored]
                /\ IF g = root
                   THEN /\ GroupMerge
                        /\ jobs' = <<[Top EXCEPT !.step = 2]>> \o Tail(jobs)
                        /\ Enter /\ UNCHANGED done
                   ELSE Complete /\ UNCHANGED vars
        /\ UNCHANGED <<xstate, circular, phys, poc, plan, stuck, main, late>>

(* CEngine::FinalizeExploration of the root has returned.                  *)
ExplorationFinalized ==
    /\ pc = "Done" /\ jobs # <<>> /\ Top.step = 2
    /\ pc' = "Explore"
    /\ Complete
    /\ UNCHANGED <<graph, root, work, cursor, list, fNewDupGroups, stage>>
    /\ UNCHANGED <<estate, xstate, circular, phys, poc, plan, stuck, main, late>>

(* CJobGroupExpressionExploration: the child groups, the transformations,  *)
(* the end.                                                                *)
GroupExpressionExploration ==
    /\ Executes("GroupExpressionExploration")
    /\ \/ /\ Top.step = 0
          /\ xstate' = [xstate EXCEPT ![Top.tgt] = Exploring]
          /\ Suspend([Top EXCEPT !.step = 1], Spawn("GroupExploration", ChildGroups(Top.tgt)))
       \/ /\ Top.step = 1
          /\ Suspend([Top EXCEPT !.step = 2], <<Job("Transformation", Top.tgt)>>)
          /\ UNCHANGED xstate
       \/ /\ Top.step = 2
          /\ xstate' = [xstate EXCEPT ![Top.tgt] = Explored]
          /\ Complete
    /\ UNCHANGED <<vars, estate, circular, phys, poc, plan, stuck, main, late>>

(* The groups bound below an expression.  Of native transformations we     *)
(* assume that they put nothing below the target that depends on it.       *)
BoundBelow(e) ==
    LET kids == {Child(gx[e].kids[i]) : i \in DOMAIN gx[e].kids}
    IN  kids \cup UNION {Descendants(g) : g \in kids}

GrowsDownwards(target, fop, fkids) ==
    \A f \in Find(fop, fkids) :
        gx[f].home # target /\ target \notin Descendants(gx[f].home)

(* CJobTransformation: the transformation jobs of an expression run one    *)
(* after the other and are one job here.                                   *)
Transform ==
    LET e == Top.tgt
        Bound == BoundBelow(e)
    IN  /\ Executes("Transformation") /\ Top.last < MaxResults
        /\ \E op \in Ops : \E kids \in Tuples(Arity(op), Bound \cup {None}), prov \in BOOLEAN :
              /\ prov \/ ~gx[e].prov
              /\ \/ XformResult(gx[e].home, op, kids, op, kids, prov)
                 \/ \E fop \in Ops : \E fkids \in Tuples(Arity(fop), Bound) :
                       /\ prov \/ GrowsDownwards(gx[e].home, fop, fkids)
                       /\ XformResult(gx[e].home, op, kids, fop, fkids, prov)
        /\ jobs' = <<[Top EXCEPT !.last = @ + 1]>> \o Tail(jobs)
        /\ UNCHANGED <<estate, xstate, circular, phys, poc, plan, open, done, stuck, main, late>>

TransformationDone ==
    /\ Executes("Transformation")
    /\ Complete
    /\ UNCHANGED <<vars, estate, xstate, circular, phys, poc, plan, stuck, main, late>>

(* New groups and expressions start unexplored.                            *)
Extended(f, n) == [i \in 1..n |-> IF i \in DOMAIN f THEN f[i] ELSE 0]

InsertResult ==
    /\ InsertChild \/ InsertRoot
    /\ xstate' = Extended(xstate, Len(gx'))
    /\ estate' = Extended(estate, Len(dup'))
    /\ poc' = Extended(poc, Len(dup'))
    /\ plan' = Extended(plan, Len(dup'))
    /\ UNCHANGED <<circular, phys, jobs, open, done, stuck, main, late>>

(* CGroup::MergeGroup: an expression that comes into an explored group is  *)
(* explored.                                                               *)
MovedState(e, t) ==
    IF estate[t] >= Explored /\ xstate[e] < Explored THEN Explored ELSE xstate[e]

MergeStates ==
    /\ \/ MergeGroup /\ xstate' = [e \in GExprs |-> IF gx'[e].home # gx[e].home
                                                    THEN MovedState(e, gx'[e].home)
                                                    ELSE xstate[e]]
       \/ (StartRehash \/ (\E e \in list : Rehash(e)) \/ RehashDone) /\ UNCHANGED xstate
    /\ UNCHANGED <<estate, circular, phys, poc, plan, jobs, open, done, stuck, main, late>>
----------------------------------------------------------------------------
(* CGroupExpression::ContainsCircularDependencies.                         *)
ContainsCircularDependencies(e) ==
    \/ e \in circular
    \/ \E i \in DOMAIN gx[e].kids :
          gx[e].kids[i] = gx[e].home \/ dup[gx[e].kids[i]] = gx[e].home

Unimpl(g) == {e \in Listed(g) : e > Top.last /\ xstate[e] < Implemented}

(* CJobGroupImplementation::FScheduleGroupExpressions, of a group that has *)
(* been explored.                                                          *)
ImplementGroup(g) ==
    LET new == {e \in Unimpl(g) : ~ContainsCircularDependencies(e)}
    IN  /\ circular' = circular \cup {e \in Unimpl(g) : ContainsCircularDependencies(e)}
        /\ IF new # {}
           THEN /\ Suspend([Top EXCEPT !.step = 2, !.last = InOrder(new)[Cardinality(new)]],
                           Spawn("GroupExpressionImplementation", InOrder(new)))
                /\ estate' = [estate EXCEPT ![g] = Implementing]
           ELSE /\ Complete
                /\ estate' = [estate EXCEPT ![g] = Implemented]

GroupImplementation ==
    /\ Executes("GroupImplementation")
    /\ \/ /\ Top.step < 2 /\ estate[Top.tgt] < Explored
          /\ Suspend([Top EXCEPT !.step = 1], <<Job("GroupExploration", Top.tgt)>>)
          /\ UNCHANGED <<estate, circular>>
       \/ /\ Top.step = 2 \/ estate[Top.tgt] >= Explored
          /\ ImplementGroup(Top.tgt)
    /\ UNCHANGED <<vars, xstate, phys, poc, plan, stuck, main, late>>

(* CJobGroupExpressionImplementation: the child groups, the transformation *)
(* that inserts the implementation, the end.                               *)
GroupExpressionImplementation ==
    /\ Executes("GroupExpressionImplementation")
    /\ \/ /\ Top.step = 0
          /\ xstate' = [xstate EXCEPT ![Top.tgt] = Implementing]
          /\ Suspend([Top EXCEPT !.step = 1], Spawn("GroupImplementation", ChildGroups(Top.tgt)))
          /\ UNCHANGED phys
       \/ /\ Top.step = 1
          /\ phys' = phys \cup {Top.tgt}
          /\ Suspend([Top EXCEPT !.step = 2], <<>>)
          /\ UNCHANGED xstate
       \/ /\ Top.step = 2
          /\ xstate' = [xstate EXCEPT ![Top.tgt] = Implemented]
          /\ Complete
          /\ UNCHANGED phys
    /\ UNCHANGED <<vars, estate, circular, poc, plan, stuck, main, late>>
----------------------------------------------------------------------------
(* CJobGroupOptimization.  A context is inserted when its job is created.  *)
Inserted(contexts, g) == [contexts EXCEPT ![g] = IF @ = NoContext THEN Unoptimized ELSE @]

(* Mutation: the last scheduled expression is not kept.                    *)
OptimizeGroupAgain(g) ==
    LET new == {e \in phys \cap Listed(g) : e > Top.last}
    IN  IF new # {}
        THEN /\ Suspend([Top EXCEPT !.step = 2], Spawn("GroupExpressionOptimization", InOrder(new)))
             /\ poc' = [poc EXCEPT ![g] = Optimizing]
        ELSE /\ Complete
             /\ poc' = [poc EXCEPT ![g] = Optimized]

OptimizeGroup(g) ==
    LET new == {e \in phys \cap Listed(g) : e > Top.last}
    IN  IF new # {}
        THEN /\ Suspend([Top EXCEPT !.step = 2, !.last = InOrder(new)[Cardinality(new)]],
                        Spawn("GroupExpressionOptimization", InOrder(new)))
             /\ poc' = [poc EXCEPT ![g] = Optimizing]
        ELSE /\ Complete
             /\ poc' = [poc EXCEPT ![g] = Optimized]

GroupOptimization ==
    /\ Executes("GroupOptimization")
    /\ \/ /\ Top.step < 2 /\ estate[Top.tgt] < Implemented
          /\ Suspend([Top EXCEPT !.step = 1], <<Job("GroupImplementation", Top.tgt)>>)
          /\ UNCHANGED poc
       \/ /\ Top.step = 2 \/ estate[Top.tgt] >= Implemented
          /\ OptimizeGroup(Top.tgt)
    /\ UNCHANGED <<vars, estate, xstate, circular, phys, plan, stuck, main, late>>

(* Mutation: the last child group is left out.                             *)
FChildrenScheduledEarly(e, n) == n + 1 >= Len(gx[e].kids)

(* CJobGroupExpressionOptimization: the child groups one after the other,  *)
(* as long as the one before has a plan, then the expression itself.       *)
FChildrenScheduled(e, n) == n = Len(gx[e].kids)
Planless(e, n) == \E i \in 1..n : plan[Child(gx[e].kids[i])] = None

GroupExpressionOptimization ==
    LET e == Top.tgt
        n == Top.last
    IN  /\ Executes("GroupExpressionOptimization")
        /\ \/ /\ ~FChildrenScheduled(e, n) /\ ~Planless(e, n)
              /\ Child(gx[e].kids[n + 1]) # gx[e].home
              /\ Suspend([Top EXCEPT !.step = 1, !.last = n + 1],
                         <<Job("GroupOptimization", Child(gx[e].kids[n + 1]))>>)
              /\ poc' = Inserted(poc, Child(gx[e].kids[n + 1]))
              /\ UNCHANGED plan
           \/ /\ \/ Planless(e, n)
                 \/ ~FChildrenScheduled(e, n) /\ Child(gx[e].kids[n + 1]) = gx[e].home
              /\ Complete
              /\ UNCHANGED <<poc, plan>>
           \/ /\ FChildrenScheduled(e, n) /\ ~Planless(e, n)
              /\ plan' \in {[plan EXCEPT ![gx[e].home] = f] : f \in {e, plan[gx[e].home]} \ {None}}
              /\ Complete
              /\ UNCHANGED poc
        /\ UNCHANGED <<vars, estate, xstate, circular, phys, stuck, main, late>>
----------------------------------------------------------------------------
(* CScheduler::Run has returned; CEngine::FinalizeSearchStage resets the   *)
(* groups and the next stage optimizes the root, unless the plan found is  *)
(* as cheap as the stage asked for (CEngine::FSearchTerminated).           *)
RunReturned == pc = "Explore" /\ jobs = <<>>

(* Mutation: the states of the expressions are not reset.                  *)
ResetStateSkips == xstate

(* CGroup::ResetGroupState resets the expressions of the group's list.     *)
ResetState == [e \in GExprs |-> IF gx[e].dup THEN xstate[e] ELSE Unexplored]

(* Mutation: a queue stays completed, also if its job was cut short.       *)
ResetGroupJobQueuesOpen == open' = {} /\ UNCHANGED done

(* CGroup::ResetGroupJobQueues.                                            *)
ResetGroupJobQueues == open' = {} /\ done' = {}

FinalizeSearchStage ==
    /\ RunReturned /\ stage < MaxStages
    /\ stage' = stage + 1
    /\ estate' = [g \in Groups |-> Unexplored]
    /\ xstate' = ResetState
    /\ poc' = [g \in Groups |-> IF g = root THEN Unoptimized ELSE NoContext]
    /\ jobs' = <<Job("GroupOptimization", root)>>
    /\ ResetGroupJobQueues
    /\ stuck' = FALSE /\ main' = root /\ late' = FALSE
    /\ UNCHANGED <<graph, root, pc, work, cursor, list, fNewDupGroups, circular, phys, plan>>

SearchFinished ==
    /\ RunReturned /\ (stage = MaxStages \/ plan[root] # None)
    /\ UNCHANGED allVars

RunStep ==
    \/ FindsCompleted \/ QueuesUp \/ IsHeld \/ TimesOut \/ CutShort
    \/ GroupExploration \/ ExplorationFinalized \/ GroupExpressionExploration
    \/ Transform \/ TransformationDone \/ InsertResult \/ MergeStates
    \/ GroupImplementation \/ GroupExpressionImplementation
    \/ GroupOptimization \/ GroupExpressionOptimization

SearchNext == RunStep \/ FinalizeSearchStage \/ SearchFinished

SearchSpec == SearchInit /\ [][SearchNext]_allVars
FairSearchSpec == SearchSpec /\ WF_allVars(RunStep)
----------------------------------------------------------------------------
(* The states of groups, expressions and contexts; a job queue cannot be   *)
(* under way and completed at once.                                        *)
SearchTypeOK ==
    /\ TypeOK
    /\ estate \in [Groups -> Unexplored..Implemented]
    /\ xstate \in [GExprs -> Unexplored..Implemented]
    /\ circular \subseteq GExprs /\ phys \subseteq GExprs 
    /\ plan \in [Groups -> GExprs \cup {None}] /\ late \in BOOLEAN
    /\ poc \in [Groups -> NoContext..Optimized]
    /\ open \cap done = {} /\ main \in Groups

(* CGroup::MergeGroup claims to be "maintaining the invariant that every   *)
(* expression in an explored group is explored", and the assertion of      *)
(* CJobGroupExpressionImplementation::EevtImplementChildren relies on it:  *)
(* no alternative that arrives while the group is explored is missed.      *)
ExploredThroughout ==
    \A g \in Groups : estate[g] >= Explored =>
        \A e \in Listed(g) : xstate[e] >= Explored

(* The assertions of CGroup::SetState, CGroupExpression::SetState and      *)
(* COptimizationContext::SetState: a job that starts finds its group, its  *)
(* expression or its context in the state before the one it will set, in   *)
(* every stage and whatever was merged before.                             *)
StateBefore ==
    pc = "Explore" /\ jobs # <<>> /\ Top.step = 0 /\ Executes(Top.kind) =>
        CASE Top.kind = "GroupExploration" -> estate[Top.tgt] = Unexplored
          [] Top.kind = "GroupImplementation" -> estate[Top.tgt] \in {Unexplored, Explored}
          [] Top.kind = "GroupOptimization" ->
                /\ poc[Top.tgt] = Unoptimized
                /\ estate[Top.tgt] \in {Unexplored, Explored, Implemented}
          [] Top.kind = "GroupExpressionExploration" -> xstate[Top.tgt] = Unexplored
          [] Top.kind = "GroupExpressionImplementation" -> xstate[Top.tgt] = Explored
          [] OTHER -> TRUE

(* With one thread and the scheduler's order a job finds its operation     *)
(* under way only if that operation waits for the job: jobs get stuck only *)
(* when groups depend on themselves.                                       *)
NoMutualWait == stuck => ~Acyclic

(* When the run of a stage returns, everything the root depends on has     *)
(* been implemented and optimized and the root has a plan, unless groups   *)
(* depend on themselves or the root was merged into another group.  Merges *)
(* of other groups, between the exploration and the implementation of      *)
(* their parents, do no harm.                                              *)
StageComplete ==
    RunReturned /\ ~late /\ root = main /\ Acyclic =>
        /\ plan[root] # None
        /\ \A g \in {root} \cup Descendants(root) :
              /\ estate[g] = Implemented /\ poc[g] = Optimized
              /\ Listed(g) \subseteq phys

(* The groups CMemo::PexprExtractPlan comes to.                            *)
PlanGroups ==
    LET parts(g) == IF plan[g] = None THEN {}
                    ELSE {Child(gx[plan[g]].kids[i]) : i \in DOMAIN gx[plan[g]].kids}
        from[n \in Nat] == IF n = 0 THEN {root}
                           ELSE LET S == from[n - 1] IN S \cup UNION {parts(g) : g \in S}
    IN  from[Len(dup)]

(* "extract best plan found at the end of current search stage", from the  *)
(* contexts of all stages: whoever has found a plan for the root has one   *)
(* for each group that plan comes to, also if the stage before, or this    *)
(* one, was cut short, if jobs did not get stuck and no stage that merged  *)
(* groups was cut short.                                                   *)
Extractable ==
    RunReturned /\ plan[root] # None /\ ~stuck /\ (late => \A g \in Groups : dup[g] = None) =>
        \A g \in PlanGroups : plan[g] # None

(* Every stage ends: CScheduler::Run returns, even if jobs get stuck.      *)
StageEnds == []<>RunReturned

(* CMemo::PexprExtractPlan asserts that the root group has an optimization *)
(* context ("nullptr != poc"), that is, that CEngine::Optimize has         *)
(* optimized the group that is the root when the stage ends.               *)
RootOptimized == RunReturned /\ ~stuck /\ ~late => poc[root] = Optimized

(* CJobQueue::Reset and the destructor of CScheduler assert that no job is *)
(* left: "Such Group Expression can be ignored for ... implementation",    *)
(* says CGroupExpression::ContainsCircularDependencies of expressions that *)
(* depend on their own group.                                              *)
NoJobLeft == RunReturned => ~stuck
=============================================================================
