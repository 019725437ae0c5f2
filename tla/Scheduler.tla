----------------------------- MODULE Scheduler -----------------------------
(***************************************************************************)
(* The job scheduler of the optimizer: CScheduler, CJob and CJobQueue      *)
(* (libgpopt/src/search).  One thread pops jobs from a LIFO waiting list   *)
(* and runs them.  A running job may add child jobs and is suspended until *)
(* all of them have completed.  A job may be tied to a job queue: the      *)
(* first job to reach the queue becomes the queue's main job and really    *)
(* executes, every later one waits in the queue until the main job is done.*)
(*                                                                         *)
(* What a job does while it executes (CJob::FExecute, virtual) is left     *)
(* open: it adds children and then reports "suspended" or "completed".     *)
(* Jobs are objects of a pool: a released job is reused under the same     *)
(* address, so that a stale pointer to it is visible to the model.         *)
(***************************************************************************)
EXTENDS Naturals, Sequences, FiniteSets

CONSTANTS Jobs,         \* addresses of the job objects the factory hands out
          Queues,       \* the job queues (of groups and optimization contexts)
          None,         \* the null pointer
          Level,        \* [Queues -> Nat]: rank of the work a queue stands for
          MaxSuspends   \* how often one job may report "suspended"

ASSUME SchedulerAssumption ==
    /\ IsFiniteSet(Jobs)
    /\ None \notin Jobs /\ None \notin Queues
    /\ Level \in [Queues -> Nat]
    /\ MaxSuspends \in Nat

VARIABLES
    ejs,         \* CJob::m_ejs, "Free" while the object is in the factory
    pjParent,    \* CJob::m_pjParent
    pjq,         \* CJob::m_pjq
    ulpRefs,     \* CJob::m_ulpRefs
    waiting,     \* CScheduler::m_listjlWaiting, the head is popped first
    ulpTotal, ulpRunning, ulpQueued,    \* the counters of CScheduler
    qMain,       \* CJobQueue::m_pj
    qCompleted,  \* CJobQueue::m_fCompleted
    qList,       \* CJobQueue::m_listjQueued
    pc, pj, fCompleted,  \* control point and locals of CScheduler::ExecuteJobs
    level,       \* rank of a job: its queue's, or one less than its parent's
    suspends     \* number of times a job has reported "suspended"

jobVars == <<ejs, pjParent, pjq, ulpRefs, level, suspends>>
counters == <<ulpTotal, ulpRunning, ulpQueued>>
queueVars == <<qMain, qCompleted, qList>>
vars == <<jobVars, waiting, counters, queueVars, pc, pj, fCompleted>>

InList(j, s) == \E i \in DOMAIN s : s[i] = j
Live(j) == ejs[j] # "Free"
Children(j) == {c \in Jobs : Live(c) /\ pjParent[c] = j}

Init ==
    /\ ejs = [j \in Jobs |-> "Free"]
    /\ pjParent = [j \in Jobs |-> None]
    /\ pjq = [j \in Jobs |-> None]
    /\ ulpRefs = [j \in Jobs |-> 0]
    /\ level = [j \in Jobs |-> 0]
    /\ suspends = [j \in Jobs |-> 0]
    /\ waiting = <<>>
    /\ ulpTotal = 0 /\ ulpRunning = 0 /\ ulpQueued = 0
    /\ qMain = [q \in Queues |-> None]
    /\ qCompleted = [q \in Queues |-> FALSE]
    /\ qList = [q \in Queues |-> <<>>]
    /\ pc = "Idle" /\ pj = None /\ fCompleted = FALSE
----------------------------------------------------------------------------
(* CScheduler::Add and Schedule on a job the factory has just created      *)
(* (CJob::Reset) and initialised (SetJobQueue).                            *)
Add(j, q, parent, lvl) ==
    /\ ejs[j] = "Free"
    /\ ejs' = [ejs EXCEPT ![j] = "Waiting"]
    /\ pjParent' = [pjParent EXCEPT ![j] = parent]
    /\ pjq' = [pjq EXCEPT ![j] = q]
    /\ ulpRefs' = [k \in Jobs |-> IF k = j THEN 0
                                  ELSE IF k = parent THEN ulpRefs[k] + 1
                                  ELSE ulpRefs[k]]
    /\ level' = [level EXCEPT ![j] = lvl]
    /\ suspends' = [suspends EXCEPT ![j] = 0]
    /\ waiting' = <<j>> \o waiting
    /\ ulpTotal' = ulpTotal + 1
    /\ ulpQueued' = ulpQueued + 1
    /\ UNCHANGED <<ulpRunning, queueVars, pj, fCompleted>>

(* CEngine::ScheduleMainJob followed by CScheduler::Run.  The previous     *)
(* search stage has been finalized: every queue passed the assertion of    *)
(* CJobQueue::Reset.                                                       *)
ScheduleMainJob(j, q) ==
    /\ pc = "Idle" /\ \A r \in Queues : qList[r] = <<>>
    /\ Add(j, q, None, Level[q])
    /\ pc' = "Retrieve"

(* CJobQueue::Reset, between two search stages.                            *)
ResetQueue(q) ==
    /\ pc = "Idle" /\ qList[q] = <<>>
    /\ qMain' = [qMain EXCEPT ![q] = None]
    /\ qCompleted' = [qCompleted EXCEPT ![q] = FALSE]
    /\ UNCHANGED <<jobVars, waiting, counters, qList, pc, pj, fCompleted>>

(* The loop of ExecuteJobs ends: no job is waiting.                        *)
RunReturns ==
    /\ pc = "Retrieve" /\ waiting = <<>>
    /\ pc' = "Idle"
    /\ pj' = None
    /\ UNCHANGED <<jobVars, waiting, counters, queueVars, fCompleted>>

(* Mutation: the waiting list is served first in, first out.               *)
PjRetrieveOldest ==
    /\ pc = "Retrieve" /\ waiting # <<>>
    /\ pj' = waiting[Len(waiting)]
    /\ waiting' = SubSeq(waiting, 1, Len(waiting) - 1)
    /\ ulpQueued' = ulpQueued - 1
    /\ ejs' = [ejs EXCEPT ![waiting[Len(waiting)]] = "Running"]
    /\ pc' = "PreExecute"
    /\ UNCHANGED <<pjParent, pjq, ulpRefs, level, suspends, ulpTotal,
                   ulpRunning, queueVars, fCompleted>>

(* CScheduler::PjRetrieve.                                                 *)
PjRetrieve ==
    /\ pc = "Retrieve" /\ waiting # <<>>
    /\ pj' = Head(waiting)
    /\ waiting' = Tail(waiting)
    /\ ulpQueued' = ulpQueued - 1
    /\ ejs' = [ejs EXCEPT ![Head(waiting)] = "Running"]
    /\ pc' = "PreExecute"
    /\ UNCHANGED <<pjParent, pjq, ulpRefs, level, suspends, ulpTotal,
                   ulpRunning, queueVars, fCompleted>>

(* CScheduler::PreExecute.                                                 *)
PreExecute ==
    /\ pc = "PreExecute"
    /\ ulpRunning' = ulpRunning + 1
    /\ ulpRefs' = [ulpRefs EXCEPT ![pj] = @ + 1]
    /\ pc' = IF pjq[pj] = None THEN "Execute" ELSE "Enqueue"
    /\ UNCHANGED <<ejs, pjParent, pjq, level, suspends, waiting, ulpTotal,
                   ulpQueued, queueVars, pj, fCompleted>>
----------------------------------------------------------------------------
(* Mutation: a job that finds its operation completed reports "suspended". *)
EjqrCompletedSuspends ==
    /\ pc = "Enqueue" /\ qCompleted[pjq[pj]]
    /\ fCompleted' = FALSE
    /\ pc' = "PostExecute"
    /\ UNCHANGED <<jobVars, waiting, counters, queueVars, pj>>

(* Mutations: every job that enters the queue executes; a job that enters  *)
(* behind the main job is taken for completed.                             *)
EjqrEnterAllMain(q) ==
    /\ pc = "Enqueue" /\ q = pjq[pj] /\ ~qCompleted[q] /\ qMain[q] # pj
    /\ qList' = [qList EXCEPT ![q] = Append(@, pj)]
    /\ ulpRefs' = [ulpRefs EXCEPT ![pj] = @ + 1]
    /\ qMain' = [qMain EXCEPT ![q] = IF @ = None THEN pj ELSE @]
    /\ pc' = "Execute"
    /\ UNCHANGED <<ejs, pjParent, pjq, level, suspends, waiting, counters,
                   qCompleted, pj, fCompleted>>

EjqrEnterCompletes(q) ==
    /\ pc = "Enqueue" /\ q = pjq[pj] /\ ~qCompleted[q] /\ qMain[q] # pj
    /\ IF qList[q] = <<>>
       THEN /\ qList' = [qList EXCEPT ![q] = Append(@, pj)]
            /\ ulpRefs' = [ulpRefs EXCEPT ![pj] = @ + 1]
            /\ qMain' = [qMain EXCEPT ![q] = pj]
            /\ pc' = "Execute"
            /\ UNCHANGED fCompleted
       ELSE /\ fCompleted' = TRUE
            /\ pc' = "PostExecute"
            /\ UNCHANGED <<qMain, qList, ulpRefs>>
    /\ UNCHANGED <<ejs, pjParent, pjq, level, suspends, waiting, counters,
                   qCompleted, pj>>

(* CJobQueue::EjqrAdd, one action per EJobQueueResult; the dispatch on the *)
(* result is the switch of CScheduler::FExecute.                           *)
EjqrCompleted ==
    /\ pc = "Enqueue" /\ qCompleted[pjq[pj]]
    /\ fCompleted' = TRUE
    /\ pc' = "PostExecute"
    /\ UNCHANGED <<jobVars, waiting, counters, queueVars, pj>>

EjqrMainAgain ==
    /\ pc = "Enqueue" /\ ~qCompleted[pjq[pj]] /\ qMain[pjq[pj]] = pj
    /\ ulpRefs' = [ulpRefs EXCEPT ![pj] = @ + 1]
    /\ pc' = "Execute"
    /\ UNCHANGED <<ejs, pjParent, pjq, level, suspends, waiting, counters,
                   queueVars, pj, fCompleted>>

EjqrEnter(q) ==
    /\ pc = "Enqueue" /\ q = pjq[pj] /\ ~qCompleted[q] /\ qMain[q] # pj
    /\ qList' = [qList EXCEPT ![q] = Append(@, pj)]
    /\ ulpRefs' = [ulpRefs EXCEPT ![pj] = @ + 1]
    /\ IF qList[q] = <<>>
       THEN /\ qMain' = [qMain EXCEPT ![q] = pj]
            /\ pc' = "Execute"
            /\ UNCHANGED fCompleted
       ELSE /\ fCompleted' = FALSE
            /\ pc' = "PostExecute"
            /\ UNCHANGED qMain
    /\ UNCHANGED <<ejs, pjParent, pjq, level, suspends, waiting, counters,
                   qCompleted, pj>>
----------------------------------------------------------------------------
(* CJob::FExecute as the scheduler sees it.  A child is given any queue,   *)
(* that of an ancestor included (the memo may be cyclic), or no queue; the *)
(* rank of a job bounds how deep jobs without a queue are nested below it. *)
ChildLevel(q) == IF q = None THEN level[pj] - 1 ELSE Level[q]

AddChild(j, q) ==
    /\ pc = "Execute" /\ suspends[pj] < MaxSuspends
    /\ q = None => level[pj] > 0
    /\ Add(j, q, pj, ChildLevel(q))
    /\ UNCHANGED pc

(* Mutation: the queue keeps its reference on a suspended main job.        *)
FExecuteSuspendedKeepsRef ==
    /\ pc = "Execute" /\ suspends[pj] < MaxSuspends
    /\ fCompleted' = FALSE
    /\ suspends' = [suspends EXCEPT ![pj] = @ + 1]
    /\ pc' = "PostExecute"
    /\ UNCHANGED <<ejs, pjParent, pjq, ulpRefs, level, waiting, counters,
                   queueVars, pj>>

(* The job is not done: it waits for its children, or yields without any.  *)
FExecuteSuspended ==
    /\ pc = "Execute" /\ suspends[pj] < MaxSuspends
    /\ fCompleted' = FALSE
    /\ suspends' = [suspends EXCEPT ![pj] = @ + 1]
    /\ ulpRefs' = IF pjq[pj] = None THEN ulpRefs
                  ELSE [ulpRefs EXCEPT ![pj] = @ - 1]
    /\ pc' = "PostExecute"
    /\ UNCHANGED <<ejs, pjParent, pjq, level, waiting, counters, queueVars, pj>>

(* The job is done.  A job state machine never reports that from a call in *)
(* which it added children.                                                *)
FExecuteCompleted ==
    /\ pc = "Execute" /\ Children(pj) = {}
    /\ IF pjq[pj] = None
       THEN /\ fCompleted' = TRUE
            /\ pc' = "PostExecute"
            /\ UNCHANGED qCompleted
       ELSE /\ qCompleted' = [qCompleted EXCEPT ![pjq[pj]] = TRUE]
            /\ pc' = "Notify"
            /\ UNCHANGED fCompleted
    /\ UNCHANGED <<jobVars, waiting, counters, qMain, qList, pj>>
----------------------------------------------------------------------------
(* CScheduler::ResumeParent on the completed job j, whose object is        *)
(* released at once; refs is the reference counts the caller has left.     *)
RefsAfter(j, refs) ==
    [k \in Jobs |-> IF k = pjParent[j] THEN refs[k] - 1 ELSE refs[k]]

(* Mutation: the old value of the reference count is taken for the new.    *)
ResumesNever(j, refs) == pjParent[j] # None /\ refs[pjParent[j]] = 0

Resumes(j, refs) == pjParent[j] # None /\ refs[pjParent[j]] = 1

CompleteJob(j, refs) ==
    /\ ulpRefs' = RefsAfter(j, refs)
    /\ ulpTotal' = ulpTotal - 1
    /\ IF Resumes(j, refs)
       THEN /\ ejs' = [ejs EXCEPT ![j] = "Free", ![pjParent[j]] = "Waiting"]
            /\ waiting' = <<pjParent[j]>> \o waiting
            /\ ulpQueued' = ulpQueued + 1
       ELSE /\ ejs' = [ejs EXCEPT ![j] = "Free"]
            /\ UNCHANGED <<waiting, ulpQueued>>

(* One turn of the loop of CJobQueue::NotifyCompleted.                     *)
NotifyNext(q) ==
    /\ pc = "Notify" /\ q = pjq[pj] /\ qList[q] # <<>>
    /\ LET h == Head(qList[q])
           refs == [ulpRefs EXCEPT ![h] = @ - 1]
       IN  IF ulpRefs[h] = 1
           THEN CompleteJob(h, refs)
           ELSE /\ ulpRefs' = refs
                /\ UNCHANGED <<ejs, waiting, ulpTotal, ulpQueued>>
    /\ qList' = [qList EXCEPT ![q] = Tail(@)]
    /\ UNCHANGED <<pjParent, pjq, level, suspends, ulpRunning, qMain,
                   qCompleted, pc, pj, fCompleted>>

NotifyDone ==
    /\ pc = "Notify" /\ qList[pjq[pj]] = <<>>
    /\ fCompleted' = TRUE
    /\ pc' = "PostExecute"
    /\ UNCHANGED <<jobVars, waiting, counters, queueVars, pj>>

(* CScheduler::EjrPostExecute and the switch on its result.                *)
PostExecute ==
    /\ pc = "PostExecute"
    /\ ulpRunning' = ulpRunning - 1
    /\ pc' = "Retrieve"
    /\ LET refs == [ulpRefs EXCEPT ![pj] = @ - 1]
       IN  \/ fCompleted /\ CompleteJob(pj, refs)
           \/ /\ ~fCompleted /\ ulpRefs[pj] = 1            \* EjrRunnable
              /\ ulpRefs' = refs
              /\ ejs' = [ejs EXCEPT ![pj] = "Waiting"]
              /\ waiting' = <<pj>> \o waiting
              /\ ulpQueued' = ulpQueued + 1
              /\ UNCHANGED ulpTotal
           \/ /\ ~fCompleted /\ ulpRefs[pj] # 1            \* EjrSuspended
              /\ ulpRefs' = refs
              /\ ejs' = [ejs EXCEPT ![pj] = "Suspended"]
              /\ UNCHANGED <<waiting, ulpTotal, ulpQueued>>
    /\ UNCHANGED <<pjParent, pjq, level, suspends, queueVars, pj, fCompleted>>
----------------------------------------------------------------------------
(* One step of the thread inside CScheduler::Run.                          *)
RunStep ==
    \/ RunReturns \/ PjRetrieve \/ PreExecute
    \/ EjqrCompleted \/ EjqrMainAgain \/ \E q \in Queues : EjqrEnter(q)
    \/ \E j \in Jobs, q \in Queues \cup {None} : AddChild(j, q)
    \/ FExecuteSuspended \/ FExecuteCompleted
    \/ (\E q \in Queues : NotifyNext(q)) \/ NotifyDone
    \/ PostExecute

Next ==
    \/ RunStep
    \/ \E j \in Jobs, q \in Queues : ScheduleMainJob(j, q)
    \/ \E q \in Queues : ResetQueue(q)

Spec == Init /\ [][Next]_vars
FairSpec == Spec /\ WF_vars(RunStep)
----------------------------------------------------------------------------
JobState == {"Free", "Waiting", "Running", "Suspended"}
ControlPoint == {"Idle", "Retrieve", "PreExecute", "Enqueue", "Execute",
                 "Notify", "PostExecute"}

(* The types of the fields of CJob, CJobQueue and CScheduler.              *)
TypeOK ==
    /\ ejs \in [Jobs -> JobState]
    /\ pjParent \in [Jobs -> Jobs \cup {None}]
    /\ pjq \in [Jobs -> Queues \cup {None}]
    /\ ulpRefs \in [Jobs -> Nat]
    /\ level \in [Jobs -> Nat]
    /\ suspends \in [Jobs -> Nat]
    /\ waiting \in Seq(Jobs)
    /\ ulpTotal \in Nat /\ ulpRunning \in Nat /\ ulpQueued \in Nat
    /\ qMain \in [Queues -> Jobs \cup {None}]
    /\ qCompleted \in [Queues -> BOOLEAN]
    /\ qList \in [Queues -> Seq(Jobs)]
    /\ pc \in ControlPoint
    /\ pj \in Jobs \cup {None}
    /\ fCompleted \in BOOLEAN

NoDup(s) == \A i, k \in DOMAIN s : s[i] = s[k] => i = k

(* The thread holds a reference on the job it is running, from PreExecute  *)
(* to PostExecute.                                                         *)
RunRef(j) ==
    pj = j /\ pc \in {"Enqueue", "Execute", "Notify", "PostExecute"}

(* A job queue holds a reference on each of its jobs, except on its main   *)
(* job while that one is not executing.                                    *)
QueueRef(j) ==
    /\ pjq[j] # None
    /\ InList(j, qList[pjq[j]])
    /\ qMain[pjq[j]] = j => pj = j /\ pc \in {"Execute", "Notify"}

(* The reference count of every job is exactly its number of unfinished    *)
(* children, plus the reference of the thread, plus that of its queue, so  *)
(* the three users of m_ulpRefs (CScheduler::PreExecute and                *)
(* EjrPostExecute, CScheduler::Add and ResumeParent, CJobQueue::EjqrAdd    *)
(* and NotifyCompleted) never lose or repeat a wake-up between them.       *)
RefsExact ==
    \A j \in Jobs :
        ulpRefs[j] = Cardinality(Children(j)) + (IF RunRef(j) THEN 1 ELSE 0)
                       + (IF QueueRef(j) THEN 1 ELSE 0)

(* The waiting list holds each runnable job once and nothing else, no job  *)
(* on it has a reference ("Runnable job cannot have pending children",     *)
(* CScheduler::PreExecute), and m_ulpQueued and m_ulpTotal count the       *)
(* waiting jobs and all unfinished jobs.                                   *)
WaitingExact ==
    /\ NoDup(waiting)
    /\ \A j \in Jobs : InList(j, waiting) <=> ejs[j] = "Waiting"
    /\ \A j \in Jobs : InList(j, waiting) => ulpRefs[j] = 0
    /\ ulpQueued = Len(waiting)
    /\ ulpTotal = Cardinality({j \in Jobs : Live(j)})

(* "Forces unique execution of an operation" (CJobQueue.h): the body of a  *)
(* job with a queue runs only while it is the main job of that queue and   *)
(* the operation is not completed yet; an open queue's main job is a job   *)
(* in flight for this very queue, never a reused object.                   *)
UniqueExecution ==
    /\ pc = "Execute" /\ pjq[pj] # None =>
          qMain[pjq[pj]] = pj /\ ~qCompleted[pjq[pj]]
    /\ \A q \in Queues : ~qCompleted[q] /\ qMain[q] # None =>
          /\ Live(qMain[q]) /\ pjq[qMain[q]] = q
          /\ qList[q] # <<>> /\ Head(qList[q]) = qMain[q]

(* Every unfinished job has a lower rank than the job that waits for it.   *)
WaitsDescend ==
    \A j \in Jobs : Live(j) /\ pjParent[j] # None =>
        level[j] < level[pjParent[j]]

(* When CScheduler::Run returns nothing is left behind, no unfinished job  *)
(* (the assertion of ~CScheduler) and no job in a queue (the assertions of *)
(* ~CJobQueue and CJobQueue::Reset), unless jobs wait for each other in a  *)
(* circle: if the operations can be ranked, no wake-up is ever lost.       *)
NothingStranded ==
    pc = "Idle" /\ WaitsDescend =>
        /\ \A j \in Jobs : ~Live(j)
        /\ ulpTotal = 0 /\ ulpRunning = 0
        /\ \A q \in Queues : qList[q] = <<>>

(* The smallest set with the job's parent and the parents of its members.  *)
Ancestors(j) ==
    {a \in Jobs : \A S \in SUBSET Jobs :
        (\A k \in S \cup {j} : pjParent[k] # None => pjParent[k] \in S) => a \in S}

QueuedBehind(j, q) == InList(j, qList[q]) /\ j # qMain[q]

(* With one thread and a LIFO waiting list no queue is contended unless    *)
(* jobs wait in a circle: if a job is held back by a queue at all, then    *)
(* some job is held back behind one of its own ancestors ("leave           *)
(* exploration/implementation jobs mutually queued", CEngine::PgroupInsert)*)
(* and NotifyCompleted then never finds a job behind the main job: one     *)
(* that had to queue up is never woken.                                    *)
ContendedOnlyInCycle ==
    /\ (\E q \in Queues, j \in Jobs : QueuedBehind(j, q)) =>
          \E q \in Queues, j \in Jobs :
              QueuedBehind(j, q) /\ qMain[q] \in Ancestors(j)
    /\ pc = "Notify" => Len(qList[pjq[pj]]) <= 1

Released(j) == Live(j) /\ ~Live(j)'

(* A job is released only after all its children were, and a job tied to a *)
(* queue only after the queue's operation was completed (CScheduler::      *)
(* Complete and CompleteQueued).                                           *)
ReleasedInOrder ==
    [][\A j \in Jobs : Released(j) =>
          /\ Children(j) = {}
          /\ pjq[j] # None => qCompleted[pjq[j]]]_vars

(* Run returns: every job that was added completes, however often jobs are *)
(* suspended, resumed and queued.                                          *)
RunTerminates == (pc # "Idle") ~> (pc = "Idle")
=============================================================================
