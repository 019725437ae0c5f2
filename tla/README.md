# A TLA+ model of pg_orca

pg_orca embeds the ORCA optimizer, a Cascades-style search over a memo, in
PostgreSQL. This directory models the parts of it that hold shared mutable state
and in which the order of events decides whether the result is right: the memo,
the job scheduler with its pools and queues, the job state machines that fill the
memo and choose a plan, the enumeration of join orders, the metadata cache, and the
session around them, in which planner calls nest and errors skip frames. Rewrite
rules, operators, the cost model and the translators are data to these models.

## The system

| Part | Source (under `src/`) | Here |
|---|---|---|
| Job scheduler, job queues | `libgpopt/src/search/CScheduler.cpp`, `CJob.cpp`, `CJobQueue.cpp` | `Scheduler` |
| Job factory and pools | `libgpopt/src/search/CJobFactory.cpp`, `libgpos/include/gpos/common/CSyncPool.h` | `SyncPool`, `ObjectPool` |
| Duplicate group links | `libgpopt/src/search/CGroup.cpp`, `CMemo.cpp` | `DuplicateGroups` |
| Memo: insertion, merge, rehash | `CMemo.cpp`, `CGroup.cpp`, `CGroupExpression.cpp`, `libgpopt/src/engine/CEngine.cpp` | `Memo` |
| Search jobs, search stages, time limits | `libgpopt/src/search/CJobGroup*.cpp`, `CJobTransformation.cpp`, `CEngine.cpp` | `Search` |
| DPHyper join enumeration | `libgpopt/src/xforms/CDPHyper*.cpp`, `libgpopt/src/search/CJobJoinEnumeration.cpp` | `DPHyperGraph`, `DPHyper`, `DPHyperSimplifier`, `DPHyperRegion` |
| Metadata cache | `libgpos/include/gpos/memory/CCache*.h`, `libgpopt/src/mdcache` | `Cache`, `PinnedCache` |
| Planner hook, tasks, errors, metadata accessor | `pg_orca.cpp`, `gpopt/`, `libgpos/src/task`, `libgpos/src/error`, `libgpopt/src/mdcache` | `Session` |
| Optimization and cost contexts | `libgpopt/src/base/COptimizationContext.cpp`, `CCostContext.cpp` | states only, in `Search` |
| Bindings, DSL provenance | `CBinding.cpp`, `libgpopt/src/dsl` | as far as `Memo` needs them |
| Everything else | see [Not modelled](#not-modelled) | |

How they interact. PostgreSQL calls the planner hook, which runs the optimizer as a
task of a single worker (`gpos_exec`). The task opens a metadata accessor on the
cache of the session, has the query translated, and calls the engine.
`CEngine::Optimize` runs search stages (one by default). In each stage it schedules
one job, the optimization of the memo's root group, and runs the scheduler until
nothing is left to run or the time of the stage is up. An optimization job has its
group implemented first; an implementation job has it explored first; each of these
has the same done for the child groups of each expression. Transformation jobs insert
alternatives into the memo, which may find that two groups are the same and link
them; a region of joins is enumerated by a job of its own. At the end of the
exploration of the root the linked groups are merged and the hash table is rebuilt,
before implementation starts. Everything runs on one thread. The interleavings are
those of suspended jobs, of planner calls within planner calls, and of errors that
arrive at any point.

## Modules

**`Scheduler`** has one action per step of `CScheduler::ExecuteJobs`: retrieve,
pre-execute, enter the job queue (three outcomes of `EjqrAdd`), add children,
return from `FExecute`, notify the queue, post-execute. Variables are the fields of
`CJob`, `CJobQueue` and `CScheduler` plus the local variables of the loop. What a
job does in `FExecute` is open: it adds children and suspends or completes. Job
addresses are reused after release, as the factory does, so that a stale pointer
would show. `level` and `suspends` are bookkeeping of the model: the rank that the
operation of a queue has, and the bound `MaxSuspends`.

**`SyncPool`** models one pool of the factory: the two bitmaps, the clock and every
round of the lookup loop. `users` and `extra` record what callers hold. It
implements **`ObjectPool`**, the pool its users see.

**`DuplicateGroups`** models `MarkDuplicates`, `AddDuplicateGrp`,
`ResolveDuplicateMaster` and `FDuplicateGroups` with one step per turn of each
loop. `cls` records which groups markings have connected.

**`Memo`** models insertion (`CEngine::InsertXformResult`, `PgroupInsert`,
`CMemo::PgroupInsert`), the marking of duplicates, `CMemo::GroupMerge`,
`CGroup::MergeGroup` and `CMemo::FRehash`. Each child of an alternative, each
group of the merge and each expression of the rehash is a step. A transformation
may return any alternative that means what its target means, over existing or new
groups; `mean` records the meaning. The provenance of DSL rules is kept, because it
switches the guards against memo cycles on. Hash buckets are explicit, so that an
entry can be in a bucket that lookups no longer visit.

**`Search`** extends `Memo` with the seven job state machines; a step is one call of
a job's `FExecute`, its insertions or one step of the merge. The scheduler is
taken at its promise: last in first out, a parent goes on after its children,
queue contention holds a job back. That promise is what `Scheduler` establishes.
The time of a stage may run out before any job (`TimesOut`); from then on every job
that is retrieved completes where it is (`CutShort`), as `CJobStateMachine::FRun`
does. Groups, expressions and plans keep what they had for the next stage and for
the extraction of the plan. Each group has one optimization context per stage; each
expression has one implementation and one request. Of native rules `Search` assumes
that they put nothing below a group that depends on that group (`GrowsDownwards`);
DSL rules have no such restriction.

**`DPHyperGraph`** holds the join graph as a value: its edges, the index of each node,
and how `AddEdge` and `ReplaceEdge` keep the two together. **`DPHyper`** holds the
enumeration over it as operators: the neighbourhoods with the cache that reuses one for
a larger set, the growing of subgraphs and complements, and the plan that counts pairs
against the budget and stops the enumeration. `JoinPairs` is the reference it is compared
with: all pairs of disjoint connected sets with an edge between them.
**`DPHyperSimplifier`** is the state machine of the simplifier: the first enumeration, the
choice of a step that puts one join before another, doubling, binary search, undoing,
and the roll back of a simplification that fails. Steps of equal benefit come in any
order, because the model does not tell apart what breaks the tie in the code. The
enumeration is a parameter of it (`Enumeration`): what the simplifier does to the graph
is right whatever an enumeration answers. **`DPHyperRegion`** puts the two together and
states what holds only of the enumeration of `DPHyper`.

**`Cache`** models `CCache`, its entries and `CCacheAccessor`: insertion, lookup, the
next entry of a key, marking for deletion, release, a change of the quota, and the
eviction by a clock whose hand keeps a marker element in the chains of the hash
table. One round of the eviction loop is a step. Sizes are unsigned and wrap. It
implements **`PinnedCache`**, what its users rely on: an object goes only when no
accessor and no customer has it.

**`Session`** models a backend. A frame of the stack is a call of `pg_orca_planner`:
the save and restore of the join order, `GPOPTOptimizedPlan` with its
`PG_TRY`/`PG_CATCH`, `gpos_exec` with its refusal of a nested task, `OptimizeTask`
with the reset of the cache, and the fetches of `CMDAccessor::GetImdObj`, which may
nest through the provider. Errors of PostgreSQL skip frames up to a handler:
the wrapper around calls that ORCA makes, `GPOPTOptimizedPlan`, the exception block
of a function, or the end of the statement. An error outside of the wrapper leaves a
worker whose frame is gone (`"stale"`), and later tasks are refused. Recording that
refusal in the task of the stale worker is undefined in the code; the model goes on,
and a backend that crashes there takes no further step. An object of the cache is
known by the number of invalidations the session had seen when it was fetched.

**`MC*`** modules give the constants their values for TLC. `MCMemo` holds the query
trees: two filters, and a join.

Definitions whose comment starts with *Mutation* are defective
variants of the definition that follows them. They are used in no specification;
substituting one shows that a property notices the defect.

## Runs

| Run | Checks | Instance |
|---|---|---|
| `scheduler` | `RefsExact`, `UniqueExecution`, `NothingStranded`, `ContendedOnlyInCycle`, `ReleasedInOrder`, `RunTerminates` | 3 jobs, 2 queues, 2 suspensions per job |
| `sync_pool` | `PoolSpec` (refinement), `RetrieveReturns` | 4 objects, 2 beyond the array |
| `duplicate_groups` | `LinksAscend`, `ClassesExact`, `MarkedIsRecognised`, `MarkReturns` | 5 groups |
| `memo` | `SameMeaning`, `CountsExact`, `TableCurrent`, `MergeComplete`, `NoAlternativeLost`, `MergeTerminates` | two filters, 6 groups, 8 expressions, 2 stages |
| `search` | `SearchTypeOK`, `ExploredThroughout`, `StageComplete`, `StateBefore`, `NoMutualWait`, `Extractable`, `StageEnds` | two filters, 5 groups, 7 expressions, 2 stages, 1 result per expression |
| `cache` | `HandReady`, `UniqueKeys`, `PinsRespected` (refinement), `PassesCountDown`, `EvictionProgresses` | 2 keys in 2 buckets, 2 objects and 2 accessors (symmetric), clock 2, quotas 0 and 1, sizes 1 and 2 of a word of 8 |
| `session` | `OneTask`, `ObjectsAlive`, `NothingStale`, `RefusalHarmless` | 3 keys, one of a created table; 3 join orders; 3 nested calls, 2 nested fetches, 2 invalidations |
| `dphyper` | `IndexExact`, `PairsExact`, `BudgetExact`, `StepsUndone`, `StepsAgree`, `FitsMinimally` | all graphs of 4 relations with 2 to 4 edges, one of them a hyperedge; parallel edges and edges without equality; budgets 3 and 5; 3 assignments of cardinalities |
| `search_root` | `RootOptimized`, violated | join, 5 groups, 7 expressions, 1 stage |
| `search_stuck` | `NoJobLeft`, violated | two filters, 6 groups, 8 expressions, 1 stage, 2 results per expression |
| `session_order` | `JoinOrderRestored`, violated | that of `session` |
| `dphyper_cuts` | `EveryCut`, violated | graphs of 5 relations: 3 simple edges and two hyperedges |

The type invariants of `Scheduler`, `SyncPool`, `DuplicateGroups`, `Cache` and
`Session`, and the invariants `WaitingExact`, `BitsExact`, `ExhaustedWhenFull`,
`RecognisedIsMarked`, `LinksOnlyClimb`, `CreatedNotShared`, `OrderRestored` and, in `Cache`,
`RefsExact` and `TableExact` are proved for all instances and are not repeated in a run.
`SearchTypeOK` includes the types of `Memo`.

Why the bounds are enough for the cases that matter:

* Three jobs and two queues are a parent, a child and a grandchild or a second job
  for one of the operations, so contention, waits in a circle and the reuse of a
  released object all occur; two suspensions let a job come back and suspend again.
  The ranks 3 and 1 leave room for a job without a queue between the two queues.
* Four pool objects let the clock start anywhere, wrap twice and meet free, held and
  recycled objects in any order.
* Five groups give chains of links of length four and joins of two chains.
* Two filters that commute and are idempotent make groups equal in several ways,
  make a rehash find further duplicates, and make groups depend on themselves. Two
  stages let a second exploration meet a merged memo, or a memo that the first stage
  left half done when its time was up. Two buckets make stale entries possible.
  In these instances no unexplored expression is moved into an explored
  group, so that branch of `MovedState` is translated and not exercised.
* Two objects and two buckets put the clock's marker before, between and after
  entries and in an empty bucket; two objects are enough for an
  insertion to meet an entry with its key, marked for deletion or not. A clock of 2 takes two passes to count
  down. Growing objects make the size wrap below zero in a word of 8.
* Three nested calls are an outer task, a call it makes, and a call that this one
  makes after it was refused. Two invalidations are one before and one after the
  start of a task.
* Four relations are the least for which a hyperedge with two relations on each side
  exists, and for which the binary search of the simplifier has something to search.
  A plan of four relations has 3 joins, so that a budget of 3 leaves no choice and one
  of 5 a little: graphs need none, one or several steps, or cannot be simplified.

Only `scheduler` does not check for deadlock: `CScheduler::Run` really
returns when the jobs that are left wait in a circle, and in the instance such jobs
may hold all objects, and `CJobQueue::Reset` asserts that no queue holds one, so that
no further main job is scheduled.

### Fairness

Weak fairness is assumed only of the steps of the one thread inside a call: the loop
of `ExecuteJobs`, of `PtRetrieve`, of `MarkDuplicates`, of `GroupMerge`, and the jobs
of a stage. The thread runs on and nothing else competes with it. Nobody is required
to call an operation, no transformation has to return a result, and no stage has to
run out of time. That an eviction of the cache ends is stated without fairness: every
round makes a number smaller (`EvictionProgresses`).

## What the runs show

* The reference count that children, thread and queue share is exact; a job that had
  to queue up is never woken, and it has to queue up only if jobs wait in a circle.
  With one thread and last-in-first-out order the job queues therefore only ever
  turn a circle of waits into a run that returns early.
* The duplicate links stay ascending and connect exactly the marked groups, also in
  the middle of a relinking.
* Merge and rehash reach a fixed point, after which every class is one group, every
  alternative is kept and every lookup finds what is there.
* A stage explores every alternative that arrives while it runs, and implements and
  optimizes everything below the root, if its time does not run out, the memo has no
  cycle and the root was not merged away. A stage that is cut short leaves no state
  behind that the next one trips over, and a plan that was found for the root can be
  extracted, unless jobs got stuck or a stage that had merged groups was cut short.
* An eviction never takes an object from someone who has it, whatever the marker of
  the clock, marked entries and refused insertions do; and it ends.
* A planner call within a task is refused, and disturbs neither the task nor its
  metadata. One that comes before the outer task begins has a task of its own and may
  reset the cache.
* The enumeration finds exactly the pairs of a graph of simple edges and only pairs of
  any graph. The simplifier ends with the fewest of its steps that fit the budget,
  although a step may disconnect the graph, the number of pairs is not known to fall
  with every step, and doubling may overshoot.

The violated properties are disagreements between the code and its own comments,
assertions or tests:

1. `search_root`. `CMemo::GroupMerge` moves the root pointer to the group the root was
   merged into, while the main job goes on with the old root. The new root has no
   optimization context when `CMemo::PexprExtractPlan` asserts that there is one.
2. `search_stuck`. `CGroupExpression::ContainsCircularDependencies` looks at direct
   children. A circle through two groups makes an implementation job wait for itself,
   and the run of the stage ends with jobs left, against the assertions in
   `~CScheduler` and `CJobQueue::Reset`.
3. `session_order`. The planner hook lowers `optimizer_join_order` for one query and
   says that it "is restored immediately after optimization". `GPOPTOptimizedPlan`
   throws errors of PostgreSQL again, past the assignment that restores it.
4. `dphyper_cuts`. The tests compare the enumeration with all pairs of connected
   subgraphs. On a graph of five relations with two hyperedges it misses one: a
   hyperedge that reaches into the forbidden set is left out of the neighbourhood, and
   the complement that it connects is never tried.

The alternatives in the first two traces are chosen by the model among all equivalent
ones; whether a concrete rule set produces them is outside of it.

## Proofs

Proved with TLAPS for all values of the constants:

* `SchedulerProofs`: `TypeOK`, `RefsExact`, `WaitingExact`, `UniqueExecution`, `NothingStranded`,
  `ReleasedInOrder` and `ContendedOnlyInCycle`, for any finite set of jobs and any queues. None of them is
  inductive alone: that a counter is exact after a release depends on the parent
  being suspended and on the queue having let go of the job. The inductive invariant
  adds `ControlInv` (the job in the thread's hands is the only running one),
  `TreeInv` (parents outlive children) and `QueueInv` (a queue lists each of its jobs
  once, the main job first, the others suspended without children).
  `NothingStranded` follows by choosing an unfinished job of lowest rank: nothing can
  hold it back. `ContendedOnlyInCycle` needs `OrderInv` on top, which says that the waiting list is the stack of a depth-first walk: the parent of
  a job in it is an ancestor of every job above (`StackInv`). So a job that has begun
  is on the line of the running one, or it is stuck above a job that a queue holds
  back (`LineInv`). The first job that finds a queue occupied therefore finds an
  ancestor there, which closes a circle; the later ones may be held back by jobs that
  are stuck in it (`HeldInv`).
* `DuplicateGroupsProofs`: `TypeOK`, `LinksAscend`, `ClassesExact`,
  `MarkedIsRecognised`, `RecognisedIsMarked`, `LinksOnlyClimb`, for any number of
  groups. The invariant adds that every group has a master above it in its class, that
  the two ends of a link being added belong to the two groups being marked, and that
  a resolved group points to its master directly.
* `SyncPoolProofs`: `TypeOK`, `BitsExact`, `ExhaustedWhenFull`, and that `SyncPool`
  implements `ObjectPool` (`PoolSpec`), for any number of objects. The invariant says
  of the last `n` objects the clock went by that none is recycled, and that those
  passed twice are reserved.
* `CacheProofs`: `TypeOK`, `RefsExact`, `TableExact`, `HandReady`, `UniqueKeys`, and
  that `Cache` implements `PinnedCache` (`PinsRespected`), for any keys, objects,
  accessors, buckets and quotas. The invariant adds `ChainsInv` (no chain repeats an
  element, an object is in the chain of its key exactly when it is cached, and the
  marker is in the bucket of the hand only), `ObjectsInv` (what an accessor has is
  cached or refused, and no two accessors have refused the same object) and `LoopInv`
  (the accessor and the new object of an insertion in progress are set aside). That
  nothing in use is destroyed needs the exact counts: eviction and release only ever
  look at a reference count.
* `SessionProofs`: `TypeOK`, `OneTask`, `ObjectsAlive`, `NothingStale`,
  `CreatedNotShared`, `RefusalHarmless`, `OrderRestored`, for any depth of nested
  calls and fetches and any number of invalidations. The invariant adds `FramesInv`
  (a call outside of its task has no objects, and the objects of a task are those of
  the cache and not older than the last reset) and `SessionInv` (nor is anything in
  the cache). A fetch in progress is the point: its object is either unknown to the
  cache or already in the hands of the task, so that a refused insertion loses nothing.
* `MemoProofs`, with the facts about links in `MemoLinks`: `SameMeaning`,
  `CountsExact`, `TableCurrent`, `NoAlternativeLost` and `MergeComplete`, for any
  operators, meanings, hash function, query and bounds. The invariant adds the types
  (`MemoType`), what the alternative in progress means (`WorkInv`), that every
  expression has a representative in the table or in the list of `FRehash` and every
  class a listed expression (`CoverInv`), and how far the merge is (`PhaseInv`). Two
  arguments carry it. A marking changes masters only by joining two classes of equal
  meaning, so what was equal up to duplicates stays equal: no drop has to be revised.
  And the hash of an expression looks through a group only after it was merged away,
  which happens in the merge, after which `FRehash` computes all buckets anew; while
  expressions are inserted no bucket goes stale.
* `DPHyperProofs`: `IndexExact`, `StepsUndone` and `StepsAgree`, for any graphs, budgets
  and cardinalities and any enumeration. The invariant adds that the constraints hold a
  partial order closed under reachability (`OrderInv`), and that replaying the applied
  steps backwards leads from the edges of the graph to those of the query, and replaying
  the undone ones forwards leads on from them (`HistoryInv`). Undoing a step is exact
  because a step records both versions of the edge it changes, and only the last step of a
  sequence is ever undone or redone; the order in which an index lists its edges is not
  restored, and `IndexExact` does not need it.

The assumptions are those named in the modules: `SchedulerAssumption`,
`GroupsAssumption`, `NumObjsAssumption`, `MaxExtraAssumption`, `CacheAssumption`,
`SessionAssumption`, `MemoAssumption`, `NodeCountAssumption` and `GraphsAssumption`. They fix the types of the constants; the scheduler's also makes
the set of jobs finite, and that of the cache the set of accessors. The memo's says
that the query is a tree inserted bottom up.

The master of a group is a recursive function over the links. What it returns is
shown with `Least` and `Induction` of `MemoLinks`, which state induction over numbers
for sets instead of predicates. The ancestors of a job are defined as the smallest set
that holds the parents of its members, which needs no induction at all.

Only model-checked:

* Liveness (`RunTerminates`, `MarkReturns`, `RetrieveReturns`, `MergeTerminates`,
  `StageEnds`), which is out of reach of the proof system, and `PassesCountDown` and
  `EvictionProgresses`, which count what is left of a walk over chains.
* `Search`: its properties speak of whole explored graphs (`StageComplete`,
  `Extractable`), and an inductive invariant would have to say of every suspended job
  which part of the memo below it is done. The facts about the memo are proved for the
  specification of `Memo`, not for the steps that `Search` adds to it.
* `PairsExact` and `BudgetExact`, which are about the enumeration of `DPHyper`. It recurses
  over subgraphs, and modules with recursive operators are beyond the provers.
* `FitsMinimally`. That fewer steps do not fit needs that a graph that fits the budget
  still fits it with one more step, which is a property of the enumeration.

## Not modelled

The repository has about 490,000 lines. Most of them are rewrite rules, operators,
scalar functions, statistics, XML parsing, translators, tests and test data:
tree-to-tree conversions, formulas and I/O without a protocol, which a state machine
would only transcribe. The models cover a small share of the lines, the share in which
events can come in an unexpected order. Within the modelled parts the following is
left out:

* `Search`: costs and their bounds, required properties, enforcers, optimization
  levels, CTE producers, statistics; aborts that unwind a search.
* `Memo`: scalar groups, derived properties, and operators that ignore the order of
  their inputs. The guard of `CEngine::PgroupInsert` against cycles follows only the
  lists of masters and is translated with that limit; no property rests on it.
* `DPHyper`: the construction of a region from expressions, the filter of pairs for
  outer and semi joins (`FPairApplicable`, `FBuildJoinRequest`), the status of a region
  in the memo (`CGroupExpression`, `CJobGroupExpressionExploration`,
  `PublishRegionStatus`) and the replay of pairs into the memo. The cost that ranks
  steps is that of joins with equalities, without the costs of the inputs.
* `Cache`: eviction statistics. The size of an object at its eviction may differ from
  that at its insertion and the size of the cache may wrap; it only decides when an
  eviction begins, and no property depends on its value.
* `Session`: queries and plans, memory contexts, states of a task and the suspension
  of aborts; an abort is one of the exceptions that end a task.
* Counters of 64 bits do not wrap in the models, except for the size of the cache.

Parts with no model:

* Context tables and cost contexts (`FCostContextExists`, `PccInsertBest`, cached lower
  bounds): they choose among plans by floating-point costs, and `Search` lets any of the
  plans win.
* Plan counting and unranking (`CTreeMap.h`): a pure algorithm that only runs when plans
  are sampled to test the optimizer.
* Dynamic scan nodes (`compat/executor/dyn_scan.c`): their rescans depend on executor
  state of PostgreSQL that is not in the repository.
* Properties and enforcers, operators, transformation rules, DSL parsing and matching,
  cost model, statistics, DXL, metadata objects, translators, minidumps, memory pools,
  containers and I/O: data, pure functions or libraries to the models above.
