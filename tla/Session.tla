------------------------------ MODULE Session ------------------------------
(***************************************************************************)
(* A backend that plans queries: the planner hook of pg_orca, gpos_exec    *)
(* with its single worker and the error context of its task, OptimizeTask, *)
(* the metadata cache of the session and the metadata accessor of a task.  *)
(*                                                                         *)
(* Planning is re-entrant.  Evaluating a constant expression may run a     *)
(* function with queries of its own, which are planned while the outer     *)
(* query is being prepared, optimized or planned by PostgreSQL.  Errors of *)
(* PostgreSQL are longjmps: they skip the frames of the planner hook up to *)
(* a handler, which is an exception block of a function, the wrapper       *)
(* GP_WRAP around every call that ORCA makes, or the end of the statement. *)
(*                                                                         *)
(* An object of the cache is known by its version, the number of           *)
(* invalidations the session had seen when the object was fetched.  Plans  *)
(* and queries are left out.                                               *)
(***************************************************************************)
EXTENDS Naturals, Sequences, FiniteSets

CONSTANTS Keys,           \* metadata ids
          CtasKeys,       \* the ones of tables that a query creates
          Orders,         \* the values of optimizer_join_order
          Exhaustive,     \* the ones that enumerate exhaustively
          Greedy,
          MaxDepth,       \* bound: planner calls within each other
          MaxFetch,       \* bound: fetches within each other
          MaxInval,       \* bound: invalidations
          None, Dead

ASSUME SessionAssumption ==
    /\ CtasKeys \subseteq Keys
    /\ Exhaustive \subseteq Orders /\ Greedy \in Orders \ Exhaustive
    /\ MaxDepth \in Nat /\ MaxFetch \in Nat /\ MaxInval \in Nat
    /\ None \notin Nat /\ Dead \notin Nat /\ None # Dead
    /\ None \notin {"running", "stale", "orca", "gpdb"}

VARIABLES
    stack,      \* the calls of pg_orca_planner, the innermost one last
    joinOrder,  \* optimizer_join_order
    userOrder,  \* what the user set it to
    worker,     \* m_single_worker: None, or "running", or "stale" when its frame is gone
    pending,    \* m_pending of the error context of the worker's task
    inval,      \* mdcache_invalidation_counter
    last,       \* last_mdcache_invalidation_counter
    cacheOn,    \* the metadata cache exists
    cached,     \* the version of the cached object with a key
    inflight,   \* a PostgreSQL error is on its way to a handler
    escaped     \* an error has left GPOPTOptimizedPlan

vars == <<stack, joinOrder, userOrder, worker, pending, inval, last, cacheOn, cached,
          inflight, escaped>>

NoObjects == [k \in Keys |-> None]

(* A call of the hook: where it is, the join order it saved, the number of *)
(* invalidations when its task began, the objects of its accessor and the  *)
(* keys that GetImdObj is fetching.                                        *)
Frame(pc) == [pc |-> pc, saved |-> None, start |-> 0, local |-> NoObjects, fetch |-> <<>>]

Top == stack[Len(stack)]

SetTop(f) == [stack EXCEPT ![Len(stack)] = f]

Pop(s) == SubSeq(s, 1, Len(s) - 1)

(* The types of the variables.                                             *)
TypeOK ==
    /\ stack \in Seq([pc : {"prepare", "setup", "optimize", "raised", "standard"},
                      saved : Orders \cup {None}, start : Nat,
                      local : [Keys -> Nat \cup {None, Dead}], fetch : Seq(Keys)])
    /\ Len(stack) <= MaxDepth
    /\ joinOrder \in Orders /\ userOrder \in Orders
    /\ worker \in {None, "running", "stale"}
    /\ pending \in {None, "orca", "gpdb"}
    /\ inval \in 0..MaxInval /\ last \in 0..MaxInval
    /\ cacheOn \in BOOLEAN
    /\ cached \in [Keys -> Nat \cup {None}]
    /\ inflight \in BOOLEAN
    /\ escaped \in BOOLEAN

Init ==
    /\ stack = <<>>
    /\ joinOrder \in Orders /\ userOrder = joinOrder
    /\ worker = None /\ pending = None
    /\ inval = 0 /\ last = 0
    /\ cacheOn = FALSE /\ cached = NoObjects
    /\ inflight = FALSE /\ escaped = FALSE
----------------------------------------------------------------------------
(* PostgreSQL.                                                             *)

(* The innermost call is in code of PostgreSQL, or there is none.          *)
InPostgres ==
    /\ ~inflight
    /\ stack # <<>> => Top.pc \in {"prepare", "optimize", "standard"}

SetJoinOrder(v) ==
    /\ InPostgres /\ stack = <<>>
    /\ joinOrder' = v /\ userOrder' = v
    /\ UNCHANGED <<stack, worker, pending, inval, last, cacheOn, cached, inflight, escaped>>

(* The callbacks for the system and relation caches.                       *)
Invalidate ==
    /\ InPostgres
    /\ inval < MaxInval
    /\ inval' = inval + 1
    /\ UNCHANGED <<stack, joinOrder, userOrder, worker, pending, last, cacheOn, cached,
                   inflight, escaped>>

(* A query is planned: the hook tries ORCA or leaves it to PostgreSQL.     *)
Plan(orca) ==
    /\ InPostgres
    /\ Len(stack) < MaxDepth
    /\ stack' = Append(stack, Frame(IF orca THEN "prepare" ELSE "standard"))
    /\ UNCHANGED <<joinOrder, userOrder, worker, pending, inval, last, cacheOn, cached,
                   inflight, escaped>>

(* A query with virtual generated columns that ORCA cannot represent.      *)
Fallback ==
    /\ InPostgres /\ stack # <<>> /\ Top.pc = "prepare"
    /\ stack' = SetTop([Top EXCEPT !.pc = "standard"])
    /\ UNCHANGED <<joinOrder, userOrder, worker, pending, inval, last, cacheOn, cached,
                   inflight, escaped>>

StandardReturns ==
    /\ InPostgres /\ stack # <<>> /\ Top.pc = "standard"
    /\ stack' = Pop(stack)
    /\ UNCHANGED <<joinOrder, userOrder, worker, pending, inval, last, cacheOn, cached,
                   inflight, escaped>>

PgError ==
    /\ InPostgres
    /\ inflight' = TRUE
    /\ UNCHANGED <<stack, joinOrder, userOrder, worker, pending, inval, last, cacheOn,
                   cached, escaped>>

(* The error ends the statement.                                           *)
StatementAborts ==
    /\ inflight /\ stack = <<>>
    /\ inflight' = FALSE
    /\ UNCHANGED <<stack, joinOrder, userOrder, worker, pending, inval, last, cacheOn,
                   cached, escaped>>

(* The error skips a call of the hook.  The function that made the call    *)
(* may handle it.                                                          *)
Skip ==
    /\ inflight /\ stack # <<>>
    /\ Top.pc \in {"prepare", "standard"}
    /\ stack' = Pop(stack)
    /\ inflight' \in BOOLEAN
    /\ UNCHANGED <<joinOrder, userOrder, worker, pending, inval, last, cacheOn, cached,
                   escaped>>
----------------------------------------------------------------------------
(* GPOPTOptimizedPlan and gpos_exec.                                       *)

(* Mutation: a second worker is registered.                                *)
RefusesNever == FALSE

Refuses == worker # None

(* Mutation: the exception stays in the error context of the outer task.   *)
RecordedStays == "orca"

(* What the exception that gpos_exec raises leaves in the error context of *)
(* the outer task: GPOS_RAISE records it and GPOS_RESET_EX forgets it.     *)
Recorded == pending

(* gpos_exec finds a worker and raises ExmiORCAInvalidState: the planner   *)
(* hook puts the join order back and leaves the query to PostgreSQL.  To   *)
(* record the exception in the task of a stale worker is undefined; a      *)
(* backend that crashes there takes no further step.                       *)
TaskRefused ==
    /\ InPostgres /\ stack # <<>> /\ Top.pc = "prepare"
    /\ Refuses
    /\ pending' = Recorded
    /\ stack' = SetTop([Top EXCEPT !.pc = "standard"])
    /\ UNCHANGED <<joinOrder, userOrder, worker, inval, last, cacheOn, cached, inflight,
                   escaped>>

(* The accessors of the calls in S have objects that do not exist any more. *)
Killed(S) ==
    [k \in Keys |-> IF S[k] = None \/ k \in CtasKeys THEN S[k] ELSE Dead]

Kill(s) == [i \in 1..Len(s) |-> [s[i] EXCEPT !.local = Killed(@)]]

(* The cached objects that no accessor has, which eviction may remove.     *)
Unpinned == {k \in Keys : \A i \in 1..Len(stack) : stack[i].local[k] = None}

Evicted(S) == [k \in Keys |-> IF k \in S THEN None ELSE cached[k]]

(* Mutation: the cache is not reset.                                       *)
MDCacheNeedsResetNever == FALSE

MDCacheNeedsReset == last # inval

Saved == joinOrder

(* The hook lowers the join order for a query with many relations, the     *)
(* worker is registered, and OptimizeTask creates the metadata cache,      *)
(* resets it or changes its quota, which may evict objects.                *)
TaskStarts(many) ==
    LET f == [Top EXCEPT !.pc = "setup", !.saved = Saved, !.start = inval]
    IN  /\ InPostgres /\ stack # <<>> /\ Top.pc = "prepare"
        /\ ~Refuses
        /\ joinOrder' = IF many /\ joinOrder \in Exhaustive THEN Greedy ELSE joinOrder
        /\ worker' = "running" /\ pending' = None
        /\ last' = inval
        /\ cacheOn' = TRUE
        /\ \/ /\ ~cacheOn \/ MDCacheNeedsReset
              /\ cached' = NoObjects
              /\ stack' = IF cacheOn THEN Append(Kill(Pop(stack)), f) ELSE SetTop(f)
           \/ /\ cacheOn /\ ~MDCacheNeedsReset
              /\ \E S \in SUBSET Unpinned : cached' = Evicted(S)
              /\ stack' = SetTop(f)
        /\ UNCHANGED <<userOrder, inval, inflight, escaped>>

(* PackConfigParamInBitset calls ereport without a wrapper, for a wrong    *)
(* name in pg_orca.dsl_only_xforms: the error skips gpos_exec and the      *)
(* destructor of the worker.                                               *)
ConfigError ==
    /\ ~inflight /\ stack # <<>> /\ Top.pc = "setup"
    /\ worker' = "stale"
    /\ stack' = Pop(stack)
    /\ inflight' = TRUE /\ escaped' = TRUE
    /\ UNCHANGED <<joinOrder, userOrder, pending, inval, last, cacheOn, cached>>

(* LoadSearchStrategy passes errors of PostgreSQL on, before the cache is  *)
(* used.                                                                   *)
LoadFails ==
    /\ ~inflight /\ stack # <<>> /\ Top.pc = "setup"
    /\ pending' = "gpdb"
    /\ stack' = SetTop([Top EXCEPT !.pc = "raised"])
    /\ UNCHANGED <<joinOrder, userOrder, worker, inval, last, cacheOn, cached, inflight,
                   escaped>>

AccessorOpens ==
    /\ ~inflight /\ stack # <<>> /\ Top.pc = "setup"
    /\ stack' = SetTop([Top EXCEPT !.pc = "optimize"])
    /\ UNCHANGED <<joinOrder, userOrder, worker, pending, inval, last, cacheOn, cached,
                   inflight, escaped>>

(* An exception in the scope of the accessor, which unwinds it; the        *)
(* handler of OptimizeTask shuts the cache down.                           *)
TaskRaises(kind) ==
    /\ pending' = kind
    /\ cacheOn' = FALSE /\ cached' = NoObjects
    /\ stack' = Append(Kill(Pop(stack)),
                       [Top EXCEPT !.pc = "raised", !.local = NoObjects, !.fetch = <<>>])

(* GP_WRAP makes an exception of an error of PostgreSQL.                   *)
WrapRaises ==
    /\ inflight /\ stack # <<>> /\ Top.pc = "optimize"
    /\ inflight' = FALSE
    /\ TaskRaises("gpdb")
    /\ UNCHANGED <<joinOrder, userOrder, worker, inval, last, escaped>>

(* An exception of ORCA: no plan, an unsupported feature, an abort.        *)
OrcaRaises ==
    /\ InPostgres /\ stack # <<>> /\ Top.pc = "optimize"
    /\ TaskRaises("orca")
    /\ UNCHANGED <<joinOrder, userOrder, worker, inval, last, inflight, escaped>>

Restored == Top.saved

(* The task is over and so is its worker.  An error of PostgreSQL is       *)
(* thrown again, from within the handler in GPOPTOptimizedPlan.            *)
Rethrows ==
    /\ ~inflight /\ stack # <<>> /\ Top.pc = "raised" /\ pending = "gpdb"
    /\ worker' = None /\ pending' = None
    /\ stack' = Pop(stack)
    /\ inflight' = TRUE /\ escaped' = TRUE
    /\ UNCHANGED <<joinOrder, userOrder, inval, last, cacheOn, cached>>

NoPlan ==
    /\ ~inflight /\ stack # <<>> /\ Top.pc = "raised" /\ pending = "orca"
    /\ worker' = None /\ pending' = None
    /\ joinOrder' = Restored
    /\ stack' = SetTop([Top EXCEPT !.pc = "standard"])
    /\ UNCHANGED <<userOrder, inval, last, cacheOn, cached, inflight, escaped>>

(* The task returns a plan and its accessor is closed.  With caching off   *)
(* the cache goes.  An exception that is pending is thrown again.          *)
TaskReturns(caching) ==
    /\ InPostgres /\ stack # <<>> /\ Top.pc = "optimize" /\ Top.fetch = <<>>
    /\ cacheOn' = (cacheOn /\ caching)
    /\ cached' = IF caching THEN cached ELSE NoObjects
    /\ LET below == IF caching THEN Pop(stack) ELSE Kill(Pop(stack))
       IN  IF pending = None
           THEN /\ worker' = None
                /\ joinOrder' = Restored
                /\ stack' = below
           ELSE /\ stack' = Append(below, [Top EXCEPT !.pc = "raised", !.local = NoObjects])
                /\ UNCHANGED <<worker, joinOrder>>
    /\ UNCHANGED <<userOrder, pending, inval, last, inflight, escaped>>
----------------------------------------------------------------------------
(* CMDAccessor::GetImdObj, for a key that is not in the local hashtable.   *)

Fetching(k) ==
    /\ InPostgres /\ stack # <<>> /\ Top.pc = "optimize"
    /\ Top.local[k] = None

(* The object is in the cache.                                             *)
Lookup(k) ==
    /\ Fetching(k)
    /\ cached[k] # None
    /\ stack' = SetTop([Top EXCEPT !.local[k] = cached[k]])
    /\ UNCHANGED <<joinOrder, userOrder, worker, pending, inval, last, cacheOn, cached,
                   inflight, escaped>>

(* The provider is asked, and asks for other objects in its turn.          *)
AskProvider(k) ==
    /\ Fetching(k)
    /\ cached[k] = None
    /\ Len(Top.fetch) < MaxFetch
    /\ stack' = SetTop([Top EXCEPT !.fetch = Append(@, k)])
    /\ UNCHANGED <<joinOrder, userOrder, worker, pending, inval, last, cacheOn, cached,
                   inflight, escaped>>

Bypasses(k) == k \in CtasKeys

(* The local hashtable keeps what a nested fetch put there.  An object     *)
(* that the cache did not take goes with the pool of the cache accessor.   *)
Store(k, v) ==
    SetTop([Top EXCEPT !.fetch = Pop(@), !.local[k] = IF @ = None THEN v ELSE @])

(* The provider's answer is inserted into the cache, unless a nested fetch *)
(* did so, and eviction comes first.                                       *)
ProviderAnswers ==
    LET k == Top.fetch[Len(Top.fetch)]
    IN  /\ InPostgres /\ stack # <<>> /\ Top.pc = "optimize" /\ Top.fetch # <<>>
        /\ \/ /\ Bypasses(k)
              /\ stack' = Store(k, inval)
              /\ UNCHANGED cached
           \/ /\ ~Bypasses(k)
              /\ \E S \in SUBSET Unpinned :
                    IF Evicted(S)[k] = None
                    THEN /\ cached' = [Evicted(S) EXCEPT ![k] = inval]
                         /\ stack' = Store(k, inval)
                    ELSE /\ cached' = Evicted(S)
                         /\ stack' = Store(k, Dead)
        /\ UNCHANGED <<joinOrder, userOrder, worker, pending, inval, last, cacheOn,
                       inflight, escaped>>
----------------------------------------------------------------------------
Next ==
    \/ \E v \in Orders : SetJoinOrder(v)
    \/ Invalidate
    \/ \E orca \in BOOLEAN : Plan(orca)
    \/ Fallback \/ StandardReturns
    \/ PgError \/ StatementAborts \/ Skip
    \/ TaskRefused \/ \E many \in BOOLEAN : TaskStarts(many)
    \/ ConfigError \/ LoadFails \/ AccessorOpens \/ WrapRaises \/ OrcaRaises
    \/ Rethrows \/ NoPlan \/ \E caching \in BOOLEAN : TaskReturns(caching)
    \/ \E k \in Keys : Lookup(k) \/ AskProvider(k)
    \/ ProviderAnswers

Spec == Init /\ [][Next]_vars
----------------------------------------------------------------------------
Running == {i \in 1..Len(stack) : stack[i].pc \in {"setup", "optimize", "raised"}}

(* At most one call of the planner hook runs a task, and the registered    *)
(* worker is its worker, through nested calls and errors of PostgreSQL     *)
(* that skip some of them.                                                 *)
OneTask ==
    /\ \A i, j \in Running : i = j
    /\ (worker = "running") <=> Running # {}

(* The objects in the hands of a task exist, as the version that the cache *)
(* has: neither a reset, a shutdown or an eviction by a nested call nor an *)
(* insertion that a nested fetch forestalled takes them away.              *)
ObjectsAlive ==
    \A i \in Running, k \in Keys :
        LET v == stack[i].local[k]
        IN  v # None => v # Dead /\ (k \in CtasKeys \/ (cacheOn /\ cached[k] = v))

(* A task uses no metadata that is older than its start: what the session  *)
(* knew to be invalid when the task began is not in the cache.             *)
NothingStale ==
    \A i \in Running, k \in Keys :
        LET v == stack[i].local[k]
        IN  v \in Nat => v >= stack[i].start

(* The metadata of the table that one query creates is not found by        *)
(* another query, which may create another table.                          *)
CreatedNotShared == \A k \in CtasKeys : cached[k] = None

(* An exception is pending only in a task that raised it: the refusal of a *)
(* nested call does not cost the outer query its plan.                     *)
RefusalHarmless == pending # None => \E i \in Running : stack[i].pc = "raised"

(* Lowering the join order for a query lasts as long as its task, unless   *)
(* an error of PostgreSQL left GPOPTOptimizedPlan.                         *)
OrderRestored ==
    ~escaped => IF Running = {} THEN joinOrder = userOrder
                ELSE \A i \in Running : stack[i].saved = userOrder

(* "Temporarily force greedy for this one query": between statements the   *)
(* join order is what the user set, even if no error has skipped the       *)
(* destructors of a task.  It is not when GPOPTOptimizedPlan throws an     *)
(* error of PostgreSQL again, past the assignment that restores the order. *)
JoinOrderRestored ==
    stack = <<>> /\ ~inflight /\ worker # "stale" => joinOrder = userOrder
=============================================================================
