--------------------------- MODULE SessionProofs ---------------------------
(***************************************************************************)
(* Proofs about Session, for any keys, join orders and bounds.  The        *)
(* inductive invariant says what every call of the planner hook knows of   *)
(* the session (FrameInv) and what holds of the session as a whole         *)
(* (SessionInv).                                                           *)
(***************************************************************************)
EXTENDS Session, SequenceTheorems, TLAPS

Frames == [pc : {"prepare", "setup", "optimize", "raised", "standard"},
           saved : Orders \cup {None}, start : Nat,
           local : [Keys -> Nat \cup {None, Dead}], fetch : Seq(Keys)]

RunPCs == {"setup", "optimize", "raised"}

(* The objects of a call in its task: alive, not stale, and for every key  *)
(* that is being fetched, known to the call as soon as they are cached.    *)
ObjectsInv(f) ==
    /\ \A k \in Keys : f.local[k] # None =>
          f.local[k] \in Nat /\ f.local[k] >= last /\ (k \in CtasKeys \/ cached[k] = f.local[k])
    /\ \A j \in 1..Len(f.fetch) : cached[f.fetch[j]] # None => f.local[f.fetch[j]] # None

FrameInv(f) ==
    /\ f.pc # "optimize" => f.local = NoObjects /\ f.fetch = <<>>
    /\ f.pc = "optimize" => ObjectsInv(f)
    /\ f.pc \in RunPCs =>
          /\ f.start = last
          /\ f.pc # "raised" => cacheOn /\ pending = None
          /\ ~escaped => f.saved = userOrder
          /\ f.saved \in Orders

FramesInv == \A i \in 1..Len(stack) : FrameInv(stack[i])

SessionInv ==
    /\ last <= inval
    /\ \A k \in Keys : cached[k] # None => cached[k] \in Nat /\ cached[k] >= last /\ k \notin CtasKeys
    /\ ~escaped /\ Running = {} => joinOrder = userOrder

IInv == TypeOK /\ OneTask /\ FramesInv /\ SessionInv /\ RefusalHarmless
----------------------------------------------------------------------------
(* Facts about sequences of calls.                                         *)

(* Replacing the last call leaves the others alone.                        *)
LEMMA PutFacts ==
    ASSUME NEW S, NEW s \in Seq(S), s # <<>>, NEW f \in S
    PROVE  LET t == [s EXCEPT ![Len(s)] = f]
           IN  /\ t \in Seq(S) /\ Len(t) = Len(s)
               /\ Len(s) \in 1..Len(s) /\ t[Len(s)] = f
               /\ \A i \in 1..Len(s) : i # Len(s) => t[i] = s[i]
  BY SMT

(* Removing the last call leaves the others alone.                         *)
LEMMA PopFacts ==
    ASSUME NEW S, NEW s \in Seq(S), s # <<>>
    PROVE  /\ Pop(s) \in Seq(S) /\ Len(Pop(s)) = Len(s) - 1 /\ Len(s) \in Nat \ {0}
           /\ \A i \in 1..Len(Pop(s)) : i \in 1..Len(s) /\ i # Len(s) /\ Pop(s)[i] = s[i]
<1>1. Len(s) \in Nat \ {0}
  BY EmptySeq, Zenon
<1>2. \A i \in 1..(Len(s) - 1) : s[i] \in S
  BY <1>1
<1>. DEFINE n == Len(s) - 1
<1>3. n \in Nat /\ n \in Int /\ \A i \in 1..n : s[i] \in S
  BY <1>1, <1>2
<1>. HIDE DEF n
<1>4. /\ SubSeq(s, 1, n) \in Seq(S) /\ Len(SubSeq(s, 1, n)) = IF 1 <= n THEN n - 1 + 1 ELSE 0
      /\ \A i \in 1..(n - 1 + 1) : SubSeq(s, 1, n)[i] = s[1 + i - 1]
  BY <1>3, SubSeqProperties
<1>. DEFINE p == SubSeq(s, 1, n)
<1>5. p \in Seq(S) /\ Len(p) = n /\ \A i \in 1..n : p[i] = s[i]
  <2>1. p \in Seq(S) /\ Len(p) = n
    <3>1. IF 1 <= n THEN n - 1 + 1 = n ELSE n = 0
      BY <1>3
    <3>. QED
      BY <1>4, <3>1
  <2>2. ASSUME NEW i \in 1..n PROVE p[i] = s[i]
    <3>1. i \in 1..(n - 1 + 1) /\ 1 + i - 1 = i
      BY <1>3
    <3>. QED
      BY <1>4, <3>1, Zenon
  <2>. QED
    BY <2>1, <2>2, Zenon
<1>6. Pop(s) = p
  BY Zenon DEF Pop, n
<1>. HIDE DEF p
<1>. QED
  BY <1>1, <1>5, <1>6 DEF n

(* A new call comes on top of the others.                                  *)
LEMMA PushFacts ==
    ASSUME NEW S, NEW s \in Seq(S), NEW f \in S
    PROVE  /\ Append(s, f) \in Seq(S) /\ Len(Append(s, f)) = Len(s) + 1 /\ Len(s) \in Nat
           /\ Append(s, f)[Len(s) + 1] = f
           /\ \A i \in 1..Len(s) : Append(s, f)[i] = s[i]
  BY SMT

(* Putting a call on top of the others replaces the last one.              *)
LEMMA PopPush ==
    ASSUME NEW S, NEW s \in Seq(S), s # <<>>, NEW f \in S
    PROVE  Append(Pop(s), f) = [s EXCEPT ![Len(s)] = f]
<1>. DEFINE p == Pop(s)
            t == Append(p, f)
            u == [s EXCEPT ![Len(s)] = f]
<1>1. /\ p \in Seq(S) /\ Len(p) = Len(s) - 1 /\ Len(s) \in Nat \ {0}
      /\ \A i \in 1..Len(p) : i \in 1..Len(s) /\ i # Len(s) /\ p[i] = s[i]
  BY PopFacts, Zenon
<1>2. /\ u \in Seq(S) /\ Len(u) = Len(s) /\ u[Len(s)] = f
      /\ \A i \in 1..Len(s) : i # Len(s) => u[i] = s[i]
  BY PutFacts
<1>. HIDE DEF p
<1>3. /\ t \in Seq(S) /\ Len(t) = Len(p) + 1 /\ t[Len(p) + 1] = f
      /\ \A i \in 1..Len(p) : t[i] = p[i]
  BY <1>1, PushFacts
<1>. HIDE DEF t, u
<1>4. Len(t) = Len(u) /\ \A i \in 1..Len(t) : t[i] = u[i]
  <2>1. Len(t) = Len(s) /\ Len(u) = Len(s)
    BY <1>1, <1>2, <1>3
  <2>2. ASSUME NEW i \in 1..Len(s) PROVE t[i] = u[i]
    <3>1. CASE i = Len(s)
      BY <1>1, <1>2, <1>3, <3>1
    <3>2. CASE i # Len(s)
      <4>1. i \in 1..Len(p)
        BY <1>1, <3>2
      <4>. QED
        BY <1>1, <1>2, <1>3, <3>2, <4>1, Zenon
    <3>. QED
      BY <3>1, <3>2, Zenon
  <2>. QED
    BY <2>1, <2>2, Zenon
<1>5. t = u
  BY <1>2, <1>3, <1>4, SeqEqual, Zenon
<1>. QED
  BY <1>5, Zenon DEF t, u, p

(* Calls without objects have none to lose.                                *)
LEMMA KillSame ==
    ASSUME NEW s \in Seq(Frames), \A i \in 1..Len(s) : s[i].local = NoObjects
    PROVE  Kill(s) = s
<1>1. Killed(NoObjects) = NoObjects
  BY Zenon DEF Killed, NoObjects
<1>2. ASSUME NEW i \in 1..Len(s) PROVE [s[i] EXCEPT !.local = Killed(@)] = s[i]
  <2>1. s[i] \in Frames
    BY <1>2
  <2>2. Killed(s[i].local) = s[i].local
    BY <1>1, <1>2, Zenon
  <2>. QED
    BY <2>1, <2>2, Zenon DEF Frames
<1>3. Kill(s) = [i \in 1..Len(s) |-> s[i]]
  BY <1>2, Zenon DEF Kill
<1>. QED
  BY <1>3, SMT

(* What a step that only touches the innermost call leaves of the others:  *)
(* a call without a task does not depend on the session, and any call      *)
(* depends on these variables only.                                        *)
Known == <<last, cacheOn, pending, cached, escaped, userOrder>>

(* A frame keeps its invariant when what it depends on stays.              *)
LEMMA FrameKept ==
    ASSUME NEW CONSTANT f, FrameInv(f), f.pc \notin RunPCs \/ UNCHANGED Known
    PROVE  FrameInv(f)'
<1>1. CASE f.pc \notin RunPCs
  BY <1>1, Zenon DEF FrameInv, RunPCs
<1>2. CASE UNCHANGED Known
  BY <1>2, Zenon DEF FrameInv, ObjectsInv, Known
<1>. QED
  BY <1>1, <1>2, Zenon

OthersKept == (\A i \in 1..Len(stack) : i # Len(stack) => stack[i].pc \notin RunPCs) \/ UNCHANGED Known

(* A change of the top frame leaves the others.                            *)
LEMMA PutFrames ==
    ASSUME stack \in Seq(Frames), stack # <<>>, FramesInv, OthersKept, NEW CONSTANT f \in Frames,
           stack' = SetTop(f), FrameInv(f)'
    PROVE  FramesInv'
<1> SUFFICES ASSUME NEW CONSTANT i \in 1..Len(stack') PROVE (FrameInv(stack[i]))'
  BY Zenon DEF FramesInv
<1>1. /\ Len(stack') = Len(stack) /\ stack'[Len(stack)] = f
      /\ \A j \in 1..Len(stack) : j # Len(stack) => stack'[j] = stack[j]
  BY PutFacts DEF SetTop
<1>2. CASE i = Len(stack)
  BY <1>1, <1>2, Zenon DEF FrameInv, ObjectsInv
<1>3. CASE i # Len(stack)
  <2>1. PICK g : g = stack[i]
    BY Zenon
  <2>2. FrameInv(g)
    BY <1>1, <2>1, Zenon DEF FramesInv
  <2>3. FrameInv(g)'
    BY <1>1, <1>3, <2>1, <2>2, FrameKept, Zenon DEF OthersKept
  <2>. QED
    BY <1>1, <1>3, <2>1, <2>3 DEF FrameInv, ObjectsInv
<1>. QED
  BY <1>2, <1>3, Zenon

(* The frames that are left when the top one goes.                         *)
LEMMA PopFrames ==
    ASSUME stack \in Seq(Frames), stack # <<>>, FramesInv, OthersKept, stack' = Pop(stack)
    PROVE  FramesInv'
<1> SUFFICES ASSUME NEW CONSTANT i \in 1..Len(stack') PROVE (FrameInv(stack[i]))'
  BY Zenon DEF FramesInv
<1>1. i \in 1..Len(stack) /\ i # Len(stack) /\ stack'[i] = stack[i]
  BY PopFacts, Zenon
<1>2. PICK g : g = stack[i]
  BY Zenon
<1>3. FrameInv(g)
  BY <1>1, <1>2, Zenon DEF FramesInv
<1>4. FrameInv(g)'
  BY <1>1, <1>2, <1>3, FrameKept, Zenon DEF OthersKept
<1>. QED
  BY <1>1, <1>2, <1>4, Zenon DEF FrameInv, ObjectsInv

(* The frames when a nested planner call adds one.                         *)
LEMMA PushFrames ==
    ASSUME stack \in Seq(Frames), FramesInv, UNCHANGED Known, NEW CONSTANT f \in Frames,
           stack' = Append(stack, f), FrameInv(f)'
    PROVE  FramesInv'
<1> SUFFICES ASSUME NEW CONSTANT i \in 1..Len(stack') PROVE (FrameInv(stack[i]))'
  BY Zenon DEF FramesInv
<1>1. /\ Len(stack') = Len(stack) + 1 /\ Len(stack) \in Nat /\ stack'[Len(stack) + 1] = f
      /\ \A j \in 1..Len(stack) : stack'[j] = stack[j]
  BY PushFacts
<1>2. CASE i = Len(stack) + 1
  BY <1>1, <1>2, Zenon DEF FrameInv, ObjectsInv
<1>3. CASE i # Len(stack) + 1
  <2>0. i \in 1..Len(stack)
    BY <1>1, <1>3
  <2>1. PICK g : g = stack[i]
    BY Zenon
  <2>2. FrameInv(g)
    BY <2>0, <2>1, Zenon DEF FramesInv
  <2>3. FrameInv(g)'
    BY <2>2, FrameKept, Zenon
  <2>. QED
    BY <1>1, <2>0, <2>1, <2>3 DEF FrameInv, ObjectsInv
<1>. QED
  BY <1>2, <1>3, Zenon
----------------------------------------------------------------------------
(* Which calls run a task after a step.                                    *)

(* The types of the variables, one by one.                                 *)
LEMMA Typed ==
    ASSUME TypeOK
    PROVE  /\ stack \in Seq(Frames)
           /\ Len(stack) \in Nat
           /\ stack # <<>> => Len(stack) \in 1..Len(stack) /\ Top \in Frames
<1>1. stack \in Seq(Frames)
  BY Zenon DEF TypeOK, Frames
<1>. QED
  BY <1>1, EmptySeq DEF Top

(* A change of the top frame that keeps its place keeps the running tasks. *)
LEMMA PutRunning ==
    ASSUME TypeOK, stack # <<>>, NEW CONSTANT f \in Frames, stack' = SetTop(f)
    PROVE  /\ Running' = (Running \ {Len(stack)}) \cup (IF f.pc \in RunPCs THEN {Len(stack)} ELSE {})
           /\ stack'[Len(stack)] = f
           /\ \A i \in Running : i # Len(stack) => stack'[i] = stack[i]
           /\ Len(stack) \in Running <=> Top.pc \in RunPCs
           /\ stack' \in Seq(Frames) /\ Len(stack') = Len(stack)
<1>1. /\ Len(stack') = Len(stack) /\ stack'[Len(stack)] = f
      /\ \A j \in 1..Len(stack) : j # Len(stack) => stack'[j] = stack[j]
      /\ stack' \in Seq(Frames) /\ Len(stack) \in 1..Len(stack)
  BY Typed, PutFacts DEF SetTop
<1>. QED
  BY <1>1, Zenon DEF Running, RunPCs, Top

(* The running tasks when the top frame goes.                              *)
LEMMA PopRunning ==
    ASSUME TypeOK, stack # <<>>, stack' = Pop(stack)
    PROVE  /\ Running' = Running \ {Len(stack)}
           /\ \A i \in Running' : stack'[i] = stack[i]
           /\ Len(stack) \in Running <=> Top.pc \in RunPCs
           /\ stack' \in Seq(Frames) /\ Len(stack') = Len(stack) - 1
<1>1. /\ Len(stack') = Len(stack) - 1 /\ Len(stack) \in Nat \ {0} /\ stack' \in Seq(Frames)
      /\ \A i \in 1..Len(stack') : i \in 1..Len(stack) /\ i # Len(stack) /\ stack'[i] = stack[i]
  BY Typed, PopFacts, Zenon
<1>2. \A i \in 1..Len(stack) : i # Len(stack) => i \in 1..Len(stack')
  BY <1>1
<1>3. Len(stack) \in 1..Len(stack)
  BY <1>1
<1>. QED
  BY <1>1, <1>2, <1>3, Zenon DEF Running, RunPCs, Top

(* The running tasks when a frame is added.                                *)
LEMMA PushRunning ==
    ASSUME TypeOK, NEW CONSTANT f \in Frames, stack' = Append(stack, f), f.pc \notin RunPCs
    PROVE  /\ Running' = Running
           /\ \A i \in Running : stack'[i] = stack[i]
           /\ stack' \in Seq(Frames) /\ Len(stack') = Len(stack) + 1
<1>1. /\ Len(stack') = Len(stack) + 1 /\ Len(stack) \in Nat /\ stack'[Len(stack) + 1] = f
      /\ \A j \in 1..Len(stack) : stack'[j] = stack[j]
      /\ stack' \in Seq(Frames)
  BY Typed, PushFacts
<1>2. 1..Len(stack') = (1..Len(stack)) \cup {Len(stack) + 1}
  BY <1>1
<1>. QED
  BY <1>1, <1>2, Zenon DEF Running, RunPCs

(* When the innermost call runs a task, the others do not.                 *)
LEMMA TopRuns ==
    ASSUME TypeOK, OneTask, stack # <<>>, Top.pc \in RunPCs
    PROVE  Running = {Len(stack)} /\ OthersKept /\ worker = "running"
<1>1. Len(stack) \in Running
  BY Typed, Zenon DEF Running, RunPCs, Top
<1>2. \A i \in Running : i = Len(stack)
  BY <1>1, Zenon DEF OneTask
<1>3. \A i \in 1..Len(stack) : i # Len(stack) => stack[i].pc \notin RunPCs
  BY <1>2, Zenon DEF Running, RunPCs
<1>. QED
  BY <1>1, <1>2, <1>3, Zenon DEF OneTask, OthersKept

(* Then a shutdown or a reset of the cache takes nothing away from them.   *)
LEMMA BelowSafe ==
    ASSUME TypeOK, FramesInv, stack # <<>>,
           \A i \in 1..Len(stack) : i # Len(stack) => stack[i].pc \notin RunPCs
    PROVE  Kill(Pop(stack)) = Pop(stack)
<1>. DEFINE p == Pop(stack)
<1>1. /\ p \in Seq(Frames)
      /\ \A i \in 1..Len(p) : i \in 1..Len(stack) /\ i # Len(stack) /\ p[i] = stack[i]
  BY Typed, PopFacts, Zenon
<1>. HIDE DEF p
<1>2. \A i \in 1..Len(p) : p[i].local = NoObjects
  BY <1>1, Zenon DEF FramesInv, FrameInv, RunPCs
<1>3. Kill(p) = p
  BY <1>1, <1>2, KillSame, Zenon
<1>. QED
  BY <1>3, Zenon DEF p
----------------------------------------------------------------------------
(* The invariant holds initially.                                          *)
LEMMA InitInv == Init => IInv
<1> SUFFICES ASSUME Init PROVE IInv
  BY Zenon
<1> USE SessionAssumption
<1>1. stack = <<>> /\ Len(stack) = 0 /\ 1..Len(stack) = {} /\ Running = {}
  BY DEF Init, Running
<1>2. TypeOK
  <2>1. stack \in Seq(Frames) /\ Len(stack) <= MaxDepth
    BY <1>1
  <2>2. cached \in [Keys -> Nat \cup {None}]
    BY Zenon DEF Init, NoObjects
  <2>3. joinOrder \in Orders /\ userOrder \in Orders /\ inval \in 0..MaxInval /\ last \in 0..MaxInval
    BY DEF Init
  <2>4. worker \in {None, "running", "stale"} /\ pending \in {None, "orca", "gpdb"}
    BY Zenon DEF Init
  <2>5. cacheOn \in BOOLEAN /\ inflight \in BOOLEAN /\ escaped \in BOOLEAN
    BY Zenon DEF Init
  <2>. QED
    BY <2>1, <2>2, <2>3, <2>4, <2>5, Zenon DEF TypeOK, Frames
<1>3. OneTask /\ RefusalHarmless
  BY <1>1, Zenon DEF Init, OneTask, RefusalHarmless
<1>4. FramesInv
  BY <1>1, Zenon DEF FramesInv
<1>5. SessionInv
  BY DEF Init, SessionInv, NoObjects
<1>. QED
  BY <1>2, <1>3, <1>4, <1>5, Zenon DEF IInv

(* Steps that leave the calls alone.                                       *)
LEMMA SameFrames ==
    ASSUME FramesInv, UNCHANGED stack, UNCHANGED Known
    PROVE  FramesInv'
  BY Zenon DEF FramesInv, FrameInv, ObjectsInv, Known

(* A user sets the join order between statements.                          *)
LEMMA StepSetJoinOrder ==
    ASSUME IInv, NEW v \in Orders, SetJoinOrder(v) PROVE IInv'
<1>1. stack' = stack /\ 1..Len(stack) = {} /\ Running = {} /\ Running' = {}
  BY DEF SetJoinOrder, Running
<1>2. TypeOK'
  BY Zenon DEF IInv, TypeOK, SetJoinOrder
<1>3. FramesInv'
  BY <1>1, Zenon DEF FramesInv
<1>4. OneTask' /\ RefusalHarmless'
  BY <1>1, Zenon DEF IInv, OneTask, RefusalHarmless, SetJoinOrder
<1>5. SessionInv'
  BY Zenon DEF IInv, SessionInv, SetJoinOrder
<1>. QED
  BY <1>2, <1>3, <1>4, <1>5, Zenon DEF IInv

(* An invalidation of the catalog.                                         *)
LEMMA StepInvalidate == ASSUME IInv, Invalidate PROVE IInv'
<1>1. Running' = Running
  BY Zenon DEF Invalidate, Running
<1>2. TypeOK'
  BY SessionAssumption DEF IInv, TypeOK, Invalidate
<1>3. FramesInv'
  BY SameFrames, Zenon DEF IInv, Invalidate, Known
<1>4. OneTask' /\ RefusalHarmless'
  BY <1>1, Zenon DEF IInv, OneTask, RefusalHarmless, Invalidate
<1>5. SessionInv'
  BY <1>1, SessionAssumption DEF IInv, SessionInv, TypeOK, Invalidate
<1>. QED
  BY <1>2, <1>3, <1>4, <1>5, Zenon DEF IInv

(* An error of PostgreSQL reaches the frame, or ends the statement.        *)
LEMMA StepError == ASSUME IInv, PgError \/ StatementAborts PROVE IInv'
<1>1. UNCHANGED <<stack, joinOrder, userOrder, worker, pending, inval, last, cacheOn, cached, escaped>>
      /\ inflight' \in BOOLEAN
  BY Zenon DEF PgError, StatementAborts
<1>2. Running' = Running
  BY <1>1, Zenon DEF Running
<1>3. TypeOK'
  BY <1>1, Zenon DEF IInv, TypeOK
<1>4. FramesInv'
  BY <1>1, SameFrames, Zenon DEF IInv, Known
<1>5. OneTask' /\ RefusalHarmless'
  BY <1>1, <1>2, Zenon DEF IInv, OneTask, RefusalHarmless
<1>6. SessionInv'
  BY <1>1, <1>2, Zenon DEF IInv, SessionInv
<1>. QED
  BY <1>3, <1>4, <1>5, <1>6, Zenon DEF IInv

(* A call begins, outside of a task of its own.                            *)
LEMMA StepPlan == ASSUME IInv, NEW orca \in BOOLEAN, Plan(orca) PROVE IInv'
<1>. DEFINE f == Frame(IF orca THEN "prepare" ELSE "standard")
<1>1. f \in Frames /\ f.pc \notin RunPCs /\ FrameInv(f)'
  BY SessionAssumption DEF Frame, Frames, RunPCs, FrameInv, NoObjects
<1>2. stack' = Append(stack, f)
  BY Zenon DEF Plan
<1>. HIDE DEF f
<1>3. /\ Running' = Running /\ (\A i \in Running : stack'[i] = stack[i])
      /\ stack' \in Seq(Frames) /\ Len(stack') = Len(stack) + 1
  BY <1>1, <1>2, PushRunning, Zenon DEF IInv
<1>4. TypeOK'
  <2>1. Len(stack') <= MaxDepth
    BY <1>3, Typed, SessionAssumption DEF IInv, Plan
  <2>. QED
    BY <1>3, <2>1, Zenon DEF IInv, TypeOK, Plan, Frames
<1>5. FramesInv'
  BY <1>1, <1>2, Typed, PushFrames, Zenon DEF IInv, Plan, Known
<1>6. OneTask' /\ RefusalHarmless'
  BY <1>3, Zenon DEF IInv, OneTask, RefusalHarmless, Plan
<1>7. SessionInv'
  BY <1>3, Zenon DEF IInv, SessionInv, Plan
<1>. QED
  BY <1>4, <1>5, <1>6, <1>7, Zenon DEF IInv

(* A call without a task goes on to the planner of PostgreSQL.             *)
LEMMA StepToStandard == ASSUME IInv, Fallback \/ TaskRefused PROVE IInv'
<1>f. PICK f : f = [Top EXCEPT !.pc = "standard"]
  BY Zenon
<1>0. /\ stack # <<>> /\ Top.pc = "prepare" /\ stack' = SetTop(f)
      /\ UNCHANGED <<joinOrder, userOrder, worker, pending, inval, last, cacheOn, cached, inflight, escaped>>
  BY <1>f, Zenon DEF Fallback, TaskRefused, Recorded
<1>1. Top \in Frames /\ FrameInv(Top) /\ Len(stack) \in Nat
  BY <1>0, Typed, Zenon DEF IInv, FramesInv, Top
<1>2. f \in Frames /\ f.pc = "standard" /\ f.local = Top.local /\ f.fetch = Top.fetch
  BY <1>f, <1>1, Zenon DEF Frames
<1>3. FrameInv(f)'
  BY <1>0, <1>1, <1>2, Zenon DEF FrameInv, RunPCs
<1>4. /\ Running' = Running /\ (\A i \in Running : stack'[i] = stack[i])
      /\ stack' \in Seq(Frames) /\ Len(stack') = Len(stack)
  BY <1>0, <1>2, PutRunning, Zenon DEF IInv, RunPCs
<1>5. TypeOK'
  BY <1>0, <1>4, Zenon DEF IInv, TypeOK, Frames
<1>6. FramesInv'
  BY <1>0, <1>2, <1>3, Typed, PutFrames, Zenon DEF IInv, OthersKept, Known
<1>7. OneTask' /\ RefusalHarmless'
  BY <1>0, <1>4, Zenon DEF IInv, OneTask, RefusalHarmless
<1>8. SessionInv'
  BY <1>0, <1>4, Zenon DEF IInv, SessionInv
<1>. QED
  BY <1>5, <1>6, <1>7, <1>8, Zenon DEF IInv

(* A call without a task ends.                                             *)
LEMMA StepLeaves == ASSUME IInv, StandardReturns \/ Skip PROVE IInv'
<1>0. /\ stack # <<>> /\ Top.pc \notin RunPCs /\ stack' = Pop(stack) /\ inflight' \in BOOLEAN
      /\ UNCHANGED <<joinOrder, userOrder, worker, pending, inval, last, cacheOn, cached, escaped>>
  BY Zenon DEF StandardReturns, Skip, RunPCs, IInv, TypeOK
<1>1. /\ Running' = Running /\ (\A i \in Running : stack'[i] = stack[i])
      /\ stack' \in Seq(Frames) /\ Len(stack') = Len(stack) - 1
  BY <1>0, PopRunning, Zenon DEF IInv
<1>2. TypeOK'
  <2>1. Len(stack') <= MaxDepth
    BY <1>1, Typed, SessionAssumption DEF IInv, TypeOK
  <2>. QED
    BY <1>0, <1>1, <2>1, Zenon DEF IInv, TypeOK, Frames
<1>3. FramesInv'
  BY <1>0, Typed, PopFrames, Zenon DEF IInv, OthersKept, Known
<1>4. OneTask' /\ RefusalHarmless'
  BY <1>0, <1>1, Zenon DEF IInv, OneTask, RefusalHarmless
<1>5. SessionInv'
  BY <1>0, <1>1, Zenon DEF IInv, SessionInv
<1>. QED
  BY <1>2, <1>3, <1>4, <1>5, Zenon DEF IInv
----------------------------------------------------------------------------
(* The steps of a task.                                                    *)

(* A task starts only when no call runs one; its objects are the ones that *)
(* were valid when it started.                                             *)
LEMMA StepTaskStarts == ASSUME IInv, NEW many \in BOOLEAN, TaskStarts(many) PROVE IInv'
<1>f. PICK f : f = [Top EXCEPT !.pc = "setup", !.saved = Saved, !.start = inval]
  BY Zenon
<1>0. /\ stack # <<>> /\ Top.pc = "prepare" /\ worker = None
      /\ joinOrder' = IF many /\ joinOrder \in Exhaustive THEN Greedy ELSE joinOrder
      /\ worker' = "running" /\ pending' = None /\ last' = inval /\ cacheOn' = TRUE
      /\ UNCHANGED <<userOrder, inval, inflight, escaped>>
  BY Zenon DEF TaskStarts, Refuses
<1>1. Top \in Frames /\ FrameInv(Top) /\ Len(stack) \in 1..Len(stack) /\ stack \in Seq(Frames)
  BY <1>0, Typed, Zenon DEF IInv, FramesInv, Top
<1>2. Running = {}
  BY <1>0, SessionAssumption, Zenon DEF IInv, OneTask
<1>3. \A i \in 1..Len(stack) : stack[i].pc \notin RunPCs
  BY <1>2, Zenon DEF Running, RunPCs
<1>4. /\ f \in Frames /\ f.pc = "setup" /\ f.local = NoObjects /\ f.fetch = <<>>
      /\ f.start = inval /\ f.saved = joinOrder
  <2>0. joinOrder \in Orders /\ inval \in Nat
    BY DEF IInv, TypeOK
  <2>1. f \in Frames /\ f.pc = "setup" /\ f.local = Top.local /\ f.fetch = Top.fetch
        /\ f.start = inval /\ f.saved = joinOrder
    BY <1>f, <1>1, <2>0, Zenon DEF Frames, Saved
  <2>. QED
    BY <1>0, <1>1, <2>1, Zenon DEF FrameInv
<1>5. stack' = SetTop(f)
  <2>1. Kill(Pop(stack)) = Pop(stack)
    BY <1>0, <1>3, BelowSafe, Zenon DEF IInv
  <2>2. Append(Pop(stack), f) = SetTop(f)
    BY <1>0, <1>1, <1>4, PopPush DEF SetTop
  <2>. QED
    BY <1>f, <2>1, <2>2, Zenon DEF TaskStarts
<1>6. /\ cached' \in [Keys -> Nat \cup {None}]
      /\ \A k \in Keys : cached'[k] # None => cached'[k] \in Nat /\ cached'[k] >= inval /\ k \notin CtasKeys
  <2>1. CASE cached' = NoObjects
    BY <2>1, Zenon DEF NoObjects
  <2>2. CASE ~MDCacheNeedsReset /\ \E S \in SUBSET Unpinned : cached' = Evicted(S)
    <3>1. PICK S : cached' = Evicted(S)
      BY <2>2, Zenon
    <3>2. last = inval
      BY <2>2, Zenon DEF MDCacheNeedsReset
    <3>. QED
      BY <3>1, <3>2, Zenon DEF Evicted, IInv, SessionInv, TypeOK
  <2>. QED
    BY <2>1, <2>2, Zenon DEF TaskStarts
<1>7. /\ Running' = {Len(stack)}
      /\ stack' \in Seq(Frames) /\ Len(stack') = Len(stack)
  BY <1>0, <1>2, <1>4, <1>5, PutRunning, Zenon DEF IInv, RunPCs
<1>8. TypeOK'
  <2>1. joinOrder' \in Orders
    BY <1>0, SessionAssumption, Zenon DEF IInv, TypeOK
  <2>2. cacheOn' \in BOOLEAN
    BY <1>0, Zenon
  <2>. QED
    BY <1>0, <1>6, <1>7, <2>1, <2>2, Zenon DEF IInv, TypeOK, Frames
<1>9. FramesInv'
  <2>1. FrameInv(f)'
    <3>1. ~escaped => joinOrder = userOrder
      BY <1>2, Zenon DEF IInv, SessionInv
    <3>. QED
      BY <1>0, <1>4, <3>1, Zenon DEF FrameInv, IInv, TypeOK, RunPCs
  <2>. QED
    BY <1>0, <1>1, <1>3, <1>4, <1>5, <2>1, PutFrames, Zenon DEF IInv, OthersKept
<1>10. OneTask' /\ RefusalHarmless'
  BY <1>0, <1>7, Zenon DEF OneTask, RefusalHarmless
<1>11. SessionInv'
  BY <1>0, <1>6, <1>7 DEF SessionInv, IInv, TypeOK
<1>. QED
  BY <1>8, <1>9, <1>10, <1>11, Zenon DEF IInv

(* The task goes on after its setup, or raises an exception in it.         *)
LEMMA StepSetup == ASSUME IInv, AccessorOpens \/ LoadFails PROVE IInv'
<1>f. PICK f : f = [Top EXCEPT !.pc = IF AccessorOpens THEN "optimize" ELSE "raised"]
  BY Zenon
<1>0. /\ stack # <<>> /\ Top.pc = "setup" /\ stack' = SetTop(f)
      /\ UNCHANGED <<joinOrder, userOrder, worker, inval, last, cacheOn, cached, inflight, escaped>>
      /\ pending' \in {None, "orca", "gpdb"}
      /\ pending' = pending \/ f.pc = "raised"
  <2>1. CASE AccessorOpens
    BY <1>f, <2>1, Zenon DEF AccessorOpens, IInv, TypeOK
  <2>2. CASE LoadFails /\ ~AccessorOpens
    <3>1. Top \in Frames
      BY <2>2, Typed, Zenon DEF IInv, LoadFails
    <3>2. f.pc = "raised"
      BY <1>f, <2>2, <3>1, Zenon DEF Frames
    <3>. QED
      BY <1>f, <2>2, <3>2, Zenon DEF LoadFails
  <2>. QED
    BY <2>1, <2>2, Zenon
<1>1. Top \in Frames /\ FrameInv(Top) /\ Len(stack) \in Nat /\ stack \in Seq(Frames)
  BY <1>0, Typed, Zenon DEF IInv, FramesInv, Top
<1>2. /\ f \in Frames /\ f.pc \in {"optimize", "raised"} /\ f.local = NoObjects /\ f.fetch = <<>>
      /\ f.start = Top.start /\ f.saved = Top.saved
  <2>1. f \in Frames /\ f.pc \in {"optimize", "raised"} /\ f.local = Top.local /\ f.fetch = Top.fetch
        /\ f.start = Top.start /\ f.saved = Top.saved
    BY <1>f, <1>1, Zenon DEF Frames
  <2>. QED
    BY <1>0, <1>1, <2>1, Zenon DEF FrameInv
<1>3. Running = {Len(stack)} /\ OthersKept /\ worker = "running"
  BY <1>0, TopRuns, Zenon DEF IInv, RunPCs
<1>4. /\ Running' = {Len(stack)} /\ stack'[Len(stack)] = f
      /\ stack' \in Seq(Frames) /\ Len(stack') = Len(stack)
  BY <1>0, <1>2, <1>3, PutRunning, Zenon DEF IInv, RunPCs
<1>5. TypeOK'
  BY <1>0, <1>4, Zenon DEF IInv, TypeOK, Frames
<1>6. FramesInv'
  <2>1. FrameInv(f)'
    <3>1. /\ Top.start = last /\ cacheOn /\ pending = None /\ (~escaped => Top.saved = userOrder)
          /\ Top.saved \in Orders
      BY <1>0, <1>1, Zenon DEF FrameInv, RunPCs
    <3>2. ObjectsInv(f)'
      BY <1>0, <1>2, SessionAssumption DEF ObjectsInv, NoObjects
    <3>. QED
      BY <1>0, <1>2, <3>1, <3>2, Zenon DEF FrameInv, RunPCs
  <2>. QED
    BY <1>0, <1>1, <1>2, <1>3, <2>1, PutFrames, Zenon DEF IInv
<1>7. OneTask'
  BY <1>0, <1>3, <1>4, Zenon DEF OneTask
<1>8. RefusalHarmless'
  <2>1. pending = None
    BY <1>0, <1>1, Zenon DEF FrameInv, RunPCs
  <2>. QED
    BY <1>0, <1>4, <2>1, Zenon DEF RefusalHarmless
<1>9. SessionInv'
  BY <1>0, <1>4, Zenon DEF IInv, SessionInv
<1>. QED
  BY <1>5, <1>6, <1>7, <1>8, <1>9, Zenon DEF IInv

(* The task raises an exception while the accessor is open.                *)
LEMMA StepRaises == ASSUME IInv, WrapRaises \/ OrcaRaises PROVE IInv'
<1>f. PICK f : f = [Top EXCEPT !.pc = "raised", !.local = NoObjects, !.fetch = <<>>]
  BY Zenon
<1>0. /\ stack # <<>> /\ Top.pc = "optimize"
      /\ stack' = Append(Kill(Pop(stack)), f)
      /\ cacheOn' = FALSE /\ cached' = NoObjects /\ pending' \in {"orca", "gpdb"}
      /\ inflight' \in BOOLEAN
      /\ UNCHANGED <<joinOrder, userOrder, worker, inval, last, escaped>>
  <2>1. CASE WrapRaises
    BY <1>f, <2>1, Zenon DEF WrapRaises, TaskRaises
  <2>2. CASE OrcaRaises
    BY <1>f, <2>2, Zenon DEF OrcaRaises, TaskRaises, IInv, TypeOK
  <2>. QED
    BY <2>1, <2>2, Zenon
<1>1. Top \in Frames /\ FrameInv(Top) /\ Len(stack) \in Nat /\ stack \in Seq(Frames)
  BY <1>0, Typed, Zenon DEF IInv, FramesInv, Top
<1>2. /\ f \in Frames /\ f.pc = "raised" /\ f.local = NoObjects /\ f.fetch = <<>>
      /\ f.start = Top.start /\ f.saved = Top.saved
  <2>1. NoObjects \in [Keys -> Nat \cup {None, Dead}] /\ <<>> \in Seq(Keys)
    BY DEF NoObjects
  <2>. QED
    BY <1>f, <1>1, <2>1, Zenon DEF Frames
<1>3. Running = {Len(stack)} /\ OthersKept /\ worker = "running"
  BY <1>0, TopRuns, Zenon DEF IInv, RunPCs
<1>4. \A i \in 1..Len(stack) : i # Len(stack) => stack[i].pc \notin RunPCs
  BY <1>3, Zenon DEF Running, RunPCs
<1>5. stack' = SetTop(f)
  <2>1. Kill(Pop(stack)) = Pop(stack)
    BY <1>0, <1>4, BelowSafe, Zenon DEF IInv
  <2>2. Append(Pop(stack), f) = SetTop(f)
    BY <1>0, <1>1, <1>2, PopPush DEF SetTop
  <2>. QED
    BY <1>0, <2>1, <2>2, Zenon
<1>6. /\ Running' = {Len(stack)} /\ stack'[Len(stack)] = f
      /\ stack' \in Seq(Frames) /\ Len(stack') = Len(stack)
  BY <1>0, <1>2, <1>3, <1>5, PutRunning, Zenon DEF IInv, RunPCs
<1>7. TypeOK'
  <2>1. cached' \in [Keys -> Nat \cup {None}]
    BY <1>0, Zenon DEF NoObjects
  <2>2. cacheOn' \in BOOLEAN
    BY <1>0, Zenon
  <2>3. pending' \in {None, "orca", "gpdb"}
    BY <1>0, Zenon
  <2>. QED
    BY <1>0, <1>6, <2>1, <2>2, <2>3, Zenon DEF IInv, TypeOK, Frames
<1>8. FramesInv'
  <2>1. FrameInv(f)'
    BY <1>0, <1>1, <1>2, Zenon DEF FrameInv, RunPCs
  <2>. QED
    BY <1>0, <1>1, <1>2, <1>3, <1>5, <2>1, PutFrames, Zenon DEF IInv
<1>9. OneTask' /\ RefusalHarmless'
  BY <1>0, <1>2, <1>3, <1>6, Zenon DEF OneTask, RefusalHarmless
<1>10. SessionInv'
  BY <1>0, <1>6, Zenon DEF IInv, SessionInv, NoObjects
<1>. QED
  BY <1>7, <1>8, <1>9, <1>10, Zenon DEF IInv

(* The task ends with an error of PostgreSQL.                              *)
LEMMA StepEscapes == ASSUME IInv, ConfigError \/ Rethrows PROVE IInv'
<1>0. /\ stack # <<>> /\ Top.pc \in {"setup", "raised"} /\ stack' = Pop(stack)
      /\ worker' \in {None, "stale"} /\ pending' = None
      /\ inflight' = TRUE /\ escaped' = TRUE
      /\ UNCHANGED <<joinOrder, userOrder, inval, last, cacheOn, cached>>
  <2>1. CASE ConfigError
    <3>1. stack # <<>> /\ Top.pc = "setup"
      BY <2>1, Zenon DEF ConfigError
    <3>2. FrameInv(Top)
      BY <3>1, Typed, Zenon DEF IInv, FramesInv, Top
    <3>3. pending = None
      BY <3>1, <3>2, Zenon DEF FrameInv, RunPCs
    <3>. QED
      BY <2>1, <3>3, Zenon DEF ConfigError
  <2>2. CASE Rethrows
    BY <2>2, Zenon DEF Rethrows
  <2>. QED
    BY <2>1, <2>2, Zenon
<1>1. Running = {Len(stack)} /\ OthersKept
  BY <1>0, TopRuns, Zenon DEF IInv, RunPCs
<1>2. Running' = {} /\ stack' \in Seq(Frames) /\ Len(stack') = Len(stack) - 1
  BY <1>0, <1>1, PopRunning, Zenon DEF IInv
<1>3. TypeOK'
  <2>1. Len(stack') <= MaxDepth
    BY <1>2, Typed, SessionAssumption DEF IInv, TypeOK
  <2>2. inflight' \in BOOLEAN /\ escaped' \in BOOLEAN
    BY <1>0, Zenon
  <2>. QED
    BY <1>0, <1>2, <2>1, <2>2, Zenon DEF IInv, TypeOK, Frames
<1>4. FramesInv'
  BY <1>0, <1>1, Typed, PopFrames, Zenon DEF IInv
<1>5. OneTask' /\ RefusalHarmless'
  BY <1>0, <1>2, SessionAssumption, Zenon DEF OneTask, RefusalHarmless
<1>6. SessionInv'
  BY <1>0, Zenon DEF IInv, SessionInv
<1>. QED
  BY <1>3, <1>4, <1>5, <1>6, Zenon DEF IInv

(* The task ends without a plan, and the join order is put back.           *)
LEMMA StepNoPlan == ASSUME IInv, NoPlan PROVE IInv'
<1>f. PICK f : f = [Top EXCEPT !.pc = "standard"]
  BY Zenon
<1>0. /\ stack # <<>> /\ Top.pc = "raised" /\ stack' = SetTop(f)
      /\ worker' = None /\ pending' = None /\ joinOrder' = Top.saved
      /\ UNCHANGED <<userOrder, inval, last, cacheOn, cached, inflight, escaped>>
  BY <1>f, Zenon DEF NoPlan, Restored
<1>1. Top \in Frames /\ FrameInv(Top) /\ Len(stack) \in Nat /\ stack \in Seq(Frames)
  BY <1>0, Typed, Zenon DEF IInv, FramesInv, Top
<1>2. /\ f \in Frames /\ f.pc = "standard" /\ f.local = NoObjects /\ f.fetch = <<>>
  <2>1. f \in Frames /\ f.pc = "standard" /\ f.local = Top.local /\ f.fetch = Top.fetch
    BY <1>f, <1>1, Zenon DEF Frames
  <2>. QED
    BY <1>0, <1>1, <2>1, Zenon DEF FrameInv
<1>3. Running = {Len(stack)} /\ OthersKept
  BY <1>0, TopRuns, Zenon DEF IInv, RunPCs
<1>4. Running' = {} /\ stack' \in Seq(Frames) /\ Len(stack') = Len(stack)
  BY <1>0, <1>2, <1>3, PutRunning, Zenon DEF IInv, RunPCs
<1>5. Top.saved \in Orders /\ (~escaped => Top.saved = userOrder)
  BY <1>0, <1>1, Zenon DEF FrameInv, RunPCs
<1>6. TypeOK'
  BY <1>0, <1>4, <1>5, Zenon DEF IInv, TypeOK, Frames
<1>7. FramesInv'
  <2>1. FrameInv(f)'
    BY <1>2, Zenon DEF FrameInv, RunPCs
  <2>. QED
    BY <1>0, <1>1, <1>2, <1>3, <2>1, PutFrames, Zenon DEF IInv
<1>8. OneTask' /\ RefusalHarmless'
  BY <1>0, <1>4, SessionAssumption, Zenon DEF OneTask, RefusalHarmless
<1>9. SessionInv'
  BY <1>0, <1>5, Zenon DEF IInv, SessionInv
<1>. QED
  BY <1>6, <1>7, <1>8, <1>9, Zenon DEF IInv

(* The task ends with a plan: no exception is pending in it.               *)
LEMMA StepTaskReturns == ASSUME IInv, NEW caching \in BOOLEAN, TaskReturns(caching) PROVE IInv'
<1>0. /\ stack # <<>> /\ Top.pc = "optimize"
      /\ cacheOn' = (cacheOn /\ caching)
      /\ cached' = IF caching THEN cached ELSE NoObjects
      /\ UNCHANGED <<userOrder, pending, inval, last, inflight, escaped>>
  BY Zenon DEF TaskReturns
<1>1. FrameInv(Top) /\ stack \in Seq(Frames)
  BY <1>0, Typed, Zenon DEF IInv, FramesInv, Top
<1>2. Top.saved \in Orders /\ (~escaped => Top.saved = userOrder) /\ pending = None
  BY <1>0, <1>1, Zenon DEF FrameInv, RunPCs
<1>3. Running = {Len(stack)} /\ OthersKept
  BY <1>0, TopRuns, Zenon DEF IInv, RunPCs
<1>4. stack' = Pop(stack) /\ worker' = None /\ joinOrder' = Top.saved
  <2>1. \A i \in 1..Len(stack) : i # Len(stack) => stack[i].pc \notin RunPCs
    BY <1>3, Zenon DEF Running, RunPCs
  <2>2. Kill(Pop(stack)) = Pop(stack)
    BY <1>0, <2>1, BelowSafe, Zenon DEF IInv
  <2>. QED
    BY <1>2, <2>2, Zenon DEF TaskReturns, Restored
<1>5. Running' = {} /\ stack' \in Seq(Frames) /\ Len(stack') = Len(stack) - 1
  BY <1>0, <1>3, <1>4, PopRunning, Zenon DEF IInv
<1>6. TypeOK'
  <2>1. Len(stack') <= MaxDepth
    BY <1>5, Typed, SessionAssumption DEF IInv, TypeOK
  <2>2. cacheOn' \in BOOLEAN
    BY <1>0, Zenon
  <2>3. cached' \in [Keys -> Nat \cup {None}]
    BY <1>0, Zenon DEF NoObjects, IInv, TypeOK
  <2>. QED
    BY <1>0, <1>2, <1>4, <1>5, <2>1, <2>2, <2>3, Zenon DEF IInv, TypeOK, Frames
<1>7. FramesInv'
  BY <1>0, <1>1, <1>3, <1>4, PopFrames, Zenon DEF IInv
<1>8. OneTask' /\ RefusalHarmless'
  BY <1>0, <1>2, <1>4, <1>5, SessionAssumption, Zenon DEF OneTask, RefusalHarmless
<1>9. SessionInv'
  BY <1>0, <1>2, <1>4, Zenon DEF IInv, SessionInv, NoObjects
<1>. QED
  BY <1>6, <1>7, <1>8, <1>9, Zenon DEF IInv
----------------------------------------------------------------------------
(* The steps of GetImdObj.                                                 *)

(* What they have in common: the innermost call stays in its task with     *)
(* other objects, and the cache has objects that are not stale.            *)
LEMMA StepFetch ==
    ASSUME IInv, stack # <<>>, Top.pc = "optimize", NEW CONSTANT f \in Frames,
           stack' = SetTop(f), f.pc = "optimize", f.start = Top.start, f.saved = Top.saved,
           UNCHANGED <<joinOrder, userOrder, worker, pending, inval, last, cacheOn, inflight, escaped>>,
           cached' \in [Keys -> Nat \cup {None}],
           \A k \in Keys : cached'[k] # None => cached'[k] >= last /\ k \notin CtasKeys,
           ObjectsInv(f)'
    PROVE  IInv'
<1>1. FrameInv(Top) /\ stack \in Seq(Frames)
  BY Typed, Zenon DEF IInv, FramesInv, Top
<1>2. Running = {Len(stack)} /\ OthersKept /\ worker = "running"
  BY TopRuns, Zenon DEF IInv, RunPCs
<1>3. /\ Running' = {Len(stack)}
      /\ stack' \in Seq(Frames) /\ Len(stack') = Len(stack)
  BY <1>2, PutRunning, Zenon DEF IInv, RunPCs
<1>4. pending = None
  BY <1>1, Zenon DEF FrameInv, RunPCs
<1>5. TypeOK'
  BY <1>3, Zenon DEF IInv, TypeOK, Frames
<1>6. FrameInv(f)'
  BY <1>1, Zenon DEF FrameInv, RunPCs
<1>7. FramesInv'
  BY <1>1, <1>2, <1>6, PutFrames, Zenon DEF IInv
<1>8. OneTask' /\ RefusalHarmless'
  BY <1>2, <1>3, <1>4, Zenon DEF OneTask, RefusalHarmless
<1>9. SessionInv'
  BY <1>3, Zenon DEF IInv, SessionInv
<1>. QED
  BY <1>5, <1>7, <1>8, <1>9, Zenon DEF IInv

(* CMDAccessor finds an object in the cache.                               *)
LEMMA StepLookup == ASSUME IInv, NEW k \in Keys, Lookup(k) PROVE IInv'
<1>f. PICK f : f = [Top EXCEPT !.local[k] = cached[k]]
  BY Zenon
<1>0. /\ stack # <<>> /\ Top.pc = "optimize" /\ cached[k] # None /\ stack' = SetTop(f)
      /\ UNCHANGED <<joinOrder, userOrder, worker, pending, inval, last, cacheOn, cached, inflight, escaped>>
  BY <1>f, Zenon DEF Lookup, Fetching
<1>1. Top \in Frames /\ FrameInv(Top)
  BY <1>0, Typed, Zenon DEF IInv, FramesInv, Top
<1>2. cached[k] \in Nat /\ cached[k] >= last
  BY <1>0, Zenon DEF IInv, SessionInv
<1>3. /\ f \in Frames /\ f.pc = "optimize" /\ f.start = Top.start /\ f.saved = Top.saved
      /\ f.fetch = Top.fetch /\ f.local = [Top.local EXCEPT ![k] = cached[k]]
  BY <1>f, <1>0, <1>1, <1>2, Zenon DEF Frames
<1>4. ObjectsInv(f)'
  <2>1. ObjectsInv(Top)
    BY <1>0, <1>1, Zenon DEF FrameInv
  <2>2. ASSUME NEW j \in Keys, f.local[j] # None
        PROVE  f.local[j] \in Nat /\ f.local[j] >= last /\ (j \in CtasKeys \/ cached[j] = f.local[j])
    <3>0. Top.local \in [Keys -> Nat \cup {None, Dead}]
      BY <1>1, Zenon DEF Frames
    <3>1. CASE j = k
      BY <1>2, <1>3, <3>0, <3>1, Zenon
    <3>2. CASE j # k
      BY <1>3, <2>1, <2>2, <3>0, <3>2, Zenon DEF ObjectsInv
    <3>. QED
      BY <3>1, <3>2, Zenon
  <2>3. ASSUME NEW j \in 1..Len(f.fetch), cached[f.fetch[j]] # None
        PROVE  f.local[f.fetch[j]] # None
    <3>1. f.fetch[j] \in Keys /\ Top.local \in [Keys -> Nat \cup {None, Dead}]
      BY <1>1, <1>3 DEF Frames
    <3>2. Top.local[f.fetch[j]] # None
      BY <1>3, <2>1, <2>3, Zenon DEF ObjectsInv
    <3>. QED
      BY <1>0, <1>3, <3>1, <3>2, Zenon
  <2>. QED
    BY <1>0, <2>2, <2>3, Zenon DEF ObjectsInv
<1>. QED
  BY <1>0, <1>3, <1>4, StepFetch, Zenon DEF IInv, TypeOK, SessionInv

(* CMDAccessor asks the provider for an object.                            *)
LEMMA StepAskProvider == ASSUME IInv, NEW k \in Keys, AskProvider(k) PROVE IInv'
<1>f. PICK f : f = [Top EXCEPT !.fetch = Append(@, k)]
  BY Zenon
<1>0. /\ stack # <<>> /\ Top.pc = "optimize" /\ cached[k] = None /\ stack' = SetTop(f)
      /\ UNCHANGED <<joinOrder, userOrder, worker, pending, inval, last, cacheOn, cached, inflight, escaped>>
  BY <1>f, Zenon DEF AskProvider, Fetching
<1>1. Top \in Frames /\ FrameInv(Top)
  BY <1>0, Typed, Zenon DEF IInv, FramesInv, Top
<1>. DEFINE g == Top.fetch
<1>2. /\ Append(g, k) \in Seq(Keys) /\ Len(Append(g, k)) = Len(g) + 1 /\ Len(g) \in Nat
      /\ Append(g, k)[Len(g) + 1] = k /\ \A i \in 1..Len(g) : Append(g, k)[i] = g[i]
  <2>1. g \in Seq(Keys)
    BY <1>1, Zenon DEF Frames
  <2>. HIDE DEF g
  <2>. QED
    BY <2>1, PushFacts
<1>3. /\ f \in Frames /\ f.pc = "optimize" /\ f.start = Top.start /\ f.saved = Top.saved
      /\ f.fetch = Append(g, k) /\ f.local = Top.local
  BY <1>f, <1>0, <1>1, <1>2, Zenon DEF Frames
<1>4. ObjectsInv(f)'
  <2>1. ObjectsInv(Top)
    BY <1>0, <1>1, Zenon DEF FrameInv
  <2>2. ASSUME NEW j \in 1..Len(f.fetch), cached[f.fetch[j]] # None
        PROVE  f.local[f.fetch[j]] # None
    <3>1. CASE j = Len(g) + 1
      BY <1>0, <1>2, <1>3, <2>2, <3>1, Zenon
    <3>2. CASE j # Len(g) + 1
      <4>1. j \in 1..Len(g) /\ f.fetch[j] = g[j]
        BY <1>2, <1>3, <3>2
      <4>. QED
        BY <1>3, <2>1, <2>2, <4>1, Zenon DEF ObjectsInv
    <3>. QED
      BY <3>1, <3>2, Zenon
  <2>. QED
    BY <1>0, <1>3, <2>1, <2>2, Zenon DEF ObjectsInv
<1>. QED
  BY <1>0, <1>3, <1>4, StepFetch, Zenon DEF IInv, TypeOK, SessionInv

(* An answer never finds its key cached without the call knowing the       *)
(* object, so what the cache did not take is not used.                     *)
LEMMA StepProviderAnswers == ASSUME IInv, ProviderAnswers PROVE IInv'
<1>k. PICK k : k = Top.fetch[Len(Top.fetch)]
  BY Zenon
<1>0. /\ stack # <<>> /\ Top.pc = "optimize" /\ Top.fetch # <<>>
      /\ UNCHANGED <<joinOrder, userOrder, worker, pending, inval, last, cacheOn, inflight, escaped>>
  BY Zenon DEF ProviderAnswers
<1>1. Top \in Frames /\ FrameInv(Top) /\ Len(stack) \in 1..Len(stack)
  BY <1>0, Typed, Zenon DEF IInv, FramesInv, Top
<1>2. ObjectsInv(Top)
  BY <1>0, <1>1, Zenon DEF FrameInv
<1>3. PICK g : g = Top.fetch
  BY Zenon
<1>4. /\ g \in Seq(Keys) /\ g # <<>> /\ Len(g) \in 1..Len(g) /\ k = g[Len(g)] /\ k \in Keys
      /\ Pop(g) \in Seq(Keys)
      /\ \A i \in 1..Len(Pop(g)) : i \in 1..Len(g) /\ Pop(g)[i] = g[i]
  <2>1. g \in Seq(Keys) /\ g # <<>> /\ k = g[Len(g)]
    BY <1>k, <1>0, <1>1, <1>3, Zenon DEF Frames
  <2>2. Len(g) \in Nat \ {0}
    BY <2>1, EmptySeq, Zenon
  <2>3. Len(g) \in 1..Len(g)
    BY <2>2
  <2>. QED
    BY <2>1, <2>3, PopFacts
<1>5. PICK loc : loc = Top.local
  BY Zenon
<1>6. loc \in [Keys -> Nat \cup {None, Dead}]
  BY <1>1, <1>5, Zenon DEF Frames
<1>7. inval \in Nat /\ last \in Nat /\ inval >= last
  BY DEF IInv, TypeOK, SessionInv

(* The cache and the objects of the call afterwards.                       *)
<1>8. PICK v \in {inval, Dead} :
         /\ stack' = Store(k, v)
         /\ cached' \in [Keys -> Nat \cup {None}]
         /\ loc[k] = None => v = inval /\ (k \in CtasKeys \/ cached'[k] = inval)
         /\ \A j \in Keys : loc[j] # None /\ j \notin CtasKeys => cached'[j] = cached[j]
         /\ \A j \in Keys : cached'[j] # None =>
               cached'[j] = cached[j] \/ (j = k /\ k \notin CtasKeys /\ cached'[k] = inval)
  <2>1. CASE Bypasses(k) /\ stack' = Store(k, inval) /\ UNCHANGED cached
    BY <2>1, Zenon DEF Bypasses, IInv, TypeOK
  <2>2. CASE ~Bypasses(k) /\ \E S \in SUBSET Unpinned :
                IF Evicted(S)[k] = None
                THEN /\ cached' = [Evicted(S) EXCEPT ![k] = inval]
                     /\ stack' = Store(k, inval)
                ELSE /\ cached' = Evicted(S)
                     /\ stack' = Store(k, Dead)
    <3>1. PICK S \in SUBSET Unpinned :
                IF Evicted(S)[k] = None
                THEN /\ cached' = [Evicted(S) EXCEPT ![k] = inval]
                     /\ stack' = Store(k, inval)
                ELSE /\ cached' = Evicted(S)
                     /\ stack' = Store(k, Dead)
      BY <2>2, Zenon
    <3>2. k \notin CtasKeys
      BY <2>2, Zenon DEF Bypasses
    <3>3. \A j \in Keys : loc[j] # None => j \notin S
      BY <1>1, <1>5, <3>1, Zenon DEF Unpinned, Top
    <3>4. /\ Evicted(S) \in [Keys -> Nat \cup {None}]
          /\ \A j \in Keys : Evicted(S)[j] = IF j \in S THEN None ELSE cached[j]
      BY Zenon DEF Evicted, IInv, TypeOK
    <3>5. \A j \in Keys : loc[j] # None /\ j \notin CtasKeys => cached[j] # None
      BY <1>2, <1>5, SessionAssumption, Zenon DEF ObjectsInv
    <3>6. CASE Evicted(S)[k] = None
      <4>1. cached' = [Evicted(S) EXCEPT ![k] = inval] /\ stack' = Store(k, inval)
        BY <3>1, <3>6, Zenon
      <4>2. loc[k] = None
        BY <1>4, <3>2, <3>3, <3>4, <3>5, <3>6, Zenon
      <4>3. cached' \in [Keys -> Nat \cup {None}] /\ cached'[k] = inval
            /\ \A j \in Keys : j # k => cached'[j] = Evicted(S)[j]
        BY <1>4, <1>7, <3>4, <4>1, Zenon
      <4>. QED
        BY <3>2, <3>3, <3>4, <4>1, <4>2, <4>3, Zenon
    <3>7. CASE Evicted(S)[k] # None
      <4>1. cached' = Evicted(S) /\ stack' = Store(k, Dead)
        BY <3>1, <3>7, Zenon
      <4>2. cached[k] # None
        BY <1>4, <3>4, <3>7, Zenon
      <4>3. loc[k] # None
        BY <1>2, <1>3, <1>4, <1>5, <4>2, Zenon DEF ObjectsInv
      <4>. QED
        BY <3>3, <3>4, <4>1, <4>3, Zenon
    <3>. QED
      BY <3>6, <3>7, Zenon
  <2>. QED
    BY <1>k, <2>1, <2>2, Zenon DEF ProviderAnswers
<1>9. PICK f : f = [Top EXCEPT !.fetch = Pop(@), !.local[k] = IF @ = None THEN v ELSE @]
  BY Zenon
<1>10. /\ stack' = SetTop(f)
       /\ f \in Frames /\ f.pc = "optimize" /\ f.start = Top.start /\ f.saved = Top.saved
       /\ f.fetch = Pop(g) /\ f.local = [loc EXCEPT ![k] = IF loc[k] = None THEN v ELSE loc[k]]
  <2>1. v \in Nat \cup {None, Dead}
    BY <1>7, Zenon
  <2>2. stack' = SetTop(f)
    BY <1>8, <1>9, Zenon DEF Store
  <2>3. f = [Top EXCEPT !.fetch = Pop(g), !.local = [loc EXCEPT ![k] = IF loc[k] = None THEN v ELSE loc[k]]]
    BY <1>1, <1>3, <1>5, <1>9, Zenon DEF Frames
  <2>4. [loc EXCEPT ![k] = IF loc[k] = None THEN v ELSE loc[k]] \in [Keys -> Nat \cup {None, Dead}]
    BY <1>4, <1>6, <2>1, Zenon
  <2>. QED
    BY <1>0, <1>1, <1>4, <2>2, <2>3, <2>4, Zenon DEF Frames
<1>11. ObjectsInv(f)'
  <2>1. ASSUME NEW j \in Keys, f.local[j] # None
        PROVE  f.local[j] \in Nat /\ f.local[j] >= last /\ (j \in CtasKeys \/ cached'[j] = f.local[j])
    <3>1. CASE j = k /\ loc[k] = None
      BY <1>6, <1>7, <1>8, <1>10, <3>1, Zenon
    <3>2. CASE loc[j] # None
      <4>1. f.local[j] = loc[j]
        BY <1>6, <1>10, <3>2, Zenon
      <4>2. loc[j] \in Nat /\ loc[j] >= last /\ (j \in CtasKeys \/ cached[j] = loc[j])
        BY <1>2, <1>5, <3>2, Zenon DEF ObjectsInv
      <4>. QED
        BY <1>8, <3>2, <4>1, <4>2, Zenon
    <3>. QED
      BY <1>6, <1>10, <2>1, <3>1, <3>2, Zenon
  <2>2. ASSUME NEW j \in 1..Len(f.fetch), cached'[f.fetch[j]] # None
        PROVE  f.local[f.fetch[j]] # None
    <3>1. j \in 1..Len(g) /\ f.fetch[j] = g[j] /\ g[j] \in Keys
      BY <1>4, <1>10
    <3>2. CASE g[j] = k
      BY <1>6, <1>7, <1>8, <1>10, <3>1, <3>2, SessionAssumption
    <3>3. CASE g[j] # k
      <4>1. cached[g[j]] # None
        BY <1>8, <2>2, <3>1, <3>3, Zenon
      <4>2. loc[g[j]] # None
        BY <1>2, <1>3, <1>5, <3>1, <4>1, Zenon DEF ObjectsInv
      <4>. QED
        BY <1>6, <1>10, <3>1, <3>3, <4>2, Zenon
    <3>. QED
      BY <3>2, <3>3, Zenon
  <2>. QED
    BY <1>0, <2>1, <2>2, Zenon DEF ObjectsInv
<1>12. \A j \in Keys : cached'[j] # None => cached'[j] >= last /\ j \notin CtasKeys
  BY <1>7, <1>8, Zenon DEF IInv, SessionInv
<1>. QED
  BY <1>0, <1>8, <1>10, <1>11, <1>12, StepFetch, Zenon
----------------------------------------------------------------------------
(* Every step keeps the invariant.                                         *)
LEMMA NextInv == IInv /\ [Next]_vars => IInv'
<1> SUFFICES ASSUME IInv, [Next]_vars PROVE IInv'
  BY Zenon
<1>1. CASE UNCHANGED vars
  <2>1. TypeOK' /\ OneTask' /\ RefusalHarmless'
    BY <1>1 DEF vars, IInv, TypeOK, OneTask, RefusalHarmless, Running
  <2>2. FramesInv'
    BY <1>1, Zenon DEF vars, IInv, FramesInv, FrameInv, ObjectsInv
  <2>3. SessionInv'
    BY <1>1, Zenon DEF vars, IInv, SessionInv, Running
  <2>. QED
    BY <2>1, <2>2, <2>3, Zenon DEF IInv
<1>2. CASE Next
  BY <1>2, StepSetJoinOrder, StepInvalidate, StepPlan, StepToStandard, StepLeaves, StepError,
     StepTaskStarts, StepEscapes, StepSetup, StepRaises, StepNoPlan, StepTaskReturns, StepLookup,
     StepAskProvider, StepProviderAnswers, Zenon DEF Next
<1>. QED
  BY <1>1, <1>2, Zenon

(* The inductive invariant holds throughout: every call of pg_orca_planner *)
(* knows of the session what FrameInv says.                                *)
THEOREM Inductive == Spec => []IInv
  BY InitInv, NextInv, PTL DEF Spec

(* The types of the variables of a session.                                *)
THEOREM Types == Spec => []TypeOK
<1>1. IInv => TypeOK
  BY Zenon DEF IInv
<1>. QED
  BY <1>1, Inductive, PTL

(* gpos_exec never runs two tasks, however planner calls nest and whatever *)
(* errors skip them, and the registered worker is the one of the task.     *)
THEOREM WorkerIsUnique == Spec => []OneTask
<1>1. IInv => OneTask
  BY Zenon DEF IInv
<1>. QED
  BY <1>1, Inductive, PTL

(* The metadata that GetImdObj has returned to a task stays alive in the   *)
(* cache, whatever nested calls reset, shut down or evict.                 *)
THEOREM MetadataStaysAlive == Spec => []ObjectsAlive
<1>1. IInv => ObjectsAlive
  <2> SUFFICES ASSUME IInv, NEW i \in Running, NEW k \in Keys, stack[i].local[k] # None
               PROVE  /\ stack[i].local[k] # Dead
                      /\ k \in CtasKeys \/ (cacheOn /\ cached[k] = stack[i].local[k])
    BY Zenon DEF ObjectsAlive
  <2>1. FrameInv(stack[i]) /\ stack[i].pc \in RunPCs
    BY Zenon DEF IInv, FramesInv, Running, RunPCs
  <2>2. stack[i].pc = "optimize"
    BY <2>1, Zenon DEF FrameInv, NoObjects
  <2>. QED
    BY <2>1, <2>2, SessionAssumption, Zenon DEF FrameInv, ObjectsInv
<1>. QED
  BY <1>1, Inductive, PTL

(* A task never uses metadata that MDCacheNeedsReset knew to be invalid.   *)
THEOREM MetadataNotStale == Spec => []NothingStale
<1>1. IInv => NothingStale
  <2> SUFFICES ASSUME IInv, NEW i \in Running, NEW k \in Keys, stack[i].local[k] \in Nat
               PROVE  stack[i].local[k] >= stack[i].start
    BY Zenon DEF NothingStale
  <2>1. FrameInv(stack[i]) /\ stack[i].pc \in RunPCs
    BY Zenon DEF IInv, FramesInv, Running, RunPCs
  <2>2. stack[i].pc = "optimize"
    BY <2>1, SessionAssumption, Zenon DEF FrameInv, NoObjects
  <2>. QED
    BY <2>1, <2>2, SessionAssumption, Zenon DEF FrameInv, ObjectsInv
<1>. QED
  BY <1>1, Inductive, PTL

(* GetImdObj keeps the metadata of a created table out of the cache.       *)
THEOREM CreatedStaysPrivate == Spec => []CreatedNotShared
<1>1. IInv => CreatedNotShared
  BY SessionAssumption, Zenon DEF IInv, SessionInv, CreatedNotShared
<1>. QED
  BY <1>1, Inductive, PTL

(* The exception with which gpos_exec refuses a nested task does not stay  *)
(* in the error context of the outer one.                                  *)
THEOREM RefusalIsHarmless == Spec => []RefusalHarmless
<1>1. IInv => RefusalHarmless
  BY Zenon DEF IInv
<1>. QED
  BY <1>1, Inductive, PTL

(* pg_orca_planner puts optimizer_join_order back, unless an error of      *)
(* PostgreSQL left GPOPTOptimizedPlan.                                     *)
THEOREM OrderIsRestored == Spec => []OrderRestored
<1>1. IInv => OrderRestored
  <2>1. ASSUME IInv, ~escaped, NEW i \in Running PROVE stack[i].saved = userOrder
    BY <2>1, Zenon DEF IInv, FramesInv, FrameInv, Running, RunPCs
  <2>. QED
    BY <2>1, Zenon DEF IInv, SessionInv, OrderRestored
<1>. QED
  BY <1>1, Inductive, PTL
=============================================================================
