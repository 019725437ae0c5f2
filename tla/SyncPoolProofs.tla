--------------------------- MODULE SyncPoolProofs ---------------------------
(***************************************************************************)
(* Proofs about the pool, for any number of objects.                       *)
(*                                                                         *)
(* That two rotations are enough needs to know what the loop has seen so   *)
(* far.  Passed(o, n) says that o is one of the last n objects that the    *)
(* clock went by: none of those is recycled, and the ones passed twice     *)
(* are in use, for an object that was not in use the second time would     *)
(* have been reserved.                                                     *)
(***************************************************************************)
EXTENDS SyncPool, TLAPS

Passed(o, n) == (o < clock /\ clock <= o + n) \/ (o >= clock /\ clock + NumObjs <= o + n)

LoopInv ==
    round # Idle =>
        \A o \in Objects :
            /\ Passed(o, round) => o \notin recycled
            /\ Passed(o, round) /\ round > NumObjs /\ Passed(o, round - NumObjs) => o \in reserved

RoomInv == round # Idle => extra < MaxExtra

IInv == TypeOK /\ BitsExact /\ LoopInv /\ RoomInv

USE NumObjsAssumption, MaxExtraAssumption
----------------------------------------------------------------------------
(* A fresh pool satisfies the invariant.                                   *)
LEMMA InitInv == Init => IInv
  BY DEF Init, IInv, TypeOK, BitsExact, LoopInv, RoomInv, Objects, Rounds, Idle, Held

(* The call of CSyncPool::PtRetrieve keeps the invariant.                  *)
LEMMA RetrieveInv == ASSUME IInv, PtRetrieve PROVE IInv'
<1>1. TypeOK' /\ BitsExact'
  BY DEF IInv, TypeOK, BitsExact, PtRetrieve, Objects, Rounds, Idle, Held
<1>2. LoopInv' /\ RoomInv'
  BY DEF IInv, TypeOK, LoopInv, RoomInv, PtRetrieve, Passed, Objects, Rounds, Idle
<1> QED BY <1>1, <1>2 DEF IInv

(* An object that is not reserved has no user.                             *)
LEMMA ReserveInv == ASSUME IInv, Reserve PROVE IInv' /\ users[clock] = 0
<1>1. users[clock] = 0
  BY DEF IInv, TypeOK, BitsExact, Reserve, Held
<1>2. TypeOK'
  BY <1>1 DEF IInv, TypeOK, Reserve, Objects, Rounds, Idle, Tick
<1>3. BitsExact'
  BY <1>1 DEF IInv, TypeOK, BitsExact, Reserve, Held
<1>4. LoopInv' /\ RoomInv'
  BY DEF LoopInv, RoomInv, Reserve, Idle, Rounds
<1> QED BY <1>1, <1>2, <1>3, <1>4 DEF IInv

(* Passing a reserved object, whose bits are cleared if it was recycled,   *)
(* keeps the invariant.                                                    *)
LEMMA PassInv == ASSUME IInv, Pass PROVE IInv'
<1>1. TypeOK'
  BY DEF IInv, TypeOK, Pass, Objects, Rounds, Idle, Tick
<1>2. BitsExact'
  BY DEF IInv, TypeOK, BitsExact, Pass, Held
<1>3. ASSUME NEW o \in Objects, Passed(o, round)', o # clock
      PROVE  Passed(o, round)
  BY <1>3 DEF IInv, TypeOK, Pass, Passed, Tick, Objects, Rounds, Idle
<1>4. ASSUME NEW o \in Objects, round' > NumObjs, Passed(o, round - NumObjs)', o # clock
      PROVE  round > NumObjs /\ Passed(o, round - NumObjs)
  BY <1>4 DEF IInv, TypeOK, Pass, Passed, Tick, Objects, Rounds, Idle
<1>5. ASSUME round' > NumObjs PROVE Passed(clock, round)
  BY <1>5 DEF IInv, TypeOK, Pass, Passed, Objects, Rounds, Idle
<1>6. round # Idle
  BY DEF IInv, TypeOK, Pass, Rounds, Idle
<1>7. ASSUME NEW o \in Objects, Passed(o, round)' PROVE o \notin recycled'
  BY <1>3, <1>6, <1>7 DEF IInv, LoopInv, Pass
<1>8. ASSUME NEW o \in Objects, Passed(o, round)', round' > NumObjs,
             Passed(o, round - NumObjs)'
      PROVE  o \in reserved'
  <2>1. CASE o = clock
    <3>1. clock \notin recycled
      BY <1>5, <1>6, <1>8, <2>1 DEF IInv, LoopInv
    <3> QED BY <3>1, <2>1 DEF Pass
  <2>2. CASE o # clock
    <3>1. o \in reserved
      BY <1>3, <1>4, <1>6, <1>8, <2>2 DEF IInv, LoopInv
    <3> QED BY <3>1, <2>2 DEF Pass
  <2> QED BY <2>1, <2>2
<1>9. LoopInv'
  BY <1>7, <1>8 DEF LoopInv, Objects, Passed, Idle, Rounds
<1>10. RoomInv'
  BY <1>6 DEF IInv, RoomInv, Pass
<1> QED BY <1>1, <1>2, <1>9, <1>10 DEF IInv

(* At the end of the loop every object has been passed twice.              *)
LEMMA FullAtEnd == IInv => ExhaustedWhenFull
<1> SUFFICES ASSUME IInv, round = Rounds PROVE Held = Objects
  BY DEF ExhaustedWhenFull
<1>1. ASSUME NEW o \in Objects PROVE Passed(o, round) /\ Passed(o, round - NumObjs)
  BY DEF IInv, TypeOK, Passed, Objects, Rounds
<1>2. round # Idle /\ round > NumObjs
  BY DEF Rounds, Idle
<1>3. ASSUME NEW o \in Objects PROVE o \in reserved /\ o \notin recycled
  BY <1>1, <1>2 DEF IInv, LoopInv
<1> QED BY <1>3 DEF IInv, BitsExact, Held

(* PtRetrieve's creation of an object outside the array keeps the          *)
(* invariant.                                                              *)
LEMMA NewObjectInv == ASSUME IInv, NewObject PROVE IInv'
<1>1. extra < MaxExtra
  BY DEF IInv, TypeOK, RoomInv, NewObject, Rounds, Idle
<1>2. TypeOK'
  BY <1>1 DEF IInv, TypeOK, NewObject, Idle, Rounds
<1>3. BitsExact' /\ LoopInv' /\ RoomInv'
  BY DEF IInv, BitsExact, LoopInv, RoomInv, NewObject, Held, Idle, Rounds
<1> QED BY <1>2, <1>3 DEF IInv

(* CSyncPool::Recycle keeps the invariant, and its object had one user.    *)
LEMMA RecycleInv == ASSUME IInv, NEW o \in Objects, Recycle(o) PROVE IInv' /\ users[o] = 1
<1>1. users[o] = 1
  BY DEF IInv, TypeOK, Recycle
<1>2. TypeOK'
  BY <1>1 DEF IInv, TypeOK, Recycle
<1>3. o \in reserved
  BY <1>1 DEF IInv, BitsExact, Held
<1>4. BitsExact'
  BY <1>1, <1>3 DEF IInv, TypeOK, BitsExact, Recycle, Held
<1>5. LoopInv' /\ RoomInv'
  BY DEF LoopInv, RoomInv, Recycle, Idle, Rounds
<1> QED BY <1>1, <1>2, <1>4, <1>5 DEF IInv

(* The deletion of an object outside the array and                         *)
(* CJobFactory::TruncatePool keep the invariant.                           *)
LEMMA ReleaseInv == ASSUME IInv, RecycleExtra \/ Truncate PROVE IInv'
<1>1. TypeOK'
  <2>1. CASE RecycleExtra
    BY <2>1 DEF IInv, TypeOK, RecycleExtra
  <2>2. CASE Truncate
    BY <2>2 DEF IInv, TypeOK, Truncate, Objects
  <2> QED BY <2>1, <2>2
<1>2. BitsExact'
  BY DEF IInv, BitsExact, RecycleExtra, Truncate, Held
<1>3. LoopInv' /\ RoomInv'
  BY DEF LoopInv, RoomInv, RecycleExtra, Truncate, Idle, Rounds
<1> QED BY <1>1, <1>2, <1>3 DEF IInv

(* The bits, the clock and the loop of PtRetrieve keep the invariant,      *)
(* whatever the callers take and return.                                   *)
THEOREM PoolInvariant == Spec => []IInv
<1>1. IInv /\ [Next]_vars => IInv'
  <2> SUFFICES ASSUME IInv, [Next]_vars PROVE IInv'
    OBVIOUS
  <2>1. CASE UNCHANGED vars
    BY <2>1 DEF vars, IInv, TypeOK, BitsExact, LoopInv, RoomInv, Held, Passed, Objects, Rounds, Idle
  <2>2. CASE Next
    BY <2>2, RetrieveInv, ReserveInv, PassInv, NewObjectInv, RecycleInv, ReleaseInv DEF Next
  <2> QED BY <2>1, <2>2
<1> QED BY InitInv, <1>1, PTL DEF Spec

(* No object of the array has two users (PtRetrieve, Recycle).             *)
THEOREM PoolTypes == Spec => []TypeOK
  BY PoolInvariant, PTL DEF IInv

(* The reserved and recycled bits tell exactly which objects are in use.   *)
THEOREM PoolBitsExact == Spec => []BitsExact
  BY PoolInvariant, PTL DEF IInv

(* Two rotations of the clock find an object of any array that has one.    *)
THEOREM PoolExhaustedWhenFull == Spec => []ExhaustedWhenFull
  BY PoolInvariant, FullAtEnd, PTL

(* CSyncPool implements the pool that its users see: every step of it is   *)
(* a step of ObjectPool or leaves what the users have alone.               *)
THEOREM PoolImplements == Spec => PoolSpec
<1>1. Init => Pool!Init
  BY DEF Init, Pool!Init
<1>2. IInv /\ [Next]_vars => [Pool!Next]_<<users, extra>>
  <2> SUFFICES ASSUME IInv, [Next]_vars PROVE [Pool!Next]_<<users, extra>>
    OBVIOUS
  <2>1. CASE UNCHANGED vars \/ PtRetrieve \/ Pass \/ Truncate
    BY <2>1 DEF vars, PtRetrieve, Pass, Truncate
  <2>2. CASE Reserve
    <3>1. users[clock] = 0 /\ clock \in Objects
      BY <2>2, ReserveInv DEF IInv, TypeOK
    <3>2. users' = [users EXCEPT ![clock] = 1]
      BY <2>2, <3>1 DEF Reserve
    <3>3. Pool!Get(clock)
      BY <2>2, <3>1, <3>2 DEF Reserve, Pool!Get
    <3> QED BY <3>1, <3>3 DEF Pool!Next
  <2>3. CASE NewObject
    <3>1. \A o \in Objects : users[o] = 1
      BY <2>3, FullAtEnd DEF ExhaustedWhenFull, NewObject, Held, IInv, TypeOK
    <3>2. Pool!GetExtra
      BY <2>3, <3>1 DEF NewObject, Pool!GetExtra
    <3> QED BY <3>2 DEF Pool!Next
  <2>4. ASSUME NEW o \in Objects, Recycle(o) PROVE [Pool!Next]_<<users, extra>>
    <3>1. users[o] = 1
      BY <2>4, RecycleInv
    <3>2. users' = [users EXCEPT ![o] = 0]
      BY <2>4, <3>1 DEF Recycle
    <3>3. Pool!Put(o)
      BY <2>4, <3>1, <3>2 DEF Recycle, Pool!Put
    <3> QED BY <3>3 DEF Pool!Next
  <2>5. CASE RecycleExtra
    BY <2>5 DEF RecycleExtra, Pool!PutExtra, Pool!Next
  <2> QED BY <2>1, <2>2, <2>3, <2>4, <2>5 DEF Next
<1> QED BY <1>1, <1>2, PoolInvariant, PTL DEF Spec, PoolSpec, Pool!Spec
=============================================================================
