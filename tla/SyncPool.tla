------------------------------ MODULE SyncPool ------------------------------
(***************************************************************************)
(* CSyncPool, the pool that the job factory takes its jobs from.           *)
(*                                                                         *)
(* A pool is an array of preallocated objects with two bits each, reserved *)
(* and recycled, and a clock that goes on where the last lookup ended.     *)
(* Returning an object only sets its recycled bit; the lookup clears the   *)
(* two bits when it comes across them, and can hand the object out when it *)
(* comes by again.  Each round of the loop of PtRetrieve is a step.        *)
(*                                                                         *)
(* The variables users and extra are not of the code: they record what the *)
(* callers have in use.  The clock is kept modulo the number of objects,   *)
(* as its users read it; the wrap of its 64 bits is left out.              *)
(***************************************************************************)
EXTENDS Naturals, FiniteSets

CONSTANTS NumObjs,   \* m_numobjs: CEngine::Optimize asks for a multiple of the groups
          MaxExtra   \* bound: the number of objects outside the array

ASSUME NumObjsAssumption == NumObjs \in Nat \ {0}

ASSUME MaxExtraAssumption == MaxExtra \in Nat

VARIABLES
    reserved,   \* m_objs_reserved
    recycled,   \* m_objs_recycled
    clock,      \* m_last_lookup_idx
    round,      \* i in PtRetrieve, Idle outside of it
    users,      \* how many callers have each object of the array
    extra       \* the number of objects that a caller has and the array has not

vars == <<reserved, recycled, clock, round, users, extra>>

Objects == 0..(NumObjs - 1)

Rounds == 2 * NumObjs

Idle == Rounds + 1

Held == {o \in Objects : users[o] > 0}

(* The types of the variables.  An object has one user at most: PtRetrieve *)
(* hands no object out again before it is recycled.                        *)
TypeOK ==
    /\ reserved \subseteq Objects
    /\ recycled \subseteq Objects
    /\ clock \in Objects
    /\ round \in 0..Idle
    /\ users \in [Objects -> 0..1]
    /\ extra \in 0..MaxExtra

Init ==
    /\ reserved = {}
    /\ recycled = {}
    /\ clock = 0
    /\ round = Idle
    /\ users = [o \in Objects |-> 0]
    /\ extra = 0
----------------------------------------------------------------------------
Tick == IF clock = NumObjs - 1 THEN 0 ELSE clock + 1

(* The call of PtRetrieve.                                                 *)
PtRetrieve ==
    /\ round = Idle
    /\ extra < MaxExtra
    /\ round' = 0
    /\ UNCHANGED <<reserved, recycled, clock, users, extra>>

(* SetBit succeeds: the object is the caller's.                            *)
Reserve ==
    /\ round < Rounds
    /\ clock \notin reserved
    /\ clock' = Tick
    /\ reserved' = reserved \cup {clock}
    /\ users' = [users EXCEPT ![clock] = @ + 1]
    /\ round' = Idle
    /\ UNCHANGED <<recycled, extra>>

(* Mutation: the loop is not bounded.                                      *)
PassForever ==
    /\ round < Rounds
    /\ clock \in reserved
    /\ clock' = Tick
    /\ reserved' = IF clock \in recycled THEN reserved \ {clock} ELSE reserved
    /\ recycled' = recycled \ {clock}
    /\ UNCHANGED <<round, users, extra>>

(* SetBit fails: the bits of a recycled object are cleared.                *)
Pass ==
    /\ round < Rounds
    /\ clock \in reserved
    /\ clock' = Tick
    /\ reserved' = IF clock \in recycled THEN reserved \ {clock} ELSE reserved
    /\ recycled' = recycled \ {clock}
    /\ round' = round + 1
    /\ UNCHANGED <<users, extra>>

(* Mutation: the loop gives up after one rotation of the clock.            *)
NewObjectEarly ==
    /\ round \in NumObjs..Rounds
    /\ extra' = extra + 1
    /\ round' = Idle
    /\ UNCHANGED <<reserved, recycled, clock, users>>

(* The loop ends and PtRetrieve creates an object outside the array.       *)
NewObject ==
    /\ round = Rounds
    /\ extra' = extra + 1
    /\ round' = Idle
    /\ UNCHANGED <<reserved, recycled, clock, users>>

(* A caller returns an object of the array.                                *)
Recycle(o) ==
    /\ round = Idle
    /\ users[o] > 0
    /\ recycled' = recycled \cup {o}
    /\ users' = [users EXCEPT ![o] = @ - 1]
    /\ UNCHANGED <<reserved, clock, round, extra>>

(* A caller returns another object, which is deleted.                      *)
RecycleExtra ==
    /\ round = Idle
    /\ extra > 0
    /\ extra' = extra - 1
    /\ UNCHANGED <<reserved, recycled, clock, round, users>>

(* CJobFactory::TruncatePool, and the pool that the next call creates.     *)
(* The destructor asserts that no object is in use.                        *)
Truncate ==
    /\ round = Idle
    /\ Held = {} /\ extra = 0
    /\ reserved' = {}
    /\ recycled' = {}
    /\ clock' = 0
    /\ UNCHANGED <<round, users, extra>>

Next ==
    \/ PtRetrieve \/ Reserve \/ Pass \/ NewObject
    \/ \E o \in Objects : Recycle(o)
    \/ RecycleExtra \/ Truncate

Spec == Init /\ [][Next]_vars

(* The loop of PtRetrieve runs on; nobody has to call or to return.        *)
FairSpec == Spec /\ WF_vars(Reserve \/ Pass \/ NewObject)
----------------------------------------------------------------------------
(* The two bits of an object say whether it is in use: the objects that    *)
(* callers have are the reserved ones that are not recycled, and only      *)
(* reserved objects are recycled.  The destructor relies on it when it     *)
(* asserts "Object is still in use", Recycle when it asserts "Object is    *)
(* not reserved".                                                          *)
BitsExact ==
    /\ Held = reserved \ recycled
    /\ recycled \subseteq reserved

(* Two rotations of the clock are enough: PtRetrieve leaves its loop       *)
(* without an object only when every object of the array is in use.        *)
ExhaustedWhenFull == round = Rounds => Held = Objects

(* The pool hands out objects that are not in use, and others only while   *)
(* all of its own are in use, as ObjectPool specifies.                     *)
Pool == INSTANCE ObjectPool WITH Objects <- Objects, users <- users, extra <- extra
PoolSpec == Pool!Spec

(* PtRetrieve returns.                                                     *)
RetrieveReturns == round # Idle ~> round = Idle
=============================================================================
