----------------------------- MODULE ObjectPool -----------------------------
(***************************************************************************)
(* What a pool of reusable objects promises its users: an object that is   *)
(* handed out is not in use, and an object is allocated outside the pool   *)
(* only while all objects of the pool are in use.                          *)
(***************************************************************************)
EXTENDS Naturals

CONSTANT Objects

VARIABLES users,   \* how many users each object of the pool has
          extra    \* the number of objects in use that are not of the pool

Init == users = [o \in Objects |-> 0] /\ extra = 0

Get(o) == users[o] = 0 /\ users' = [users EXCEPT ![o] = 1] /\ UNCHANGED extra

Put(o) == users[o] = 1 /\ users' = [users EXCEPT ![o] = 0] /\ UNCHANGED extra

GetExtra == (\A o \in Objects : users[o] = 1) /\ extra' = extra + 1 /\ UNCHANGED users

PutExtra == extra > 0 /\ extra' = extra - 1 /\ UNCHANGED users

Next == (\E o \in Objects : Get(o) \/ Put(o)) \/ GetExtra \/ PutExtra

Spec == Init /\ [][Next]_<<users, extra>>
=============================================================================
