---------------------------- MODULE PinnedCache ----------------------------
(***************************************************************************)
(* What a cache promises the users of its objects: an object goes only     *)
(* when nobody has it.  An accessor has at most one object at a time; a    *)
(* customer has the object that it made or that an accessor gave it, as    *)
(* long as it likes.                                                       *)
(***************************************************************************)
EXTENDS Naturals

CONSTANTS Objects, Accessors, None

VARIABLES
    live,       \* the objects that exist
    held,       \* what each accessor has
    customers   \* how many customers have each object

vars == <<live, held, customers>>

Init ==
    /\ live = {}
    /\ held = [a \in Accessors |-> None]
    /\ customers = [o \in Objects |-> 0]

(* Nobody has an object but, it may be, the accessors of the set A.        *)
Unused(o, A) == customers[o] = 0 /\ \A b \in Accessors \ A : held[b] # o

Make(o) ==
    /\ o \notin live
    /\ live' = live \cup {o}
    /\ customers' = [customers EXCEPT ![o] = 1]
    /\ UNCHANGED held

Take(a, o) ==
    /\ held[a] = None
    /\ o \in live
    /\ held' = [held EXCEPT ![a] = o]
    /\ \/ customers' = [customers EXCEPT ![o] = @ + 1]
       \/ UNCHANGED customers
    /\ UNCHANGED live

(* An accessor moves from its object to another one, or to none.  Unused   *)
(* objects may go in the same step.                                        *)
Leave(a, to, gone) ==
    /\ held' = [held EXCEPT ![a] = to]
    /\ to # None => to \in live \ gone
    /\ \A o \in gone : Unused(o, {a})
    /\ live' = live \ gone
    /\ UNCHANGED customers

CustomerLeaves(o) ==
    /\ customers[o] > 0
    /\ customers' = [customers EXCEPT ![o] = @ - 1]
    /\ UNCHANGED <<live, held>>

Drop(o) ==
    /\ o \in live
    /\ Unused(o, {})
    /\ live' = live \ {o}
    /\ UNCHANGED <<held, customers>>

Next ==
    \/ \E o \in Objects : Make(o) \/ CustomerLeaves(o) \/ Drop(o)
    \/ \E a \in Accessors :
        \/ \E o \in Objects : Take(a, o)
        \/ \E to \in Objects \cup {None}, gone \in SUBSET live : Leave(a, to, gone)

Spec == Init /\ [][Next]_vars
=============================================================================
