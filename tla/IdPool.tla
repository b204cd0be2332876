------------------------------- MODULE IdPool -------------------------------
(***************************************************************************)
(* What the id list of the CRUD test (tests/crud/randlist.go) promises its *)
(* callers, with every operation one step: allocID hands out an id nobody  *)
(* was given before, pushID puts an id its caller holds into the list, len *)
(* counts the ids in the list.                                             *)
(***************************************************************************)
EXTENDS Integers, FiniteSets

CONSTANTS
    Threads,    \* the goroutines that use the list
    MaxID       \* bound on the ids handed out

VARIABLES
    held,       \* held[t]: the ids t was given and has not pushed
    members,    \* the ids in the list
    seen        \* seen[t]: what len last returned to t

vars == <<held, members, seen>>

Ids == 1 .. MaxID

Init ==
    /\ held = [t \in Threads |-> {}]
    /\ members = {}
    /\ seen = [t \in Threads |-> 0]

\* No thread was given the id, and it is not in the list.
Fresh(id) == id \notin members /\ \A t \in Threads : id \notin held[t]

Alloc(t) ==
    \E id \in Ids :
        /\ Fresh(id)
        /\ held' = [held EXCEPT ![t] = @ \cup {id}]
        /\ UNCHANGED <<members, seen>>

Push(t) ==
    \E id \in held[t] :
        /\ held' = [held EXCEPT ![t] = @ \ {id}]
        /\ members' = members \cup {id}
        /\ UNCHANGED seen

Length(t) ==
    /\ seen' = [seen EXCEPT ![t] = Cardinality(members)]
    /\ UNCHANGED <<held, members>>

Next == \E t \in Threads : Alloc(t) \/ Push(t) \/ Length(t)

Spec == Init /\ [][Next]_vars
=============================================================================
