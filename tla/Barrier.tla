------------------------------ MODULE Barrier ------------------------------
(***************************************************************************)
(* What the initial reconciliation of a Watcher session promises about the *)
(* order of things, at both its ends at once: a node says "done" once it   *)
(* has pushed its half of the difference; nobody watches its own tree, and *)
(* so nobody publishes a live change, before both have said it.            *)
(***************************************************************************)
CONSTANT Node

VARIABLES
    told,      \* the nodes that have said "done"
    watching,  \* the nodes whose watcher runs
    changes    \* the live changes published so far

barrierVars == <<told, watching, changes>>

Init == told = {} /\ watching = {} /\ changes = {}

Tell(n) ==
    /\ n \notin watching
    /\ told' = told \cup {n}
    /\ UNCHANGED <<watching, changes>>

Enter(n) ==
    /\ told = Node
    /\ watching' = watching \cup {n}
    /\ UNCHANGED <<told, changes>>

Change(n) ==
    /\ n \in watching
    /\ \E c \in changes' : changes' = changes \cup {c}
    /\ UNCHANGED <<told, watching>>

\* A session that ends stops watching, perhaps while it publishes a change.
Leave(n) ==
    /\ watching' = watching \ {n}
    /\ \/ changes' = changes
       \/ n \in watching /\ \E c \in changes' : changes' = changes \cup {c}
    /\ told' = told

Next == \E n \in Node : Tell(n) \/ Enter(n) \/ Change(n) \/ Leave(n)

Spec == Init /\ [][Next]_barrierVars
=============================================================================
