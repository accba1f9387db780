--------------------------- MODULE VersionVectors ---------------------------
(***************************************************************************)
(* The version vectors of internal/syncfs/version.go, as pure operators.   *)
(* The Go map machine_id -> counter is a total function on Node: a missing *)
(* key reads as 0 there (Go's zero value) and is 0 here.                   *)
(***************************************************************************)
EXTENDS Naturals

CONSTANT Node    \* the machine_ids taking part in a session

Vector == [Node -> Nat]

ZeroVector == [m \in Node |-> 0]

\* a[k] > b[k] for some machine k: a knows a write that b does not.
KnowsMore(a, b) == \E k \in Node : a[k] > b[k]

AfterOneWay(a, b) == KnowsMore(a, b)                                 \* mutant

\* The four outcomes of compareVectors, named from a's point of view.
Same(a, b)       == ~KnowsMore(a, b) /\ ~KnowsMore(b, a)
After(a, b)      ==  KnowsMore(a, b) /\ ~KnowsMore(b, a)
Before(a, b)     == ~KnowsMore(a, b) /\  KnowsMore(b, a)
Concurrent(a, b) ==  KnowsMore(a, b) /\  KnowsMore(b, a)

NotBumped(v, m) == v                                                 \* mutant
\* VersionStore.Bump: one more write of this path by machine m.
Bumped(v, m) == [v EXCEPT ![m] = v[m] + 1]

NotMerged(local, incoming) == local                                  \* mutant
\* The component-wise maximum VersionStore.Reconcile stores on a conflict.
Merged(local, incoming) ==
    [k \in Node |-> IF incoming[k] > local[k] THEN incoming[k] ELSE local[k]]

\* What VersionStore.Reconcile leaves stored for the path.
Reconciled(local, incoming) ==
    IF After(incoming, local) THEN incoming
    ELSE IF Concurrent(incoming, local) THEN Merged(local, incoming)
    ELSE local

=============================================================================
