-------------------------- MODULE MCBlobLifecycle --------------------------
(* Small instances of BlobLifecycle for TLC. *)
EXTENDS BlobLifecycle, TLC

CONSTANTS a, b, f1

One == {f1}
Pair == {a, b}

\* Every class is assigned to node n, and every node is a member
On(n) == [members |-> Nodes, assign |-> [f \in Classes |-> n]]
Assigned == {On(n) : n \in Nodes}
OnA == On(a)

\* The class moves away from its origin, for good or back again
Forward == {<<On(a), On(b)>>}
Back == {<<On(a), On(b)>>, <<On(b), On(a)>>}
=============================================================================
