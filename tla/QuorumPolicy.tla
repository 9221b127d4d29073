---------------------------- MODULE QuorumPolicy ----------------------------
(***************************************************************************)
(* The quorum arithmetic (common/src/quorum.rs) and the seating rules that *)
(* are built on it (hopnet-consensus/src/membership.rs).  v is the size of *)
(* the validator set, b the size of a batch that would join it.            *)
(***************************************************************************)
EXTENDS Integers

VBft == 7   \* V_BFT: where the AUTO profile changes from majority to 2/3
BMax == 5   \* B_MAX: the largest batch

Profiles == {"bft", "majority", "auto"}

ProfileAt(p, v) ==
    IF p = "auto" THEN IF v >= VBft THEN "bft" ELSE "majority" ELSE p

Quorum(p, v) == IF ProfileAt(p, v) = "bft" THEN (v * 2) \div 3 + 1 ELSE v \div 2 + 1

\* How many validators may equivocate without breaking agreement
FEq(p, v) == IF ProfileAt(p, v) = "bft" /\ v > 0 THEN (v - 1) \div 3 ELSE 0

\* The headroom that seating b live members wins, and the part of the batch
\* that the larger quorum eats
DeltaH(p, v, b) == b - (Quorum(p, v + b) - Quorum(p, v))
Exposure(p, v, b) == b - DeltaH(p, v, b)

PostureOk(p, v, b) ==
    \/ DeltaH(p, v, b) >= 1
    \/ DeltaH(p, v, b) = 0 /\ FEq(p, v + b) > FEq(p, v)

\* A set that stalls on any single death has no tolerance to protect
Waived(p, v) == v - Quorum(p, v) = 0

\* A ceiling one member too high
CeilingOffByOne(p, v, b, proven) ==
    \/ Waived(p, v)
    \/ Quorum(p, v + b) - Quorum(p, v) <=
         (IF proven >= Quorum(p, v) THEN proven - Quorum(p, v) + 1 ELSE 0)

CeilingOk(p, v, b, proven) ==
    \/ Waived(p, v)
    \/ Quorum(p, v + b) - Quorum(p, v) <=
         (IF proven >= Quorum(p, v) THEN proven - Quorum(p, v) ELSE 0)
=============================================================================
