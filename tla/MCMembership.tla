---------------------------- MODULE MCMembership ----------------------------
(***************************************************************************)
(* Small instances of Membership for TLC.  The safety run holds two of     *)
(* them, a behaviour belonging to one scenario from its first state on:    *)
(* "growth" is the instance of the configuration file, a mesh that grows   *)
(* over the profile seam without faults; "faults" is a mesh of three with  *)
(* leavers, a crash and a node that is up but looks silent.                *)
(***************************************************************************)
EXTENDS Membership, TLC

CONSTANTS n1, n2, n3, n4, n5, n6, n7
VARIABLE scenario

NoOne == {}
Three == {n1, n2, n3}
Four == Three \cup {n4}
Five == Four \cup {n5}
Seven == Five \cup {n6, n7}
SymSeven == Permutations(Three) \cup Permutations(Seven \ Four)

Faulty == INSTANCE Membership WITH
    Nodes <- Three, Genesis <- Three, Leavers <- Three, MaxHeight <- 3, MaxPending <- 2,
    MaxCrashes <- 1, MaxLosses <- 1

MCInit == \/ scenario = "growth" /\ Init
          \/ scenario = "faults" /\ Faulty!Init
MCNext == /\ \/ scenario = "growth" /\ Next
             \/ scenario = "faults" /\ Faulty!Next
          /\ UNCHANGED scenario
MCSpec == MCInit /\ [][MCNext]_<<vars, scenario>>
=============================================================================
