---------------------------- MODULE MCEpochBoot ----------------------------
(* Instances of EpochBoot for TLC. *)
EXTENDS EpochBoot

\* Epoch 2 keeps the version and epoch 3 comes with an upgrade: a node that
\* runs epoch 3's version may still have sealed for, or staged, epoch 2.
MCVersion == <<1, 1, 2>>
=============================================================================
