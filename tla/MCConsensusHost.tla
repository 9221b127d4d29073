-------------------------- MODULE MCConsensusHost --------------------------
(***************************************************************************)
(* Two small instances of ConsensusHost for TLC, in one run: a behaviour   *)
(* belongs to one scenario from its first state on.  "heights" is the      *)
(* instance of the configuration file: heights of one round, the second    *)
(* one sealing and the third lying past the seal.  "rounds" is one         *)
(* height of two rounds, with two crashes and validations that may end     *)
(* undetermined.                                                           *)
(***************************************************************************)
EXTENDS ConsensusHost, TLC
CONSTANTS a, b
VARIABLE scenario

MCValues == {a, b}
MCMixed == <<a, b, a>>
\* The rounds this node proposes in: a later height, and a later round
MCMine == {<<2, 0>>, <<1, 1>>}

Contended == INSTANCE ConsensusHost WITH
    Chosen <- <<a>>, Mine <- MCMine, MaxHeight <- 1, MaxRound <- 1,
    MaxCrashes <- 2, SealHeight <- 0, Contention <- TRUE

MCInit == \/ scenario = "heights" /\ Init
          \/ scenario = "rounds" /\ Contended!Init
MCNext == /\ \/ scenario = "heights" /\ Next
             \/ scenario = "rounds" /\ Contended!Next
          /\ UNCHANGED scenario
MCSpec == MCInit /\ [][MCNext]_<<vars, scenario>>

\* ConsensusHost's JudgedAtTheirTip; it speaks of a host without contention.
EarlyProposalsJudged == scenario = "heights" => JudgedAtTheirTip
=============================================================================
