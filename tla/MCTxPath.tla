------------------------------ MODULE MCTxPath ------------------------------
(***************************************************************************)
(* Small instances for TLC of the mesh's transaction path and of the nonce *)
(* table behind it. A behaviour has one of six budgets: under the first    *)
(* five TxPath runs, on three nodes, two of which take submissions and t2  *)
(* needs t1; under Quiet nothing is submitted and NonceWindow runs, with   *)
(* the code's ages in units of five minutes and clocks at the edge of what *)
(* the gap tolerates.                                                      *)
(***************************************************************************)
EXTENDS TxPath, NonceWindow, TLC

CONSTANTS n1, n2, n3, t1, t2, start, abort

Two == {n1, n2}
Three == {n1, n2, n3}
MCTxs == {t1, t2, start, abort}
MCHome == t1 :> n1 @@ t2 :> n2 @@ start :> n2 @@ abort :> n1
MCNeeds == [t \in MCTxs |-> IF t = t2 THEN {t1} ELSE {}]
MCStart == {start}
MCAbort == {abort}

Budget(submit, forward, spare) ==
  [submit |-> submit, forward |-> [t \in MCTxs |-> IF t \in DOMAIN forward THEN forward[t] ELSE 0]]
  @@ spare @@ [crash |-> 0, lose |-> 0, idle |-> 0, misread |-> 0]

\* A submission and one that needs it, forwarded.
Verdicts == Budget({t1, t2}, t2 :> 1, <<>>)
\* A submission, forwarded twice, with reads that fail.
Misled == Budget({t1}, t1 :> 2, [misread |-> 2])
\* A submission overtaken by an empty block.
Empty == Budget({t1}, <<>>, [idle |-> 1])
\* A submission on its way while the epoch closes; a proposal loses its round.
Closing == Budget({t1, start}, t1 :> 1, [lose |-> 1])
\* The epoch closes and is opened again; a crash.
Aborted == Budget({start, abort}, abort :> 1, [crash |-> 1])
Quiet == Budget({}, <<>>, <<>>)
\* t1 is a second regenesis_start, submitted at another node.
TwoStarts == {start, t1}
StartedTwice == {Budget(TwoStarts, t1 :> 1, <<>>)}
Raced == {Budget({t1}, t1 :> 1, <<>>)}
MCBudgets == {Verdicts, Misled, Empty, Closing, Aborted, Quiet}

\* NonceWindow's instance
MCNonces == {t1, t2}
MCCreated == t1 :> 0 @@ t2 :> 1
MCOffset == n1 :> 0 @@ n2 :> 1 @@ n3 :> 1
ASSUME WindowTolerated

MCInit == Init /\ WindowInit
MCNext ==
  \/ Next /\ UNCHANGED windowVars
  \/ /\ budget = Quiet /\ client = [t \in Txs |-> "new"]
     /\ WindowNext /\ UNCHANGED vars
MCSpec == MCInit /\ [][MCNext]_<<vars, windowVars>> /\ Fairness
=============================================================================
