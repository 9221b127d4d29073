------------------------------- MODULE Ledger -------------------------------
(***************************************************************************)
(* What the transaction path promises, with no nodes, pools or messages:   *)
(* a ledger that takes each transaction at most once, an epoch that is     *)
(* open, closing or sealed, and one answer per submission, "committed"     *)
(* only for a transaction in the ledger.                                   *)
(***************************************************************************)

CONSTANTS Txs,      \* submissions
          StartTxs, \* those that are a regenesis_start
          AbortTxs  \* those that are a regenesis_abort

VARIABLES ledger, \* transactions decided so far
          phase,  \* the epoch: "normal", "moratorium" or "sealed"
          told    \* the answer each submission has got, "none" before

vars == <<ledger, phase, told>>

Answers == {"committed", "rejected", "failed", "moratorium", "timeout"}

Init ==
  /\ ledger = {}
  /\ phase = "normal"
  /\ told = [t \in Txs |-> "none"]

\* A block: transactions that are not in the ledger yet, in an epoch that is
\* not sealed. A start closes an open epoch, an abort opens a closing one.
Decide(S) ==
  /\ phase # "sealed"
  /\ S \cap ledger = {}
  /\ ledger' = ledger \cup S
  /\ S \cap StartTxs # {} => phase = "normal"
  /\ S \cap AbortTxs # {} => phase = "moratorium"
  /\ phase' = IF S \cap StartTxs # {} THEN "moratorium"
              ELSE IF S \cap AbortTxs # {} THEN "normal" ELSE phase
  /\ UNCHANGED told

Seal ==
  /\ phase = "moratorium"
  /\ phase' = "sealed"
  /\ UNCHANGED <<ledger, told>>

\* Submissions get answers; an answer given is never changed.
Tell ==
  /\ told' \in [Txs -> Answers \cup {"none"}]
  /\ \A t \in Txs : told'[t] # told[t] =>
        /\ told[t] = "none"
        /\ told'[t] = "committed" => t \in ledger
  /\ UNCHANGED <<ledger, phase>>

Next ==
  \/ \E S \in SUBSET Txs : Decide(S)
  \/ Seal
  \/ Tell

Spec == Init /\ [][Next]_vars
=============================================================================
