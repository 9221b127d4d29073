----------------------------- MODULE NonceWindow -----------------------------
(***************************************************************************)
(* The window of the nonce table: proposers sweep nonces older than an     *)
(* hour out of committed_tx_nonces, so past that the age check alone keeps *)
(* a transaction from being decided again, judged by each node's own clock *)
(* (dispatch.rs, malachite/app.rs, malachite/engine.rs). Module TxPath     *)
(* keeps every nonce; this one is about forgetting them.                   *)
(***************************************************************************)
EXTENDS QuorumPolicy, FiniteSets

CONSTANTS Voters,     \* the validators
          Nonces,     \* the transactions, each with its nonce
          Created,    \* the timestamp in each transaction's nonce
          Offset,     \* each node's clock, against real time
          ProposeAge, \* MAX_TRANSACTION_AGE - PROPOSAL_AGE_MARGIN
          MaxAge,     \* MAX_TRANSACTION_AGE
          CleanupAge, \* the age of the cleanup's cutoff
          MaxNow,     \* bound: the last instant
          NoBlock

\* What keeps a transaction from being decided twice: there is a voter
\* besides the proposer, and clocks differ by less than the gap between the
\* two ages.
WindowTolerated ==
  /\ Created \in [Nonces -> Int]
  /\ Offset \in [Voters -> Int]
  /\ ProposeAge \in Int /\ MaxAge \in Int /\ CleanupAge \in Int
  /\ MaxNow \in Nat
  /\ IsFiniteSet(Voters) /\ Cardinality(Voters) >= 2
  /\ \A m, n \in Voters : Offset[m] - Offset[n] < CleanupAge - MaxAge

VARIABLES now,     \* real time
          table,   \* committed_tx_nonces, as of the tip
          commits, \* how often each transaction has been decided
          block    \* the proposal at the tip, with its votes

windowVars == <<now, table, commits, block>>

Clock(n) == now + Offset[n]

WindowInit ==
  /\ now = 0
  /\ table = {}
  /\ commits = [t \in Nonces |-> 0]
  /\ block = NoBlock

ClockTick ==
  /\ now < MaxNow
  /\ now' = now + 1
  /\ UNCHANGED <<table, commits, block>>

\* Mutant: the sweep's cutoff is the age limit itself.
CutoffAtLimit(p) == Clock(p) - MaxAge

\* The cutoff of the cleanup a proposer injects.
Cutoff(p) == Clock(p) - CleanupAge

\* handle_need_value and build_value: candidates that are young enough by
\* the proposer's clock and not in the table, unless the proposer failed to
\* read it: check_committed_nonces(..).unwrap_or_default() then finds nothing
\* committed. At some heights a cleanup rides along.
ProposeYoung(p, S, read, clean) ==
  /\ block = NoBlock
  /\ \A t \in S : Clock(p) - Created[t] <= ProposeAge
  /\ read => S \cap table = {}
  /\ block' = [by |-> p, txs |-> S, clean |-> clean, cutoff |-> Cutoff(p),
               votes |-> {p}]
  /\ UNCHANGED <<now, table, commits>>

\* validate_inner, Live: the voter's table and the voter's clock. Nobody
\* judges the cutoff.
VoteYoung(n) ==
  /\ block # NoBlock
  /\ n \notin block.votes
  /\ \A t \in block.txs : t \notin table /\ Clock(n) - Created[t] <= MaxAge
  /\ block' = [block EXCEPT !.votes = @ \cup {n}]
  /\ UNCHANGED <<now, table, commits>>

\* The block is applied: the cleanup handler deletes the nonces below the
\* cutoff, then the block's own go in. The cutoff is a UUID of its own with
\* random low bits, so a nonce of the same instant may lie on either side.
DecideBlock ==
  /\ block # NoBlock
  /\ Cardinality(block.votes) >= Quorum("auto", Cardinality(Voters))
  /\ \E above \in SUBSET {t \in table : Created[t] = block.cutoff} :
       table' = block.txs \cup
         {t \in table : block.clean => Created[t] > block.cutoff \/ t \in above}
  /\ commits' = [t \in Nonces |-> commits[t] + (IF t \in block.txs THEN 1 ELSE 0)]
  /\ block' = NoBlock
  /\ UNCHANGED now

\* The round fails; a later proposal is built anew.
AbandonBlock ==
  /\ block # NoBlock
  /\ block' = NoBlock
  /\ UNCHANGED <<now, table, commits>>

WindowNext ==
  \/ ClockTick
  \/ \E p \in Voters, S \in SUBSET Nonces, read, clean \in BOOLEAN :
       ProposeYoung(p, S, read, clean)
  \/ \E n \in Voters : VoteYoung(n)
  \/ DecideBlock
  \/ AbandonBlock

WindowSpec == WindowInit /\ [][WindowNext]_windowVars

\* No transaction is decided twice, however long a copy of it waits in a
\* holdback, a pool or the network: when its nonce is swept, every clock in
\* the mesh finds it too old ("any transaction whose nonce was cleaned up is
\* also caught by the staleness check", dispatch.rs).
DecidedOnce == \A t \in Nonces : commits[t] <= 1
=============================================================================
