------------------------------- MODULE TxPath -------------------------------
(***************************************************************************)
(* A submission's way through the mesh, across a regenesis boundary: the   *)
(* node that took it (its home) stages it in its own pool or forwards it   *)
(* to the proposer it believes in, with acknowledgement, result, timeouts  *)
(* and retries; a proposer takes candidates from its pool, preflights them *)
(* against its own committed state, which goes on meanwhile, and proposes; *)
(* validators at the tip vote; every node applies the decided blocks in    *)
(* order and settles its pool (queue.rs, rpc.rs, malachite/engine.rs and   *)
(* app.rs). A regenesis_start closes admission, the pools drain, and a     *)
(* drained proposer proposes the seal.                                     *)
(*                                                                         *)
(* The agreement itself is Malachite's: one proposal at a time, decided    *)
(* when a quorum at the tip accepts it. A pool is two sets here; its       *)
(* locks, notifiers and wake-ups are module PendingPool. A forward carries *)
(* one transaction: the results of a batch are routed one by one.          *)
(***************************************************************************)
EXTENDS QuorumPolicy, Sequences, FiniteSets

CONSTANTS Nodes,
          Txs,         \* submissions, regenesis_start and _abort included
          Home,        \* the node each one is submitted at
          Needs,       \* what a handler's dry run asks to be applied before
          StartTxs,
          AbortTxs,
          None,
          Budgets      \* bounds: what a behaviour may do, one record each

\* Somebody besides the proposer votes: nobody else notices a proposer that
\* failed to read its nonce table.
ASSUME TxPathAssumption ==
  /\ None \notin Nodes
  /\ IsFiniteSet(Nodes) /\ Cardinality(Nodes) >= 2
  /\ Home \in [Txs -> Nodes]
  /\ Needs \in [Txs -> SUBSET Txs]
  /\ StartTxs \subseteq Txs
  /\ AbortTxs \subseteq Txs \ StartTxs
  /\ Budgets \subseteq [submit : SUBSET Txs, forward : [Txs -> Nat], crash : Nat,
                         lose : Nat, idle : Nat, misread : Nat]

VARIABLES chain,    \* decided blocks, each with the phase it leaves
          applied,  \* blocks each node has applied
          staged,   \* per node: PendingPool.queued
          inflight, \* per node: PendingPool.inflight, with proposed_at
          build,    \* per node: the candidates handle_need_value holds, and the
                    \* height it began at
          proposal, \* the proposal of the tip's current round
          held,     \* in the home's channel or retry_holdback
          call,     \* the home's open forward of a transaction
          late,     \* requests still travelling after their caller gave up
          refused,  \* rejecting_leaders
          client,   \* what the submitter knows
          lossless, \* history: no proposal has lost its round
          sound,    \* history: no read of the database has failed
          budget    \* bound: submissions, forwards, crashes, lost rounds, empty
                    \* blocks and failed reads still to come

vars == <<chain, applied, staged, inflight, build, proposal, held, call, late,
          refused, client, lossless, sound, budget>>

\* A forward is sent, acknowledged, answered; a rejection that is believed
\* notes how far the home had applied when it looked.
Idle == [to |-> None, stage |-> "idle", at |-> 0]
Stages == {"idle", "sent", "acked", "committed", "rejected", "believed", "moratorium"}
Phases == {"normal", "moratorium", "sealed"}
Answers == {"committed", "rejected", "failed", "moratorium", "timeout"}

Tip == Len(chain)
PhaseAt(k) == IF k = 0 THEN "normal" ELSE chain[k].phase
Phase(n) == PhaseAt(applied[n])

\* The transactions of the first k blocks.
Decided(k) == UNION {chain[i].txs : i \in 1..k}

\* committed_tx_nonces of node n, written with each block it applies.
Committed(n) == Decided(applied[n])

Pooled(n) == staged[n] \cup {e[1] : e \in inflight[n]}

\* PendingPool::push: nonce-unique, over both sets.
Pushed(n, t) ==
  IF \E e \in inflight[n] : e[1] = t THEN staged
  ELSE [staged EXCEPT ![n] = @ \cup {t}]

\* gate::admissible_in_phase
Admissible(ph, t) ==
  \/ ph = "normal"
  \/ ph = "moratorium" /\ t \in AbortTxs

\* max_byzantine_faults, of the validators
MaxByzantine ==
  LET n == Cardinality(Nodes)
  IN  IF n <= 6 THEN IF n \div 2 = 0 THEN 0 ELSE n \div 2 - 1
      ELSE (n - 1) \div 3

Quorums ==
  {Q \in SUBSET Nodes : Cardinality(Q) >= Quorum("auto", Cardinality(Nodes))}

Init ==
  /\ chain = <<>>
  /\ applied = [n \in Nodes |-> 0]
  /\ staged = [n \in Nodes |-> {}]
  /\ inflight = [n \in Nodes |-> {}]
  /\ build = [n \in Nodes |-> None]
  /\ proposal = None
  /\ held = {}
  /\ call = [t \in Txs |-> Idle]
  /\ late = {}
  /\ refused = [t \in Txs |-> {}]
  /\ client = [t \in Txs |-> "new"]
  /\ lossless = TRUE
  /\ sound = TRUE
  /\ budget \in Budgets

\* A read of the database fails, or it does not.
Misread ==
  /\ budget.misread > 0
  /\ budget' = [budget EXCEPT !.misread = @ - 1]
  /\ sound' = FALSE
WellRead == UNCHANGED <<sound, budget>>

-----------------------------------------------------------------------------
(* The home                                                                *)

\* client, with submission t answered if its submitter still waits
Told(t, a) ==
  IF client[t] = "waiting" THEN [client EXCEPT ![t] = a] ELSE client

\* submit and pre_validate: refused against the node's own committed phase,
\* or into the channel.
Submit(t) ==
  /\ client[t] = "new"
  /\ t \in budget.submit
  /\ budget' = [budget EXCEPT !.submit = @ \ {t}]
  /\ IF Admissible(Phase(Home[t]), t)
     THEN /\ client' = [client EXCEPT ![t] = "waiting"]
          /\ held' = held \cup {t}
     ELSE /\ client' = [client EXCEPT ![t] = "moratorium"]
          /\ UNCHANGED held
  /\ UNCHANGED <<chain, applied, staged, inflight, build, proposal, call, late,
                 refused, lossless, sound>>

\* batch_processor, when the node takes itself for the proposer: a push,
\* with no look at the phase.
Stage(t) ==
  /\ t \in held
  /\ held' = held \ {t}
  /\ staged' = Pushed(Home[t], t)
  /\ UNCHANGED <<chain, applied, inflight, build, proposal, call, late, refused,
                 client, lossless, sound, budget>>

\* batch_processor, when it takes p for the proposer. Which node that is
\* depends on the round its engine shows, so any may be.
Forward(t, p) ==
  /\ t \in held
  /\ p # Home[t]
  /\ budget.forward[t] > 0
  /\ held' = held \ {t}
  /\ call' = [call EXCEPT ![t].to = p, ![t].stage = "sent"]
  /\ budget' = [budget EXCEPT !.forward[t] = @ - 1]
  /\ UNCHANGED <<chain, applied, staged, inflight, build, proposal, late,
                 refused, client, lossless, sound>>

\* NoAck, NotProposer, AckedNoResult, a transport error, or AckedDecided with
\* the nonce not committed: the entry is retried. An unanswered request may
\* be lost, or arrive after all.
GiveUp(t) ==
  /\ call[t].stage \in {"sent", "acked"}
  /\ call' = [call EXCEPT ![t] = Idle]
  /\ held' = held \cup {t}
  /\ \/ UNCHANGED late
     \/ call[t].stage = "sent" /\ late' = late \cup {<<t, call[t].to>>}
  /\ UNCHANGED <<chain, applied, staged, inflight, build, proposal, refused,
                 client, lossless, sound, budget>>

-----------------------------------------------------------------------------
(* The pool of node n resolves D as committed and R as rejected: its own   *)
(* submitters are told, the forwards waiting at it are answered.           *)

Waiters(n, D, R) ==
  [t \in Txs |->
     IF Home[t] # n \/ client[t] # "waiting" THEN client[t]
     ELSE IF t \in D THEN "committed" ELSE IF t \in R THEN "rejected" ELSE client[t]]

Callers(n, D, R) ==
  [t \in Txs |->
     IF call[t].to # n \/ call[t].stage # "acked" THEN call[t]
     ELSE IF t \in D THEN [call[t] EXCEPT !.stage = "committed"]
     ELSE IF t \in R THEN [call[t] EXCEPT !.stage = "rejected"] ELSE call[t]]

\* Entries proposed at a height that has passed by k.
Overdue(n, k) == {e[1] : e \in {f \in inflight[n] : f[2] <= k}}

\* PendingPool::settle at node n and height k, with T added to the staged
\* entries: what is committed leaves the pool, lost rounds are staged again.
SettlePool(n, k, T) ==
  /\ staged' = [staged EXCEPT ![n] = (@ \cup T \cup Overdue(n, k)) \ Decided(k)]
  /\ inflight' = [inflight EXCEPT ![n] = {e \in @ : e[2] > k /\ e[1] \notin Decided(k)}]

-----------------------------------------------------------------------------
(* The answers to a forward                                                *)

\* stage_for_settle and the settle it kicks: resolved at once when the nonce
\* is in this node's own table, staged until it is otherwise.
SettleHere(t) ==
  LET h == Home[t]
      done == (Pooled(h) \cup {t}) \cap Committed(h)
  IN  /\ SettlePool(h, applied[h], {t})
      /\ client' = Waiters(h, done, {})
      /\ call' = [Callers(h, done, {}) EXCEPT ![t] = Idle]

\* Mutant: the proposer's word is passed on to the submitter.
ReplyTrusted(t) ==
  /\ call[t].stage = "committed"
  /\ client' = Told(t, "committed")
  /\ call' = [call EXCEPT ![t] = Idle]
  /\ UNCHANGED <<chain, applied, staged, inflight, build, proposal, held, late,
                 refused, lossless, sound, budget>>

\* process_forward_results, Committed: the proposer's word, not this node's.
ReplyCommitted(t) ==
  /\ call[t].stage = "committed"
  /\ SettleHere(t)
  /\ UNCHANGED <<chain, applied, build, proposal, held, late, refused, lossless,
                 sound, budget>>

\* AckedDecided: a height was decided here before the result came, and the
\* nonce is in the node's own table.
DecidedFirst(t) ==
  /\ call[t].stage = "acked"
  /\ t \in Committed(Home[t])
  /\ SettleHere(t)
  /\ UNCHANGED <<chain, applied, build, proposal, held, late, refused, lossless,
                 sound, budget>>

\* The rejection of t is believed, at the height the home has applied.
Believe(t) ==
  /\ call' = [call EXCEPT ![t].stage = "believed", ![t].at = applied[Home[t]]]
  /\ UNCHANGED <<staged, inflight, client>>

\* Mutant: a rejection counts even if the nonce is committed here.
ReplyRejectedBlindly(t) ==
  /\ call[t].stage = "rejected"
  /\ WellRead /\ Believe(t)
  /\ UNCHANGED <<chain, applied, build, proposal, held, late, refused, lossless>>

\* process_forward_results, Rejected, the one read of the nonce table: a
\* committed transaction overrules the verdict, unless the read fails, which
\* counts as not committed.
ReplyRejected(t) ==
  /\ call[t].stage = "rejected"
  /\ \/ t \in Committed(Home[t]) /\ WellRead /\ SettleHere(t)
     \/ t \notin Committed(Home[t]) /\ WellRead /\ Believe(t)
     \/ Misread /\ Believe(t)
  /\ UNCHANGED <<chain, applied, build, proposal, held, late, refused, lossless>>

\* ... and the loop after it: the rejection is final when more leaders than
\* could be faulty have said so, retried otherwise; when the validators cannot
\* be read, the submission has failed.
CountRejection(t) ==
  LET by == refused[t] \cup {call[t].to}
  IN  /\ call[t].stage = "believed"
      /\ call' = [call EXCEPT ![t] = Idle]
      /\ \/ /\ WellRead
            /\ IF Cardinality(by) > MaxByzantine
               THEN /\ client' = Told(t, "rejected")
                    /\ UNCHANGED <<held, refused>>
               ELSE /\ refused' = [refused EXCEPT ![t] = by]
                    /\ held' = held \cup {t}
                    /\ UNCHANGED client
         \/ /\ Misread
            /\ client' = Told(t, "failed")
            /\ UNCHANGED <<held, refused>>
      /\ UNCHANGED <<chain, applied, staged, inflight, build, proposal, late,
                     lossless>>

\* process_forward_results, Retry with a moratorium phase: the submitter gets
\* the retryable refusal.
ReplyMoratorium(t) ==
  /\ call[t].stage = "moratorium"
  /\ client' = Told(t, "moratorium")
  /\ call' = [call EXCEPT ![t] = Idle]
  /\ UNCHANGED <<chain, applied, staged, inflight, build, proposal, held, late,
                 refused, lossless, sound, budget>>

\* await_result gives up on the submitter's side; the entry goes on.
ClientTimeout(t) ==
  /\ client[t] = "waiting"
  /\ client' = [client EXCEPT ![t] = "timeout"]
  /\ UNCHANGED <<chain, applied, staged, inflight, build, proposal, held, call,
                 late, refused, lossless, sound, budget>>

-----------------------------------------------------------------------------
(* The receiver of a forward                                               *)

\* handle_transaction_forward after the acknowledgement: the stage a forward
\* of t to p reaches when p reads these nonces and this phase; "acked" sends
\* t to p's pool.
Verdict(t, p, nonces, phase) ==
  IF t \in nonces THEN "committed"
  ELSE IF ~Admissible(phase, t) /\ t \notin Pooled(p) THEN "moratorium"
  ELSE "acked"

\* A failed read finds no nonces, or the normal phase.
Judge(t, p, v) ==
  /\ \/ v = Verdict(t, p, Committed(p), Phase(p)) /\ WellRead
     \/ /\ \E nonces \in {{}, Committed(p)}, phase \in {"normal", Phase(p)} :
             v = Verdict(t, p, nonces, phase)
        /\ Misread
  /\ staged' = IF v = "acked" THEN Pushed(p, t) ELSE staged

Receive(t, p) ==
  /\ call[t].to = p /\ call[t].stage = "sent"
  /\ \E v \in Stages : Judge(t, p, v) /\ call' = [call EXCEPT ![t].stage = v]
  /\ UNCHANGED <<chain, applied, inflight, build, proposal, held, late, refused,
                 client, lossless>>

\* A request whose caller has gone: served all the same, or lost.
ReceiveLate(t, p) ==
  /\ <<t, p>> \in late
  /\ late' = late \ {<<t, p>>}
  /\ \/ UNCHANGED staged /\ WellRead
     \/ \E v \in Stages : Judge(t, p, v)
  /\ UNCHANGED <<chain, applied, inflight, build, proposal, held, call, refused,
                 client, lossless>>

-----------------------------------------------------------------------------
(* Proposing, deciding, applying                                           *)

\* Mutant: the abort handler does not ask for the moratorium.
PassesAnyPhase(phase, t, seen) ==
  /\ Needs[t] \subseteq seen
  /\ t \in StartTxs => phase = "normal"

\* The handlers' conditions: what t needs is applied, a start finds the
\* normal phase and an abort the moratorium.
Passes(phase, t, seen) ==
  /\ Needs[t] \subseteq seen
  /\ t \in StartTxs => phase = "normal"
  /\ t \in AbortTxs => phase = "moratorium"

\* Mutant: the moratorium's gate is applied to pooled work.
TakeGated(n, T) ==
  /\ proposal = None /\ build[n] = None
  /\ Phase(n) # "sealed"
  /\ T # {} /\ T \subseteq staged[n]
  /\ \A t \in T : Admissible(Phase(n), t)
  /\ staged' = [staged EXCEPT ![n] = @ \ T]
  /\ build' = [build EXCEPT ![n] = [at |-> applied[n], txs |-> T]]
  /\ UNCHANGED <<chain, applied, inflight, proposal, held, call, late, refused,
                 client, lossless, sound, budget>>

\* handle_need_value takes the candidates T out of the pool, for the height
\* after the last one applied here. A node behind the tip does so too, at a
\* height that is long decided.
Take(n, T) ==
  /\ proposal = None /\ build[n] = None
  /\ Phase(n) # "sealed"
  /\ T # {} /\ T \subseteq staged[n]
  /\ staged' = [staged EXCEPT ![n] = @ \ T]
  /\ build' = [build EXCEPT ![n] = [at |-> applied[n], txs |-> T]]
  /\ UNCHANGED <<chain, applied, inflight, proposal, held, call, late, refused,
                 client, lossless, sound, budget>>

\* What build_value finds committed among candidates taken at b.at, when its
\* dry run comes at height k: the nonces are read before, outside the write
\* gate, and nothing is committed if that read fails.
NoncesRead(b, k, done) ==
  \/ WellRead /\ \E j \in b.at .. k : done = b.txs \cap Decided(j)
  \/ Misread /\ done = {}

\* The dry run at height k, under the write gate: S passes and out does not
\* (for a need that rides in the same batch, the queue's order decides). Of a
\* transaction that is applied by then, the handler may find the effects and
\* refuse. The dry run of a start or an abort changes nothing, so two of them
\* pass it side by side.
DryRun(k, S, out) ==
  /\ \A t \in S : Passes(PhaseAt(k), t, Decided(k) \cup S)
  /\ \A t \in out : t \in Decided(k) \/ ~Passes(PhaseAt(k), t, Decided(k))

\* The rest of handle_need_value, blocks being applied meanwhile: what is
\* committed is resolved, what fails is rejected, the rest is in flight and
\* proposed. A proposal for a height or a round that has passed goes nowhere;
\* its entries wait for the next settle. A re-forward that came meanwhile has
\* an entry of its own and waits for that.
Build(n) ==
  LET b == build[n]
  IN  /\ b # None
      /\ \E k \in b.at .. applied[n], done, S \in SUBSET b.txs :
           /\ NoncesRead(b, k, done)
           /\ S \cap done = {}
           /\ DryRun(k, S, b.txs \ (done \cup S))
           /\ inflight' = [inflight EXCEPT ![n] = @ \cup (S \X {b.at + 1})]
           /\ client' = Waiters(n, done, b.txs \ (done \cup S))
           /\ \E later \in SUBSET (b.txs \cap staged[n]) :
                call' = Callers(n, done \ later, b.txs \ (done \cup S \cup later))
           /\ IF proposal = None /\ b.at = Tip
              THEN /\ proposal' = [by |-> n, txs |-> S, seal |-> FALSE]
                   /\ UNCHANGED lossless
              ELSE /\ lossless' = (lossless /\ (S = {} \/ (b.at = applied[n] /\ b.at < Tip)))
                   /\ UNCHANGED proposal
      /\ build' = [build EXCEPT ![n] = None]
      /\ UNCHANGED <<chain, applied, staged, held, late, refused>>

\* The build fails as a whole: its entries are staged again.
BuildFails(n) ==
  /\ build[n] # None
  /\ Misread
  /\ staged' = [staged EXCEPT ![n] = @ \cup build[n].txs]
  /\ build' = [build EXCEPT ![n] = None]
  /\ UNCHANGED <<chain, applied, inflight, proposal, held, call, late, refused,
                 client, lossless>>

\* handle_need_value with nothing staged: an empty block in the normal phase
BuildEmpty(n) ==
  /\ proposal = None /\ build[n] = None
  /\ applied[n] = Tip
  /\ staged[n] = {}
  /\ Phase(n) = "normal"
  /\ budget.idle > 0
  /\ proposal' = [by |-> n, txs |-> {}, seal |-> FALSE]
  /\ budget' = [budget EXCEPT !.idle = @ - 1]
  /\ UNCHANGED <<chain, applied, staged, inflight, build, held, call, late,
                 refused, client, lossless, sound>>

\* ... and in the moratorium the seal, once nothing is in flight either;
\* with something in flight, nothing is proposed.
BuildSeal(n) ==
  /\ proposal = None /\ build[n] = None
  /\ applied[n] = Tip
  /\ Pooled(n) = {}
  /\ Phase(n) = "moratorium"
  /\ proposal' = [by |-> n, txs |-> {}, seal |-> TRUE]
  /\ UNCHANGED <<chain, applied, staged, inflight, build, held, call, late,
                 refused, client, lossless, sound, budget>>

\* validate_inner, Live. The proposer does not judge its own block.
Accepts(m) ==
  \/ m = proposal.by
  \/ /\ applied[m] = Tip
     /\ proposal.txs \cap Committed(m) = {}
     /\ \A t \in proposal.txs : Passes(Phase(m), t, Committed(m) \cup proposal.txs)
     /\ proposal.seal => Phase(m) = "moratorium" /\ Pooled(m) = {}

Agreed == \E Q \in Quorums : \A m \in Q : Accepts(m)

\* The phase after a block (handlers of start, abort and commit).
PhaseAfter(p) ==
  IF p.seal THEN "sealed"
  ELSE IF p.txs \cap StartTxs # {} THEN "moratorium"
  ELSE IF p.txs \cap AbortTxs # {} THEN "normal" ELSE PhaseAt(Tip)

Decide(n) ==
  /\ proposal # None
  /\ proposal.by = n
  /\ Agreed
  /\ chain' = Append(chain, [txs |-> proposal.txs, phase |-> PhaseAfter(proposal)])
  /\ proposal' = None
  /\ UNCHANGED <<applied, staged, inflight, build, held, call, late, refused,
                 client, lossless, sound, budget>>

\* The round ends without a decision although a quorum would agree: lost or
\* late proposals and votes.
RoundLost ==
  /\ proposal # None
  /\ budget.lose > 0
  /\ proposal' = None
  /\ lossless' = FALSE
  /\ budget' = [budget EXCEPT !.lose = @ - 1]
  /\ UNCHANGED <<chain, applied, staged, inflight, build, held, call, late,
                 refused, client, sound>>

\* Nodes at the tip vote the proposal down: a seal, because their pool is not
\* drained, a block, because it holds what is committed already.
RoundRefused ==
  /\ proposal # None
  /\ ~Agreed
  /\ \E m \in Nodes : applied[m] = Tip /\ ~Accepts(m)
  /\ proposal' = None
  /\ lossless' = (lossless /\ proposal.seal)
  /\ UNCHANGED <<chain, applied, staged, inflight, build, held, call, late,
                 refused, client, sound, budget>>

\* Whether a block whose transactions each pass alone can be applied: the
\* first start or abort moves the phase, a second one of its kind then fails
\* (set_moratorium_tx, clear_to_normal_tx).
Applicable(b) ==
  /\ Cardinality(b.txs \cap StartTxs) <= 1
  /\ Cardinality(b.txs \cap AbortTxs) <= 1

\* The next block is applied, its nonces recorded, and PendingPool::settle
\* resolves what is committed and restages what lost its round. At a block
\* that cannot be applied the process aborts, and the replay after each
\* restart ends the same way.
Apply(n) ==
  LET k == applied[n] + 1
      done == Pooled(n) \cap Decided(k)
  IN  /\ applied[n] < Tip
      /\ Applicable(chain[k])
      /\ applied' = [applied EXCEPT ![n] = k]
      /\ SettlePool(n, k, {})
      /\ client' = Waiters(n, done, {})
      /\ call' = Callers(n, done, {})
      /\ UNCHANGED <<chain, build, proposal, held, late, refused, lossless, sound,
                     budget>>

\* Process death and restart: the queue, the pool, the build and the open
\* forwards are gone, and so are the connections of submitters and of callers.
Crash(n) ==
  LET mine == {t \in Txs : Home[t] = n}
      cut == {t \in Txs : call[t].to = n /\ call[t].stage \in {"sent", "acked"}}
  IN  /\ budget.crash > 0
      /\ budget' = [budget EXCEPT !.crash = @ - 1]
      /\ staged' = [staged EXCEPT ![n] = {}]
      /\ inflight' = [inflight EXCEPT ![n] = {}]
      /\ build' = [build EXCEPT ![n] = None]
      /\ held' = (held \ mine) \cup cut
      /\ call' = [t \in Txs |-> IF t \in mine \cup cut THEN Idle ELSE call[t]]
      /\ refused' = [t \in Txs |-> IF t \in mine THEN {} ELSE refused[t]]
      /\ client' = [t \in Txs |-> IF t \in mine /\ client[t] = "waiting"
                                   THEN "timeout" ELSE client[t]]
      /\ UNCHANGED <<chain, applied, proposal, late, lossless, sound>>

BuildSome(n) == BuildSeal(n) \/ \E T \in SUBSET Txs : Take(n, T)

Next ==
  \/ \E t \in Txs :
       \/ Submit(t) \/ Stage(t) \/ GiveUp(t) \/ ClientTimeout(t)
       \/ ReplyCommitted(t) \/ DecidedFirst(t) \/ ReplyRejected(t)
       \/ CountRejection(t) \/ ReplyMoratorium(t)
       \/ \E p \in Nodes : Forward(t, p) \/ Receive(t, p) \/ ReceiveLate(t, p)
  \/ \E n \in Nodes :
       \/ BuildSome(n) \/ Build(n) \/ BuildFails(n) \/ BuildEmpty(n)
       \/ Decide(n) \/ Apply(n) \/ Crash(n)
  \/ RoundLost
  \/ RoundRefused

Spec == Init /\ [][Next]_vars

\* Every node at the tip that has something to propose gets its turn as
\* proposer again and again (rotation); a proposal a quorum agrees with gets
\* through (Malachite's timeouts grow) unless its round is lost; sync and the
\* settler run by themselves.  Only the drain of a moratorium rests on it.
Draining(A) == PhaseAt(Tip) = "moratorium" /\ A
Fairness ==
  /\ \A n \in Nodes : /\ WF_vars(Draining(Apply(n)))
                      /\ SF_vars(Draining(BuildSome(n)))
                      /\ WF_vars(Draining(Build(n)))
                      /\ WF_vars(Draining(Decide(n)))
  /\ WF_vars(Draining(RoundRefused))

FairSpec == Spec /\ Fairness

-----------------------------------------------------------------------------
(* Properties                                                              *)

\* The type invariant; a home holds a submission in one place at most.
TxPathTypeOK ==
  /\ \A i \in DOMAIN chain : chain[i] \in [txs : SUBSET Txs, phase : Phases]
  /\ applied \in [Nodes -> 0..Tip]
  /\ staged \in [Nodes -> SUBSET Txs]
  /\ inflight \in [Nodes -> SUBSET (Txs \X Nat)]
  /\ build \in [Nodes -> {None} \cup [at : Nat, txs : SUBSET Txs]]
  /\ proposal \in {None} \cup [by : Nodes, txs : SUBSET Txs, seal : BOOLEAN]
  /\ held \subseteq Txs
  /\ call \in [Txs -> [to : Nodes \cup {None}, stage : Stages, at : Nat]]
  /\ late \subseteq Txs \X Nodes
  /\ refused \in [Txs -> SUBSET Nodes]
  /\ client \in [Txs -> Answers \cup {"new", "waiting"}]
  /\ lossless \in BOOLEAN /\ sound \in BOOLEAN
  /\ \A t \in held : call[t] = Idle /\ t \notin Pooled(Home[t])

\* A submitter told "committed" can read its write where it submitted it:
\* the block is applied at its home, not only at the proposer (queue.rs,
\* RFC-018 S6).
CommittedIsAppliedHere ==
  \A t \in Txs : client[t] = "committed" => t \in Decided(applied[Home[t]])

\* "Already-committed transactions are DONE, not rejected" (build_value) and
\* "a committed transaction cannot be rejected, whatever a stale verdict says"
\* (process_forward_results): no submitter is told "rejected" of what its own
\* node has committed.
NoStaleRejection ==
  [][\A t \in Txs : client'[t] = "rejected" /\ client[t] # "rejected" =>
        t \notin Decided(applied[Home[t]])]_vars

\* The verdict on t was formed before the home committed t: a rejected nonce
\* was looked up, or t taken out of the pool for a proposal, when it was not
\* yet committed.
Overtaken(t) ==
  \/ call[t].stage = "believed" /\ t \notin Decided(call[t].at)
  \/ /\ build[Home[t]] # None
     /\ t \in build[Home[t]].txs \ Decided(build[Home[t]].at)

\* It happens only where the commit overtakes the verdict or a read failed: if
\* all reads succeed, what the home had committed when it took the transaction
\* for a proposal, or when it looked up a rejected nonce, is never rejected
\* (build_value's dedup, process_forward_results' overruling).
RejectionOvertaken ==
  [][\A t \in Txs : client'[t] = "rejected" /\ client[t] # "rejected" /\ sound' =>
        Overtaken(t)]_vars

\* What is decided can be applied: "the phase rule guarantees no row exists"
\* when a regenesis_start is applied (db/regenesis.rs, set_moratorium_tx).
DecidedApplies == \A i \in DOMAIN chain : Applicable(chain[i])

\* The abstract view: ledger, phase at the tip, answers.
AbstractLedger == INSTANCE Ledger WITH
  ledger <- Decided(Tip),
  phase <- PhaseAt(Tip),
  told <- [t \in Txs |-> IF client[t] \in Answers THEN client[t] ELSE "none"]

\* The mesh implements the ledger: whatever is forwarded twice, arrives late,
\* is pooled at several nodes or survives a crash, a transaction is decided
\* at most once, nothing is decided after the seal, the phases follow the
\* decided start, abort and seal, and each submitter gets one answer,
\* "committed" only for what the ledger holds.
ImplementsLedger == AbstractLedger!Spec

\* regenesis.md: once admission is closed the pools drain and the epoch is
\* sealed, unless it is aborted.
MoratoriumEnds == PhaseAt(Tip) = "moratorium" ~> PhaseAt(Tip) # "moratorium"

\* It does when no proposal loses its round, nor one that comes too late for
\* it. One that does leaves its entries in flight until its height decides,
\* and in the moratorium their proposer has nothing to propose and no vote
\* for the seal: where the others need that vote, MoratoriumEnds itself fails.
DrainEnds == []lossless => MoratoriumEnds
=============================================================================
