---------------------------- MODULE TxPathProofs ----------------------------
(***************************************************************************)
(* For any mesh of two nodes or more and any traffic: the mesh implements  *)
(* the ledger, a submitter told "committed" can read its write at home,    *)
(* and one told "rejected" was overtaken by the commit. The inductive      *)
(* invariant adds to the types that a proposal fits the tip's phase, that  *)
(* a build began at a height its node has applied and not after the seal,  *)
(* and that a believed rejection was of something not committed. That a    *)
(* decided block holds nothing twice is the voters' doing: a quorum is     *)
(* more than the proposer.                                                 *)
(*                                                                         *)
(* The gap between the age limit and the nonce cleanup's cutoff is enough, *)
(* for any mesh of two nodes or more, any transactions and any ages: no    *)
(* transaction is decided twice while the clocks differ by less than the   *)
(* gap, whatever a proposer fails to read (NonceWindow).                   *)
(***************************************************************************)
EXTENDS TxPath, NonceWindow, SequenceTheorems, FiniteSetTheorems, TLAPS

Blocks == [txs : SUBSET Txs, phase : Phases]
Proposals == [by : Nodes, txs : SUBSET Txs, seal : BOOLEAN]
Clients == Answers \cup {"new", "waiting"}

\* What the proofs need of the types.
Shape ==
  /\ chain \in Seq(Blocks)
  /\ applied \in [Nodes -> Nat]
  /\ \A n \in Nodes : applied[n] <= Len(chain)
  /\ client \in [Txs -> Clients]
  /\ call \in [Txs -> [to : Nodes \cup {None}, stage : Stages, at : Nat]]
  /\ build \in [Nodes -> {None} \cup [at : Nat, txs : SUBSET Txs]]
  /\ proposal # None => proposal \in Proposals

\* The proposal that stands fits the tip's phase.
OnTheTip ==
  proposal # None =>
    /\ PhaseAt(Tip) # "sealed"
    /\ proposal.seal => proposal.txs = {} /\ PhaseAt(Tip) = "moratorium"
    /\ proposal.txs \cap StartTxs # {} => PhaseAt(Tip) = "normal"
    /\ proposal.txs \cap AbortTxs # {} => PhaseAt(Tip) = "moratorium"

\* A build began at a height its node has applied, before the seal.
BuildBegan ==
  \A n \in Nodes : build[n] # None =>
    build[n].at <= applied[n] /\ PhaseAt(build[n].at) # "sealed"

\* A rejection was believed of what was not committed then.
BelievedSoundly ==
  \A t \in Txs : call[t].stage = "believed" =>
    /\ call[t].at <= applied[Home[t]]
    /\ sound => t \notin Decided(call[t].at)

TxPathInv ==
  Shape /\ OnTheTip /\ BuildBegan /\ BelievedSoundly /\ CommittedIsAppliedHere

-----------------------------------------------------------------------------
(* Lemmas about the chain                                                  *)

\* Membership in Decided, spelled out.
LEMMA DecidedMember ==
  ASSUME NEW k, NEW t
  PROVE  t \in Decided(k) <=> \E i \in 1..k : t \in chain[i].txs
BY DEF Decided

\* A node's nonce table is part of the ledger.
LEMMA DecidedGrows ==
  ASSUME NEW j \in Nat, NEW k \in Nat, j <= k
  PROVE  Decided(j) \subseteq Decided(k)
BY DecidedMember, 1..j \subseteq 1..k

\* A decided block leaves what was decided before as it was and adds its
\* transactions; the phase of earlier heights stays.
LEMMA DecidedAppend ==
  ASSUME chain \in Seq(Blocks), NEW b \in Blocks, chain' = Append(chain, b)
  PROVE  /\ \A k \in 0..Len(chain) : Decided(k)' = Decided(k) /\ PhaseAt(k)' = PhaseAt(k)
         /\ Decided(Tip)' = Decided(Tip) \cup b.txs
         /\ PhaseAt(Tip)' = b.phase
         /\ Len(chain') = Len(chain) + 1
         /\ chain' \in Seq(Blocks)
<1> DEFINE n == Len(chain)
<1>1. n \in Nat /\ Len(chain') = n + 1 /\ chain' \in Seq(Blocks)
  OBVIOUS
<1>2. \A i \in 1..n : chain'[i] = chain[i]
  OBVIOUS
<1>3. chain'[n + 1] = b
  OBVIOUS
<1>4. \A k \in 0..n : Decided(k)' = Decided(k)
  <2> TAKE k \in 0..n
  <2>1. \A i \in 1..k : chain'[i] = chain[i]
    BY <1>1, <1>2
  <2> QED
    BY <2>1 DEF Decided
<1>5. Decided(Tip)' = Decided(Tip) \cup b.txs
  <2>1. \A t : t \in Decided(Tip)' <=> \E i \in 1..(n + 1) : t \in chain'[i].txs
    BY <1>1 DEF Decided, Tip
  <2>2. \A t : t \in Decided(Tip) <=> \E i \in 1..n : t \in chain[i].txs
    BY DEF Decided, Tip
  <2>3. 1..(n + 1) = (1..n) \cup {n + 1}
    BY <1>1
  <2>4. ASSUME NEW t PROVE t \in Decided(Tip)' <=> t \in Decided(Tip) \cup b.txs
    BY <2>1, <2>2, <2>3, <1>2, <1>3
  <2> QED
    BY <2>4
<1>6. PhaseAt(Tip)' = b.phase
  BY <1>1, <1>3 DEF PhaseAt, Tip
<1>7. \A k \in 0..n : PhaseAt(k)' = PhaseAt(k)
  <2> TAKE k \in 0..n
  <2>1. k = 0 \/ chain'[k] = chain[k]
    BY <1>1, <1>2
  <2> QED
    BY <2>1, Zenon DEF PhaseAt
<1> QED
  BY <1>1, <1>4, <1>5, <1>6, <1>7, Zenon

\* A quorum of two nodes or more is more than the proposer.
LEMMA QuorumOutnumbersProposer ==
  ASSUME NEW v \in Nat, v >= 2
  PROVE  Quorum("auto", v) >= 2
  BY SMT DEF Quorum, ProfileAt, VBft

-----------------------------------------------------------------------------
(* The answers a step gives                                                *)

\* Only submitters without an answer get one; "committed" is said of what is
\* applied at home, "rejected" of what was overtaken.
GoodAnswers ==
  /\ client' \in [Txs -> Clients]
  /\ \A t \in Txs : client'[t] # client[t] =>
       /\ client[t] \in {"new", "waiting"}
       /\ client'[t] = "committed" => t \in Decided(applied[Home[t]])'
       /\ client'[t] = "rejected" /\ sound' => Overtaken(t)

\* A pool that resolves D, which its node has applied by then, and rejects R.
LEMMA PoolAnswers ==
  ASSUME Shape, NEW n \in Nodes, NEW D, NEW R, client' = Waiters(n, D, R),
         \A t \in D : t \in Decided(applied[n])',
         \A t \in R : Home[t] = n /\ sound' => Overtaken(t)
  PROVE  GoodAnswers
<1>1. client' \in [Txs -> Clients]
  BY DEF Shape, Waiters, Clients, Answers
<1>2. ASSUME NEW t \in Txs, client'[t] # client[t]
      PROVE  /\ client[t] \in {"new", "waiting"}
             /\ client'[t] = "committed" => t \in Decided(applied[Home[t]])'
             /\ client'[t] = "rejected" /\ sound' => Overtaken(t)
  <2>1. Home[t] = n /\ client[t] = "waiting"
    BY <1>2 DEF Waiters
  <2>2. client'[t] = IF t \in D THEN "committed" ELSE IF t \in R THEN "rejected" ELSE client[t]
    BY <2>1 DEF Waiters
  <2> QED
    BY <1>2, <2>1, <2>2
<1> QED
  BY <1>1, <1>2 DEF GoodAnswers

\* One submitter is told something other than "committed".
LEMMA OneAnswer ==
  ASSUME Shape, NEW t \in Txs, NEW a \in Answers \ {"committed"}, client' = Told(t, a),
         a = "rejected" /\ sound' => Overtaken(t)
  PROVE  GoodAnswers
<1>1. client' \in [Txs -> Clients]
  BY DEF Shape, Told, Clients
<1>2. \A u \in Txs : client'[u] # client[u] =>
        u = t /\ client[u] = "waiting" /\ client'[u] = a
  BY DEF Shape, Told
<1> QED
  BY <1>1, <1>2 DEF GoodAnswers

\* Every step gives good answers.
LEMMA StepAnswers ==
  ASSUME TxPathInv, [Next]_vars
  PROVE  GoodAnswers
<1> USE TxPathAssumption DEF TxPathInv
<1>0. CASE UNCHANGED client
  BY <1>0 DEF GoodAnswers, Shape
<1>1. ASSUME NEW t \in Txs, Submit(t) PROVE GoodAnswers
  BY <1>1, Zenon DEF GoodAnswers, Submit, Shape, Clients, Answers
<1>2. ASSUME NEW t \in Txs, ClientTimeout(t) PROVE GoodAnswers
  BY <1>2 DEF GoodAnswers, ClientTimeout, Shape, Clients, Answers
<1>3. ASSUME NEW t \in Txs, UNCHANGED <<chain, applied>>, SettleHere(t) PROVE GoodAnswers
  <2> DEFINE h == Home[t]
             done == (Pooled(h) \cup {t}) \cap Committed(h)
  <2>1. client' = Waiters(h, done, {})
    BY <1>3 DEF SettleHere
  <2>2. Decided(applied[h])' = Committed(h)
    BY <1>3 DEF Committed, Decided
  <2>3. h \in Nodes
    OBVIOUS
  <2>4. \A u \in done : u \in Decided(applied[h])'
    BY <2>2
  <2> HIDE DEF h, done
  <2> QED
    BY <2>1, <2>3, <2>4, PoolAnswers
<1>4. ASSUME NEW t \in Txs, ReplyRejected(t) PROVE GoodAnswers
  <2>1. UNCHANGED <<chain, applied>> /\ (SettleHere(t) \/ UNCHANGED client)
    BY <1>4, Zenon DEF ReplyRejected, Believe
  <2> QED
    BY <1>0, <1>3, <2>1
<1>5. ASSUME NEW t \in Txs, ReplyMoratorium(t) PROVE GoodAnswers
  <2>1. client' = Told(t, "moratorium")
    BY <1>5 DEF ReplyMoratorium
  <2> QED
    BY <2>1, OneAnswer DEF Answers
<1>6. ASSUME NEW t \in Txs, CountRejection(t) PROVE GoodAnswers
  <2>1. \/ UNCHANGED client
        \/ client' = Told(t, "failed")
        \/ client' = Told(t, "rejected") /\ sound' = sound
    BY <1>6, Zenon DEF CountRejection, WellRead
  <2>2. sound => Overtaken(t)
    BY <1>6 DEF CountRejection, BelievedSoundly, Overtaken
  <2>3. CASE client' = Told(t, "failed")
    BY <2>3, OneAnswer DEF Answers
  <2>4. CASE client' = Told(t, "rejected") /\ sound' = sound
    BY <2>2, <2>4, OneAnswer DEF Answers
  <2> QED
    BY <1>0, <2>1, <2>3, <2>4
<1>7. ASSUME NEW n \in Nodes, Build(n) PROVE GoodAnswers
  <2> DEFINE b == build[n]
  <2>1. b # None /\ UNCHANGED <<chain, applied>>
    BY <1>7 DEF Build
  <2>2. PICK k \in b.at .. applied[n], done \in SUBSET b.txs, S \in SUBSET b.txs :
          NoncesRead(b, k, done) /\ client' = Waiters(n, done, b.txs \ (done \cup S))
    BY <1>7, Zenon DEF Build
  <2>3. b.at \in Nat /\ applied[n] \in Nat /\ k \in Nat /\ k <= applied[n]
    BY <2>1, <2>2 DEF Shape
  <2>4. ASSUME NEW t \in done PROVE t \in Decided(applied[n])'
    <3>1. PICK j \in b.at .. k : done = b.txs \cap Decided(j)
      BY <2>2, <2>4 DEF NoncesRead
    <3>2. j \in Nat /\ j <= applied[n]
      BY <2>3, <3>1
    <3>3. t \in Decided(applied[n])
      BY <2>3, <2>4, <3>1, <3>2, DecidedGrows
    <3> QED
      BY <2>1, <3>3 DEF Decided
  <2>5. ASSUME NEW t \in b.txs \ (done \cup S), Home[t] = n, sound' PROVE Overtaken(t)
    <3>1. PICK j \in b.at .. k : done = b.txs \cap Decided(j)
      BY <2>2, <2>5 DEF NoncesRead, Misread
    <3>2. j \in Nat /\ b.at <= j
      BY <2>3, <3>1
    <3>3. t \notin Decided(b.at)
      BY <2>3, <2>5, <3>1, <3>2, DecidedGrows
    <3> QED
      BY <2>1, <2>5, <3>3, Zenon DEF Overtaken
  <2> HIDE DEF b
  <2> QED
    BY <2>2, <2>4, <2>5, PoolAnswers
<1>8. ASSUME NEW n \in Nodes, Apply(n) PROVE GoodAnswers
  <2> DEFINE done == Pooled(n) \cap Decided(applied[n] + 1)
  <2>1. client' = Waiters(n, done, {})
    BY <1>8 DEF Apply
  <2>2. chain' = chain /\ applied'[n] = applied[n] + 1
    BY <1>8 DEF Apply, Shape
  <2>3. Decided(applied[n])' = Decided(applied[n] + 1)
    BY <2>2 DEF Decided
  <2>4. \A t \in done : t \in Decided(applied[n])'
    BY <2>3
  <2> HIDE DEF done
  <2> QED
    BY <2>1, <2>4, PoolAnswers
<1>9. ASSUME NEW n \in Nodes, Crash(n) PROVE GoodAnswers
  BY <1>9 DEF GoodAnswers, Crash, Shape, Clients, Answers
<1>10. ASSUME NEW t \in Txs, ReplyCommitted(t) \/ DecidedFirst(t) PROVE GoodAnswers
  BY <1>3, <1>10 DEF ReplyCommitted, DecidedFirst
<1>11. CASE UNCHANGED vars
  BY <1>0, <1>11 DEF vars
<1>12. ASSUME NEW t \in Txs,
              Stage(t) \/ GiveUp(t) \/ \E p \in Nodes :
                Forward(t, p) \/ Receive(t, p) \/ ReceiveLate(t, p)
       PROVE  GoodAnswers
  BY <1>0, <1>12, Zenon DEF Stage, GiveUp, Forward, Receive, ReceiveLate
<1>13. ASSUME NEW n \in Nodes,
              BuildSome(n) \/ BuildFails(n) \/ BuildEmpty(n) \/ Decide(n)
       PROVE  GoodAnswers
  BY <1>0, <1>13 DEF BuildSome, BuildSeal, Take, BuildFails, BuildEmpty, Decide
<1>14. CASE RoundLost \/ RoundRefused
  BY <1>0, <1>14 DEF RoundLost, RoundRefused
<1> QED
  BY <1>1, <1>2, <1>4, <1>5, <1>6, <1>7, <1>8, <1>9, <1>10, <1>11, <1>12, <1>13, <1>14,
     Zenon DEF Next

-----------------------------------------------------------------------------
(* The forwards                                                            *)

Calls == [to : Nodes \cup {None}, stage : Stages, at : Nat]

\* A rejection becomes believed only when the home looks its nonce up and, if
\* the read succeeds, does not find it.
GoodCalls ==
  /\ call' \in [Txs -> Calls]
  /\ sound' => sound
  /\ \A t \in Txs : call'[t].stage = "believed" =>
       \/ call'[t] = call[t]
       \/ /\ call'[t].at = applied[Home[t]]
          /\ sound' => t \notin Committed(Home[t])

\* A pool that resolves D and rejects R answers forwards it acknowledged.
LEMMA PoolCalls ==
  ASSUME Shape, NEW n \in Nodes, NEW D, NEW R
  PROVE  /\ Callers(n, D, R) \in [Txs -> Calls]
         /\ \A t \in Txs : Callers(n, D, R)[t].stage = "believed" =>
              Callers(n, D, R)[t] = call[t]
<1> SUFFICES ASSUME NEW t \in Txs
             PROVE  /\ Callers(n, D, R)[t] \in Calls
                    /\ Callers(n, D, R)[t].stage = "believed" =>
                         Callers(n, D, R)[t] = call[t]
  BY Zenon DEF Callers
<1>1. call[t] \in Calls
  BY DEF Shape, Calls
<1>2. \/ Callers(n, D, R)[t] = call[t]
      \/ Callers(n, D, R)[t] = [call[t] EXCEPT !.stage = "committed"]
      \/ Callers(n, D, R)[t] = [call[t] EXCEPT !.stage = "rejected"]
  BY Zenon DEF Callers
<1> QED
  BY <1>1, <1>2 DEF Calls, Stages

\* Every step treats the forwards so.
LEMMA StepCalls ==
  ASSUME TxPathInv, [Next]_vars
  PROVE  GoodCalls
<1> USE TxPathAssumption DEF TxPathInv
<1>a. call \in [Txs -> Calls] /\ Idle \in Calls /\ Idle.stage # "believed"
  BY DEF Shape, Calls, Idle, Stages
<1>b. (WellRead => (sound' => sound)) /\ (Misread => (sound' => sound))
  BY DEF WellRead, Misread
<1>0. CASE UNCHANGED call /\ (UNCHANGED sound \/ WellRead \/ Misread)
  BY <1>0, <1>a, <1>b DEF GoodCalls
<1>1. ASSUME NEW t \in Txs, NEW c \in Calls, c.stage # "believed",
             call' = [call EXCEPT ![t] = c], sound' => sound
      PROVE  GoodCalls
  BY <1>1, <1>a DEF GoodCalls
<1>2. ASSUME NEW t \in Txs, SettleHere(t), sound' => sound PROVE GoodCalls
  <2> DEFINE h == Home[t]
             done == (Pooled(h) \cup {t}) \cap Committed(h)
  <2>1. call' = [Callers(h, done, {}) EXCEPT ![t] = Idle]
    BY <1>2, Zenon DEF SettleHere
  <2>2. h \in Nodes
    OBVIOUS
  <2> HIDE DEF h, done
  <2>3. /\ Callers(h, done, {}) \in [Txs -> Calls]
        /\ \A u \in Txs : Callers(h, done, {})[u].stage = "believed" =>
             Callers(h, done, {})[u] = call[u]
    BY <2>2, PoolCalls
  <2> QED
    BY <1>a, <1>2, <2>1, <2>3 DEF GoodCalls
<1>3. ASSUME NEW t \in Txs, ReplyRejected(t) PROVE GoodCalls
  <2>1. CASE SettleHere(t)
    BY <1>2, <1>3, <1>b, <2>1, Zenon DEF ReplyRejected
  <2>2. CASE Believe(t) /\ (sound' => sound /\ t \notin Committed(Home[t]))
    <3>1. call' = [call EXCEPT ![t].stage = "believed", ![t].at = applied[Home[t]]]
      BY <2>2 DEF Believe
    <3>2. call' = [call EXCEPT ![t] = [call[t] EXCEPT !.stage = "believed", !.at = applied[Home[t]]]]
      BY <1>a, <3>1, Zenon DEF Calls
    <3> DEFINE c == [call[t] EXCEPT !.stage = "believed", !.at = applied[Home[t]]]
    <3>3. c \in Calls /\ c.at = applied[Home[t]]
      BY <1>a, Zenon DEF Calls, Stages, Shape
    <3>4. call' = [call EXCEPT ![t] = c]
      BY <3>2
    <3> HIDE DEF c
    <3> QED
      BY <1>a, <2>2, <3>3, <3>4 DEF GoodCalls
  <2> QED
    BY <1>3, <1>b, <2>1, <2>2, Zenon DEF ReplyRejected, Misread
<1>4. ASSUME NEW t \in Txs, ReplyCommitted(t) \/ DecidedFirst(t) PROVE GoodCalls
  BY <1>2, <1>4 DEF ReplyCommitted, DecidedFirst
<1>5. ASSUME NEW t \in Txs, GiveUp(t) \/ CountRejection(t) \/ ReplyMoratorium(t) PROVE GoodCalls
  <2>1. call' = [call EXCEPT ![t] = Idle] /\ (UNCHANGED sound \/ WellRead \/ Misread)
    BY <1>5, Zenon DEF GiveUp, CountRejection, ReplyMoratorium
  <2>2. sound' => sound
    BY <1>b, <2>1, Zenon
  <2> QED
    BY <1>1, <1>a, <2>1, <2>2, Zenon
<1>6. ASSUME NEW t \in Txs, NEW p \in Nodes, Forward(t, p) PROVE GoodCalls
  <2> DEFINE c == [call[t] EXCEPT !.to = p, !.stage = "sent"]
  <2>1. call' = [call EXCEPT ![t] = c] /\ sound' = sound
    BY <1>6, <1>a, Zenon DEF Forward, Calls
  <2>2. c \in Calls /\ c.stage # "believed"
    BY <1>a, Zenon DEF Calls, Stages
  <2> HIDE DEF c
  <2> QED
    BY <1>1, <2>1, <2>2, Zenon
<1>7. ASSUME NEW t \in Txs, NEW p \in Nodes, Receive(t, p) PROVE GoodCalls
  <2>1. PICK v \in Stages : Judge(t, p, v) /\ call' = [call EXCEPT ![t].stage = v]
    BY <1>7, Zenon DEF Receive
  <2>2. v # "believed" /\ (sound' => sound)
    BY <1>b, <2>1 DEF Judge, Verdict
  <2> DEFINE c == [call[t] EXCEPT !.stage = v]
  <2>3. call' = [call EXCEPT ![t] = c]
    BY <1>a, <2>1 DEF Calls
  <2>4. c \in Calls /\ c.stage # "believed"
    BY <1>a, <2>2 DEF Calls
  <2> HIDE DEF c
  <2> QED
    BY <1>1, <2>2, <2>3, <2>4, Zenon
<1>8. ASSUME NEW n \in Nodes, NEW D, NEW R, call' = Callers(n, D, R), sound' => sound
      PROVE  GoodCalls
  BY <1>8, PoolCalls DEF GoodCalls
<1>9. ASSUME NEW n \in Nodes, Build(n) PROVE GoodCalls
  <2>1. (\E D, R : call' = Callers(n, D, R)) /\ (WellRead \/ Misread)
    BY <1>9, Zenon DEF Build, NoncesRead
  <2> QED
    BY <1>8, <1>b, <2>1
<1>10. ASSUME NEW n \in Nodes, Apply(n) PROVE GoodCalls
  BY <1>8, <1>10 DEF Apply
<1>11. ASSUME NEW n \in Nodes, Crash(n) PROVE GoodCalls
  <2>1. \A t \in Txs : call'[t] = Idle \/ call'[t] = call[t]
    BY <1>11, Zenon DEF Crash
  <2>2. sound' = sound /\ call' \in [Txs -> Calls]
    BY <1>a, <1>11 DEF Crash
  <2> QED
    BY <1>a, <2>1, <2>2 DEF GoodCalls
<1>12. ASSUME NEW t \in Txs,
              Submit(t) \/ Stage(t) \/ ClientTimeout(t) \/ \E p \in Nodes : ReceiveLate(t, p)
       PROVE  GoodCalls
  <2>1. UNCHANGED call /\ (UNCHANGED sound \/ WellRead \/ Misread)
    BY <1>12, Zenon DEF Submit, Stage, ClientTimeout, ReceiveLate, Judge
  <2> QED
    BY <1>0, <2>1
<1>13. ASSUME NEW n \in Nodes,
              BuildSome(n) \/ BuildFails(n) \/ BuildEmpty(n) \/ Decide(n)
       PROVE  GoodCalls
  <2>1. UNCHANGED call /\ (UNCHANGED sound \/ Misread)
    BY <1>13, Zenon DEF BuildSome, BuildSeal, Take, BuildFails, BuildEmpty, Decide
  <2> QED
    BY <1>0, <2>1
<1>14. CASE RoundLost \/ RoundRefused \/ UNCHANGED vars
  BY <1>0, <1>14 DEF RoundLost, RoundRefused, vars
<1> QED
  BY <1>3, <1>4, <1>5, <1>6, <1>7, <1>9, <1>10, <1>11, <1>12, <1>13, <1>14, Zenon DEF Next

-----------------------------------------------------------------------------
(* The invariant                                                           *)

\* A step that is not a decision leaves the chain; what it does to the
\* proposal, the builds and the applied heights is named.
LEMMA StepKinds ==
  ASSUME [Next]_vars
  PROVE  \/ UNCHANGED <<chain, applied, build, proposal>>
         \/ UNCHANGED <<chain, applied, build>> /\ proposal' = None
         \/ \E n \in Nodes : /\ UNCHANGED <<chain, applied, proposal>>
                             /\ build' = [build EXCEPT ![n] = None]
         \/ \E n \in Nodes :
              \/ Build(n) \/ BuildSeal(n) \/ BuildEmpty(n) \/ Decide(n) \/ Apply(n)
              \/ \E T \in SUBSET Txs : Take(n, T)
<1>1. ASSUME NEW t \in Txs,
             \/ Submit(t) \/ Stage(t) \/ GiveUp(t) \/ ClientTimeout(t)
             \/ ReplyCommitted(t) \/ DecidedFirst(t) \/ ReplyRejected(t)
             \/ CountRejection(t) \/ ReplyMoratorium(t)
             \/ \E p \in Nodes : Forward(t, p) \/ Receive(t, p) \/ ReceiveLate(t, p)
      PROVE  UNCHANGED <<chain, applied, build, proposal>>
  BY <1>1, Zenon DEF Submit, Stage, GiveUp, ClientTimeout, ReplyCommitted, DecidedFirst,
    ReplyRejected, CountRejection, ReplyMoratorium, Forward, Receive, ReceiveLate
<1>2. ASSUME NEW n \in Nodes, Crash(n) \/ BuildFails(n)
      PROVE  UNCHANGED <<chain, applied, proposal>> /\ build' = [build EXCEPT ![n] = None]
  BY <1>2, Zenon DEF Crash, BuildFails
<1>3. CASE RoundLost \/ RoundRefused
  BY <1>3, Zenon DEF RoundLost, RoundRefused
<1>4. CASE UNCHANGED vars
  BY <1>4, Zenon DEF vars
<1> QED
  BY <1>1, <1>2, <1>3, <1>4, Zenon DEF Next, BuildSome

\* The phase a decision leaves is a phase.
LEMMA PhaseAfterType ==
  ASSUME NEW p, PhaseAt(Tip) \in Phases
  PROVE  PhaseAfter(p) \in Phases
BY DEF PhaseAfter, Phases

\* The tip's phase is a phase.
LEMMA TipPhase ==
  ASSUME Shape
  PROVE  PhaseAt(Tip) \in Phases
<1>1. Len(chain) \in Nat /\ (Len(chain) # 0 => chain[Len(chain)] \in Blocks)
  BY DEF Shape
<1> QED
  BY <1>1 DEF PhaseAt, Tip, Blocks, Phases

\* A proposal that is agreed on holds nothing that is decided: someone besides
\* the proposer, at the tip, found none of it in their nonce table.
LEMMA AgreedIsNew ==
  ASSUME Shape, proposal # None, Agreed
  PROVE  proposal.txs \cap Decided(Tip) = {}
<1>1. PICK Q \in SUBSET Nodes :
        /\ Cardinality(Q) >= Quorum("auto", Cardinality(Nodes))
        /\ \A m \in Q : Accepts(m)
  BY DEF Agreed, Quorums
<1>2. Cardinality(Nodes) \in Nat /\ Cardinality(Nodes) >= 2
  BY TxPathAssumption, FS_CardinalityType
<1>3. Quorum("auto", Cardinality(Nodes)) >= 2 /\ Quorum("auto", Cardinality(Nodes)) \in Int
  <2>1. Quorum("auto", Cardinality(Nodes)) >= 2
    BY <1>2, QuorumOutnumbersProposer
  <2>2. Quorum("auto", Cardinality(Nodes)) \in Int
    BY <1>2, SMT DEF Quorum, ProfileAt, VBft
  <2> QED
    BY <2>1, <2>2
<1>4. \E m \in Q : m # proposal.by
  <2>1. SUFFICES ASSUME Q \subseteq {proposal.by} PROVE FALSE
    OBVIOUS
  <2>2. IsFiniteSet({proposal.by}) /\ Cardinality({proposal.by}) = 1
    BY FS_Singleton, Zenon
  <2>3. Cardinality(Q) <= 1 /\ Cardinality(Q) \in Nat
    BY <2>1, <2>2, FS_Subset, FS_CardinalityType
  <2> QED
    BY <1>1, <1>3, <2>3
<1>5. PICK m \in Q : applied[m] = Tip /\ proposal.txs \cap Committed(m) = {}
  BY <1>1, <1>4, Zenon DEF Accepts
<1> QED
  BY <1>5 DEF Committed

\* A decision, seen from the chain.
LEMMA DecideEffect ==
  ASSUME TxPathInv, NEW n \in Nodes, Decide(n)
  PROVE  /\ \A k \in 0..Len(chain) : Decided(k)' = Decided(k) /\ PhaseAt(k)' = PhaseAt(k)
         /\ Decided(Tip)' = Decided(Tip) \cup proposal.txs
         /\ proposal.txs \cap Decided(Tip) = {}
         /\ PhaseAt(Tip)' = PhaseAfter(proposal)
         /\ Len(chain') = Len(chain) + 1
         /\ chain' \in Seq(Blocks)
         /\ proposal # None /\ proposal' = None
         /\ UNCHANGED <<applied, client, build>>
<1> DEFINE b == [txs |-> proposal.txs, phase |-> PhaseAfter(proposal)]
<1>1. proposal # None /\ proposal' = None /\ chain' = Append(chain, b)
      /\ UNCHANGED <<applied, client, build>>
  BY DEF Decide
<1>2. b \in Blocks
  BY <1>1, TipPhase, PhaseAfterType DEF TxPathInv, Shape, Blocks, Proposals
<1>3. chain \in Seq(Blocks)
  BY DEF TxPathInv, Shape
<1>4. b.txs = proposal.txs /\ b.phase = PhaseAfter(proposal)
  OBVIOUS
<1>5. proposal.txs \cap Decided(Tip) = {}
  BY <1>1, AgreedIsNew DEF TxPathInv, Decide
<1> HIDE DEF b
<1> QED
  BY <1>1, <1>2, <1>3, <1>4, <1>5, DecidedAppend, Zenon

\* Heights only grow, and what is decided up to a height stays.
Advance ==
  /\ chain' \in Seq(Blocks)
  /\ applied' \in [Nodes -> Nat]
  /\ \A n \in Nodes : applied[n] <= applied'[n] /\ applied'[n] <= Len(chain')
  /\ \A k \in 0..Len(chain) : Decided(k)' = Decided(k) /\ PhaseAt(k)' = PhaseAt(k)

LEMMA StepAdvance ==
  ASSUME TxPathInv, [Next]_vars
  PROVE  Advance
<1>0. CASE UNCHANGED <<chain, applied>>
  BY <1>0 DEF TxPathInv, Shape, Advance, Decided, PhaseAt
<1>1. ASSUME NEW n \in Nodes, Decide(n) PROVE Advance
  <2>1. /\ \A k \in 0..Len(chain) : Decided(k)' = Decided(k) /\ PhaseAt(k)' = PhaseAt(k)
        /\ Len(chain') = Len(chain) + 1 /\ chain' \in Seq(Blocks) /\ applied' = applied
    BY <1>1, DecideEffect
  <2> QED
    BY <2>1 DEF TxPathInv, Shape, Advance
<1>2. ASSUME NEW n \in Nodes, Apply(n) PROVE Advance
  <2>1. /\ chain' = chain /\ applied' = [applied EXCEPT ![n] = applied[n] + 1]
        /\ applied[n] < Len(chain)
    BY <1>2 DEF Apply, Tip
  <2>2. \A k \in 0..Len(chain) : Decided(k)' = Decided(k) /\ PhaseAt(k)' = PhaseAt(k)
    BY <2>1 DEF Decided, PhaseAt
  <2> QED
    BY <2>1, <2>2 DEF TxPathInv, Shape, Advance
<1>3. ASSUME NEW n \in Nodes,
             Build(n) \/ BuildSeal(n) \/ BuildEmpty(n) \/ \E T \in SUBSET Txs : Take(n, T)
      PROVE  UNCHANGED <<chain, applied>>
  BY <1>3, Zenon DEF Build, BuildSeal, BuildEmpty, Take
<1> QED
  BY <1>0, <1>1, <1>2, <1>3, StepKinds, Zenon

\* A build is kept, dropped, or begun at the applied height, before the seal.
GoodBuilds ==
  /\ build' \in [Nodes -> {None} \cup [at : Nat, txs : SUBSET Txs]]
  /\ \A n \in Nodes : build'[n] # None =>
       build'[n] = build[n] \/ (build'[n].at = applied[n] /\ Phase(n) # "sealed")

LEMMA StepBuilds ==
  ASSUME TxPathInv, [Next]_vars
  PROVE  GoodBuilds
<1> DEFINE Builds == {None} \cup [at : Nat, txs : SUBSET Txs]
<1>0. build \in [Nodes -> Builds] /\ applied \in [Nodes -> Nat]
  BY DEF TxPathInv, Shape
<1>1. CASE UNCHANGED build
  BY <1>0, <1>1 DEF GoodBuilds
<1>2. ASSUME NEW n \in Nodes, build' = [build EXCEPT ![n] = None] PROVE GoodBuilds
  BY <1>0, <1>2 DEF GoodBuilds
<1>3. ASSUME NEW n \in Nodes, NEW T \in SUBSET Txs, Take(n, T) PROVE GoodBuilds
  <2> DEFINE b == [at |-> applied[n], txs |-> T]
  <2>1. build' = [build EXCEPT ![n] = b] /\ Phase(n) # "sealed"
    BY <1>3, Zenon DEF Take
  <2>2. b \in Builds /\ b.at = applied[n]
    BY <1>0
  <2> HIDE DEF b
  <2> QED
    BY <1>0, <2>1, <2>2 DEF GoodBuilds
<1>4. ASSUME NEW n \in Nodes, Build(n) PROVE build' = [build EXCEPT ![n] = None]
  BY <1>4, Zenon DEF Build
<1>5. ASSUME NEW n \in Nodes, BuildSeal(n) \/ BuildEmpty(n) \/ Decide(n) \/ Apply(n)
      PROVE  UNCHANGED build
  BY <1>5, Zenon DEF BuildSeal, BuildEmpty, Decide, Apply
<1> QED
  BY <1>1, <1>2, <1>3, <1>4, <1>5, StepKinds, Zenon

\* What the builders put up fits the tip's phase.
LEMMA BuildEffect ==
  ASSUME TxPathInv, NEW n \in Nodes, BuildSeal(n) \/ BuildEmpty(n) \/ Build(n)
  PROVE  (proposal' # None => proposal' \in Proposals) /\ OnTheTip'
<1> USE DEF TxPathInv
<1>1. UNCHANGED <<chain, applied>>
  BY Zenon DEF BuildSeal, BuildEmpty, Build
<1>2. PhaseAt(Tip)' = PhaseAt(Tip)
  BY <1>1 DEF PhaseAt, Tip
<1>3. CASE BuildSeal(n)
  BY <1>2, <1>3 DEF OnTheTip, BuildSeal, Phase, Proposals
<1>4. CASE BuildEmpty(n)
  BY <1>2, <1>4 DEF OnTheTip, BuildEmpty, Phase, Proposals
<1>5. CASE Build(n)
  <2> DEFINE b == build[n]
  <2>1. b # None
    BY <1>5 DEF Build
  <2>2. PICK k \in b.at .. applied[n], S \in SUBSET b.txs :
          /\ \A t \in S : Passes(PhaseAt(k), t, Decided(k) \cup S)
          /\ IF proposal = None /\ b.at = Tip
             THEN proposal' = [by |-> n, txs |-> S, seal |-> FALSE]
             ELSE UNCHANGED proposal
    BY <1>5, Zenon DEF Build, DryRun
  <2>3. CASE UNCHANGED proposal
    BY <1>2, <2>3 DEF OnTheTip, Shape
  <2>4. CASE b.at = Tip /\ proposal' = [by |-> n, txs |-> S, seal |-> FALSE]
    <3>1. k = Tip
      BY <2>1, <2>2, <2>4 DEF Shape, Tip
    <3>2. PhaseAt(Tip) # "sealed"
      BY <2>1, <2>4 DEF BuildBegan
    <3>3. /\ S \cap StartTxs # {} => PhaseAt(Tip) = "normal"
          /\ S \cap AbortTxs # {} => PhaseAt(Tip) = "moratorium"
      BY <2>2, <3>1 DEF Passes
    <3>4. S \in SUBSET Txs
      BY <2>1, <2>2 DEF Shape
    <3> QED
      BY <1>2, <2>4, <3>2, <3>3, <3>4 DEF OnTheTip, Proposals
  <2> QED
    BY <2>2, <2>3, <2>4, Zenon
<1> QED
  BY <1>3, <1>4, <1>5

\* The standing proposal fits the tip after every step.
LEMMA StepProposal ==
  ASSUME TxPathInv, [Next]_vars
  PROVE  (proposal' # None => proposal' \in Proposals) /\ OnTheTip'
<1>1. CASE UNCHANGED <<chain, proposal>>
  BY <1>1 DEF TxPathInv, Shape, OnTheTip, PhaseAt, Tip
<1>2. CASE proposal' = None
  BY <1>2 DEF OnTheTip
<1>3. ASSUME NEW n \in Nodes, Decide(n) PROVE proposal' = None
  BY <1>3, Zenon DEF Decide
<1>4. ASSUME NEW n \in Nodes, Apply(n) \/ \E T \in SUBSET Txs : Take(n, T)
      PROVE  UNCHANGED <<chain, proposal>>
  BY <1>4, Zenon DEF Apply, Take
<1> QED
  BY <1>1, <1>2, <1>3, <1>4, BuildEffect, StepKinds, Zenon

\* The invariant is inductive.
LEMMA StepInv ==
  ASSUME TxPathInv, [Next]_vars
  PROVE  TxPathInv'
<1> USE TxPathAssumption
<1>1. GoodAnswers /\ GoodCalls /\ GoodBuilds /\ Advance
  BY StepAnswers, StepCalls, StepBuilds, StepAdvance
<1>2. Shape' /\ OnTheTip'
  BY <1>1, StepProposal DEF Shape, GoodAnswers, GoodCalls, GoodBuilds, Advance, Calls
<1>3. \A n \in Nodes : /\ applied[n] \in 0..Len(chain) /\ applied'[n] \in Nat
                       /\ applied[n] <= applied'[n]
  BY <1>1 DEF TxPathInv, Shape, Advance
<1>4. BuildBegan'
  <2> SUFFICES ASSUME NEW n \in Nodes, build'[n] # None
               PROVE  build'[n].at <= applied'[n] /\ PhaseAt(build[n].at)' # "sealed"
    BY Zenon DEF BuildBegan
  <2>1. build'[n].at \in 0..applied[n] /\ PhaseAt(build'[n].at) # "sealed"
    <3>1. CASE build'[n] = build[n]
      BY <3>1 DEF TxPathInv, Shape, BuildBegan
    <3>2. CASE build'[n].at = applied[n] /\ Phase(n) # "sealed"
      BY <1>3, <3>2 DEF Phase
    <3> QED
      BY <1>1, <3>1, <3>2, Zenon DEF GoodBuilds
  <2>2. build'[n].at \in 0..Len(chain) /\ build'[n].at <= applied'[n]
    BY <1>3, <2>1
  <2>3. \A k \in 0..Len(chain) :
          (IF k = 0 THEN "normal" ELSE chain'[k].phase) = PhaseAt(k)
    BY <1>1, Zenon DEF Advance, PhaseAt
  <2>4. PhaseAt(build[n].at)' = PhaseAt(build'[n].at)
    BY <2>2, <2>3, Zenon DEF PhaseAt
  <2> QED
    BY <2>1, <2>2, <2>4, Zenon
<1>5. BelievedSoundly'
  <2> SUFFICES ASSUME NEW t \in Txs, call'[t].stage = "believed"
               PROVE  /\ call'[t].at <= applied'[Home[t]]
                      /\ sound' => t \notin Decided(call[t].at)'
    BY Zenon DEF BelievedSoundly
  <2>1. /\ call'[t].at \in 0..applied[Home[t]]
        /\ sound' => t \notin Decided(call'[t].at)
    <3>1. CASE call'[t] = call[t]
      BY <1>1, <3>1 DEF TxPathInv, Shape, BelievedSoundly, GoodCalls
    <3>2. CASE call'[t].at = applied[Home[t]] /\ (sound' => t \notin Committed(Home[t]))
      BY <1>3, <3>2 DEF Committed
    <3> QED
      BY <1>1, <3>1, <3>2, Zenon DEF GoodCalls
  <2>2. call'[t].at \in 0..Len(chain) /\ call'[t].at <= applied'[Home[t]]
    BY <1>3, <2>1
  <2>3. \A k \in 0..Len(chain) : UNION {chain'[i].txs : i \in 1..k} = Decided(k)
    BY <1>1, Zenon DEF Advance, Decided
  <2>4. Decided(call[t].at)' = Decided(call'[t].at)
    BY <2>2, <2>3, Zenon DEF Decided
  <2> QED
    BY <2>1, <2>2, <2>4, Zenon
<1>6. CommittedIsAppliedHere'
  <2> SUFFICES ASSUME NEW t \in Txs, client'[t] = "committed"
               PROVE  t \in Decided(applied[Home[t]])'
    BY DEF CommittedIsAppliedHere
  <2>1. CASE client'[t] # client[t]
    BY <1>1, <2>1 DEF GoodAnswers
  <2>2. CASE client'[t] = client[t]
    <3> DEFINE h == Home[t]
    <3>1. t \in Decided(applied[h])
      BY <2>2 DEF TxPathInv, CommittedIsAppliedHere
    <3>2. h \in Nodes
      OBVIOUS
    <3>3. PICK i \in 1..applied[h] : t \in chain[i].txs
      BY <3>1, DecidedMember
    <3>4. t \in Decided(applied[h])' <=> \E j \in 1..applied'[h] : t \in chain'[j].txs
      BY DEF Decided
    <3>5. i \in 0..Len(chain) /\ i \in 1..i /\ 1..i \subseteq 1..applied'[h]
      BY <1>3, <3>2, <3>3
    <3>6. t \in Decided(i)
      BY <3>3, <3>5, DecidedMember
    <3>7. t \in Decided(i)'
      BY <1>1, <3>5, <3>6 DEF Advance
    <3>8. \E j \in 1..i : t \in chain'[j].txs
      BY <3>7 DEF Decided
    <3> QED
      BY <3>4, <3>5, <3>8, Zenon
  <2> QED
    BY <2>1, <2>2
<1> QED
  BY <1>2, <1>4, <1>5, <1>6 DEF TxPathInv

-----------------------------------------------------------------------------
(* The theorems                                                            *)

\* The invariant holds in every reachable state.
LEMMA InvHolds == Spec => []TxPathInv
<1>1. Init => TxPathInv
  BY TxPathAssumption DEF Init, TxPathInv, Shape, OnTheTip, BuildBegan, BelievedSoundly,
    CommittedIsAppliedHere, Answers, Clients, Idle, Stages
<1>2. TxPathInv /\ [Next]_vars => TxPathInv'
  BY StepInv
<1> QED
  BY <1>1, <1>2, PTL DEF Spec

\* A submitter told "committed" reads its write at home, for any mesh and any
\* traffic.
THEOREM CommittedHere == Spec => []CommittedIsAppliedHere
<1>1. TxPathInv => CommittedIsAppliedHere
  BY DEF TxPathInv
<1> QED
  BY <1>1, InvHolds, PTL

\* A submitter told "rejected", while all reads succeed, was overtaken by the
\* commit: what the home had committed when the verdict was formed is never
\* rejected.
THEOREM RejectionsOvertaken == Spec => RejectionOvertaken
<1>1. TxPathInv /\ [Next]_vars =>
        [\A t \in Txs : client'[t] = "rejected" /\ client[t] # "rejected" /\ sound' =>
           Overtaken(t)]_vars
  BY StepAnswers DEF GoodAnswers
<1> QED
  BY <1>1, InvHolds, PTL DEF Spec, RejectionOvertaken

\* The mesh implements the ledger: at most once, nothing after the seal, the
\* phases in order, one true answer each.
THEOREM MeshImplementsLedger == Spec => ImplementsLedger
<1> DEFINE told == [t \in Txs |-> IF client[t] \in Answers THEN client[t] ELSE "none"]
<1>1. Init => AbstractLedger!Init
  BY DEF Init, AbstractLedger!Init, Decided, PhaseAt, Tip, Answers
<1>2. TxPathInv /\ [Next]_vars => [AbstractLedger!Next]_AbstractLedger!vars
  <2> SUFFICES ASSUME TxPathInv, [Next]_vars
               PROVE  [AbstractLedger!Next]_AbstractLedger!vars
    OBVIOUS
  <2>1. ASSUME NEW n \in Nodes, Decide(n) PROVE [AbstractLedger!Next]_AbstractLedger!vars
    <3>1. /\ Decided(Tip)' = Decided(Tip) \cup proposal.txs
          /\ PhaseAt(Tip)' = PhaseAfter(proposal)
          /\ proposal.txs \cap Decided(Tip) = {}
          /\ proposal # None /\ client' = client
      BY <2>1, DecideEffect
    <3>2. proposal \in [by : Nodes, txs : SUBSET Txs, seal : BOOLEAN] /\ OnTheTip
      BY <3>1 DEF TxPathInv, Shape, Proposals
    <3>3. told' = told
      BY <3>1
    <3>4. CASE proposal.seal
      <4>1. PhaseAt(Tip) = "moratorium" /\ PhaseAt(Tip)' = "sealed" /\ Decided(Tip)' = Decided(Tip)
        BY <3>1, <3>2, <3>4 DEF OnTheTip, PhaseAfter
      <4>2. AbstractLedger!Seal
        BY <3>3, <4>1 DEF AbstractLedger!Seal
      <4> QED
        BY <4>2 DEF AbstractLedger!Next
    <3>5. CASE ~proposal.seal
      <4>1. AbstractLedger!Decide(proposal.txs)
        BY <3>1, <3>2, <3>3, <3>5 DEF AbstractLedger!Decide, OnTheTip, PhaseAfter
      <4>2. proposal.txs \in SUBSET Txs
        BY <3>2
      <4> QED
        BY <4>1, <4>2, Zenon DEF AbstractLedger!Next
    <3> QED
      BY <3>4, <3>5
  <2>2. CASE UNCHANGED chain
    <3>1. Decided(Tip)' = Decided(Tip) /\ PhaseAt(Tip)' = PhaseAt(Tip)
      BY <2>2 DEF Decided, PhaseAt, Tip
    <3>2. GoodAnswers /\ Shape /\ Shape'
      BY StepAnswers, StepInv DEF TxPathInv
    <3>3. told' \in [Txs -> AbstractLedger!Answers \cup {"none"}]
      BY <3>2 DEF AbstractLedger!Answers, Answers, Shape, Clients
    <3>4. ASSUME NEW t \in Txs, told'[t] # told[t]
          PROVE  told[t] = "none" /\ (told'[t] = "committed" => t \in Decided(Tip))
      <4>1. client'[t] # client[t]
        BY <3>4
      <4>2. client[t] \in {"new", "waiting"}
        BY <3>2, <4>1 DEF GoodAnswers
      <4>3. told[t] = "none"
        BY <4>2 DEF Answers
      <4>4. ASSUME told'[t] = "committed" PROVE t \in Decided(Tip)
        <5>1. client'[t] = "committed"
          BY <4>4 DEF Answers
        <5>2. t \in Decided(applied[Home[t]])'
          BY <3>2, <4>1, <5>1 DEF GoodAnswers
        <5>3. Decided(applied[Home[t]])' = Decided(applied'[Home[t]])
          BY <2>2 DEF Decided
        <5>4. applied'[Home[t]] \in Nat /\ Len(chain) \in Nat /\ applied'[Home[t]] <= Len(chain)
          BY <2>2, <3>2, TxPathAssumption DEF Shape
        <5> QED
          BY <5>2, <5>3, <5>4, DecidedGrows DEF Tip
      <4> QED
        BY <4>3, <4>4
    <3>5. AbstractLedger!Tell
      BY <3>1, <3>3, <3>4 DEF AbstractLedger!Tell
    <3> QED
      BY <3>5 DEF AbstractLedger!Next
  <2>3. UNCHANGED chain \/ \E n \in Nodes : Decide(n)
    BY StepKinds, Zenon DEF Build, BuildSeal, BuildEmpty, Apply, Take
  <2> QED
    BY <2>1, <2>2, <2>3
<1> QED
  BY <1>1, <1>2, InvHolds, PTL DEF Spec, ImplementsLedger, AbstractLedger!Spec

-----------------------------------------------------------------------------
(* The window of the nonce table *)

BlockType == [by : Voters, txs : SUBSET Nonces, clean : BOOLEAN, cutoff : Int,
              votes : SUBSET Voters]

\* No node would vote for t any more.
TooOld(t) == \A n \in Voters : Clock(n) - Created[t] > MaxAge

\* A decided transaction is in the table or too old for every node; what
\* anyone besides its proposer voted for was never decided; a cutoff lies an
\* hour behind its proposer.
WindowInv ==
  /\ now \in Nat
  /\ table \subseteq Nonces
  /\ commits \in [Nonces -> Nat]
  /\ \A t \in Nonces : \/ commits[t] = 0 /\ t \notin table
                       \/ commits[t] = 1 /\ (t \in table \/ TooOld(t))
  /\ block # NoBlock =>
       /\ block \in BlockType
       /\ block.votes # {block.by} => \A t \in block.txs : commits[t] = 0
       /\ block.cutoff <= Clock(block.by) - CleanupAge

\* The invariant is inductive.
LEMMA WindowStep ==
  ASSUME WindowTolerated, WindowInv, [WindowNext]_windowVars
  PROVE  WindowInv'
<1> USE DEF WindowTolerated, WindowInv, BlockType, TooOld, Clock
<1>1. CASE ClockTick
  BY <1>1 DEF ClockTick
<1>2. ASSUME NEW p \in Voters, NEW S \in SUBSET Nonces, NEW read \in BOOLEAN,
             NEW clean \in BOOLEAN, ProposeYoung(p, S, read, clean)
      PROVE  WindowInv'
  <2> DEFINE proposed == [by |-> p, txs |-> S, clean |-> clean,
                          cutoff |-> Cutoff(p), votes |-> {p}]
  <2>1. block' = proposed /\ UNCHANGED <<now, table, commits>>
    BY <1>2, Zenon DEF ProposeYoung
  <2>2. proposed.by = p /\ proposed.votes = {p} /\ proposed.cutoff = Cutoff(p)
    OBVIOUS
  <2>3. Cutoff(p) = now + Offset[p] - CleanupAge /\ Cutoff(p) \in Int
    BY DEF Cutoff
  <2>4. proposed \in BlockType
    BY <2>3
  <2> HIDE DEF proposed
  <2> QED
    BY <2>1, <2>2, <2>3, <2>4
<1>3. ASSUME NEW n \in Voters, VoteYoung(n) PROVE WindowInv'
  <2>1. block # NoBlock /\ block' = [block EXCEPT !.votes = @ \cup {n}]
        /\ UNCHANGED <<now, table, commits>>
    BY <1>3 DEF VoteYoung
  <2>2. block' \in BlockType /\ block'.txs = block.txs /\ block'.by = block.by
        /\ block'.cutoff = block.cutoff
    BY <2>1
  <2>3. \A t \in block.txs : t \notin table /\ now + Offset[n] - Created[t] <= MaxAge
    BY <1>3 DEF VoteYoung
  <2>4. \A t \in block.txs : t \in Nonces /\ Created[t] \in Int
    BY <2>1
  <2>5. ASSUME NEW t \in block.txs PROVE commits[t] = 0
    <3>1. ~TooOld(t)
      BY <2>3, <2>4
    <3> QED
      BY <2>3, <2>4, <3>1
  <2> QED
    BY <2>1, <2>2, <2>5
<1>4. CASE DecideBlock
  <2>1. PICK above \in SUBSET {t \in table : Created[t] = block.cutoff} :
          table' = block.txs \cup
            {t \in table : block.clean => Created[t] > block.cutoff \/ t \in above}
    BY <1>4, Zenon DEF DecideBlock
  <2>2. /\ block # NoBlock /\ block \in BlockType
        /\ block.cutoff <= now + Offset[block.by] - CleanupAge
        /\ block' = NoBlock /\ now' = now
        /\ commits' = [t \in Nonces |-> commits[t] + (IF t \in block.txs THEN 1 ELSE 0)]
        /\ Cardinality(block.votes) >= Quorum("auto", Cardinality(Voters))
    BY <1>4 DEF DecideBlock
  <2>3. block.votes # {block.by}
    <3>1. Cardinality(Voters) \in Nat
      BY FS_CardinalityType
    <3>2. Quorum("auto", Cardinality(Voters)) >= 2
      BY <3>1, QuorumOutnumbersProposer
    <3>3. Cardinality({block.by}) = 1
      BY FS_Singleton, Zenon
    <3>4. SUFFICES ASSUME block.votes = {block.by} PROVE FALSE
      OBVIOUS
    <3>5. 1 >= Quorum("auto", Cardinality(Voters))
      BY <2>2, <3>3, <3>4
    <3>6. Quorum("auto", Cardinality(Voters)) \in Int
      BY <3>1, SMT DEF Quorum, ProfileAt, VBft
    <3> QED
      BY <3>2, <3>5, <3>6
  <2>4. \A t \in block.txs : commits[t] = 0
    BY <2>2, <2>3
  <2>5. ASSUME NEW t \in Nonces
        PROVE  \/ commits'[t] = 0 /\ t \notin table'
               \/ commits'[t] = 1 /\ (t \in table' \/ TooOld(t)')
    <3>1. CASE t \in block.txs
      BY <2>1, <2>2, <2>4, <3>1
    <3>2. CASE t \notin block.txs /\ t \in table /\ Created[t] <= block.cutoff
      <4>1. ASSUME NEW n \in Voters PROVE now + Offset[n] - Created[t] > MaxAge
        <5>1. block.by \in Voters /\ block.cutoff \in Int
          BY <2>2
        <5>2. Offset[block.by] - Offset[n] < CleanupAge - MaxAge
          BY <5>1
        <5>3. Offset[block.by] \in Int /\ Offset[n] \in Int /\ Created[t] \in Int
          BY <5>1
        <5> QED
          BY <2>2, <3>2, <5>1, <5>2, <5>3
      <4>2. TooOld(t)'
        BY <2>2, <4>1
      <4> QED
        BY <2>1, <2>2, <3>2, <4>2
    <3>3. CASE t \notin block.txs /\ t \in table /\ ~(Created[t] <= block.cutoff)
      <4>1. Created[t] > block.cutoff
        BY <2>2, <3>3
      <4> QED
        BY <2>1, <2>2, <3>3, <4>1
    <3>4. CASE t \notin block.txs /\ t \notin table
      BY <2>1, <2>2, <3>4
    <3> QED
      BY <3>1, <3>2, <3>3, <3>4
  <2>6. table' \subseteq Nonces /\ commits' \in [Nonces -> Nat]
    BY <2>1, <2>2
  <2> QED
    BY <2>2, <2>5, <2>6
<1>5. CASE AbandonBlock
  BY <1>5 DEF AbandonBlock
<1>6. CASE UNCHANGED windowVars
  BY <1>6 DEF windowVars
<1> HIDE DEF WindowInv
<1> QED
  BY <1>1, <1>2, <1>3, <1>4, <1>5, <1>6, Zenon DEF WindowNext

\* No transaction is decided twice, for any mesh of two nodes or more whose
\* clocks differ by less than the gap between MAX_TRANSACTION_AGE and the
\* cleanup's hour.
THEOREM WindowDecidesOnce ==
  ASSUME WindowTolerated
  PROVE  WindowSpec => []DecidedOnce
<1>1. WindowInit => WindowInv
  BY DEF WindowInit, WindowInv
<1>2. WindowInv /\ [WindowNext]_windowVars => WindowInv'
  BY WindowStep
<1>3. WindowInv => DecidedOnce
  BY DEF WindowInv, DecidedOnce
<1> QED
  BY <1>1, <1>2, <1>3, PTL DEF WindowSpec
=============================================================================
