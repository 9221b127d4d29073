------------------------ MODULE ConsensusHostProofs ------------------------
(***************************************************************************)
(* The inputs of a running host preserve the invariant of HostLogProofs:   *)
(* an input's rows are pending in its effects before they are in the log,  *)
(* and Full, the log with the pending rows, is what the engine follows.    *)
(* The theorems for ConsensusHost follow.                                  *)
(***************************************************************************)
EXTENDS HostLogProofs

-----------------------------------------------------------------------------
(* Taking an input: its rows follow the rows S of the height, from number n *)

\* q is the answer, and its rows are well formed behind S.
Live(q, n, S) == Answer(q, S \cup PendOf(n, q.fx)) /\ RowsOK(S \cup PendOf(n, q.fx))

\* The row of the vote that the engine has cast
LEMMA VoteRow ==
    ASSUME NEW e \in EngT, e.vote # "none", NEW S, EngOK(e, S), RowsOK(S), NEW y,
           Behind(S, y), y.item = VoteItem(e)
    PROVE  EngOK(e, S \cup {y}) /\ RowsOK(S \cup {y})
<1>1. y.item.kind = "vote" /\ y.item.round = e.round /\ y.item.value = e.vote
  BY VoteItemType, Zenon
<1>2. y.item.kind # "skip" /\ y.item.kind # "value" /\ y.item.kind # "quorum"
  BY <1>1
<1>3. VoteOK(S \cup {y}, e.round, e.vote)
  BY <1>2, VoteStays, Zenon DEF EngOK
<1>4. ValsOK(S \cup {y}, e.values)
  BY <1>2, ValsStay, Zenon DEF EngOK
<1>5. ~e.done => OpenOK(S \cup {y}, e) /\ ~(e.quorum /\ Holds(e, Chosen[e.height]))
  BY <1>2, Zenon DEF EngOK, OpenOK
<1>6. Timely(S, y.item)
  BY <1>1 DEF Timely, EngOK, VoteOK
<1>7. \A z \in S : ~SameValue(y, z)
  BY <1>2, Zenon DEF SameValue
<1>8. RowsOK(S \cup {y})
  BY <1>6, <1>7, RowsAppend, Zenon
<1> QED BY <1>3, <1>4, <1>5, <1>8, Zenon DEF EngOK

\* A logged input, and the vote it leads to
LEMMA LiveOK ==
    ASSUME NEW S, RowsOK(S), NEW n \in Nat, \A u \in S : u.seq < n, NEW i \in ItemT,
           Timely(S, i), \A z \in S : ~SameValue(Row(n, i), z),
           NEW q, Outcome(q, i, S \cup {Row(n, i)})
    PROVE  Live(q, n, S) /\ Row(n, i) \in PendOf(n, q.fx)
<1> DEFINE x == Row(n, i)
           S1 == S \cup {x}
           P == PendOf(n, q.fx)
<1>0. S \subseteq RowT
  BY Zenon DEF RowsOK
<1>1. Behind(S, x) /\ (\A u \in S1 : u.seq < n + 1) /\ x.item = i
  BY <1>0, NextBehind, RowType, Zenon
<1>2. RowsOK(S1)
  BY <1>1, RowsAppend, Zenon
<1>3. Answer(q, S1) /\ q.eng \in EngT /\ EngOK(q.eng, S1)
  BY Zenon DEF Outcome, Answer
<1> HIDE DEF x
<1>4. CASE P = {x}
  <2>1. S \cup P = S1
    BY <1>4, Zenon
  <2> QED BY <1>2, <1>3, <1>4, <2>1, Zenon DEF Live, x
<1>5. CASE P # {x}
  <2> DEFINE y == Row(n + 1, VoteItem(q.eng))
  <2>1. q.eng.vote # "none" /\ P = {x} \cup {y}
    BY <1>5, Zenon DEF Outcome, x
  <2>2. S1 \subseteq RowT /\ n + 1 \in Nat
    BY <1>2, SMT DEF RowsOK
  <2>3. VoteItem(q.eng) \in ItemT
    BY <1>3, VoteItemType, Zenon
  <2>4. Behind(S1, y) /\ y.item = VoteItem(q.eng)
    BY <1>1, <2>2, <2>3, NextBehind, RowType, Zenon
  <2> HIDE DEF y
  <2>5. EngOK(q.eng, S1 \cup {y}) /\ RowsOK(S1 \cup {y})
    BY <1>2, <1>3, <2>1, <2>4, VoteRow, Zenon
  <2>6. S \cup P = S1 \cup {y}
    BY <2>1, Zenon
  <2>7. Answer(q, S \cup P)
    BY <1>3, <2>5, <2>6, Zenon DEF Answer
  <2> QED BY <2>1, <2>5, <2>6, <2>7, Zenon DEF Live, x
<1> QED BY <1>4, <1>5

\* An input that the engine ignores
LEMMA LiveIgnore ==
    ASSUME NEW e, NEW n, NEW S, Ready(e, n, S)
    PROVE  Live(Ignore(e), n, S)
<1>1. PendOf(n, Ignore(e).fx) = {}
  <2>1. Ignore(e).fx = <<>>
    BY DEF Ignore
  <2> QED BY <2>1, PendEmpty, Zenon
<1>2. S \cup PendOf(n, Ignore(e).fx) = S
  BY <1>1, Zenon
<1>3. Answer(Ignore(e), S)
  BY IgnoreAnswer, Zenon DEF Ready
<1> QED BY <1>2, <1>3, Zenon DEF Live, Ready

\* q takes a proposal of round r and value v, or has it already.
Ingested(q, e, n, S, r, v) ==
    /\ Live(q, n, S) /\ q.eng.height = e.height /\ q.eng.round = e.round /\ KeepsVote(q, e)
    /\ e.values \subseteq q.eng.values
    /\ \A x \in q.eng.values : x \in e.values \/ x.value = v
    /\ \E w \in S \cup PendOf(n, q.fx) : w.item.kind = "value" /\ w.item.round = r

\* A proposal, live
LEMMA LiveValue ==
    ASSUME NEW e, NEW n, NEW S, Ready(e, n, S), NEW r \in Nat, NEW v \in Values,
           NEW ok \in BOOLEAN, ~Contention => ok, <<e.height, r>> \in Mine => r = e.round
    PROVE  Ingested(OnValue(e, r, v, ok), e, n, S, r, v)
<1>0. /\ e \in EngT /\ ~e.done /\ e.height \in Heights /\ EngOK(e, S) /\ RowsOK(S)
      /\ n \in Nat /\ \A u \in S : u.seq < n
  BY Zenon DEF Ready
<1> DEFINE q == OnValue(e, r, v, ok)
<1>1. CASE ~Unheld(e, r, v)
  <2>1. q = Ignore(e)
    BY <1>1, Zenon DEF OnValue, Unheld
  <2>2. q.eng = e
    BY <2>1 DEF Ignore
  <2>3. PICK y \in e.values : y.round = r /\ y.value = v
    BY <1>1, Zenon DEF Unheld
  <2>4. y.round # -1
    BY <2>3
  <2>5. PICK w \in S : w.item.kind = "value" /\ y = Held(w.item)
    BY <1>0, <2>4, Zenon DEF EngOK, ValsOK
  <2>6. w.item.round = r
    BY <2>3, <2>5 DEF Held
  <2>7. Live(q, n, S)
    BY <2>1, LiveIgnore, Zenon
  <2> HIDE DEF q
  <2> QED BY <2>2, <2>5, <2>6, <2>7, Zenon DEF Ingested, KeepsVote, q
<1>2. CASE Unheld(e, r, v)
  <2> DEFINE i == Item("value", e.height, r, v, ok)
             x == Row(n, i)
  <2>1. /\ i \in ItemT /\ i.kind = "value" /\ i.round = r /\ i.value = v /\ i.ok = ok
        /\ i.height = e.height
    <3>1. e.height \in Nat /\ v \in Votable
      BY <1>0 DEF EngT, Votable
    <3>2. "value" \in Kinds
      BY Zenon DEF Kinds
    <3> QED BY <3>1, <3>2, SMTT(60) DEF Item, ItemT
  <2> HIDE DEF i
  <2>2. x \in RowT /\ x.item = i /\ Behind(S, x)
    <3>1. S \subseteq RowT
      BY <1>0, Zenon DEF RowsOK
    <3> QED BY <1>0, <2>1, <3>1, RowType, NextBehind, Zenon
  <2>3. ValueRow(x, e.height, r, v, ok)
    BY <2>2, Zenon DEF ValueRow, i
  <2> HIDE DEF x
  <2>4. Took(q, e, S, x)
    <3> HIDE DEF q
    <3> QED BY <1>0, <1>2, <2>2, <2>3, ValueOK, Zenon DEF q
  <2> HIDE DEF q
  <2>5. Timely(S, i)
    <3>1. RoundOf(S, e.round)
      BY <1>0, Zenon DEF EngOK, VoteOK
    <3> QED BY <2>1, <3>1, SMT DEF Timely
  <2>6. \A z \in S : ~SameValue(x, z)
    <3> SUFFICES ASSUME NEW z \in S, SameValue(x, z) PROVE FALSE
      OBVIOUS
    <3>1. z.item.kind = "value" /\ z.item.round = r /\ z.item.value = v
      BY <2>1, <2>2, Zenon DEF SameValue
    <3>2. Held(z.item) \in e.values
      BY <1>0, <3>1, Zenon DEF EngOK, ValsOK
    <3>3. Held(z.item).round = r /\ Held(z.item).value = v
      BY <3>1 DEF Held
    <3> QED BY <1>2, <3>2, <3>3, Zenon DEF Unheld
  <2>7. Outcome(q, i, S \cup {x})
    BY <2>2, <2>4, Zenon DEF Took
  <2>8. Live(q, n, S) /\ x \in PendOf(n, q.fx)
    BY <1>0, <2>1, <2>5, <2>6, <2>7, LiveOK, Zenon DEF x
  <2>9. Held(x.item).value = v
    BY <2>1, <2>2 DEF Held
  <2>10. /\ q.eng.height = e.height /\ q.eng.round = e.round /\ KeepsVote(q, e)
         /\ q.eng.values = e.values \cup {Held(x.item)}
    BY <2>4, Zenon DEF Took
  <2>11. \A y \in q.eng.values : y \in e.values \/ y.value = v
    BY <2>9, <2>10, Zenon
  <2>13. e.values \subseteq q.eng.values
    BY <2>10, Zenon
  <2>12. x.item.kind = "value" /\ x.item.round = r
    BY <2>1, <2>2, Zenon
  <2> QED BY <2>8, <2>10, <2>11, <2>12, <2>13, Zenon DEF Ingested, q
<1> QED BY <1>1, <1>2

\* q changes nothing but the quorum, the vote and what follows.
Stayed(q, e, n, S) ==
    /\ Live(q, n, S) /\ q.eng.height = e.height /\ q.eng.round = e.round /\ KeepsVote(q, e)
    /\ q.eng.values = e.values

\* An engine that ignores its input stays.
LEMMA StayedIgnore ==
    ASSUME NEW e, NEW n, NEW S, Ready(e, n, S)
    PROVE  Stayed(Ignore(e), e, n, S)
<1>1. Ignore(e).eng = e
  BY DEF Ignore
<1> QED BY <1>1, LiveIgnore, Zenon DEF Stayed, KeepsVote

\* A quorum of votes, live
LEMMA LiveQuorum ==
    ASSUME NEW e, NEW n, NEW S, Ready(e, n, S)
    PROVE  Stayed(OnQuorum(e), e, n, S)
<1>0. /\ e \in EngT /\ ~e.done /\ e.height \in Heights /\ EngOK(e, S) /\ RowsOK(S)
      /\ n \in Nat /\ \A u \in S : u.seq < n
  BY Zenon DEF Ready
<1> DEFINE q == OnQuorum(e)
<1>1. CASE e.quorum
  <2>1. q = Ignore(e)
    BY <1>1, Zenon DEF OnQuorum
  <2> QED BY <2>1, StayedIgnore, Zenon
<1>2. CASE ~e.quorum
  <2> DEFINE i == Item("quorum", e.height, 0, "none", TRUE)
             x == Row(n, i)
  <2>1. i \in ItemT /\ i.kind = "quorum"
    <3>1. e.height \in Nat /\ 0 \in Nat
      BY <1>0 DEF EngT
    <3>2. "quorum" \in Kinds /\ "none" \in Votable /\ TRUE \in BOOLEAN
      BY Zenon DEF Kinds, Votable
    <3> QED BY <3>1, <3>2, SMTT(60) DEF Item, ItemT
  <2> HIDE DEF i
  <2>2. x.item = i /\ Behind(S, x) /\ x.item.kind = "quorum"
    <3>1. S \subseteq RowT
      BY <1>0, Zenon DEF RowsOK
    <3> QED BY <1>0, <2>1, <3>1, RowType, NextBehind, Zenon
  <2>3. /\ Outcome(q, i, S \cup {x})
        /\ q.eng.height = e.height /\ q.eng.round = e.round /\ q.eng.values = e.values
        /\ KeepsVote(q, e)
    BY <1>0, <1>2, <2>2, QuorumOK, Zenon DEF i
  <2> HIDE DEF q
  <2>4. Timely(S, i)
    BY <2>1 DEF Timely
  <2>5. \A z \in S : ~SameValue(x, z)
    BY <2>1, <2>2 DEF SameValue
  <2>6. Live(q, n, S)
    BY <1>0, <2>1, <2>3, <2>4, <2>5, LiveOK, Zenon
  <2> QED BY <2>3, <2>6, Zenon DEF Stayed, q
<1> QED BY <1>1, <1>2

\* A propose timeout, live
LEMMA LiveExpire ==
    ASSUME NEW e, NEW n, NEW S, Ready(e, n, S)
    PROVE  Stayed(OnProposeTimeout(e), e, n, S)
<1>0. /\ e \in EngT /\ ~e.done /\ e.height \in Heights /\ EngOK(e, S) /\ RowsOK(S)
      /\ n \in Nat /\ \A u \in S : u.seq < n
  BY Zenon DEF Ready
<1> DEFINE q == OnProposeTimeout(e)
           i == Item("expire", e.height, e.round, "none", TRUE)
           x == Row(n, i)
<1>1. i \in ItemT /\ i.kind = "expire" /\ i.round = e.round
  <2>1. e.height \in Nat /\ e.round \in Nat
    BY <1>0 DEF EngT
  <2>2. "expire" \in Kinds /\ "none" \in Votable /\ TRUE \in BOOLEAN
    BY Zenon DEF Kinds, Votable
  <2> QED BY <2>1, <2>2, SMTT(60) DEF Item, ItemT
<1> HIDE DEF i
<1>2. x.item = i /\ Behind(S, x) /\ x.item.kind = "expire" /\ x.item.round = e.round
  <2>1. S \subseteq RowT
    BY <1>0, Zenon DEF RowsOK
  <2> QED BY <1>0, <1>1, <2>1, RowType, NextBehind, Zenon
<1>3. /\ Outcome(q, i, S \cup {x})
      /\ q.eng.height = e.height /\ q.eng.round = e.round /\ q.eng.values = e.values
      /\ KeepsVote(q, e)
  BY <1>0, <1>2, ExpireOK, Zenon DEF i
<1> HIDE DEF q
<1>4. Timely(S, i)
  <2>1. RoundOf(S, e.round)
    BY <1>0, Zenon DEF EngOK, VoteOK
  <2> QED BY <1>1, <2>1, SMT DEF Timely
<1>5. \A z \in S : ~SameValue(x, z)
  BY <1>1, <1>2 DEF SameValue
<1>6. Live(q, n, S)
  BY <1>0, <1>1, <1>3, <1>4, <1>5, LiveOK, Zenon
<1> QED BY <1>3, <1>6, Zenon DEF Stayed, q

\* A round's end, live
LEMMA LiveSkip ==
    ASSUME NEW e, NEW n, NEW S, Ready(e, n, S)
    PROVE  LET q == OnRoundTimeout(e) IN
           /\ Live(q, n, S) /\ q.eng.height = e.height /\ q.eng.round = e.round + 1
           /\ q.eng.values = e.values
<1>0. /\ e \in EngT /\ ~e.done /\ e.height \in Heights /\ EngOK(e, S) /\ RowsOK(S)
      /\ n \in Nat /\ \A u \in S : u.seq < n
  BY Zenon DEF Ready
<1> DEFINE q == OnRoundTimeout(e)
           i == Item("skip", e.height, e.round, "none", TRUE)
           x == Row(n, i)
<1>1. i \in ItemT /\ i.kind = "skip" /\ i.round = e.round
  <2>1. e.height \in Nat /\ e.round \in Nat
    BY <1>0 DEF EngT
  <2>2. "skip" \in Kinds /\ "none" \in Votable /\ TRUE \in BOOLEAN
    BY Zenon DEF Kinds, Votable
  <2> QED BY <2>1, <2>2, SMTT(60) DEF Item, ItemT
<1> HIDE DEF i
<1>2. x.item = i /\ Behind(S, x) /\ x.item.kind = "skip" /\ x.item.round = e.round
  <2>1. S \subseteq RowT
    BY <1>0, Zenon DEF RowsOK
  <2> QED BY <1>0, <1>1, <2>1, RowType, NextBehind, Zenon
<1>3. /\ Outcome(q, i, S \cup {x})
      /\ q.eng.height = e.height /\ q.eng.round = e.round + 1 /\ q.eng.values = e.values
  BY <1>0, <1>2, SkipOK, Zenon DEF i
<1> HIDE DEF q
<1>4. Timely(S, i)
  <2>1. RoundOf(S, e.round)
    BY <1>0, Zenon DEF EngOK, VoteOK
  <2> QED BY <1>1, <2>1, SMT DEF Timely
<1>5. \A z \in S : ~SameValue(x, z)
  BY <1>1, <1>2 DEF SameValue
<1>6. Live(q, n, S)
  BY <1>0, <1>1, <1>3, <1>4, <1>5, LiveOK, Zenon
<1> QED BY <1>3, <1>6, Zenon DEF q

\* A polka certificate, live
LEMMA LivePolka ==
    ASSUME NEW e, NEW n, NEW S, Ready(e, n, S), NEW v \in Values
    PROVE  Stayed(OnPolka(e, v), e, n, S)
<1>0. /\ e \in EngT /\ ~e.done /\ e.height \in Heights /\ EngOK(e, S) /\ RowsOK(S)
      /\ n \in Nat /\ \A u \in S : u.seq < n
  BY Zenon DEF Ready
<1> DEFINE q == OnPolka(e, v)
<1>1. CASE ~Holds(e, v) \/ e.vote # "none"
  <2>1. q = Ignore(e)
    BY <1>1, Zenon DEF OnPolka, Cast
  <2> QED BY <2>1, StayedIgnore, Zenon
<1>2. CASE Holds(e, v) /\ e.vote = "none"
  <2>1. q = Cast(e, v) /\ q.fx # <<>>
    <3>1. q = Cast(e, v)
      BY <1>2, Zenon DEF OnPolka
    <3>2. Cast(e, v).fx # <<>>
      BY <1>0, <1>2 DEF Cast
    <3> QED BY <3>1, <3>2, Zenon
  <2>2. v \in Votable /\ v # "none"
    BY HostAssumption DEF Votable
  <2>3. CastFx(q) /\ Becomes(e, q.eng, e.round, v, e.values, e.quorum, e.done)
    BY <1>0, <1>2, <2>1, <2>2, CastOK, Zenon
  <2> HIDE DEF q
  <2>4. /\ q.eng \in EngT /\ q.eng.height = e.height /\ q.eng.round = e.round /\ q.eng.vote = v
        /\ q.eng.values = e.values /\ q.eng.quorum = e.quorum /\ ~q.eng.done
    BY <1>0, <2>3, Zenon DEF Becomes
  <2> DEFINE i == VoteItem(q.eng)
             x == Row(n, i)
  <2>5. /\ i \in ItemT /\ i.kind = "vote" /\ i.round = e.round /\ i.value = v
    BY <2>4, VoteItemType, Zenon
  <2> HIDE DEF i
  <2>6. x.item = i /\ Behind(S, x)
    <3>1. S \subseteq RowT
      BY <1>0, Zenon DEF RowsOK
    <3> QED BY <1>0, <2>5, <3>1, RowType, NextBehind, Zenon
  <2>7. /\ FxOK(q.fx, q.eng) /\ ~Has(q.fx, "gossip") /\ PendOf(n, q.fx) = {x}
    BY <1>0, <2>1, <2>3, <2>4, CastFxOK, Zenon DEF i
  <2> HIDE DEF x
  <2>8. VoteOf(i) = v
    BY <2>5, Zenon DEF VoteOf
  <2>9. VoteOK(S \cup {x}, e.round, v)
    <3>1. VoteOK(S, e.round, "none")
      BY <1>0, <1>2, Zenon DEF EngOK
    <3>2. /\ x.item.kind \in {"vote", "expire", "value"} /\ x.item.round = e.round
          /\ VoteOf(x.item) # "none"
      BY <2>2, <2>5, <2>6, <2>8, Zenon
    <3>3. VoteOK(S \cup {x}, e.round, VoteOf(x.item))
      BY <2>6, <3>1, <3>2, VoteMade, ZenonT(60)
    <3> QED BY <2>6, <2>8, <3>3, Zenon
  <2>10. EngOK(q.eng, S \cup {x})
    <3>1. x.item.kind = "vote" \/ (x.item.kind = "quorum" /\ e.quorum)
      BY <2>5, <2>6, Zenon
    <3>2. Becomes(e, q.eng, e.round, v, e.values, e.quorum, e.done)
      BY <2>3, Zenon
    <3> QED BY <1>0, <2>2, <2>9, <3>1, <3>2, IgnoredOK, ZenonT(60)
  <2>11. RowsOK(S \cup {x})
    <3>1. RoundOf(S, e.round)
      BY <1>0, Zenon DEF EngOK, VoteOK
    <3>2. Timely(S, x.item)
      BY <2>2, <2>5, <2>6, <3>1, SMT DEF Timely
    <3>3. \A z \in S : ~SameValue(x, z)
      BY <2>5, <2>6 DEF SameValue
    <3> QED BY <1>0, <2>6, <3>2, <3>3, RowsAppend, Zenon
  <2>12. Live(q, n, S)
    BY <2>4, <2>7, <2>10, <2>11, Zenon DEF Live, Answer
  <2> QED BY <1>2, <2>4, <2>12, Zenon DEF Stayed, KeepsVote, q
<1> QED BY <1>1, <1>2

\* q takes a sync value v, or leaves it.
Synced(q, e, n, S, v) ==
    /\ Live(q, n, S) /\ q.eng.height = e.height /\ q.eng.round = e.round /\ KeepsVote(q, e)
    /\ e.values \subseteq q.eng.values
    /\ \A x \in q.eng.values : x \in e.values \/ x.value = v

\* A value from sync, live
LEMMA LiveSync ==
    ASSUME NEW e, NEW n, NEW S, Ready(e, n, S), NEW ok \in BOOLEAN
    PROVE  Synced(OnSync(e, Chosen[e.height], ok), e, n, S, Chosen[e.height])
<1>0. /\ e \in EngT /\ ~e.done /\ e.height \in Heights /\ EngOK(e, S) /\ RowsOK(S)
      /\ n \in Nat /\ \A u \in S : u.seq < n
  BY Zenon DEF Ready
<1> DEFINE v == Chosen[e.height]
           q == OnSync(e, v, ok)
<1>1. CASE ~ok
  <2>1. q = Ignore(e)
    BY <1>1, Zenon DEF OnSync
  <2>2. q.eng = e
    BY <2>1 DEF Ignore
  <2>3. Live(q, n, S)
    BY <2>1, LiveIgnore, Zenon
  <2> QED BY <2>2, <2>3, Zenon DEF Synced, KeepsVote
<1>2. CASE ok
  <2> DEFINE x == [round |-> -1, value |-> v, ok |-> TRUE]
             e1 == [e EXCEPT !.values = @ \cup {x}, !.quorum = TRUE]
             e2 == [e1 EXCEPT !.done = TRUE]
             d == Effect("decide", DecideItem(e))
  <2>1. v \in Values
    BY <1>0, HostAssumption
  <2>2. TRUE \in BOOLEAN
    BY Zenon
  <2>3. x \in HeldT /\ x.round = -1 /\ x.value = v /\ x.ok = TRUE
    BY <2>1, <2>2 DEF HeldT
  <2> HIDE DEF x
  <2>4. Becomes(e, e1, e.round, e.vote, e.values \cup {x}, TRUE, e.done)
    <3>1. e1 \in EngT
      BY <1>0, <2>2, <2>3 DEF EngT
    <3> QED BY <1>0, <3>1 DEF Becomes, EngT
  <2> HIDE DEF e1
  <2>5. e1 \in EngT
    BY <2>4, Zenon DEF Becomes
  <2>6. Becomes(e1, e2, e1.round, e1.vote, e1.values, e1.quorum, TRUE)
    BY <2>5, EngUpdates, Zenon
  <2> HIDE DEF e2
  <2>7. /\ e2 \in EngT /\ e2.height = e.height /\ e2.round = e.round /\ e2.vote = e.vote
        /\ e2.values = e.values \cup {x} /\ e2.quorum = TRUE /\ e2.done = TRUE
    BY <2>4, <2>6, Zenon DEF Becomes
  <2>8. Holds(e1, v) /\ Holds(e2, v)
    BY <2>3, <2>4, <2>7, Zenon DEF Holds, Becomes
  <2>9. q.eng = e2 /\ q.fx = Append(<<>>, d)
    <3>1. Ignore(e1).eng = e1 /\ Ignore(e1).fx = <<>>
      BY DEF Ignore
    <3>2. e1.quorum /\ ~e1.done /\ e1.height = e.height
      BY <1>0, <2>4, Zenon DEF Becomes
    <3>3. q = Settle(Ignore(e1))
      BY <1>2, Zenon DEF OnSync, e1, x
    <3>4. /\ Settle(Ignore(e1)).eng = [Ignore(e1).eng EXCEPT !.done = TRUE]
          /\ Settle(Ignore(e1)).fx = Append(Ignore(e1).fx,
               Effect("decide", Item("decide", Ignore(e1).eng.height, 0,
                                     Chosen[Ignore(e1).eng.height], TRUE)))
      <4> HIDE DEF v
      <4>1. Holds(Ignore(e1).eng, Chosen[Ignore(e1).eng.height])
        BY <2>8, <3>1, <3>2, Zenon DEF v
      <4>2. Ignore(e1).eng.quorum /\ ~Ignore(e1).eng.done
        BY <3>1, <3>2, Zenon
      <4> QED BY <4>1, <4>2, Zenon DEF Settle
    <3> HIDE DEF q
    <3> QED BY <3>1, <3>2, <3>3, <3>4, Zenon DEF e2, DecideItem
  <2> HIDE DEF q
  <2>10. d \in EffT /\ d.op = "decide" /\ d.item = DecideItem(e) /\ DecideItem(e2) = DecideItem(e)
    <3>1. DecideItem(e) \in ItemT
      BY <1>0, DecideItemType, Zenon
    <3>2. DecideItem(e2) = DecideItem(e)
      BY <2>7, Zenon DEF DecideItem
    <3> QED BY <3>1, <3>2, EffFields, Zenon
  <2> HIDE DEF d
  <2>11. FxOK(<<>>, e) /\ ~Has(<<>>, "gossip") /\ ~Has(<<>>, "decide") /\ <<>> \in Seq(EffT)
    BY FxEmpty DEF Has
  <2>12. FxOK(q.fx, e2)
    <3>1. d.op = "decide" /\ ~Has(<<>>, "decide") /\ e2.done /\ Holds(e2, Chosen[e2.height])
      BY <2>7, <2>8, <2>10, <2>11, Zenon
    <3> QED BY <2>7, <2>9, <2>10, <2>11, <3>1, FxAppend, Zenon
  <2>13. Has(q.fx, "decide") /\ ~Has(q.fx, "gossip")
    BY <2>9, <2>10, <2>11, HasAppend
  <2>14. S \cup PendOf(n, q.fx) = S
    <3>1. d.op # "wal"
      BY <2>10
    <3>2. PendOf(n, q.fx) = {}
      BY <1>0, <2>9, <2>10, <2>11, <3>1, PendAppend, PendEmpty, Zenon
    <3> QED BY <3>2, Zenon
  <2>15. EngOK(e2, S)
    <3>1. VoteOK(S, e.round, e.vote) /\ ValsOK(S, e.values)
      BY <1>0, Zenon DEF EngOK
    <3>2. ValsOK(S, e.values \cup {x})
      BY <2>3, <3>1, Zenon DEF ValsOK
    <3> QED BY <2>7, <3>1, <3>2, Zenon DEF EngOK
  <2>16. Live(q, n, S)
    BY <1>0, <2>7, <2>9, <2>12, <2>13, <2>14, <2>15, Zenon DEF Live, Answer
  <2>17. \A y \in q.eng.values : y \in e.values \/ y.value = v
    BY <2>3, <2>7, <2>9, Zenon
  <2>18. e.values \subseteq q.eng.values
    BY <2>7, <2>9, Zenon
  <2> QED BY <2>7, <2>9, <2>16, <2>17, <2>18, Zenon DEF Synced, KeepsVote, q
<1> QED BY <1>1, <1>2

-----------------------------------------------------------------------------
(* Answers of the running engine and of a closed one *)

\* A running engine's answer keeps it running.
LEMMA StillRunning ==
    ASSUME Running, UNCHANGED <<chain, wal, mode, walSeq, deferred, replay>>,
           eng'.height = eng.height, FxOK(fx', eng'), eng'.done => Has(fx', "decide"),
           RowsOK(LogRows \cup PendOf(walSeq, fx')), EngOK(eng', LogRows \cup PendOf(walSeq, fx')),
           \A x \in eng'.values : <<eng.height, x.value>> \in blocks'
    PROVE  Running'
<1>1. LogRows' = LogRows /\ Last' = Last /\ (Sealed' <=> Sealed)
  BY LogSame
<1>2. Working'
  BY <1>1, Zenon DEF Running, Working
<1>3. Full' = LogRows \cup PendOf(walSeq, fx')
  BY <1>1, Zenon DEF Full
<1> QED BY <1>2, <1>3, Zenon DEF Running

\* The value this node owes its round is owed no more than before.
LEMMA OwedLess ==
    ASSUME eng'.height = eng.height, eng'.round = eng.round, eng.vote # "none" => eng'.vote # "none",
           eng.values \subseteq eng'.values, eng.done => eng'.done
    PROVE  Owed' \subseteq Owed
  BY Zenon DEF Owed, Asks

\* An answer q of the running engine that stays in its round
LEMMA Answered ==
    ASSUME HInv, Running, fx = <<>>, NEW q, Live(q, walSeq, LogRows),
           q.eng.height = eng.height, q.eng.round = eng.round, KeepsVote(q, eng),
           eng.values \subseteq q.eng.values,
           \A x \in q.eng.values : <<eng.height, x.value>> \in blocks',
           eng' = q.eng, fx' = q.fx,
           UNCHANGED <<chain, wal, votes, props, mode, walSeq, deferred, replay, needs, asked>>,
           todo' \in Seq(ItemT), stash' \subseteq ItemT, Queue'
    PROVE  HInv'
<1>0. Types /\ NeedsOK /\ Asked
  BY DEF HInv
<1>1. /\ eng' \in EngT /\ FxOK(fx', eng') /\ ~Has(fx', "gossip") /\ (eng'.done => Has(fx', "decide"))
      /\ RowsOK(LogRows \cup PendOf(walSeq, fx')) /\ EngOK(eng', LogRows \cup PendOf(walSeq, fx'))
  BY Zenon DEF Live, Answer
<1>2. Running'
  BY <1>1, StillRunning, Zenon
<1>3. Types'
  BY <1>0, <1>1, Zenon DEF Types, FxOK
<1>4. NeedsOK'
  <2>1. Last' = Last
    BY LogSame
  <2> QED BY <1>0, <1>2, <2>1, Zenon DEF NeedsOK
<1>5. GossipOK'
  BY <1>1, Zenon DEF GossipOK, Has
<1>6. Asked'
  <2>1. ~eng.done
    BY <1>0, RunReady, Zenon
  <2>2. eng.vote # "none" => eng'.vote # "none"
    BY Zenon DEF KeepsVote
  <2>3. Owed' \subseteq Owed
    BY <2>1, <2>2, OwedLess, Zenon
  <2> QED BY <1>0, <2>3, Zenon DEF Asked
<1> QED BY <1>2, <1>3, <1>4, <1>5, <1>6, Rest, Zenon DEF Phase

\* A closed engine only logs what comes late.
LEMMA Late ==
    ASSUME HInv, Closed, mode = "run", eng' \in EngT, eng'.done, eng'.height = eng.height,
           fx' \in Seq(EffT), FxOK(fx', eng'), ~Has(fx', "publish"), ~Has(fx', "decide"),
           \A i \in 1 .. Len(fx') : fx'[i].op = "wal" => fx'[i].item.kind = "value",
           UNCHANGED <<chain, wal, votes, props, mode, walSeq, deferred, replay, asked>>,
           todo' \in Seq(ItemT), stash' \subseteq ItemT, needs' \subseteq Mine
    PROVE  Closed' /\ Types' /\ Asked'
<1>0. Types
  BY DEF HInv
<1>1. LogRows' = LogRows /\ Last' = Last /\ Rows(Last)' = Rows(Last)
  BY LogSame
<1>2. Closed'
  BY <1>1, Zenon DEF Closed
<1>3. Types'
  BY <1>0, Zenon DEF Types
<1>4. Owed' = {}
  BY DEF Owed, Asks
<1>5. Asked'
  BY <1>4, Zenon DEF Asked
<1> QED BY <1>2, <1>3, <1>5

\* A step that leaves the engine and its effects alone
LEMMA Unmoved ==
    ASSUME HInv, mode = "run", blocks \subseteq blocks',
           UNCHANGED <<chain, wal, votes, props, mode, eng, walSeq, deferred, replay, fx,
                       needs, asked>>,
           todo' \in Seq(ItemT), stash' \subseteq ItemT, Queue',
           Waiting => stash' = {} /\ \A i \in 1 .. Len(todo') : todo'[i].height <= Last
    PROVE  HInv'
<1>0. Types /\ Phase /\ NeedsOK /\ GossipOK /\ Asked /\ ~Stopped /\ ~Replaying
  BY DEF HInv, Stopped, Replaying
<1>1. LogRows' = LogRows /\ Last' = Last /\ (Sealed' <=> Sealed) /\ Rows(Last)' = Rows(Last)
  BY LogSame
<1>2. Types'
  BY <1>0, Zenon DEF Types
<1>3. Running => Running'
  <2>1. Full' = Full
    BY <1>1, Zenon DEF Full
  <2> QED BY <1>1, <2>1, Zenon DEF Running, Working
<1>4. Closed => Closed'
  BY <1>1, Zenon DEF Closed
<1>5. Waiting => Waiting'
  BY <1>1, Zenon DEF Waiting
<1>6. Phase'
  BY <1>0, <1>3, <1>4, <1>5, Zenon DEF Phase
<1>7. NeedsOK'
  BY <1>0, <1>1, <1>3, Zenon DEF NeedsOK
<1>8. GossipOK'
  <2>1. Full' = Full
    BY <1>1, Zenon DEF Full
  <2> QED BY <1>0, <1>1, <1>3, <2>1, Zenon DEF GossipOK, Shipping
<1>9. Asked'
  BY <1>0 DEF Asked, Owed
<1> QED BY <1>2, <1>6, <1>7, <1>8, <1>9, Rest, Zenon

-----------------------------------------------------------------------------
(* The rest of a handler *)

\* The effects of a late proposal: one append
LEMMA OneAppend ==
    ASSUME NEW e, NEW i \in ItemT, i.height = e.height, i.kind = "value"
    PROVE  LET f == <<Effect("wal", i)>> \o <<>> IN
           /\ f \in Seq(EffT) /\ FxOK(f, e) /\ \A op : op # "wal" => ~Has(f, op)
           /\ \A j \in 1 .. Len(f) : f[j].op = "wal" => f[j].item.kind = "value"
<1> DEFINE w == Effect("wal", i)
           f == <<w>> \o <<>>
<1>1. w \in EffT /\ w.op = "wal" /\ w.item = i
  BY EffFields, Zenon
<1> HIDE DEF w
<1>2. FxOK(f, e)
  BY <1>1, FxEmpty, FxCons, Zenon
<1>3. f \in Seq(EffT) /\ 1 .. Len(f) = {1} /\ f[1] = w
  BY <1>1
<1> HIDE DEF f
<1>4. (\A op : op # "wal" => ~Has(f, op)) /\ \A j \in 1 .. Len(f) : f[j].op = "wal" => f[j].item.kind = "value"
  BY <1>1, <1>3, Zenon DEF Has
<1> QED BY <1>2, <1>3, <1>4, Zenon DEF f, w

\* The answer q of a decided engine
LateAnswer(q, e) ==
    /\ q.eng \in EngT /\ q.eng.done /\ q.eng.height = e.height /\ q.fx \in Seq(EffT)
    /\ FxOK(q.fx, q.eng) /\ ~Has(q.fx, "publish") /\ ~Has(q.fx, "decide") /\ ~Has(q.fx, "gossip")
    /\ \A i \in 1 .. Len(q.fx) : q.fx[i].op = "wal" => q.fx[i].item.kind = "value"

\* A decided engine that ignores its input
LEMMA LateIgnore ==
    ASSUME NEW e \in EngT, e.done
    PROVE  LateAnswer(Ignore(e), e)
<1>1. Ignore(e).eng = e /\ Ignore(e).fx = <<>>
  BY DEF Ignore
<1>2. <<>> \in Seq(EffT) /\ FxOK(<<>>, e) /\ \A i \in 1 .. Len(<<>>) : FALSE
  BY FxEmpty
<1> QED BY <1>1, <1>2, NoneHas, Zenon DEF LateAnswer

\* A decided engine logs a proposal it does not hold.
LEMMA LateValue ==
    ASSUME NEW e \in EngT, e.done, NEW r \in Nat, NEW v \in Values, NEW ok \in BOOLEAN
    PROVE  LateAnswer(OnValue(e, r, v, ok), e)
<1> DEFINE q == OnValue(e, r, v, ok)
<1>1. CASE ~Unheld(e, r, v)
  <2>1. q = Ignore(e)
    BY <1>1, Zenon DEF OnValue, Unheld
  <2> QED BY <2>1, LateIgnore, Zenon
<1>2. CASE Unheld(e, r, v)
  <2> DEFINE i == Item("value", e.height, r, v, ok)
             x == [round |-> r, value |-> v, ok |-> ok]
             e1 == [e EXCEPT !.values = @ \cup {x}]
             r1 == [eng |-> e1, fx |-> <<Effect("wal", i)>> \o <<>>]
  <2>1. i \in ItemT /\ i.kind = "value" /\ i.height = e.height
    <3>1. e.height \in Nat /\ v \in Votable
      BY DEF EngT, Votable
    <3>2. "value" \in Kinds
      BY Zenon DEF Kinds
    <3> QED BY <3>1, <3>2, SMTT(60) DEF Item, ItemT
  <2>2. x \in HeldT
    BY DEF HeldT
  <2>3. Becomes(e, e1, e.round, e.vote, e.values \cup {x}, e.quorum, e.done)
    <3> HIDE DEF x
    <3> QED BY <2>2, EngUpdates, Zenon
  <2>4. e1 \in EngT /\ e1.done /\ e1.height = e.height
    BY <2>3, Zenon DEF Becomes
  <2>5. q = Logged(i, IF r = e.round THEN Cast(e1, IF ok THEN v ELSE "nil") ELSE Ignore(e1))
    BY <1>2, Zenon DEF OnValue, Unheld
  <2> HIDE DEF i, e1
  <2>6. Cast(e1, IF ok THEN v ELSE "nil") = Ignore(e1)
    BY <2>4, Zenon DEF Cast
  <2>7. q = Logged(i, Ignore(e1))
    BY <2>5, <2>6, Zenon
  <2>8. Ignore(e1).eng = e1 /\ Ignore(e1).fx = <<>>
    BY DEF Ignore
  <2>9. q = Settle(r1)
    BY <2>7, <2>8, Zenon DEF Logged
  <2>10. r1.eng = e1 /\ r1.fx = <<Effect("wal", i)>> \o <<>>
    OBVIOUS
  <2> HIDE DEF r1, q
  <2>11. q = r1
    BY <2>4, <2>9, <2>10, Zenon DEF Settle
  <2>12. /\ r1.fx \in Seq(EffT) /\ FxOK(r1.fx, e1) /\ \A op : op # "wal" => ~Has(r1.fx, op)
         /\ \A j \in 1 .. Len(r1.fx) : r1.fx[j].op = "wal" => r1.fx[j].item.kind = "value"
    BY <2>1, <2>4, <2>10, OneAppend, Zenon
  <2>13. "publish" # "wal" /\ "decide" # "wal" /\ "gossip" # "wal"
    OBVIOUS
  <2> QED BY <2>4, <2>10, <2>11, <2>12, <2>13, Zenon DEF LateAnswer, q
<1> QED BY <1>1, <1>2

\* A closed engine's answer
LEMMA ClosedAnswered ==
    ASSUME HInv, Closed, mode = "run", NEW q, LateAnswer(q, eng), eng' = q.eng, fx' = q.fx,
           UNCHANGED <<chain, wal, votes, props, mode, walSeq, deferred, replay, needs, asked>>,
           todo' \in Seq(ItemT), stash' \subseteq ItemT, Queue'
    PROVE  HInv'
<1>0. Types /\ NeedsOK /\ needs \subseteq Mine
  BY Zenon DEF HInv, Types
<1>1. Closed' /\ Types' /\ Asked'
  BY <1>0, Late, Zenon DEF LateAnswer
<1>2. GossipOK'
  BY Zenon DEF GossipOK, Has, LateAnswer
<1>3. NeedsOK'
  <2>1. Last' = Last /\ Last \in Nat
    BY <1>0, LogSame, LogType
  <2>2. ~Running
    BY <2>1 DEF Running, Working, Closed
  <2> QED BY <1>0, <2>1, <2>2, Zenon DEF NeedsOK
<1> QED BY <1>1, <1>2, <1>3, Rest, Zenon DEF Phase

\* Ingest: a proposal with its verdict
LEMMA IngestKeeps ==
    ASSUME HInv, mode = "run", fx = <<>>, ~Waiting, NEW m \in ItemT, TaskOK(m),
           m.kind = "proposal", m.height = eng.height, Ingest(m),
           UNCHANGED <<chain, wal, votes, props, mode, walSeq, deferred, replay, needs, asked>>,
           todo' \in Seq(ItemT), stash' \subseteq ItemT, Queue'
    PROVE  HInv'
<1>0. Types /\ Phase /\ eng \in EngT
  BY Zenon DEF HInv, Types
<1>1. m.round \in Nat /\ m.height \in Nat
  BY DEF ItemT
<1>2. m.value \in Values /\ <<m.height, m.round>> \notin Mine
  BY Zenon DEF TaskOK
<1>3. PICK ok \in Verdicts(m.height) :
        /\ eng' = OnValue(eng, m.round, m.value, ok).eng
        /\ fx' = OnValue(eng, m.round, m.value, ok).fx
        /\ blocks' = blocks \cup {<<m.height, m.value>>}
  BY Zenon DEF Ingest
<1>4. ok \in BOOLEAN
  BY Zenon DEF Verdicts
<1> DEFINE q == OnValue(eng, m.round, m.value, ok)
<1>5. CASE Running
  <2>1. Ready(eng, walSeq, LogRows)
    BY <1>0, <1>5, RunReady, Zenon
  <2>2. ~Contention => ok
    <3>1. Last \in Nat /\ eng.height = Last + 1
      BY <1>0, <1>5, LogType, Zenon DEF Running, Working
    <3>2. Last = m.height - 1
      BY <3>1
    <3>3. ~Contention => Verdicts(m.height) = {TRUE}
      BY <3>2, Zenon DEF Verdicts
    <3>4. ~Contention => ok = TRUE
      BY <1>3, <3>3
    <3> QED BY <3>4
  <2>3. <<eng.height, m.round>> \notin Mine
    BY <1>2, Zenon
  <2>4. Ingested(q, eng, walSeq, LogRows, m.round, m.value)
    <3> HIDE DEF q
    <3> QED BY <1>1, <1>2, <1>4, <2>1, <2>2, <2>3, LiveValue, Zenon DEF q
  <2> HIDE DEF q
  <2>5. \A x \in q.eng.values : <<eng.height, x.value>> \in blocks'
    BY <1>3, <1>5, <2>4, Zenon DEF Ingested, Running, Working
  <2> QED BY <1>3, <1>5, <2>4, <2>5, Answered, Zenon DEF Ingested, q
<1>6. CASE Closed
  <2>1. LateAnswer(q, eng)
    BY <1>0, <1>1, <1>2, <1>4, <1>6, LateValue, Zenon DEF Closed
  <2> HIDE DEF q
  <2> QED BY <1>3, <1>6, <2>1, ClosedAnswered, Zenon DEF q
<1>7. ~Stopped /\ ~Replaying
  BY DEF Stopped, Replaying
<1> QED BY <1>0, <1>5, <1>6, <1>7, Zenon DEF Phase

\* The next task of a handler
LEMMA TaskHead ==
    ASSUME Types, Queue, todo # <<>>
    PROVE  /\ Head(todo) \in ItemT /\ TaskOK(Head(todo)) /\ Tail(todo) \in Seq(ItemT)
           /\ \A i \in 1 .. Len(Tail(todo)) : TaskOK(Tail(todo)[i])
           /\ Waiting => /\ Head(todo).height <= Last
                         /\ \A i \in 1 .. Len(Tail(todo)) : Tail(todo)[i].height <= Last
<1>1. todo \in Seq(ItemT) /\ \A i \in 1 .. Len(todo) : TaskOK(todo[i])
  BY Zenon DEF Types, Queue
<1>2. /\ Head(todo) = todo[1] /\ 1 \in 1 .. Len(todo) /\ Head(todo) \in ItemT
      /\ Tail(todo) \in Seq(ItemT)
      /\ \A i \in 1 .. Len(Tail(todo)) : i + 1 \in 1 .. Len(todo) /\ Tail(todo)[i] = todo[i + 1]
  BY <1>1
<1>3. Waiting => \A i \in 1 .. Len(todo) : todo[i].height <= Last
  BY Zenon DEF Waiting
<1> QED BY <1>1, <1>2, <1>3, Zenon

\* TakeProposal: ingested, stashed or dropped
LEMMA TakeProposalKeeps ==
    ASSUME HInv, TakeProposal
    PROVE  HInv'
<1> DEFINE m == Head(todo)
<1>0. Types /\ Queue
  BY DEF HInv
<1>1. mode = "run" /\ fx = <<>> /\ todo # <<>> /\ m.kind = "proposal"
  BY Zenon DEF TakeProposal, Task
<1>2. /\ m \in ItemT /\ TaskOK(m) /\ Tail(todo) \in Seq(ItemT)
      /\ \A i \in 1 .. Len(Tail(todo)) : TaskOK(Tail(todo)[i])
      /\ Waiting => /\ m.height <= Last
                    /\ \A i \in 1 .. Len(Tail(todo)) : Tail(todo)[i].height <= Last
  BY <1>0, <1>1, TaskHead, Zenon
<1>3. UNCHANGED <<chain, wal, votes, props, mode, walSeq, deferred, replay, needs, asked>>
  BY DEF TakeProposal, idle, durable
<1>4. stash \subseteq ItemT /\ (\A x \in stash : TaskOK(x) /\ x.kind = "proposal")
  BY <1>0, Zenon DEF Types, Queue
<1>5. Waiting => m.height < eng.height
  <2>1. Last \in Nat /\ m.height \in Nat
    BY <1>0, <1>2, LogType DEF ItemT
  <2>2. Waiting => eng.height = Last + 1
    BY DEF Waiting, Fresh
  <2> QED BY <1>2, <2>1, <2>2
<1>6. m.height \in Nat /\ eng.height \in Nat
  BY <1>0, <1>2 DEF ItemT, Types, EngT
<1>7. CASE /\ m.height > eng.height
           /\ stash' = stash \/ stash' = stash \cup {m}
           /\ todo' = <<>> /\ UNCHANGED <<eng, fx, blocks>>
  <2>1. stash' \subseteq ItemT /\ \A x \in stash' : TaskOK(x) /\ x.kind = "proposal"
    BY <1>1, <1>2, <1>4, <1>7, Zenon
  <2>2. todo' \in Seq(ItemT) /\ \A i \in 1 .. Len(todo') : FALSE
    BY <1>7
  <2>3. Queue'
    BY <2>1, <2>2, Zenon DEF Queue, TaskOK
  <2>4. ~Waiting
    BY <1>5, <1>6, <1>7
  <2> QED BY <1>1, <1>3, <1>7, <2>1, <2>2, <2>3, <2>4, Unmoved, Zenon
<1>8. CASE m.height = eng.height /\ Ingest(m) /\ todo' = Tail(todo) /\ UNCHANGED stash
  <2>1. Queue'
    BY <1>2, <1>4, <1>8, Zenon DEF Queue, TaskOK
  <2>2. ~Waiting
    BY <1>5, <1>6, <1>8
  <2> HIDE DEF m
  <2>3. todo' \in Seq(ItemT) /\ stash' \subseteq ItemT
    BY <1>2, <1>4, <1>8, Zenon
  <2> QED BY <1>1, <1>2, <1>3, <1>8, <2>1, <2>2, <2>3, IngestKeeps, Zenon
<1>9. CASE todo' = Tail(todo) /\ UNCHANGED <<eng, fx, blocks, stash>>
  <2>1. Queue'
    BY <1>2, <1>4, <1>9, Zenon DEF Queue, TaskOK
  <2>2. Waiting => stash' = {} /\ \A i \in 1 .. Len(todo') : todo'[i].height <= Last
    BY <1>2, <1>9, Zenon DEF Waiting
  <2> HIDE DEF m
  <2>3. todo' \in Seq(ItemT) /\ stash' \subseteq ItemT
    BY <1>2, <1>4, <1>9, Zenon
  <2> QED BY <1>1, <1>3, <1>9, <2>1, <2>2, <2>3, Unmoved, Zenon
<1> QED BY <1>7, <1>8, <1>9, Zenon DEF TakeProposal

\* DrainStash: a stashed proposal is judged when its height opens.
LEMMA DrainStashKeeps ==
    ASSUME HInv, DrainStash
    PROVE  HInv'
<1>0. Types /\ Queue
  BY DEF HInv
<1>1. mode = "run" /\ fx = <<>> /\ todo # <<>>
  BY Zenon DEF DrainStash, Task
<1>2. /\ Tail(todo) \in Seq(ItemT)
      /\ \A i \in 1 .. Len(Tail(todo)) : TaskOK(Tail(todo)[i])
      /\ Waiting => \A i \in 1 .. Len(Tail(todo)) : Tail(todo)[i].height <= Last
  BY <1>0, <1>1, TaskHead, Zenon
<1>3. UNCHANGED <<chain, wal, votes, props, mode, walSeq, deferred, replay, needs, asked>>
  BY DEF DrainStash, idle, durable
<1>4. /\ stash \subseteq ItemT /\ (\A x \in stash : TaskOK(x) /\ x.kind = "proposal")
      /\ todo \in Seq(ItemT) /\ \A i \in 1 .. Len(todo) : TaskOK(todo[i])
  BY <1>0, Zenon DEF Types, Queue
<1>5. CASE \E m \in stash : m.height = eng.height
  <2>1. PICK m \in {x \in stash : x.height = eng.height} :
          Ingest(m) /\ stash' = {x \in stash \ {m} : x.height >= eng.height}
    BY <1>5, Zenon DEF DrainStash
  <2>2. todo' = todo
    BY <1>5, Zenon DEF DrainStash
  <2>3. m \in stash /\ m.height = eng.height /\ stash' \subseteq stash
    BY <2>1
  <2>4. Queue' /\ todo' \in Seq(ItemT) /\ stash' \subseteq ItemT
    BY <1>4, <2>2, <2>3, Zenon DEF Queue, TaskOK
  <2>5. ~Waiting
    BY <2>3, Zenon DEF Waiting
  <2>6. m \in ItemT /\ TaskOK(m) /\ m.kind = "proposal"
    BY <1>4, <2>3, Zenon
  <2> QED BY <1>1, <1>3, <2>1, <2>3, <2>4, <2>5, <2>6, IngestKeeps, Zenon
<1>6. CASE ~\E m \in stash : m.height = eng.height
  <2>1. stash' \subseteq stash /\ todo' = Tail(todo) /\ UNCHANGED <<eng, fx, blocks>>
    BY <1>6 DEF DrainStash
  <2>2. Queue' /\ todo' \in Seq(ItemT) /\ stash' \subseteq ItemT
    BY <1>2, <1>4, <2>1, Zenon DEF Queue, TaskOK
  <2>3. Waiting => stash' = {} /\ \A i \in 1 .. Len(todo') : todo'[i].height <= Last
    <3>1. Waiting => stash = {}
      BY Zenon DEF Waiting
    <3>2. Waiting => stash' = {}
      BY <2>1, <3>1
    <3> QED BY <1>2, <2>1, <3>2, Zenon
  <2>4. blocks \subseteq blocks'
    BY <2>1, Zenon
  <2> QED BY <1>1, <1>3, <2>1, <2>2, <2>3, <2>4, Unmoved, Zenon
<1> QED BY <1>5, <1>6, Zenon

\* TakeVotes: a quorum or a polka, for this height or a later one
LEMMA TakeVotesKeeps ==
    ASSUME HInv, TakeVotes
    PROVE  HInv'
<1> DEFINE m == Head(todo)
           r == IF m.height # eng.height THEN Ignore(eng)
                ELSE IF m.kind = "quorum" THEN OnQuorum(eng)
                ELSE IF m.round = eng.round THEN OnPolka(eng, m.value)
                ELSE Ignore(eng)
<1>0. Types /\ Queue /\ Phase
  BY DEF HInv
<1>1. mode = "run" /\ fx = <<>> /\ todo # <<>> /\ (m.kind = "quorum" \/ m.kind = "polka")
  BY Zenon DEF TakeVotes, Task
<1>2. /\ m \in ItemT /\ TaskOK(m) /\ Tail(todo) \in Seq(ItemT)
      /\ \A i \in 1 .. Len(Tail(todo)) : TaskOK(Tail(todo)[i])
      /\ Waiting => /\ m.height <= Last
                    /\ \A i \in 1 .. Len(Tail(todo)) : Tail(todo)[i].height <= Last
  BY <1>0, <1>1, TaskHead, Zenon
<1>3. UNCHANGED <<chain, wal, votes, props, mode, walSeq, deferred, replay, needs, asked, blocks, stash>>
  BY DEF TakeVotes, idle, durable
<1>4. todo' = Tail(todo) /\ eng' = r.eng /\ fx' = r.fx
  BY Zenon DEF TakeVotes
<1>5. Queue' /\ todo' \in Seq(ItemT) /\ stash' \subseteq ItemT
  BY <1>0, <1>2, <1>3, <1>4, Zenon DEF Queue, TaskOK, Types
<1>6. Ignore(eng).eng = eng /\ Ignore(eng).fx = <<>>
  BY DEF Ignore
<1>7. CASE Running
  <2>1. Ready(eng, walSeq, LogRows)
    BY <1>0, <1>1, <1>7, RunReady, Zenon
  <2>2. Stayed(Ignore(eng), eng, walSeq, LogRows)
    BY <2>1, StayedIgnore, Zenon
  <2>3. Stayed(OnQuorum(eng), eng, walSeq, LogRows)
    BY <2>1, LiveQuorum, Zenon
  <2>4. m.kind # "quorum" => m.value \in Values
    BY <1>1, <1>2, Zenon DEF TaskOK
  <2>5. m.kind # "quorum" => Stayed(OnPolka(eng, m.value), eng, walSeq, LogRows)
    BY <2>1, <2>4, LivePolka, Zenon
  <2>6. Stayed(r, eng, walSeq, LogRows)
    BY <2>2, <2>3, <2>5, Zenon
  <2> HIDE DEF r
  <2>7. \A x \in r.eng.values : <<eng.height, x.value>> \in blocks'
    BY <1>3, <1>7, <2>6, Zenon DEF Stayed, Running, Working
  <2>8. eng.values \subseteq r.eng.values
    BY <2>6, Zenon DEF Stayed
  <2> QED BY <1>1, <1>3, <1>4, <1>5, <1>7, <2>6, <2>7, <2>8, Answered, Zenon DEF Stayed
<1>8. CASE Closed
  <2>1. r = Ignore(eng)
    BY <1>8, Zenon DEF Closed, OnQuorum, OnPolka, Cast
  <2> HIDE DEF r
  <2>2. eng \in EngT /\ eng.done
    BY <1>0, <1>8, Zenon DEF Closed, Types
  <2>3. LateAnswer(r, eng)
    BY <2>1, <2>2, LateIgnore, Zenon
  <2> QED BY <1>1, <1>3, <1>4, <1>5, <1>8, <2>3, ClosedAnswered, Zenon
<1>9. CASE Waiting
  <2>1. m.height # eng.height
    <3>1. Last \in Nat /\ eng.height = Last + 1 /\ m.height \in Nat
      BY <1>0, <1>2, <1>9, LogType DEF Waiting, Fresh, ItemT
    <3> QED BY <1>2, <1>9, <3>1
  <2>2. eng' = eng /\ fx' = fx
    BY <1>1, <1>4, <1>6, <2>1, Zenon
  <2>3. Waiting => stash' = {} /\ \A i \in 1 .. Len(todo') : todo'[i].height <= Last
    BY <1>2, <1>3, <1>4, Zenon DEF Waiting
  <2>4. blocks \subseteq blocks'
    BY <1>3, Zenon
  <2> QED BY <1>1, <1>3, <1>5, <2>2, <2>3, <2>4, Unmoved, Zenon
<1>10. ~Stopped /\ ~Replaying
  BY <1>1 DEF Stopped, Replaying
<1> QED BY <1>0, <1>7, <1>8, <1>9, <1>10, Zenon DEF Phase

\* TakeSync: a decided block from a peer
LEMMA TakeSyncKeeps ==
    ASSUME HInv, TakeSync
    PROVE  HInv'
<1> DEFINE m == Head(todo)
<1>0. Types /\ Queue /\ Phase
  BY DEF HInv
<1>1. mode = "run" /\ fx = <<>> /\ todo # <<>> /\ m.kind = "sync"
  BY Zenon DEF TakeSync, Task
<1>2. /\ m \in ItemT /\ TaskOK(m) /\ Tail(todo) \in Seq(ItemT)
      /\ \A i \in 1 .. Len(Tail(todo)) : TaskOK(Tail(todo)[i])
      /\ Waiting => /\ m.height <= Last
                    /\ \A i \in 1 .. Len(Tail(todo)) : Tail(todo)[i].height <= Last
  BY <1>0, <1>1, TaskHead, Zenon
<1>3. UNCHANGED <<chain, wal, votes, props, mode, walSeq, deferred, replay, needs, asked, stash>>
  BY DEF TakeSync, idle, durable
<1>4. todo' = Tail(todo)
  BY Zenon DEF TakeSync
<1>5. Queue' /\ todo' \in Seq(ItemT) /\ stash' \subseteq ItemT
  BY <1>0, <1>2, <1>3, <1>4, Zenon DEF Queue, TaskOK, Types
<1>6. CASE m.height # eng.height
  <2>1. UNCHANGED <<eng, fx, blocks>>
    BY <1>6, Zenon DEF TakeSync
  <2>2. Waiting => stash' = {} /\ \A i \in 1 .. Len(todo') : todo'[i].height <= Last
    BY <1>2, <1>3, <1>4, Zenon DEF Waiting
  <2>3. blocks \subseteq blocks'
    BY <2>1, Zenon
  <2> QED BY <1>1, <1>3, <1>5, <2>1, <2>2, <2>3, Unmoved, Zenon
<1>8. CASE m.height = eng.height /\ Closed
  <2>1. PICK ok \in Verdicts(m.height) :
          /\ eng' = OnSync(eng, m.value, ok).eng
          /\ fx' = OnSync(eng, m.value, ok).fx
          /\ blocks' = blocks \cup {<<m.height, m.value>>}
    BY <1>8, Zenon DEF TakeSync
  <2>2. Last \in Nat /\ m.height = Last
    BY <1>0, <1>8, LogType, Zenon DEF Closed
  <2>3. Last # m.height - 1
    BY <2>2
  <2>4. ok = FALSE
    BY <2>1, <2>3, Zenon DEF Verdicts
  <2>5. eng' = eng /\ fx' = fx
    BY <1>1, <2>1, <2>4 DEF OnSync, Ignore
  <2>6. ~Waiting
    BY <1>0, <1>8 DEF Closed, Waiting, Fresh
  <2>7. blocks \subseteq blocks'
    BY <2>1, Zenon
  <2> QED BY <1>1, <1>3, <1>5, <2>5, <2>6, <2>7, Unmoved, Zenon
<1>7. CASE m.height = eng.height /\ ~Closed
  <2>1. PICK ok \in Verdicts(m.height) :
          /\ eng' = OnSync(eng, m.value, ok).eng
          /\ fx' = OnSync(eng, m.value, ok).fx
          /\ blocks' = blocks \cup {<<m.height, m.value>>}
    BY <1>7, Zenon DEF TakeSync
  <2>2. ok \in BOOLEAN
    BY <2>1, Zenon DEF Verdicts
  <2>3. m.value = Chosen[eng.height] /\ m.height = eng.height
    BY <1>1, <1>2, <1>7, Zenon DEF TaskOK
  <2>4. Running
    <3>1. ~Waiting
      <4>1. Last \in Nat /\ m.height \in Nat /\ (Waiting => eng.height = Last + 1)
        BY <1>0, <1>2, LogType DEF Waiting, Fresh, ItemT
      <4> QED BY <1>2, <2>3, <4>1
    <3>2. ~Stopped /\ ~Replaying /\ ~Closed
      BY <1>1, <1>7 DEF Stopped, Replaying
    <3> QED BY <1>0, <3>1, <3>2, Zenon DEF Phase
  <2>5. Ready(eng, walSeq, LogRows)
    BY <1>0, <1>1, <2>4, RunReady, Zenon
  <2> DEFINE q == OnSync(eng, Chosen[eng.height], ok)
  <2>6. Synced(q, eng, walSeq, LogRows, Chosen[eng.height])
    BY <2>2, <2>5, LiveSync, Zenon
  <2>7. eng' = q.eng /\ fx' = q.fx /\ blocks' = blocks \cup {<<eng.height, Chosen[eng.height]>>}
    BY <2>1, <2>3, Zenon
  <2> HIDE DEF q
  <2>8. \A x \in q.eng.values : <<eng.height, x.value>> \in blocks'
    BY <2>4, <2>6, <2>7, Zenon DEF Synced, Running, Working
  <2> QED BY <1>1, <1>3, <1>5, <2>4, <2>6, <2>7, <2>8, Answered, Zenon DEF Synced
<1> QED BY <1>6, <1>7, <1>8

-----------------------------------------------------------------------------
(* Starting a height, and the inputs from the wire *)

\* The next height starts with an empty log.
LEMMA Started ==
    ASSUME HInv, Quiet, deferred \in Heights,
           StartHeight(deferred, Len(Fetch(deferred)), TRUE), deferred' = 0,
           UNCHANGED <<durable, mode, replay>>,
           todo' \in Seq(ItemT), stash' \subseteq ItemT, Queue'
    PROVE  HInv'
<1>0. Types /\ Phase /\ Kept /\ PropsOK /\ NeedsOK
  BY DEF HInv
<1>1. mode = "run" /\ fx = <<>> /\ deferred \in Nat /\ deferred # 0
  BY HostAssumption DEF Quiet, Heights
<1>2. Last \in Nat /\ SealHeight \in Nat
  BY <1>0, LogType, HostAssumption
<1>3. Closed \/ Waiting
  BY <1>0, <1>1, Zenon DEF Phase, Stopped, Replaying, Running, Working
<1>4. deferred = Last + 1 /\ LogRows = {} /\ replay = <<>>
  BY <1>1, <1>3, Zenon DEF Closed, Waiting
<1>5. ~Sealed
  <2>1. CASE Waiting
    BY <2>1 DEF Waiting
  <2>2. CASE Closed
    <3>1. Last # SealHeight
      BY <1>1, <2>2, Zenon DEF Closed
    <3> QED BY <1>0, <1>2, <3>1 DEF Kept, Sealed
  <2> QED BY <1>3, <2>1, <2>2
<1>6. ~Running
  BY <1>1, Zenon DEF Running, Working
<1> DEFINE h == Last + 1
           q == IF h \in buffered THEN OnQuorum(Fresh(h)) ELSE Ignore(Fresh(h))
<1>7. /\ walSeq' = Len(Fetch(Last + 1)) /\ eng' = q.eng /\ fx' = q.fx
      /\ needs' = needs \cup Asks(eng') /\ asked' = asked \cup Asks(eng')
  BY <1>4, Zenon DEF StartHeight
<1>8. walSeq' = 0
  <2>1. 0 \in Nat /\ Dense({}, 0) /\ RowsOK({})
    BY NoRows DEF Dense
  <2> QED BY <1>0, <1>4, <1>7, <2>1, FetchIs, Zenon
<1>9. h \in Heights
  BY <1>4, Zenon
<1>10. /\ Fresh(h).height = h /\ Fresh(h).round = 0 /\ Fresh(h).values = {}
       /\ Ready(Fresh(h), 0, {})
  BY <1>9, FreshReady, Zenon
<1>11. Stayed(q, Fresh(h), 0, {})
  BY <1>10, LiveQuorum, StayedIgnore, Zenon
<1> HIDE DEF q
<1>12. Live(q, 0, {}) /\ eng'.height = h /\ eng'.round = 0 /\ eng'.values = {}
  BY <1>7, <1>10, <1>11, Zenon DEF Stayed
<1>13. /\ eng' \in EngT /\ FxOK(fx', eng') /\ ~Has(fx', "gossip") /\ (eng'.done => Has(fx', "decide"))
       /\ RowsOK({} \cup PendOf(0, fx')) /\ EngOK(eng', {} \cup PendOf(0, fx'))
  BY <1>7, <1>12, Zenon DEF Live, Answer
<1>14. UNCHANGED <<chain, wal, votes, props, mode, replay>>
  BY DEF durable
<1>15. LogRows' = LogRows /\ Last' = Last /\ (Sealed' <=> Sealed)
  BY <1>14, LogSame
<1>16. Dense({}, 0)
  BY DEF Dense
<1>17. Working'
  BY <1>4, <1>5, <1>8, <1>9, <1>12, <1>13, <1>15, <1>16, Zenon DEF Working
<1>18. Full' = {} \cup PendOf(0, fx')
  BY <1>4, <1>8, <1>15, Zenon DEF Full
<1>19. Running'
  BY <1>1, <1>4, <1>13, <1>14, <1>17, <1>18, Zenon DEF Running
<1>20. Asks(eng') \subseteq Mine /\ \A n \in Asks(eng') : n = <<h, 0>>
  BY <1>12, AsksIs, Zenon
<1>21. Types'
  <2>1. 0 \in Nat
    OBVIOUS
  <2>2. fx' \in Seq(EffT) /\ needs' \subseteq Mine
    BY <1>0, <1>7, <1>13, <1>20, Zenon DEF FxOK, Types
  <2> QED BY <1>0, <1>8, <1>13, <1>14, <2>1, <2>2, Zenon DEF Types
<1>22. PropsOK'
  <2> SUFFICES ASSUME NEW x \in props
               PROVE  /\ x.height <= Last + 1 /\ <<x.height, x.round>> \in Mine \ needs'
                      /\ x.height = Last + 1 => Settled(LogRows, x.round)
    BY <1>14, <1>15, Zenon DEF PropsOK
  <2>1. x.height <= Last + 1 /\ <<x.height, x.round>> \in Mine \ needs /\ x.height # Last + 1
    BY <1>0, <1>4, NoRows, Zenon DEF PropsOK
  <2>2. <<x.height, x.round>> # <<h, 0>>
    BY <2>1
  <2> QED BY <1>7, <1>20, <2>1, <2>2, Zenon
<1>23. NeedsOK'
  <2> SUFFICES ASSUME NEW n \in needs'
               PROVE  n[1] <= Last + 1 /\ (n[1] = Last + 1 => n[2] <= eng'.round)
    BY <1>15, <1>19, Zenon DEF NeedsOK
  <2>1. CASE n \in needs
    BY <1>0, <1>6, <2>1, Zenon DEF NeedsOK
  <2>2. CASE n \in Asks(eng')
    <3>1. n = <<Last + 1, 0>>
      BY <1>20, <2>2, Zenon
    <3> QED BY <1>2, <1>12, <3>1
  <2> QED BY <1>7, <2>1, <2>2, Zenon
<1>24. GossipOK'
  BY <1>13, Zenon DEF GossipOK, Has
<1>25. Asked'
  BY <1>7, Zenon DEF Asked, Owed
<1>26. Kept' /\ VotesOK' /\ NoEquivocation'
  BY <1>14, DurableSame, Zenon
<1> QED BY <1>19, <1>21, <1>22, <1>23, <1>24, <1>25, <1>26, Zenon DEF HInv, Phase

\* The tasks of a handler for a message m
TasksOK(s, m) == /\ s \in Seq(ItemT)
                 /\ \A i \in 1 .. Len(s) : TaskOK(s[i]) /\ s[i].height <= m.height

\* The tasks that a message sets
LEMMA TasksFor ==
    ASSUME NEW m \in ItemT, TaskOK(m)
    PROVE  /\ TasksOK(<<m, Drain>>, m) /\ TasksOK(<<m>>, m)
           /\ \A s : TasksOK(s, m) => TasksOK(<<Drain>> \o s, m)
<1>1. Drain \in ItemT /\ Drain.height = 0 /\ TaskOK(Drain)
  BY DrainIs, Zenon
<1>2. m.height \in Nat
  BY DEF ItemT
<1>3. m.height <= m.height /\ Drain.height <= m.height
  BY <1>1, <1>2
<1> HIDE DEF TaskOK
<1>4. TasksOK(<<m>>, m)
  <2>1. <<m>> \in Seq(ItemT) /\ \A i \in 1 .. Len(<<m>>) : <<m>>[i] = m
    OBVIOUS
  <2> QED BY <1>3, <2>1, Zenon DEF TasksOK
<1>5. TasksOK(<<m, Drain>>, m)
  <2> DEFINE t == <<m, Drain>>
  <2>1. t \in Seq(ItemT) /\ \A i \in 1 .. Len(t) : t[i] = m \/ t[i] = Drain
    BY <1>1
  <2> HIDE DEF t
  <2>2. TasksOK(t, m)
    BY <1>1, <1>3, <2>1, Zenon DEF TasksOK
  <2> QED BY <2>2 DEF t
<1>6. ASSUME NEW s, TasksOK(s, m) PROVE TasksOK(<<Drain>> \o s, m)
  <2> DEFINE t == <<Drain>> \o s
  <2>1. s \in Seq(ItemT) /\ \A i \in 1 .. Len(s) : TaskOK(s[i]) /\ s[i].height <= m.height
    BY <1>6, Zenon DEF TasksOK
  <2>2. t \in Seq(ItemT) /\ \A i \in 1 .. Len(t) : t[i] = Drain \/ \E j \in 1 .. Len(s) : t[i] = s[j]
    BY <1>1, <2>1
  <2> HIDE DEF t
  <2>3. TasksOK(t, m)
    BY <1>1, <1>3, <2>1, <2>2, Zenon DEF TasksOK
  <2> QED BY <2>3 DEF t
<1> QED BY <1>4, <1>5, <1>6, Zenon

\* Receive: a message may start the deferred height.
LEMMA ReceiveKeeps ==
    ASSUME HInv, NEW m \in ItemT, m.height \in Heights, TaskOK(m), NEW tasks, TasksOK(tasks, m),
           Receive(m, tasks)
    PROVE  HInv'
<1>0. Types /\ Queue /\ Quiet /\ mode = "run" /\ deferred \in Nat /\ m.height \in Nat
  BY HostAssumption DEF HInv, Receive, Quiet, Types, Heights
<1>1. UNCHANGED <<durable, mode, blocks, stash, replay>>
  BY Zenon DEF Receive
<1>2. stash' \subseteq ItemT /\ \A x \in stash' : TaskOK(x) /\ x.kind = "proposal"
  BY <1>0, <1>1, Zenon DEF Types, Queue
<1>3. CASE deferred # 0 /\ m.height >= deferred
  <2>1. /\ StartHeight(deferred, Len(Fetch(deferred)), TRUE) /\ deferred' = 0
        /\ todo' = <<Drain>> \o tasks
    BY <1>3, Zenon DEF Receive
  <2>2. deferred \in Heights
    BY <1>0, <1>3, HostAssumption DEF Heights
  <2>3. TasksOK(todo', m)
    BY <2>1, TasksFor, Zenon
  <2>4. Queue' /\ todo' \in Seq(ItemT)
    BY <1>2, <2>3, Zenon DEF Queue, TaskOK, TasksOK
  <2> QED BY <1>0, <1>1, <1>2, <2>1, <2>2, <2>4, Started, Zenon
<1>4. CASE ~(deferred # 0 /\ m.height >= deferred)
  <2>1. todo' = tasks /\ UNCHANGED <<walSeq, eng, fx, buffered, needs, asked, deferred>>
    BY <1>4, Zenon DEF Receive
  <2>2. Queue' /\ todo' \in Seq(ItemT)
    BY <1>2, <2>1, Zenon DEF Queue, TaskOK, TasksOK
  <2>3. Waiting => stash' = {} /\ \A i \in 1 .. Len(todo') : todo'[i].height <= Last
    <3> SUFFICES ASSUME Waiting PROVE stash' = {} /\ \A i \in 1 .. Len(todo') : todo'[i].height <= Last
      OBVIOUS
    <3>1. Last \in Nat /\ deferred = Last + 1 /\ stash = {}
      BY <1>0, LogType, Zenon DEF Waiting
    <3>2. m.height <= Last
      BY <1>0, <1>4, <3>1
    <3>3. ASSUME NEW i \in 1 .. Len(todo') PROVE todo'[i].height <= Last
      <4>1. todo'[i].height <= m.height
        BY <2>1, Zenon DEF TasksOK
      <4>2. todo'[i].height \in Nat
        <5>1. todo'[i] \in ItemT
          BY <2>2
        <5> QED BY <5>1 DEF ItemT
      <4> QED BY <1>0, <3>1, <3>2, <4>1, <4>2
    <3> QED BY <1>1, <3>1, <3>3, Zenon
  <2>4. UNCHANGED <<chain, wal, votes, props>> /\ blocks \subseteq blocks'
    BY <1>1 DEF durable
  <2> QED BY <1>0, <1>1, <1>2, <2>1, <2>2, <2>3, <2>4, Unmoved, Zenon
<1> QED BY <1>3, <1>4

\* The messages from the wire and from sync
LEMMA WireKeeps ==
    ASSUME HInv, NEW h \in Heights, NEW r \in Rounds, NEW v \in Values,
           \/ WireProposal(h, r, v) \/ WirePolka(h, r, v) \/ WireQuorum(h) \/ SyncValue(h)
    PROVE  HInv'
<1>1. h \in Nat /\ r \in Nat /\ 0 \in Nat /\ Chosen[h] \in Values /\ TRUE \in BOOLEAN
  BY HostAssumption DEF Heights, Rounds
<1>2. /\ v \in Votable /\ Chosen[h] \in Votable /\ "none" \in Votable
      /\ "proposal" \in Kinds /\ "polka" \in Kinds /\ "quorum" \in Kinds /\ "sync" \in Kinds
  BY <1>1, Zenon DEF Votable, Kinds
<1>3. CASE WireProposal(h, r, v)
  <2> DEFINE m == Item("proposal", h, r, v, TRUE)
  <2>1. <<h, r>> \notin Mine /\ Receive(m, <<m, Drain>>)
    BY <1>3, Zenon DEF WireProposal
  <2>2. m \in ItemT /\ m.kind = "proposal" /\ m.height = h /\ m.round = r /\ m.value = v
    <3>1. "proposal" \in Kinds /\ h \in Nat /\ r \in Nat /\ v \in Votable /\ TRUE \in BOOLEAN
      BY <1>1, <1>2, Zenon
    <3> QED BY <3>1, SMTT(60) DEF Item, ItemT
  <2> HIDE DEF m
  <2>3. m.kind # "sync"
    BY <2>2
  <2>4. TaskOK(m)
    BY <2>1, <2>2, <2>3, Zenon DEF TaskOK
  <2>5. TasksOK(<<m, Drain>>, m)
    BY <2>2, <2>4, TasksFor, Zenon
  <2> QED BY <2>1, <2>2, <2>4, <2>5, ReceiveKeeps, Zenon
<1>4. CASE WirePolka(h, r, v)
  <2> DEFINE m == Item("polka", h, r, v, TRUE)
  <2>1. Receive(m, <<m, Drain>>)
    BY <1>4, Zenon DEF WirePolka
  <2>2. m \in ItemT /\ m.kind = "polka" /\ m.height = h /\ m.value = v
    <3>1. "polka" \in Kinds /\ h \in Nat /\ r \in Nat /\ v \in Votable /\ TRUE \in BOOLEAN
      BY <1>1, <1>2, Zenon
    <3> QED BY <3>1, SMTT(60) DEF Item, ItemT
  <2> HIDE DEF m
  <2>3. m.kind # "sync" /\ m.kind # "proposal"
    BY <2>2
  <2>4. TaskOK(m)
    BY <2>2, <2>3, Zenon DEF TaskOK
  <2>5. TasksOK(<<m, Drain>>, m)
    BY <2>2, <2>4, TasksFor, Zenon
  <2> QED BY <2>1, <2>2, <2>4, <2>5, ReceiveKeeps, Zenon
<1>5. CASE WireQuorum(h)
  <2> DEFINE m == Item("quorum", h, 0, "none", TRUE)
  <2>1. Receive(m, <<m, Drain>>)
    BY <1>5, Zenon DEF WireQuorum
  <2>2. m \in ItemT /\ m.kind = "quorum" /\ m.height = h
    <3>1. "quorum" \in Kinds /\ h \in Nat /\ 0 \in Nat /\ "none" \in Votable /\ TRUE \in BOOLEAN
      BY <1>1, <1>2, Zenon
    <3> QED BY <3>1, SMTT(60) DEF Item, ItemT
  <2> HIDE DEF m
  <2>3. m.kind # "sync" /\ m.kind \notin {"proposal", "polka"}
    BY <2>2
  <2>4. TaskOK(m)
    BY <2>3, Zenon DEF TaskOK
  <2>5. TasksOK(<<m, Drain>>, m)
    BY <2>2, <2>4, TasksFor, Zenon
  <2> QED BY <2>1, <2>2, <2>4, <2>5, ReceiveKeeps, Zenon
<1>6. CASE SyncValue(h)
  <2> DEFINE m == Item("sync", h, 0, Chosen[h], TRUE)
  <2>1. Receive(m, <<m>>)
    BY <1>6, Zenon DEF SyncValue
  <2>2. m \in ItemT /\ m.kind = "sync" /\ m.height = h /\ m.value = Chosen[h]
    <3>1. "sync" \in Kinds /\ h \in Nat /\ 0 \in Nat /\ Chosen[h] \in Votable /\ TRUE \in BOOLEAN
      BY <1>1, <1>2, Zenon
    <3> QED BY <3>1, SMTT(60) DEF Item, ItemT
  <2> HIDE DEF m
  <2>3. m.kind \notin {"proposal", "polka"}
    BY <2>2
  <2>4. TaskOK(m)
    BY <2>2, <2>3, Zenon DEF TaskOK
  <2>5. TasksOK(<<m>>, m)
    BY <2>2, <2>4, TasksFor, Zenon
  <2> QED BY <2>1, <2>2, <2>4, <2>5, ReceiveKeeps, Zenon
<1> QED BY <1>3, <1>4, <1>5, <1>6

\* Resume: staged work starts the deferred height.
LEMMA ResumeKeeps ==
    ASSUME HInv, Resume
    PROVE  HInv'
<1>0. Types /\ Queue /\ Quiet /\ deferred \in Heights
  BY Zenon DEF HInv, Resume
<1>1. /\ StartHeight(deferred, Len(Fetch(deferred)), TRUE) /\ deferred' = 0
      /\ todo' = <<Drain>> /\ UNCHANGED <<durable, mode, replay, stash>>
  BY Zenon DEF Resume
<1>2. todo' \in Seq(ItemT) /\ \A i \in 1 .. Len(todo') : todo'[i] = Drain
  BY <1>1, DrainIs
<1>3. Queue' /\ stash' \subseteq ItemT
  BY <1>0, <1>1, <1>2, DrainIs, Zenon DEF Queue, TaskOK, Types
<1> QED BY <1>0, <1>1, <1>2, <1>3, Started, Zenon

-----------------------------------------------------------------------------
(* Timeouts and the driver's proposals *)

\* Timeout: of the proposal or of the round
LEMMA TimeoutKeeps ==
    ASSUME HInv, Timeout
    PROVE  HInv'
<1>0. Types /\ Phase /\ Queue /\ PropsOK /\ NeedsOK
  BY DEF HInv
<1>1. mode = "run" /\ fx = <<>> /\ deferred = 0 /\ ~eng.done
  BY Zenon DEF Timeout, Quiet
<1>2. Last \in Nat
  BY <1>0, LogType, Zenon
<1>3. Running
  <2>1. ~Stopped /\ ~Replaying /\ ~Closed
    BY <1>1 DEF Stopped, Replaying, Closed
  <2>2. ~Waiting
    BY <1>1, <1>2 DEF Waiting
  <2> QED BY <1>0, <2>1, <2>2, Zenon DEF Phase
<1>4. Ready(eng, walSeq, LogRows) /\ RowsOK(LogRows) /\ EngOK(eng, LogRows)
  BY <1>0, <1>1, <1>3, RunReady, Zenon
<1>5. UNCHANGED <<durable, mode, walSeq, blocks, deferred, stash, buffered, replay, todo>>
  BY Zenon DEF Timeout
<1>6. UNCHANGED <<chain, wal, votes, props, mode, walSeq, blocks, deferred, stash, replay, todo>>
  BY <1>5 DEF durable
<1>7. todo' \in Seq(ItemT) /\ stash' \subseteq ItemT /\ Queue'
  BY <1>0, <1>6, Zenon DEF Types, Queue, TaskOK
<1>8. PICK q \in {OnProposeTimeout(eng), OnRoundTimeout(eng)} :
        /\ eng' = q.eng /\ fx' = q.fx
        /\ needs' = needs \cup (IF q.eng.round = eng.round THEN {} ELSE Asks(q.eng))
        /\ asked' = asked \cup (IF q.eng.round = eng.round THEN {} ELSE Asks(q.eng))
  BY Zenon DEF Timeout
<1>9. CASE q = OnProposeTimeout(eng)
  <2>1. Stayed(q, eng, walSeq, LogRows)
    BY <1>4, <1>9, LiveExpire, Zenon
  <2>2. needs' = needs /\ asked' = asked
    BY <1>8, <2>1 DEF Stayed
  <2>3. \A x \in q.eng.values : <<eng.height, x.value>> \in blocks'
    BY <1>3, <1>6, <2>1, Zenon DEF Stayed, Running, Working
  <2>4. eng.values \subseteq q.eng.values
    BY <2>1, Zenon DEF Stayed
  <2> QED BY <1>1, <1>3, <1>6, <1>7, <1>8, <2>1, <2>2, <2>3, <2>4, Answered, Zenon DEF Stayed
<1>10. CASE q = OnRoundTimeout(eng)
  <2>1. /\ Live(q, walSeq, LogRows) /\ q.eng.height = eng.height /\ q.eng.round = eng.round + 1
        /\ q.eng.values = eng.values
    BY <1>4, <1>10, LiveSkip, Zenon
  <2>2. eng.round \in Nat
    BY <1>0 DEF Types, EngT
  <2>3. needs' = needs \cup Asks(eng') /\ asked' = asked \cup Asks(eng')
    BY <1>8, <2>1, <2>2
  <2>4. eng'.height = eng.height /\ eng'.round = eng.round + 1
    BY <1>8, <2>1, Zenon
  <2>5. /\ eng' \in EngT /\ FxOK(fx', eng') /\ ~Has(fx', "gossip") /\ (eng'.done => Has(fx', "decide"))
        /\ RowsOK(LogRows \cup PendOf(walSeq, fx')) /\ EngOK(eng', LogRows \cup PendOf(walSeq, fx'))
    BY <1>8, <2>1, Zenon DEF Live, Answer
  <2>6. \A x \in eng'.values : <<eng.height, x.value>> \in blocks'
    BY <1>3, <1>6, <1>8, <2>1, Zenon DEF Running, Working
  <2>7. Running'
    BY <1>3, <1>6, <2>4, <2>5, <2>6, StillRunning, Zenon
  <2>8. Asks(eng') \subseteq Mine /\ \A n \in Asks(eng') : n = <<eng.height, eng.round + 1>>
    BY <2>4, AsksIs, Zenon
  <2>9. Types'
    <3>1. fx' \in Seq(EffT) /\ needs' \subseteq Mine
      BY <1>0, <2>3, <2>5, <2>8, Zenon DEF FxOK, Types
    <3> QED BY <1>0, <1>6, <1>7, <2>5, <3>1, Zenon DEF Types
  <2>10. LogRows' = LogRows /\ Last' = Last /\ eng.height = Last + 1
    BY <1>3, <1>6, LogSame DEF Running, Working
  <2>11. PropsOK'
    <3> SUFFICES ASSUME NEW x \in props, <<x.height, x.round>> \in needs' PROVE FALSE
      BY <1>0, <1>6, <2>10, Zenon DEF PropsOK
    <3>1. /\ <<x.height, x.round>> \in Mine \ needs
          /\ x.height = Last + 1 => Settled(LogRows, x.round)
      BY <1>0, Zenon DEF PropsOK
    <3>2. <<x.height, x.round>> = <<eng.height, eng.round + 1>>
      BY <2>3, <2>8, <3>1, Zenon
    <3>3. x.height = eng.height /\ x.round = eng.round + 1
      BY <3>2
    <3>4. Settled(LogRows, x.round)
      BY <2>10, <3>1, <3>3, Zenon
    <3>5. RoundOf(LogRows, eng.round)
      BY <1>4, Zenon DEF EngOK, VoteOK
    <3>6. \A w \in LogRows : w.item.height = eng.height
      BY <1>0, <2>10, LogType, Zenon
    <3>7. x.round \in Nat /\ x.round > eng.round /\ <<eng.height, x.round>> \in Mine
      BY <2>2, <3>1, <3>3
    <3> QED BY <1>4, <2>2, <3>4, <3>5, <3>6, <3>7, NotSettled, Zenon
  <2>12. NeedsOK'
    <3> SUFFICES ASSUME NEW n \in needs'
                 PROVE  n[1] <= Last + 1 /\ (n[1] = Last + 1 => n[2] <= eng'.round)
      BY <2>7, <2>10, Zenon DEF NeedsOK
    <3>1. CASE n \in needs
      <4>1. n[1] <= Last + 1 /\ (n[1] = Last + 1 => n[2] <= eng.round)
        BY <1>0, <3>1, Zenon DEF NeedsOK
      <4>2. n[2] \in Nat
        BY <1>0, <3>1, MineIs, Zenon DEF Types
      <4> QED BY <2>2, <2>4, <4>1, <4>2
    <3>2. CASE n \in Asks(eng')
      <4>1. n = <<Last + 1, eng.round + 1>>
        BY <2>8, <2>10, <3>2, Zenon
      <4> QED BY <1>2, <2>2, <2>4, <4>1
    <3> QED BY <2>3, <3>1, <3>2, Zenon
  <2>13. GossipOK'
    BY <2>5, Zenon DEF GossipOK, Has
  <2>14. Asked'
    BY <2>3, Zenon DEF Asked, Owed
  <2>15. Kept' /\ VotesOK' /\ NoEquivocation'
    BY <1>6, DurableSame, Zenon
  <2> QED BY <1>7, <2>7, <2>9, <2>11, <2>12, <2>13, <2>14, <2>15, Zenon DEF HInv, Phase
<1> QED BY <1>8, <1>9, <1>10

\* A block that joins the effects
LEMMA Shipped ==
    ASSUME HInv, mode = "run", UNCHANGED <<chain, wal, votes, props>>,
           NEW h, NEW r, <<h, r>> \in needs, needs' = needs \ {<<h, r>>},
           Running => Running', Types', Phase', Queue', Asked',
           NEW f \in Seq(EffT), ~Has(f, "gossip"), NEW x \in ItemT, x.height = h, x.round = r,
           fx' = Append(f, Effect("gossip", x)),
           h = Last + 1 => Running' /\ Settled(Full', r),
           Running => eng'.round = eng.round
    PROVE  HInv'
<1>0. Types /\ PropsOK /\ NeedsOK
  BY DEF HInv
<1>1. Last' = Last /\ LogRows' = LogRows
  BY LogSame
<1>2. Kept' /\ VotesOK' /\ NoEquivocation'
  BY DurableSame, Zenon
<1>3. PropsOK'
  BY <1>0, <1>1, Zenon DEF PropsOK
<1>4. NeedsOK'
  BY <1>0, <1>1, Zenon DEF NeedsOK
<1>5. GossipOK'
  <2>1. Shipping(x)'
    <3>1. h <= Last + 1
      BY <1>0 DEF NeedsOK
    <3>2. <<h, r>> \in Mine
      BY <1>0, Zenon DEF Types
    <3>3. \A y \in props : <<y.height, y.round>> \notin needs
      BY <1>0, Zenon DEF PropsOK
    <3>4. \A y \in props : ~(y.height = h /\ y.round = r)
      BY <3>3, Zenon
    <3> QED BY <1>1, <3>1, <3>2, <3>4, Zenon DEF Shipping
  <2> DEFINE g == Effect("gossip", x)
  <2>2. g \in EffT /\ g.item = x
    BY EffFields, Zenon
  <2> HIDE DEF g
  <2>3. /\ Len(Append(f, g)) = Len(f) + 1 /\ Len(f) \in Nat /\ Append(f, g)[Len(f) + 1] = g
        /\ \A i \in 1 .. Len(f) : Append(f, g)[i] = f[i]
    BY <2>2
  <2>4. ASSUME NEW i \in 1 .. Len(Append(f, g)), Append(f, g)[i].op = "gossip"
        PROVE  Append(f, g)[i].item = x
    <3>1. i \notin 1 .. Len(f)
      BY <2>3, <2>4, Zenon DEF Has
    <3>2. i = Len(f) + 1
      BY <2>3, <3>1
    <3> QED BY <2>2, <2>3, <3>2, Zenon
  <2>5. fx' = Append(f, g)
    BY DEF g
  <2> QED BY <2>1, <2>4, <2>5, Zenon DEF GossipOK
<1> QED BY <1>2, <1>3, <1>4, <1>5, Zenon DEF HInv

\* Propose: this node's first and only block for the round
LEMMA ProposeKeeps ==
    ASSUME HInv, NEW h \in Heights, NEW r \in Rounds, NEW v \in Values, Propose(h, r, v)
    PROVE  HInv'
<1> DEFINE live == h = eng.height /\ r = eng.round /\ ~eng.done /\ deferred = 0
           res == IF live THEN OnValue(eng, r, v, TRUE) ELSE Ignore(eng)
           p == Item("prop", h, r, v, TRUE)
           g == Effect("gossip", p)
<1>0. Types /\ Phase /\ Queue /\ NeedsOK /\ Asked
  BY DEF HInv
<1>1. mode = "run" /\ fx = <<>> /\ <<h, r>> \in needs
  BY Zenon DEF Propose, Quiet
<1>2. /\ needs' = needs \ {<<h, r>>} /\ blocks' = blocks \cup {<<h, v>>}
      /\ eng' = res.eng /\ fx' = Append(res.fx, g)
  BY Zenon DEF Propose
<1>3. UNCHANGED <<durable, mode, walSeq, deferred, stash, replay, todo, asked>>
  BY DEF Propose
<1>4. UNCHANGED <<chain, wal, votes, props, mode, walSeq, deferred, stash, replay, todo, asked>>
  BY <1>3 DEF durable
<1>5. todo' \in Seq(ItemT) /\ stash' \subseteq ItemT /\ Queue'
  BY <1>0, <1>4, Zenon DEF Types, Queue, TaskOK
<1>6. r \in Nat /\ h \in Nat /\ Last \in Nat /\ eng.round \in Nat
  BY <1>0, HostAssumption, LogType DEF Heights, Rounds, Types, EngT
<1>7. p \in ItemT /\ p.height = h /\ p.round = r
  <2>1. "prop" \in Kinds /\ v \in Votable /\ TRUE \in BOOLEAN
    BY Zenon DEF Kinds, Votable
  <2> QED BY <1>6, <2>1, SMTT(60) DEF Item, ItemT
<1> HIDE DEF p
<1>8. g \in EffT /\ g.op = "gossip" /\ g.item = p
  BY <1>7, EffFields, Zenon
<1>9. /\ h <= Last + 1 /\ (h = Last + 1 => Running /\ r <= eng.round)
      /\ needs' \subseteq Mine
  <2>1. <<h, r>>[1] = h /\ <<h, r>>[2] = r
    OBVIOUS
  <2>2. h <= Last + 1 /\ (h = Last + 1 => Running /\ r <= eng.round)
    BY <1>0, <1>1, <2>1, Zenon DEF NeedsOK
  <2> QED BY <1>0, <1>2, <2>2, Zenon DEF Types
<1>10. g.op # "wal" /\ g.op # "publish" /\ g.op # "decide"
  BY <1>8
<1> HIDE DEF g
<1>11. CASE Running
  <2>1. Ready(eng, walSeq, LogRows) /\ EngOK(eng, LogRows) /\ ~eng.done
    BY <1>0, <1>1, <1>11, RunReady, Zenon
  <2>2. deferred = 0 /\ eng.height = Last + 1
    BY <1>11, Zenon DEF Running, Working
  <2>3. live => Ingested(res, eng, walSeq, LogRows, r, v)
    <3>1. TRUE \in BOOLEAN
      OBVIOUS
    <3> QED BY <1>6, <2>1, <3>1, LiveValue, Zenon
  <2>4. ~live => Stayed(res, eng, walSeq, LogRows)
    BY <2>1, StayedIgnore, Zenon
  <2>5. live <=> h = Last + 1 /\ r = eng.round
    BY <2>1, <2>2, Zenon
  <2> HIDE DEF res, live
  <2>6. /\ Live(res, walSeq, LogRows) /\ res.eng.height = eng.height /\ res.eng.round = eng.round
        /\ KeepsVote(res, eng) /\ eng.values \subseteq res.eng.values
    BY <2>3, <2>4, Zenon DEF Ingested, Stayed
  <2>7. \A x \in res.eng.values : <<eng.height, x.value>> \in blocks'
    <3>1. \A x \in eng.values : <<eng.height, x.value>> \in blocks
      BY <1>11, Zenon DEF Running, Working
    <3>2. \A x \in res.eng.values : x \in eng.values \/ (live /\ x.value = v)
      BY <2>3, <2>4, Zenon DEF Ingested, Stayed
    <3> QED BY <1>2, <2>2, <2>5, <3>1, <3>2, Zenon
  <2>8. /\ res.eng \in EngT /\ FxOK(res.fx, res.eng) /\ ~Has(res.fx, "gossip")
        /\ (res.eng.done => Has(res.fx, "decide"))
        /\ RowsOK(LogRows \cup PendOf(walSeq, res.fx)) /\ EngOK(res.eng, LogRows \cup PendOf(walSeq, res.fx))
    BY <2>6, Zenon DEF Live, Answer
  <2>9. res.fx \in Seq(EffT) /\ walSeq \in Nat
    BY <1>0, <2>8, Zenon DEF FxOK, Types
  <2>10. PendOf(walSeq, fx') = PendOf(walSeq, res.fx)
    BY <1>2, <1>8, <1>10, <2>9, PendAppend, Zenon
  <2>11. FxOK(fx', eng')
    BY <1>2, <1>8, <2>8, FxAppend, Zenon
  <2>12. eng'.done => Has(fx', "decide")
    BY <1>2, <1>8, <2>8, <2>9, HasAppend, Zenon
  <2>13. Running'
    BY <1>2, <1>4, <1>11, <2>6, <2>7, <2>8, <2>10, <2>11, <2>12, StillRunning, Zenon
  <2>14. Types'
    BY <1>0, <1>2, <1>4, <1>5, <1>9, <2>8, <2>11, Zenon DEF Types, FxOK
  <2>15. Asked'
    <3>1. eng.vote # "none" => eng'.vote # "none"
      BY <1>2, <2>6, Zenon DEF KeepsVote
    <3>2. Owed' \subseteq Owed
      BY <1>2, <2>1, <2>6, <3>1, OwedLess, Zenon
    <3> QED BY <1>0, <1>4, <3>2, Zenon DEF Asked
  <2>16. Full' = LogRows \cup PendOf(walSeq, res.fx)
    BY <1>4, <2>10, LogSame, Zenon DEF Full
  <2>17. h = Last + 1 => Settled(Full', r)
    <3>1. CASE live
      <4>1. \E w \in Full' : w.item.kind = "value" /\ w.item.round = r
        BY <2>3, <2>16, <3>1, Zenon DEF Ingested
      <4> QED BY <4>1, Zenon DEF Settled
    <3>2. CASE ~live /\ h = Last + 1
      <4>1. r < eng.round /\ eng.round > 0
        BY <1>6, <1>9, <2>5, <3>2
      <4>2. RoundOf(LogRows, eng.round)
        BY <2>1, Zenon DEF EngOK, VoteOK
      <4>3. PICK w \in LogRows : w.item.kind = "skip" /\ w.item.round = eng.round - 1
        BY <4>1, <4>2, Zenon DEF RoundOf
      <4>4. w.item.round >= r
        BY <1>6, <4>1, <4>3
      <4> QED BY <2>16, <4>3, <4>4, Zenon DEF Settled
    <3> QED BY <3>1, <3>2
  <2>18. eng'.round = eng.round
    BY <1>2, <2>6, Zenon
  <2> QED BY <1>1, <1>2, <1>4, <1>5, <1>7, <2>8, <2>9, <2>13, <2>14, <2>15, <2>17, <2>18, Shipped, Zenon
          DEF Phase, g
<1>12. CASE Closed
  <2>1. eng.done /\ res = Ignore(eng)
    BY <1>12, Zenon DEF Closed
  <2>2. res.eng = eng /\ res.fx = <<>>
    BY <2>1 DEF Ignore
  <2> HIDE DEF res, live
  <2>3. eng' = eng /\ fx' = Append(<<>>, g) /\ eng \in EngT
    BY <1>0, <1>2, <2>2, Zenon DEF Types
  <2>4. <<>> \in Seq(EffT) /\ \A op : ~Has(<<>>, op)
    BY NoneHas
  <2>5. FxOK(fx', eng)
    BY <1>8, <2>3, <2>4, FxEmpty, FxAppend, Zenon
  <2>6. ~Has(fx', "publish") /\ ~Has(fx', "decide") /\ ~Has(fx', "wal")
    BY <1>8, <1>10, <2>3, <2>4, HasAppend, Zenon
  <2>7. fx' \in Seq(EffT) /\ \A i \in 1 .. Len(fx') : fx'[i].op = "wal" => fx'[i].item.kind = "value"
    BY <2>5, <2>6, Zenon DEF FxOK, Has
  <2>8. Closed' /\ Types' /\ Asked'
    BY <1>1, <1>4, <1>5, <1>9, <1>12, <2>1, <2>3, <2>5, <2>6, <2>7, Late, Zenon
  <2>9. ~Running
    BY <1>6, <1>12 DEF Running, Working, Closed
  <2> QED BY <1>1, <1>2, <1>4, <1>5, <1>7, <1>9, <2>3, <2>4, <2>8, <2>9, Shipped, Zenon DEF Phase, g
<1>13. ~Stopped /\ ~Replaying /\ ~Waiting
  BY <1>1 DEF Stopped, Replaying, Waiting
<1> QED BY <1>0, <1>11, <1>12, <1>13, Zenon DEF Phase

-----------------------------------------------------------------------------
(* Theorems *)

\* Every step preserves the invariant.
LEMMA InvStep ==
    ASSUME HInv, [Next]_vars
    PROVE  HInv'
<1>1. CASE Boot \/ Replay \/ ReplayDone
  BY <1>1, BootKeeps, ReplayKeeps, ReplayDoneKeeps, Zenon
<1>2. CASE Effects
  BY <1>2, WalAppendKeeps, PublishKeeps, BroadcastKeeps, DecideKeeps, Zenon DEF Effects
<1>3. CASE Tasks
  BY <1>3, TakeProposalKeeps, DrainStashKeeps, TakeVotesKeeps, TakeSyncKeeps, Zenon DEF Tasks
<1>4. CASE Inputs
  <2>1. CASE Resume \/ Timeout
    BY <2>1, ResumeKeeps, TimeoutKeeps, Zenon
  <2>2. CASE \E h \in Heights, r \in Rounds, v \in Values :
               WireProposal(h, r, v) \/ WirePolka(h, r, v) \/ Propose(h, r, v)
    BY <2>2, WireKeeps, ProposeKeeps, Zenon
  <2>3. CASE \E h \in Heights : WireQuorum(h) \/ SyncValue(h)
    <3>1. PICK h \in Heights : WireQuorum(h) \/ SyncValue(h)
      BY <2>3
    <3>2. 0 \in Rounds /\ Chosen[h] \in Values
      BY HostAssumption DEF Rounds
    <3> QED BY <3>1, <3>2, WireKeeps, Zenon
  <2> QED BY <1>4, <2>1, <2>2, <2>3, Zenon DEF Inputs
<1>5. CASE Crash \/ EffectFails
  BY <1>5, DownKeeps DEF Crash, EffectFails
<1>6. CASE UNCHANGED vars
  BY <1>6, StutterKeeps, Zenon
<1> QED BY <1>1, <1>2, <1>3, <1>4, <1>5, <1>6, Zenon DEF Next

\* The log and the engine agree in every state of the host, across crashes.
THEOREM LogDeterminesEngine == Spec => []HInv
<1>1. Init => HInv
  BY InitHolds, Zenon
<1>2. HInv /\ [Next]_vars => HInv'
  BY InvStep, Zenon
<1> QED BY <1>1, <1>2, PTL DEF Spec

\* Wherever the process dies and however often, it never publishes two
\* different votes and never ships two different blocks for a height and round
\* (execute's WalAppend before its publish, replay_entry, propose,
\* owed_proposal): what it published is what its log determines.
THEOREM NeverEquivocates == Spec => []NoEquivocation
<1>1. HInv => NoEquivocation
  BY Zenon DEF HInv
<1> QED BY <1>1, LogDeterminesEngine, PTL

\* No append reuses a key of consensus_wal, and every decide finds its block
\* and extends the chain (execute, start_height).
THEOREM NoEffectIsFatal == Spec => []NoFatalEffect
<1>1. HInv => NoFatalEffect
  BY FatalFree, Zenon
<1> QED BY <1>1, LogDeterminesEngine, PTL

\* A proposer that owes its round a value has been asked for it by the running
\* process (NeedValue in start_height, owed_proposal after a replay).
THEOREM ProposerAlwaysAsked == Spec => []ProposerAsked
<1>1. HInv => ProposerAsked
  BY AskedHolds, Zenon
<1> QED BY <1>1, LogDeterminesEngine, PTL

\* No height past the seal is started, voted in, proposed for or decided (on_decide,
\* spawn_engine).
THEOREM SealEndsTheEpoch == Spec => []SealIsTerminal
<1>1. HInv => SealIsTerminal
  BY SealHolds, Zenon
<1> QED BY <1>1, LogDeterminesEngine, PTL

\* Between two inputs the log calls for no decide that was not carried out
\* (start_height's replay).
THEOREM EveryLoggedDecideHappens == Spec => []ReplayDecides
<1>1. HInv => ReplayDecides
  BY ReplayHolds, Zenon
<1> QED BY <1>1, LogDeterminesEngine, PTL

\* Without storage contention every proposal held at an open height was judged
\* valid against the tip it extends (ingest_proposal, drain_stashed_proposals).
THEOREM ProposalsJudgedInTime == Spec => []JudgedAtTheirTip
<1>1. HInv => JudgedAtTheirTip
  BY JudgedHolds, Zenon
<1> QED BY <1>1, LogDeterminesEngine, PTL

=============================================================================
