--------------------------- MODULE HostLogProofs ---------------------------
(***************************************************************************)
(* What the write-ahead log of ConsensusHost guarantees, for any number of *)
(* heights, rounds, values and crashes.  The inductive invariant HInv says *)
(* that the rows of the open height, in their order, determine the         *)
(* engine's round, vote and values: VoteOK names the first row that makes  *)
(* a vote in a round, and a crash, which leaves a beginning of the rows    *)
(* (Prefix), cannot change it.  So what was published before the crash is  *)
(* what the replay brings back.                                            *)
(*                                                                         *)
(* This module has the invariant, what follows from it, and the steps that *)
(* move the log and the process: effects, crashes, boot and replay.        *)
(* ConsensusHostProofs has the inputs and the theorems.                    *)
(***************************************************************************)
EXTENDS ConsensusHost, TLAPS

-----------------------------------------------------------------------------
(* What the rows of one height determine *)

Votable == Values \cup {"nil", "none"}
Kinds == {"vote", "value", "quorum", "expire", "skip", "decide", "prop",
          "proposal", "polka", "sync", "drain"}

ItemT == [kind : Kinds, height : Nat, round : Nat, value : Votable, ok : BOOLEAN]
RowT == [seq : Nat, item : ItemT]
Row(s, i) == [seq |-> s, item |-> i]

\* The engine is in round r after the rows S: a skip ends each round.
RoundOf(S, r) ==
    /\ \A u \in S : u.item.kind = "skip" => u.item.round < r
    /\ r > 0 => \E u \in S : u.item.kind = "skip" /\ u.item.round = r - 1

Before(S, s) == {u \in S : u.seq < s}

\* Row w makes the engine vote in round r, if it has not voted there.
Voting(S, w, r) ==
    /\ w.item.kind \in {"vote", "expire", "value"} /\ w.item.round = r
    /\ RoundOf(Before(S, w.seq), r)

VoteOf(i) == IF i.kind = "vote" \/ (i.kind = "value" /\ i.ok) THEN i.value ELSE "nil"

\* The vote of round r is v: that of the first row that makes one.
First(S, r, v) ==
    \E w \in S : /\ Voting(S, w, r) /\ VoteOf(w.item) = v
                 /\ \A u \in S : Voting(S, u, r) => w.seq <= u.seq

VoteOK(S, r, v) ==
    /\ RoundOf(S, r)
    /\ v # "none" => First(S, r, v)
    /\ v = "none" => \A w \in S : ~Voting(S, w, r)

\* x is a row behind the rows S.
Behind(S, x) == S \subseteq RowT /\ x \in RowT /\ \A u \in S : u.seq < x.seq

\* The fields of a row
LEMMA RowFields ==
    ASSUME NEW x \in RowT
    PROVE  /\ x.seq \in Nat /\ x.item \in ItemT
           /\ x.item.kind \in Kinds /\ x.item.height \in Nat /\ x.item.round \in Nat
           /\ x.item.value \in Votable /\ x.item.ok \in BOOLEAN
  BY DEF RowT, ItemT

\* The rows before one that comes last are all the others.
LEMMA BeforeBehind ==
    ASSUME NEW S, NEW x, Behind(S, x)
    PROVE  Before(S \cup {x}, x.seq) = S
<1>1. x.seq \in Nat /\ \A u \in S : u.seq < x.seq
  BY RowFields DEF Behind
<1>2. ~(x.seq < x.seq)
  BY <1>1, SMT
<1> QED BY <1>1, <1>2 DEF Before

\* A row that comes last is before no other.
LEMMA BeforeStays ==
    ASSUME NEW S, NEW x, Behind(S, x), NEW w \in S
    PROVE  Before(S \cup {x}, w.seq) = Before(S, w.seq)
<1>1. x.seq \in Nat /\ w.seq \in Nat /\ w.seq < x.seq
  BY RowFields DEF Behind
<1>2. ~(x.seq < w.seq)
  BY <1>1, SMT
<1> QED BY <1>2 DEF Before

\* A row that comes last does not change which of the others make votes.
LEMMA VotingBehind ==
    ASSUME NEW S, NEW x, Behind(S, x), NEW r, NEW w \in S
    PROVE  Voting(S \cup {x}, w, r) <=> Voting(S, w, r)
<1>1. Before(S \cup {x}, w.seq) = Before(S, w.seq)
  BY BeforeStays, Zenon
<1> QED BY <1>1, Zenon DEF Voting

\* The rows of a height determine the round.
LEMMA RoundUnique ==
    ASSUME NEW S, S \subseteq RowT, NEW r \in Nat, NEW q \in Nat, RoundOf(S, r), RoundOf(S, q)
    PROVE  r = q
<1>1. \A u \in S : u.item.round \in Nat
  BY RowFields
<1>2. ~(r < q)
  BY <1>1, SMT DEF RoundOf
<1>3. ~(q < r)
  BY <1>1, SMT DEF RoundOf
<1> QED BY <1>2, <1>3, SMT

\* A row that comes last does not change a vote that was made before it.
LEMMA FirstBehind ==
    ASSUME NEW S, NEW x, Behind(S, x), NEW r, NEW v, First(S, r, v)
    PROVE  First(S \cup {x}, r, v)
<1>1. PICK w \in S : /\ Voting(S, w, r) /\ VoteOf(w.item) = v
                     /\ \A u \in S : Voting(S, u, r) => w.seq <= u.seq
  BY DEF First
<1>2. Voting(S \cup {x}, w, r)
  BY <1>1, VotingBehind, Zenon
<1>3. w.seq <= x.seq
  <2>1. w.seq \in Nat /\ x.seq \in Nat /\ w.seq < x.seq
    BY RowFields DEF Behind
  <2> QED BY <2>1, SMT
<1>4. \A u \in S \cup {x} : Voting(S \cup {x}, u, r) => w.seq <= u.seq
  BY <1>1, <1>3, VotingBehind, Zenon
<1> QED BY <1>1, <1>2, <1>4, Zenon DEF First

\* The rows determine one vote for a round.
LEMMA FirstUnique ==
    ASSUME NEW S, S \subseteq RowT, \A x, y \in S : x.seq = y.seq => x = y,
           NEW r, NEW v, NEW w, First(S, r, v), First(S, r, w)
    PROVE  v = w
<1>1. PICK x \in S : /\ Voting(S, x, r) /\ VoteOf(x.item) = v
                     /\ \A u \in S : Voting(S, u, r) => x.seq <= u.seq
  BY DEF First
<1>2. PICK y \in S : /\ Voting(S, y, r) /\ VoteOf(y.item) = w
                     /\ \A u \in S : Voting(S, u, r) => y.seq <= u.seq
  BY DEF First
<1>3. x.seq \in Nat /\ y.seq \in Nat
  BY RowFields
<1>4. x.seq <= y.seq /\ y.seq <= x.seq
  BY <1>1, <1>2, Zenon
<1>5. x.seq = y.seq
  BY <1>3, <1>4, SMT
<1> QED BY <1>1, <1>2, <1>5

-----------------------------------------------------------------------------
(* Appending a row *)

\* A row that is no skip leaves the engine in its round.
LEMMA RoundStays ==
    ASSUME NEW S, NEW x, NEW r, RoundOf(S, r), x.item.kind # "skip"
    PROVE  RoundOf(S \cup {x}, r)
  BY Zenon DEF RoundOf

\* A row that makes no vote, or comes after the vote, leaves it.
LEMMA VoteStays ==
    ASSUME NEW S, NEW x, Behind(S, x), NEW r, NEW v, VoteOK(S, r, v), x.item.kind # "skip",
           v # "none" \/ x.item.kind = "quorum" \/ x.item.round # r
    PROVE  VoteOK(S \cup {x}, r, v)
<1>1. RoundOf(S \cup {x}, r)
  BY RoundStays DEF VoteOK
<1>2. CASE v # "none"
  BY <1>1, <1>2, FirstBehind, Zenon DEF VoteOK
<1>3. CASE v = "none"
  <2>1. ~Voting(S \cup {x}, x, r)
    BY <1>3, Zenon DEF Voting
  <2>2. \A w \in S : ~Voting(S \cup {x}, w, r)
    BY <1>3, VotingBehind, Zenon DEF VoteOK
  <2> QED BY <1>1, <1>3, <2>1, <2>2, Zenon DEF VoteOK
<1> QED BY <1>2, <1>3

\* The first row that makes a vote makes the vote.
LEMMA VoteMade ==
    ASSUME NEW S, NEW x, Behind(S, x), NEW r, VoteOK(S, r, "none"),
           x.item.kind \in {"vote", "expire", "value"}, x.item.round = r,
           VoteOf(x.item) # "none"
    PROVE  VoteOK(S \cup {x}, r, VoteOf(x.item))
<1>1. RoundOf(S, r) /\ RoundOf(S \cup {x}, r)
  <2>1. x.item.kind # "skip"
    OBVIOUS
  <2> QED BY <2>1, RoundStays DEF VoteOK
<1>2. Voting(S \cup {x}, x, r)
  <2>1. Before(S \cup {x}, x.seq) = S
    BY BeforeBehind, Zenon
  <2> QED BY <1>1, <2>1, Zenon DEF Voting
<1>3. \A w \in S : ~Voting(S \cup {x}, w, r)
  <2>1. \A w \in S : Voting(S \cup {x}, w, r) <=> Voting(S, w, r)
    BY VotingBehind, Zenon
  <2> QED BY <2>1, Zenon DEF VoteOK
<1>4. x.seq <= x.seq
  <2>1. x.seq \in Nat
    BY RowFields DEF Behind
  <2> QED BY <2>1, SMT
<1>5. First(S \cup {x}, r, VoteOf(x.item))
  BY <1>2, <1>3, <1>4, Zenon DEF First
<1> QED BY <1>1, <1>5, Zenon DEF VoteOK

\* A skip ends the round.
LEMMA RoundEnds ==
    ASSUME NEW S, NEW x, Behind(S, x), NEW r \in Nat, RoundOf(S, r),
           x.item.kind = "skip", x.item.round = r
    PROVE  VoteOK(S \cup {x}, r + 1, "none")
<1>1. \A u \in S : u.item.round \in Nat
  BY RowFields DEF Behind
<1>2. RoundOf(S \cup {x}, r + 1)
  <2>1. \A u \in S \cup {x} : u.item.kind = "skip" => u.item.round < r + 1
    BY <1>1, SMT DEF RoundOf
  <2>2. (r + 1) - 1 = r
    BY SMT
  <2> QED BY <2>1, <2>2, Zenon DEF RoundOf
<1>3. \A w \in S : ~RoundOf(Before(S, w.seq), r + 1)
  <2> SUFFICES ASSUME NEW w \in S, RoundOf(Before(S, w.seq), r + 1) PROVE FALSE
    OBVIOUS
  <2>1. PICK u \in S : u.item.kind = "skip" /\ u.item.round = (r + 1) - 1
    BY SMT DEF RoundOf, Before
  <2>2. u.item.round < r
    BY <2>1, Zenon DEF RoundOf
  <2> QED BY <1>1, <2>1, <2>2, SMT
<1>4. \A w \in S : ~Voting(S \cup {x}, w, r + 1)
  <2>1. \A w \in S : Voting(S \cup {x}, w, r + 1) <=> Voting(S, w, r + 1)
    BY VotingBehind, Zenon
  <2> QED BY <1>3, <2>1, Zenon DEF Voting
<1>5. ~Voting(S \cup {x}, x, r + 1)
  BY Zenon DEF Voting
<1> QED BY <1>2, <1>4, <1>5, Zenon DEF VoteOK

-----------------------------------------------------------------------------
(* The rows of a height *)

SameValue(x, y) == /\ x.item.kind = "value" /\ y.item.kind = "value"
                   /\ x.item.round = y.item.round /\ x.item.value = y.item.value

\* What was true of row i when it was appended to the rows S: a row of the
\* engine's own is for its round, and so is a proposal of this node's.
Timely(S, i) ==
    /\ i.kind \in {"vote", "value", "quorum", "expire", "skip"}
    /\ i.kind \in {"vote", "expire", "skip"} => RoundOf(S, i.round)
    /\ i.kind = "vote" => i.value # "none"
    /\ i.kind = "value" => /\ i.value \in Values /\ (~Contention => i.ok)
                           /\ <<i.height, i.round>> \in Mine => RoundOf(S, i.round)

RowsOK(S) ==
    /\ S \subseteq RowT
    /\ \A x, y \in S : x.seq = y.seq => x = y
    /\ \A x, y \in S : SameValue(x, y) => x = y
    /\ \A x \in S : Timely(Before(S, x.seq), x.item)

\* Rows stay well formed when a timely row is appended.
LEMMA RowsAppend ==
    ASSUME NEW S, NEW x, RowsOK(S), Behind(S, x), Timely(S, x.item),
           \A y \in S : ~SameValue(x, y)
    PROVE  RowsOK(S \cup {x})
<1>1. S \cup {x} \subseteq RowT
  BY Zenon DEF RowsOK, Behind
<1>2. \A y \in S : y.seq # x.seq
  <2>1. \A y \in S : y.seq \in Nat /\ x.seq \in Nat /\ y.seq < x.seq
    BY RowFields DEF Behind
  <2> QED BY <2>1, SMT
<1>3. \A y, z \in S \cup {x} : y.seq = z.seq => y = z
  BY <1>2, Zenon DEF RowsOK
<1>4. \A y, z \in S \cup {x} : SameValue(y, z) => y = z
  BY Zenon DEF RowsOK, SameValue
<1>5. Timely(Before(S \cup {x}, x.seq), x.item)
  BY BeforeBehind, Zenon
<1>6. ASSUME NEW w \in S PROVE Timely(Before(S \cup {x}, w.seq), w.item)
  <2>1. Before(S \cup {x}, w.seq) = Before(S, w.seq)
    BY BeforeStays, Zenon
  <2> QED BY <2>1, Zenon DEF RowsOK
<1>7. \A w \in S \cup {x} : Timely(Before(S \cup {x}, w.seq), w.item)
  BY <1>5, <1>6, Zenon
<1> QED BY <1>1, <1>3, <1>4, <1>7, Zenon DEF RowsOK

\* A crash leaves a beginning of the rows.
Prefix(S, F) == S \subseteq F /\ \A w \in S, u \in F : u.seq < w.seq => u \in S

\* A beginning of the rows has all that came before each of its rows.
LEMMA PrefixBefore ==
    ASSUME NEW S, NEW F, Prefix(S, F), NEW w \in S
    PROVE  Before(S, w.seq) = Before(F, w.seq)
  BY DEF Prefix, Before

\* A beginning of well-formed rows is well formed.
LEMMA RowsPrefix ==
    ASSUME NEW S, NEW F, Prefix(S, F), RowsOK(F)
    PROVE  RowsOK(S)
<1>1. ASSUME NEW w \in S PROVE Timely(Before(S, w.seq), w.item)
  <2>1. Before(S, w.seq) = Before(F, w.seq) /\ w \in F
    BY PrefixBefore, Zenon DEF Prefix
  <2> QED BY <2>1, Zenon DEF RowsOK
<1>2. S \subseteq F
  BY DEF Prefix
<1>3. S \subseteq RowT
  BY <1>2, Zenon DEF RowsOK
<1>4. \A x, y \in S : (x.seq = y.seq => x = y) /\ (SameValue(x, y) => x = y)
  BY <1>2, Zenon DEF RowsOK
<1> QED BY <1>1, <1>3, <1>4, Zenon DEF RowsOK

\* A vote that a beginning of the rows determines is the one that all of them do.
LEMMA FirstPrefix ==
    ASSUME NEW S, NEW F, Prefix(S, F), F \subseteq RowT, NEW r, NEW v, First(S, r, v)
    PROVE  First(F, r, v)
<1>1. PICK w \in S : /\ Voting(S, w, r) /\ VoteOf(w.item) = v
                     /\ \A u \in S : Voting(S, u, r) => w.seq <= u.seq
  BY DEF First
<1>2. ASSUME NEW u \in S PROVE Voting(F, u, r) <=> Voting(S, u, r)
  <2>1. Before(S, u.seq) = Before(F, u.seq)
    BY PrefixBefore, Zenon
  <2> QED BY <2>1, Zenon DEF Voting
<1>3. ASSUME NEW u \in F, Voting(F, u, r) PROVE w.seq <= u.seq
  <2>1. CASE u \in S
    BY <1>1, <1>2, <1>3, <2>1, Zenon
  <2>2. CASE u \notin S
    <3>1. ~(u.seq < w.seq)
      BY <2>2, Zenon DEF Prefix
    <3>2. u.seq \in Nat /\ w.seq \in Nat
      BY RowFields DEF Prefix
    <3> QED BY <3>1, <3>2, SMT
  <2> QED BY <2>1, <2>2
<1>4. w \in F /\ Voting(F, w, r)
  BY <1>1, <1>2, Zenon DEF Prefix
<1> QED BY <1>1, <1>3, <1>4, Zenon DEF First

-----------------------------------------------------------------------------
(* The engine against the rows *)

HeldT == [round : Int, value : Values, ok : BOOLEAN]
EngT == [height : Nat, round : Nat, vote : Votable, values : SUBSET HeldT,
         quorum : BOOLEAN, done : BOOLEAN]

EffT == [op : {"wal", "publish", "gossip", "decide"}, item : ItemT]
Held(i) == [round |-> i.round, value |-> i.value, ok |-> i.ok]

\* The engine holds the values that the rows S log, and perhaps a sync value.
ValsOK(S, vals) ==
    /\ \A x \in vals : x.round # -1 => \E w \in S : w.item.kind = "value" /\ x = Held(w.item)
    /\ \A w \in S : w.item.kind = "value" => Held(w.item) \in vals

\* Before it decides, an engine has what the rows log and no more.
OpenOK(S, e) ==
    /\ \A x \in e.values : x.round # -1
    /\ e.quorum <=> \E w \in S : w.item.kind = "quorum"

EngOK(e, S) ==
    /\ VoteOK(S, e.round, e.vote) /\ ValsOK(S, e.values)
    /\ ~e.done => OpenOK(S, e) /\ ~(e.quorum /\ Holds(e, Chosen[e.height]))

\* As EngOK, between the input and Settle
PreOK(e, S) == VoteOK(S, e.round, e.vote) /\ ValsOK(S, e.values) /\ OpenOK(S, e)

\* The engine e1 is e but for the fields given.
Becomes(e, e1, round, vote, values, quorum, done) ==
    /\ e1 \in EngT /\ e1.height = e.height /\ e1.round = round /\ e1.vote = vote
    /\ e1.values = values /\ e1.quorum = quorum /\ e1.done = done

-----------------------------------------------------------------------------
(* The effects of an input *)

VoteItem(e) == Item("vote", e.height, e.round, e.vote, TRUE)
DecideItem(e) == Item("decide", e.height, 0, Chosen[e.height], TRUE)

\* Effect i of the list f may stand where it does: appends come first, the
\* vote and the decide are the engine's, the decide ends the engine's work.
Placed(f, i, e) ==
    /\ f[i].op = "wal" => f[i].item.height = e.height /\ \A j \in 1 .. i : f[j].op = "wal"
    /\ f[i].op = "publish" => e.vote # "none" /\ f[i].item = VoteItem(e)
    /\ f[i].op = "decide" => /\ e.done /\ Holds(e, Chosen[e.height]) /\ f[i].item = DecideItem(e)
                             /\ \A j \in i + 1 .. Len(f) : f[j].op = "gossip"
    /\ f[i].op = "gossip" => i = Len(f)

FxOK(f, e) == f \in Seq(EffT) /\ \A i \in 1 .. Len(f) : Placed(f, i, e)
Has(f, op) == \E i \in 1 .. Len(f) : f[i].op = op

\* The rows that the appends of f make from sequence number n on
PendOf(n, f) == {Row(n + i - 1, f[i].item) : i \in {j \in 1 .. Len(f) : f[j].op = "wal"}}

\* No effects, no rows
LEMMA PendEmpty ==
    ASSUME NEW n
    PROVE  PendOf(n, <<>>) = {}
  BY DEF PendOf

\* The rows of a list of effects: those of its head and those of its tail
LEMMA PendCons ==
    ASSUME NEW n \in Nat, NEW f \in Seq(EffT), NEW x \in EffT, x.op = "wal"
    PROVE  PendOf(n, <<x>> \o f) = {Row(n, x.item)} \cup PendOf(n + 1, f)
<1> DEFINE g == <<x>> \o f
<1>1. /\ g \in Seq(EffT) /\ Len(g) = Len(f) + 1 /\ Len(f) \in Nat /\ g[1] = x
      /\ \A i \in 1 .. Len(f) : g[i + 1] = f[i]
  OBVIOUS
<1> HIDE DEF g
<1>2. ASSUME NEW w \in PendOf(n, g) PROVE w = Row(n, x.item) \/ w \in PendOf(n + 1, f)
  <2>1. PICK i \in 1 .. Len(g) : g[i].op = "wal" /\ w = Row(n + i - 1, g[i].item)
    BY DEF PendOf
  <2>2. CASE i = 1
    <3>1. n + i - 1 = n
      BY <2>2
    <3> QED BY <1>1, <2>1, <2>2, <3>1, Zenon
  <2>3. CASE i # 1
    <3>1. i - 1 \in 1 .. Len(f) /\ (i - 1) + 1 = i /\ n + i - 1 = (n + 1) + (i - 1) - 1
      BY <1>1, <2>3
    <3>2. g[i] = f[i - 1]
      BY <1>1, <3>1, Zenon
    <3> QED BY <2>1, <3>1, <3>2, Zenon DEF PendOf
  <2> QED BY <2>2, <2>3
<1>3. Row(n, x.item) \in PendOf(n, g)
  <2>1. 1 \in 1 .. Len(g) /\ n = n + 1 - 1
    BY <1>1
  <2> QED BY <1>1, <2>1, Zenon DEF PendOf
<1>4. ASSUME NEW w \in PendOf(n + 1, f) PROVE w \in PendOf(n, g)
  <2>1. PICK i \in 1 .. Len(f) : f[i].op = "wal" /\ w = Row((n + 1) + i - 1, f[i].item)
    BY DEF PendOf
  <2>2. i + 1 \in 1 .. Len(g) /\ (n + 1) + i - 1 = n + (i + 1) - 1
    BY <1>1
  <2> QED BY <1>1, <2>1, <2>2, Zenon DEF PendOf
<1> QED BY <1>2, <1>3, <1>4 DEF g

\* Executing the first append moves its row out of the pending ones.
LEMMA PendTail ==
    ASSUME NEW n \in Nat, NEW f \in Seq(EffT), f # <<>>, Head(f).op = "wal"
    PROVE  PendOf(n, f) = {Row(n, Head(f).item)} \cup PendOf(n + 1, Tail(f))
<1>1. Head(f) \in EffT /\ Tail(f) \in Seq(EffT) /\ f = <<Head(f)>> \o Tail(f)
  OBVIOUS
<1> QED BY <1>1, PendCons, Zenon

\* An effect that is no append adds no row at the end of the list.
LEMMA PendAppend ==
    ASSUME NEW n \in Nat, NEW f \in Seq(EffT), NEW x \in EffT, x.op # "wal"
    PROVE  PendOf(n, Append(f, x)) = PendOf(n, f)
<1> DEFINE g == Append(f, x)
<1>1. /\ Len(g) = Len(f) + 1 /\ Len(f) \in Nat /\ g[Len(g)] = x
      /\ \A i \in 1 .. Len(f) : g[i] = f[i]
  OBVIOUS
<1> HIDE DEF g
<1>2. {j \in 1 .. Len(g) : g[j].op = "wal"} = {j \in 1 .. Len(f) : f[j].op = "wal"}
  BY <1>1
<1>3. PendOf(n, g) = PendOf(n, f)
  BY <1>1, <1>2 DEF PendOf
<1> QED BY <1>3 DEF g

\* A list without appends makes no rows.
LEMMA PendNone ==
    ASSUME NEW n, NEW f, NEW e, FxOK(f, e), f # <<>>, Head(f).op # "wal"
    PROVE  PendOf(n, f) = {} /\ PendOf(n, Tail(f)) = {}
<1>1. f \in Seq(EffT) /\ \A i \in 1 .. Len(f) : Placed(f, i, e)
  BY DEF FxOK
<1>2. Len(f) \in Nat /\ 1 \in 1 .. Len(f) /\ f[1].op # "wal"
  BY <1>1
<1>3. \A i \in 1 .. Len(f) : f[i].op # "wal"
  BY <1>1, <1>2 DEF Placed
<1>4. \A i \in 1 .. Len(Tail(f)) : Tail(f)[i].op # "wal"
  BY <1>1, <1>2, <1>3
<1> QED BY <1>3, <1>4 DEF PendOf

\* What stands after the first effect stands as well placed without it.
LEMMA FxTail ==
    ASSUME NEW f, NEW e, FxOK(f, e), f # <<>>
    PROVE  FxOK(Tail(f), e)
<1> DEFINE g == Tail(f)
<1>1. f \in Seq(EffT) /\ \A i \in 1 .. Len(f) : Placed(f, i, e)
  BY DEF FxOK
<1>2. /\ g \in Seq(EffT) /\ Len(f) = Len(g) + 1 /\ Len(g) \in Nat
      /\ \A i \in 1 .. Len(g) : g[i] = f[i + 1]
  BY <1>1
<1> HIDE DEF g
<1>3. ASSUME NEW i \in 1 .. Len(g) PROVE Placed(g, i, e)
  <2>1. i + 1 \in 1 .. Len(f) /\ g[i] = f[i + 1] /\ Placed(f, i + 1, e)
    BY <1>1, <1>2
  <2>2. ASSUME g[i].op = "wal" PROVE \A j \in 1 .. i : g[j].op = "wal"
    BY <1>2, <2>1, <2>2 DEF Placed
  <2>3. ASSUME g[i].op = "decide" PROVE \A j \in i + 1 .. Len(g) : g[j].op = "gossip"
    BY <1>2, <2>1, <2>3 DEF Placed
  <2>4. ASSUME g[i].op = "gossip" PROVE i = Len(g)
    <3>1. i + 1 = Len(f)
      BY <2>1, <2>4, Zenon DEF Placed
    <3> QED BY <1>2, <3>1
  <2> QED BY <2>1, <2>2, <2>3, <2>4, Zenon DEF Placed
<1>4. FxOK(g, e)
  BY <1>2, <1>3, Zenon DEF FxOK
<1> QED BY <1>4 DEF g

\* The fields of an effect
LEMMA EffFields ==
    ASSUME NEW op \in {"wal", "publish", "gossip", "decide"}, NEW i \in ItemT
    PROVE  Effect(op, i) \in EffT /\ Effect(op, i).op = op /\ Effect(op, i).item = i
  BY DEF Effect, EffT

\* The fields of an item
LEMMA ItemFields ==
    ASSUME NEW k \in Kinds, NEW h \in Nat, NEW r \in Nat, NEW v \in Votable, NEW ok \in BOOLEAN
    PROVE  LET i == Item(k, h, r, v, ok) IN
           /\ i \in ItemT /\ i.kind = k /\ i.height = h /\ i.round = r
           /\ i.value = v /\ i.ok = ok
  BY DEF Item, ItemT

\* The item of the vote that an engine has cast
LEMMA VoteItemType ==
    ASSUME NEW e \in EngT
    PROVE  VoteItem(e) \in ItemT /\ VoteItem(e).kind = "vote" /\ VoteItem(e).height = e.height
           /\ VoteItem(e).round = e.round /\ VoteItem(e).value = e.vote
<1>1. e.height \in Nat /\ e.round \in Nat /\ e.vote \in Votable
  BY DEF EngT
<1>2. TRUE \in BOOLEAN /\ "vote" \in Kinds
  BY Zenon DEF Kinds
<1> QED BY <1>1, <1>2, SMTT(60) DEF VoteItem, Item, ItemT

\* The item of a decide
LEMMA DecideItemType ==
    ASSUME NEW e \in EngT, e.height \in Heights
    PROVE  DecideItem(e) \in ItemT
<1>1. e.height \in Nat /\ 0 \in Nat /\ Chosen[e.height] \in Votable
  BY HostAssumption DEF EngT, Votable
<1>2. TRUE \in BOOLEAN /\ "decide" \in Kinds
  BY Zenon DEF Kinds
<1> QED BY <1>1, <1>2, ItemFields, Zenon DEF DecideItem

\* The empty list of effects is well placed.
LEMMA FxEmpty ==
    ASSUME NEW e
    PROVE  FxOK(<<>>, e)
  BY DEF FxOK

-----------------------------------------------------------------------------
(* The inductive invariant *)

LogRows == Rows(Last + 1)
Full == LogRows \cup PendOf(walSeq, fx)
Dense(S, n) == (\A x \in S : x.seq < n) /\ \A k \in 0 .. n - 1 : \E x \in S : x.seq = k

\* The round r has its proposal in the log, or is over.
Settled(S, r) ==
    \E w \in S : \/ w.item.kind = "value" /\ w.item.round = r
                 \/ w.item.kind = "skip" /\ w.item.round >= r

Types ==
    /\ chain \in Seq(Values) /\ wal \subseteq RowT /\ eng \in EngT /\ walSeq \in Nat
    /\ deferred \in Nat /\ fx \in Seq(EffT) /\ replay \in Seq(ItemT)
    /\ todo \in Seq(ItemT) /\ stash \subseteq ItemT
    /\ votes \subseteq ItemT /\ props \subseteq ItemT /\ needs \subseteq Mine

\* The process is down.
Stopped ==
    /\ mode = "down" /\ eng = Fresh(1) /\ blocks = {} /\ deferred = 0 /\ stash = {}
    /\ buffered = {} /\ replay = <<>> /\ fx = <<>> /\ todo = <<>> /\ needs = {} /\ asked = {}
    /\ RowsOK(LogRows) /\ (\E n \in Nat : Dense(LogRows, n)) /\ (Sealed => LogRows = {})

\* It works on the height after the last decided one.
Working ==
    /\ ~Sealed /\ deferred = 0 /\ eng.height = Last + 1 /\ eng.height \in Heights
    /\ Dense(LogRows, walSeq)
    /\ FxOK(fx, eng) /\ (eng.done => Has(fx, "decide"))
    /\ \A x \in eng.values : <<eng.height, x.value>> \in blocks

\* The log replayed so far
Replayed == Before(LogRows, walSeq - Len(replay))

Replaying ==
    /\ mode = "replay" /\ Working /\ RowsOK(LogRows)
    /\ Len(replay) <= walSeq
    /\ \A i \in 1 .. Len(replay) : Row(walSeq - Len(replay) + i - 1, replay[i]) \in LogRows
    /\ EngOK(eng, Replayed) /\ ~Has(fx, "gossip") /\ needs = {}

Running == mode = "run" /\ Working /\ replay = <<>> /\ RowsOK(Full) /\ EngOK(eng, Full)

\* It has decided the last height and not started the next one.
Closed ==
    /\ mode \in {"replay", "run"} /\ eng.done /\ eng.height = Last
    /\ deferred = (IF Last = SealHeight THEN 0 ELSE Last + 1)
    /\ LogRows = {} /\ (\A x \in Rows(Last) : x.seq < walSeq)
    /\ FxOK(fx, eng) /\ ~Has(fx, "publish") /\ ~Has(fx, "decide")
    /\ \A i \in 1 .. Len(fx) : fx[i].op = "wal" => fx[i].item.kind = "value"
    /\ mode = "replay" => needs = {} /\ ~Has(fx, "gossip")
    /\ mode = "run" => replay = <<>>

\* It waits for a reason to start the next height.
Waiting ==
    /\ mode = "run" /\ ~Sealed /\ deferred = Last + 1 /\ eng = Fresh(Last + 1)
    /\ fx = <<>> /\ needs = {} /\ LogRows = {} /\ replay = <<>> /\ stash = {}
    /\ \A i \in 1 .. Len(todo) : todo[i].height <= Last

Phase == Stopped \/ Replaying \/ Running \/ Closed \/ Waiting

\* The log holds rows of the open height, and proposals that came too late.
Kept == /\ \A x \in wal : x.item.height \in {Last, Last + 1}
        /\ \A x \in Rows(Last) : x.item.kind = "value"
        /\ SealHeight > 0 => Last <= SealHeight

VotesOK == \A x \in votes : /\ x.height <= Last + 1
                            /\ x.height = Last + 1 => First(LogRows, x.round, x.value)

PropsOK == \A x \in props : /\ x.height <= Last + 1 /\ <<x.height, x.round>> \in Mine \ needs
                            /\ x.height = Last + 1 => Settled(LogRows, x.round)

NeedsOK == \A n \in needs : /\ n[1] <= Last + 1
                            /\ n[1] = Last + 1 => Running /\ n[2] <= eng.round

\* The block x may be shipped.
Shipping(x) ==
    /\ x.height <= Last + 1 /\ <<x.height, x.round>> \in Mine \ needs
    /\ x.height = Last + 1 => Running /\ Settled(Full, x.round)
    /\ \A y \in props : ~(y.height = x.height /\ y.round = x.round)

GossipOK == \A i \in 1 .. Len(fx) : fx[i].op = "gossip" => Shipping(fx[i].item)
TaskOK(m) == /\ m.kind \in {"proposal", "polka"} => m.value \in Values
             /\ m.kind = "proposal" => <<m.height, m.round>> \notin Mine
             /\ m.kind = "sync" => m.value = Chosen[m.height]

Queue == /\ \A i \in 1 .. Len(todo) : TaskOK(todo[i])
         /\ \A m \in stash : TaskOK(m) /\ m.kind = "proposal"

Asked == mode = "run" /\ deferred = 0 => Owed \subseteq asked
HInv == /\ Types /\ Phase /\ Kept /\ VotesOK /\ PropsOK /\ NeedsOK /\ GossipOK
        /\ Queue /\ Asked /\ NoEquivocation

-----------------------------------------------------------------------------
(* What the invariant says *)

\* The rows of the open height are rows.
LEMMA LogType ==
    ASSUME Types
    PROVE  /\ Last \in Nat /\ LogRows \subseteq RowT
           /\ \A x \in LogRows : x \in wal /\ x.seq \in Nat /\ x.item.height = Last + 1
<1>1. Last \in Nat
  BY DEF Types, Last
<1>2. LogRows \subseteq wal /\ \A x \in LogRows : x.item.height = Last + 1
  BY DEF LogRows, Rows
<1>3. wal \subseteq RowT
  BY Zenon DEF Types
<1>4. \A x \in wal : x.seq \in Nat
  BY <1>3, RowFields
<1> QED BY <1>1, <1>2, <1>3, <1>4, Zenon

\* Between two inputs, all rows are in the log.
LEMMA QuietRows ==
    ASSUME fx = <<>>
    PROVE  Full = LogRows
<1>1. PendOf(walSeq, fx) = {}
  BY PendEmpty, Zenon
<1> QED BY <1>1, Zenon DEF Full

\* The empty list has no effect.
LEMMA NoneHas ==
    ASSUME NEW op
    PROVE  ~Has(<<>>, op)
  BY DEF Has

Ready(e, n, S) ==
    /\ e \in EngT /\ ~e.done /\ e.height \in Heights /\ EngOK(e, S) /\ RowsOK(S)
    /\ n \in Nat /\ \A u \in S : u.seq < n

\* A running engine between two inputs is ready for the next one.
LEMMA RunReady ==
    ASSUME Types, Running, fx = <<>>
    PROVE  Ready(eng, walSeq, LogRows) /\ RowsOK(LogRows) /\ EngOK(eng, LogRows) /\ ~eng.done
<1>1. Full = LogRows
  BY QuietRows, Zenon
<1>2. RowsOK(LogRows) /\ EngOK(eng, LogRows)
  BY <1>1, Zenon DEF Running
<1>3. ~eng.done /\ eng.height \in Heights /\ Dense(LogRows, walSeq)
  BY NoneHas, Zenon DEF Running, Working
<1>4. eng \in EngT /\ walSeq \in Nat
  BY Zenon DEF Types
<1> QED BY <1>2, <1>3, <1>4, Zenon DEF Ready, Dense

\* An empty log is well formed.
LEMMA NoRows ==
    ASSUME NEW n
    PROVE  /\ RowsOK({}) /\ ~Settled({}, n) /\ \A v : ~First({}, n, v)
  BY DEF RowsOK, Settled, First

\* A decide is for the open height, and its block is there.
LEMMA DecideIs ==
    ASSUME Types, Phase, Next1("decide")
    PROVE  /\ Replaying \/ Running
           /\ Head(fx).item = DecideItem(eng) /\ eng.done
           /\ <<eng.height, Chosen[eng.height]>> \in blocks
<1>1. fx \in Seq(EffT) /\ fx # <<>> /\ fx[1].op = "decide" /\ Head(fx) = fx[1] /\ 1 \in 1 .. Len(fx)
  BY DEF Types, Next1
<1>2. mode # "down" /\ Has(fx, "decide")
  BY <1>1, Zenon DEF Next1, Has
<1>3. Replaying \/ Running
  BY <1>1, <1>2, Zenon DEF Phase, Stopped, Closed, Waiting
<1>4. Working
  BY <1>3, Zenon DEF Replaying, Running
<1>5. Placed(fx, 1, eng)
  BY <1>1, <1>4, Zenon DEF Working, FxOK
<1>6. eng.done /\ Holds(eng, Chosen[eng.height]) /\ Head(fx).item = DecideItem(eng)
  BY <1>1, <1>5, Zenon DEF Placed
<1>7. <<eng.height, Chosen[eng.height]>> \in blocks
  BY <1>4, <1>6, Zenon DEF Working, Holds
<1> QED BY <1>3, <1>6, <1>7, Zenon

\* The invariant implies that no effect is fatal.
LEMMA FatalFree ==
    ASSUME HInv
    PROVE  NoFatalEffect
<1>0. Types /\ Phase
  BY DEF HInv
<1>1. ASSUME Next1("wal"), mode = "run", NEW x \in Rows(Head(fx).item.height)
      PROVE  x.seq # walSeq
  <2>1. fx \in Seq(EffT) /\ fx # <<>> /\ fx[1].op = "wal" /\ Head(fx) = fx[1] /\ 1 \in 1 .. Len(fx)
    BY <1>0, <1>1 DEF Types, Next1
  <2>2. Running \/ Closed
    BY <1>0, <1>1, <2>1, Zenon DEF Phase, Stopped, Waiting, Replaying
  <2>3. FxOK(fx, eng)
    BY <2>2, Zenon DEF Running, Working, Closed
  <2>4. Head(fx).item.height = eng.height
    BY <2>1, <2>3, Zenon DEF FxOK, Placed
  <2>5. x.seq < walSeq
    BY <1>1, <2>2, <2>4, Zenon DEF Running, Working, Closed, Dense, LogRows
  <2>6. x.seq \in Nat /\ walSeq \in Nat
    <3>1. x \in RowT /\ walSeq \in Nat
      BY <1>0, <1>1, Zenon DEF Types, Rows
    <3> QED BY <3>1, RowFields
  <2> QED BY <2>5, <2>6
<1>2. ASSUME Next1("decide")
      PROVE  /\ Head(fx).item.height = Last + 1
             /\ <<Head(fx).item.height, Head(fx).item.value>> \in blocks
  <2>1. /\ Replaying \/ Running
        /\ Head(fx).item = DecideItem(eng)
        /\ <<eng.height, Chosen[eng.height]>> \in blocks
    BY <1>0, <1>2, DecideIs, Zenon
  <2>2. eng.height = Last + 1
    BY <2>1, Zenon DEF Replaying, Running, Working
  <2>3. DecideItem(eng).height = eng.height /\ DecideItem(eng).value = Chosen[eng.height]
    BY DEF DecideItem, Item
  <2> QED BY <2>1, <2>2, <2>3, Zenon
<1> QED BY <1>1, <1>2, Zenon DEF NoFatalEffect

\* The invariant implies that nothing happens past the seal.
LEMMA SealHolds ==
    ASSUME HInv
    PROVE  SealIsTerminal
<1> SUFFICES ASSUME Sealed
             PROVE  /\ Last = SealHeight /\ eng.height <= SealHeight
                    /\ \A x \in votes \cup props : x.height <= SealHeight
  BY Zenon DEF SealIsTerminal
<1>0. Types /\ Phase /\ Kept /\ VotesOK /\ PropsOK
  BY DEF HInv
<1>1. Last \in Nat /\ SealHeight \in Nat
  BY <1>0, LogType, HostAssumption
<1>2. Last = SealHeight /\ SealHeight > 0
  BY <1>0, <1>1 DEF Sealed, Kept
<1>3. Stopped \/ Closed
  BY <1>0, Zenon DEF Phase, Replaying, Running, Working, Waiting
<1>4. LogRows = {}
  BY <1>2, <1>3, Zenon DEF Stopped, Closed
<1>5. eng.height <= SealHeight
  <2>1. CASE Stopped
    BY <1>1, <1>2, <2>1 DEF Stopped, Fresh
  <2>2. CASE Closed
    BY <1>1, <1>2, <2>2 DEF Closed
  <2> QED BY <1>3, <2>1, <2>2
<1>6. ASSUME NEW x \in votes \cup props PROVE x.height <= SealHeight
  <2>1. x.height \in Nat
    BY <1>0 DEF Types, ItemT
  <2>2. x.height <= Last + 1 /\ x.height # Last + 1
    BY <1>0, <1>4, NoRows, Zenon DEF VotesOK, PropsOK
  <2> QED BY <1>1, <1>2, <2>1, <2>2
<1> QED BY <1>2, <1>5, <1>6, Zenon

\* The invariant implies that the log calls for no decide between two inputs.
LEMMA ReplayHolds ==
    ASSUME HInv
    PROVE  ReplayDecides
<1> SUFFICES ASSUME Quiet, NEW h \in Heights, Decidable(h) PROVE FALSE
  BY Zenon DEF ReplayDecides
<1>0. Types /\ Phase /\ Kept
  BY DEF HInv
<1>1. mode = "run" /\ fx = <<>>
  BY Zenon DEF Quiet
<1>2. PICK x \in Rows(h) : x.item.kind = "quorum"
  BY Zenon DEF Decidable
<1>3. PICK y \in Rows(h) : y.item.kind = "value" /\ y.item.ok /\ y.item.value = Chosen[h]
  BY Zenon DEF Decidable
<1>4. x \in wal /\ x.item.height = h
  BY Zenon DEF Rows
<1>5. x.item.kind # "value"
  BY <1>2
<1>6. h = Last + 1
  BY <1>0, <1>4, <1>5, Zenon DEF Kept
<1>7. x \in LogRows /\ y \in LogRows
  BY <1>6, Zenon DEF LogRows
<1>8. Running
  BY <1>0, <1>1, <1>7, Zenon DEF Phase, Stopped, Replaying, Closed, Waiting
<1>9. EngOK(eng, LogRows) /\ ~eng.done /\ eng.height = h
  BY <1>0, <1>1, <1>6, <1>8, RunReady, Zenon DEF Running, Working
<1>10. eng.quorum
  BY <1>2, <1>7, <1>9, Zenon DEF EngOK, OpenOK
<1>11. Held(y.item) \in eng.values
  BY <1>3, <1>7, <1>9, Zenon DEF EngOK, ValsOK
<1>12. Held(y.item).value = Chosen[h] /\ Held(y.item).ok
  BY <1>3 DEF Held
<1>13. Holds(eng, Chosen[eng.height])
  BY <1>9, <1>11, <1>12, Zenon DEF Holds
<1> QED BY <1>9, <1>10, <1>13, Zenon DEF EngOK

\* The invariant implies that proposals are judged at their tip.
LEMMA JudgedHolds ==
    ASSUME HInv
    PROVE  JudgedAtTheirTip
<1> SUFFICES ASSUME ~Contention, ~eng.done, NEW x \in eng.values PROVE x.ok
  BY Zenon DEF JudgedAtTheirTip
<1>0. Types /\ Phase
  BY DEF HInv
<1>1. ~Stopped /\ ~Waiting
  BY DEF Stopped, Waiting, Fresh
<1>2. Replaying \/ Running
  BY <1>0, <1>1, Zenon DEF Phase, Closed
<1>3. PICK S : RowsOK(S) /\ EngOK(eng, S)
  <2>1. CASE Running
    BY <2>1, Zenon DEF Running
  <2>2. CASE Replaying
    <3>1. Prefix(Replayed, LogRows)
      <4>1. LogRows \subseteq RowT /\ \A y \in LogRows : y.seq \in Nat
        BY <1>0, LogType, Zenon
      <4>2. walSeq - Len(replay) \in Int
        BY <1>0 DEF Types
      <4> QED BY <4>1, <4>2 DEF Prefix, Replayed, Before
    <3>2. RowsOK(Replayed)
      BY <2>2, <3>1, RowsPrefix, Zenon DEF Replaying
    <3> QED BY <2>2, <3>2, Zenon DEF Replaying
  <2> QED BY <1>2, <2>1, <2>2
<1>4. PICK w \in S : w.item.kind = "value" /\ x = Held(w.item)
  BY <1>3, Zenon DEF EngOK, OpenOK, ValsOK
<1>5. w.item.ok
  BY <1>3, <1>4, Zenon DEF RowsOK, Timely
<1> QED BY <1>4, <1>5 DEF Held

\* The invariant implies that a proposer that owes a value was asked.
LEMMA AskedHolds ==
    ASSUME HInv
    PROVE  ProposerAsked
  BY Zenon DEF HInv, Asked, ProposerAsked, Quiet

-----------------------------------------------------------------------------
(* Frames: what a step that leaves the database alone cannot disturb *)

\* What only depends on the database
LEMMA LogSame ==
    ASSUME UNCHANGED <<chain, wal>>
    PROVE  LogRows' = LogRows /\ Last' = Last /\ (Sealed' <=> Sealed) /\ Rows(Last)' = Rows(Last)
  BY DEF LogRows, Rows, Last, Sealed

\* The conjuncts that only depend on the database and what was published
LEMMA DurableSame ==
    ASSUME HInv, UNCHANGED <<chain, wal, votes, props>>
    PROVE  Kept' /\ VotesOK' /\ NoEquivocation'
<1>1. Kept'
  BY DEF HInv, Kept, Last, Rows
<1>2. VotesOK'
  <2>1. LogRows' = LogRows /\ Last' = Last
    BY LogSame
  <2> QED BY <2>1, Zenon DEF HInv, VotesOK
<1>3. NoEquivocation'
  BY DEF HInv, NoEquivocation
<1> QED BY <1>1, <1>2, <1>3

\* The same when no value is asked for.
LEMMA Rest ==
    ASSUME HInv, UNCHANGED <<chain, wal, votes, props, needs>>,
           Types', Phase', NeedsOK', GossipOK', Queue', Asked'
    PROVE  HInv'
<1>1. Kept' /\ VotesOK' /\ NoEquivocation'
  BY DurableSame
<1>2. PropsOK'
  <2>1. LogRows' = LogRows /\ Last' = Last
    BY LogSame
  <2> QED BY <2>1, Zenon DEF HInv, PropsOK
<1> QED BY <1>1, <1>2, Zenon DEF HInv

-----------------------------------------------------------------------------
(* Effects *)

\* The effects after the first one
LEMMA TailEffects ==
    ASSUME NEW f \in Seq(EffT), f # <<>>
    PROVE  /\ Tail(f) \in Seq(EffT) /\ Head(f) = f[1] /\ 1 \in 1 .. Len(f) /\ Head(f) \in EffT
           /\ \A i \in 1 .. Len(Tail(f)) : i + 1 \in 1 .. Len(f) /\ Tail(f)[i] = f[i + 1]
           /\ \A i \in 1 .. Len(f) : i # 1 => i - 1 \in 1 .. Len(Tail(f)) /\ Tail(f)[i - 1] = f[i]
  OBVIOUS

\* An effect is in the tail, or it is the first one.
LEMMA HasTail ==
    ASSUME NEW f \in Seq(EffT), f # <<>>, NEW op
    PROVE  /\ Has(Tail(f), op) => Has(f, op)
           /\ Has(f, op) /\ Head(f).op # op => Has(Tail(f), op)
<1>1. Has(Tail(f), op) => Has(f, op)
  <2> SUFFICES ASSUME NEW i \in 1 .. Len(Tail(f)), Tail(f)[i].op = op PROVE Has(f, op)
    BY Zenon DEF Has
  <2>1. i + 1 \in 1 .. Len(f) /\ f[i + 1].op = op
    BY TailEffects, Zenon
  <2> QED BY <2>1, Zenon DEF Has
<1>2. Has(f, op) /\ Head(f).op # op => Has(Tail(f), op)
  <2> SUFFICES ASSUME NEW i \in 1 .. Len(f), f[i].op = op, Head(f).op # op PROVE Has(Tail(f), op)
    BY Zenon DEF Has
  <2>1. i # 1
    BY TailEffects, Zenon
  <2> QED BY <2>1, TailEffects, Zenon DEF Has
<1> QED BY <1>1, <1>2

\* What the engine's effects say of the first one
LEMMA HeadPlaced ==
    ASSUME NEW f, NEW e, FxOK(f, e), f # <<>>
    PROVE  /\ Head(f).op = "wal" => Head(f).item.height = e.height
           /\ Head(f).op = "publish" => e.vote # "none" /\ Head(f).item = VoteItem(e)
           /\ Head(f).op = "gossip" => 1 = Len(f)
<1>1. f \in Seq(EffT) /\ \A i \in 1 .. Len(f) : Placed(f, i, e)
  BY Zenon DEF FxOK
<1>2. Head(f) = f[1] /\ 1 \in 1 .. Len(f)
  BY <1>1, TailEffects, Zenon
<1>3. Placed(f, 1, e)
  BY <1>1, <1>2, Zenon
<1>4. /\ f[1].op = "wal" => f[1].item.height = e.height
      /\ f[1].op = "publish" => e.vote # "none" /\ f[1].item = VoteItem(e)
      /\ f[1].op = "gossip" => 1 = Len(f)
  BY <1>3, Zenon DEF Placed
<1> QED BY <1>2, <1>4, Zenon

\* A closed engine goes on to its next effect.
LEMMA ClosedTail ==
    ASSUME fx \in Seq(EffT), fx # <<>>, Closed,
           FxOK(Tail(fx), eng),
           UNCHANGED <<mode, eng, deferred, replay, needs, chain>>, fx' = Tail(fx),
           LogRows' = {}, \A x \in Rows(Last)' : x.seq < walSeq'
    PROVE  Closed'
<1>1. Last' = Last
  BY DEF Last
<1>2. ~Has(fx', "publish") /\ ~Has(fx', "decide") /\ (mode = "replay" => ~Has(fx', "gossip"))
  BY HasTail, Zenon DEF Closed
<1>3. ASSUME NEW i \in 1 .. Len(fx'), fx'[i].op = "wal" PROVE fx'[i].item.kind = "value"
  <2>1. i + 1 \in 1 .. Len(fx) /\ fx'[i] = fx[i + 1]
    BY TailEffects, Zenon
  <2> QED BY <1>3, <2>1, Zenon DEF Closed
<1> QED BY <1>1, <1>2, <1>3, Zenon DEF Closed

\* The blocks still to be shipped when the first effect is done
LEMMA GossipTail ==
    ASSUME GossipOK, fx \in Seq(EffT), fx # <<>>, fx' = Tail(fx), UNCHANGED <<chain, needs, props>>,
           Running => Running' /\ Full' = Full
    PROVE  GossipOK'
<1>1. Last' = Last
  BY DEF Last
<1>2. \A x : Shipping(x) => Shipping(x)'
  BY <1>1, Zenon DEF Shipping
<1>3. \A i \in 1 .. Len(fx') : i + 1 \in 1 .. Len(fx) /\ fx'[i] = fx[i + 1]
  BY TailEffects, Zenon
<1> QED BY <1>2, <1>3, Zenon DEF GossipOK

\* A replaying engine goes on to its next effect.
LEMMA ReplayingTail ==
    ASSUME Types, Replaying, fx # <<>>, Head(fx).op # "decide", fx' = Tail(fx),
           UNCHANGED <<chain, wal, mode, eng, walSeq, blocks, deferred, replay, needs>>
    PROVE  Replaying'
<1>1. LogRows' = LogRows /\ Last' = Last /\ (Sealed' <=> Sealed)
  BY LogSame
<1>2. fx \in Seq(EffT)
  BY Zenon DEF Types
<1>3. FxOK(fx', eng') /\ (eng'.done => Has(fx', "decide")) /\ ~Has(fx', "gossip")
  BY <1>2, FxTail, HasTail, Zenon DEF Replaying, Working
<1>4. Working'
  BY <1>1, <1>3, Zenon DEF Replaying, Working
<1>5. Replayed' = Replayed
  BY <1>1, Zenon DEF Replayed
<1> QED BY <1>1, <1>3, <1>4, <1>5, Zenon DEF Replaying

\* A row from its number and its item
LEMMA RowType ==
    ASSUME NEW n \in Nat, NEW i \in ItemT
    PROVE  Row(n, i) \in RowT /\ Row(n, i).seq = n /\ Row(n, i).item = i
  BY DEF Row, RowT

\* WalAppend: the pending row becomes a logged one; a replay logs nothing.
LEMMA WalAppendKeeps ==
    ASSUME HInv, WalAppend
    PROVE  HInv'
<1> DEFINE i == Head(fx).item
           x == Row(walSeq, i)
<1>0. Types /\ Phase /\ Kept /\ Queue /\ VotesOK /\ PropsOK /\ NeedsOK /\ GossipOK /\ Asked
  BY DEF HInv
<1>1. mode # "down" /\ fx # <<>> /\ Head(fx).op = "wal" /\ fx' = Tail(fx)
  BY Zenon DEF WalAppend, Next1
<1>2. UNCHANGED <<chain, mode, eng, blocks, needs, asked, votes, props, deferred, stash, todo, replay>>
  BY DEF WalAppend, rest
<1>3. fx \in Seq(EffT) /\ walSeq \in Nat /\ wal \subseteq RowT
  BY <1>0, Zenon DEF Types
<1>4. Head(fx) = fx[1] /\ 1 \in 1 .. Len(fx) /\ Head(fx) \in EffT /\ fx' \in Seq(EffT)
  BY <1>1, <1>3, TailEffects, Zenon
<1>5. i \in ItemT /\ Head(fx).op # "decide" /\ Head(fx).op # "gossip"
  BY <1>1, <1>4 DEF EffT
<1>6. Queue'
  BY <1>0, <1>2, Zenon DEF Queue, TaskOK
<1>7. Asked'
  BY <1>0, <1>2 DEF Asked, Owed
<1>8. Last' = Last /\ (Sealed' <=> Sealed) /\ Last \in Nat
  BY <1>0, <1>2, LogType DEF Last, Sealed
<1>9. CASE mode = "replay"
  <2>1. UNCHANGED <<wal, walSeq>>
    BY <1>9, Zenon DEF WalAppend
  <2>2. LogRows' = LogRows /\ Rows(Last)' = Rows(Last)
    BY <1>2, <2>1, LogSame
  <2>3. Types'
    BY <1>0, <1>2, <1>4, <2>1, Zenon DEF Types
  <2>4. ~Running /\ ~Stopped /\ ~Waiting
    BY <1>9 DEF Running, Stopped, Waiting
  <2>5. GossipOK'
    BY <1>0, <1>1, <1>2, <1>3, <2>4, GossipTail, Zenon
  <2>6. NeedsOK'
    BY <1>0, <1>2, <1>8, <2>4, Zenon DEF NeedsOK
  <2>7. Replaying => Replaying'
    BY <1>0, <1>1, <1>2, <1>5, <2>1, ReplayingTail, Zenon
  <2>8. Closed => Closed'
    <3> SUFFICES ASSUME Closed PROVE Closed'
      OBVIOUS
    <3>1. FxOK(Tail(fx), eng) /\ LogRows' = {} /\ \A u \in Rows(Last)' : u.seq < walSeq'
      BY <1>1, <2>1, <2>2, FxTail, Zenon DEF Closed
    <3> QED BY <1>1, <1>2, <1>3, <3>1, ClosedTail, Zenon
  <2>9. Phase'
    BY <1>0, <2>4, <2>7, <2>8, Zenon DEF Phase
  <2> QED BY <1>2, <1>6, <1>7, <2>1, <2>3, <2>5, <2>6, <2>9, Rest, Zenon
<1>10. CASE mode # "replay"
  <2>1. wal' = wal \cup {x} /\ walSeq' = walSeq + 1
    BY <1>10, Zenon DEF WalAppend, Row
  <2>2. x \in RowT /\ x.seq = walSeq /\ x.item = i
    BY <1>3, <1>5, RowType, Zenon
  <2>3. Types'
    <3>1. walSeq' \in Nat /\ wal' \subseteq RowT
      BY <1>3, <2>1, <2>2
    <3> QED BY <1>0, <1>2, <1>4, <3>1, Zenon DEF Types
  <2> HIDE DEF x, i
  <2>4. Running \/ Closed
    BY <1>0, <1>1, <1>10, Zenon DEF Phase, Stopped, Replaying, Waiting
  <2>5. FxOK(fx, eng) /\ FxOK(fx', eng)
    BY <1>1, <2>4, FxTail, Zenon DEF Running, Working, Closed
  <2>6. i.height = eng.height
    BY <1>1, <2>5, HeadPlaced, Zenon DEF i
  <2>7. CASE Running
    <3>1. i.height = Last + 1 /\ Last + 1 # Last
      BY <1>8, <2>6, <2>7 DEF Running, Working
    <3>2. LogRows' = LogRows \cup {x} /\ Rows(Last)' = Rows(Last)
      BY <1>8, <2>1, <2>2, <3>1 DEF LogRows, Rows
    <3>3. PendOf(walSeq, fx) = {x} \cup PendOf(walSeq + 1, Tail(fx))
      BY <1>1, <1>3, PendTail, Zenon DEF x, i
    <3>4. Full' = Full
      BY <1>1, <2>1, <3>2, <3>3 DEF Full
    <3>5. LogRows \subseteq RowT /\ \A u \in LogRows : u.seq < walSeq /\ u.seq \in Nat
      BY <1>0, <2>7, LogType, Zenon DEF Running, Working, Dense
    <3>6. Behind(LogRows, x)
      BY <2>2, <3>5, Zenon DEF Behind
    <3>7. Dense(LogRows', walSeq')
      <4>1. \A u \in LogRows' : u.seq < walSeq'
        BY <1>3, <2>1, <2>2, <3>2, <3>5
      <4>2. ASSUME NEW k \in 0 .. walSeq' - 1 PROVE \E u \in LogRows' : u.seq = k
        <5>1. CASE k = walSeq
          BY <2>2, <3>2, <5>1, Zenon
        <5>2. CASE k # walSeq
          <6>1. k \in 0 .. walSeq - 1
            BY <1>3, <2>1, <5>2
          <6> QED BY <2>7, <3>2, <6>1, Zenon DEF Running, Working, Dense
        <5> QED BY <5>1, <5>2
      <4> QED BY <4>1, <4>2, Zenon DEF Dense
    <3>8. eng.done => Has(fx', "decide")
      BY <1>1, <1>3, <1>5, <2>7, HasTail, Zenon DEF Running, Working
    <3>9. Working'
      BY <1>2, <1>8, <2>5, <2>7, <3>7, <3>8, Zenon DEF Running, Working
    <3>10. Running'
      BY <1>2, <2>7, <3>4, <3>9, Zenon DEF Running
    <3>11. GossipOK'
      BY <1>0, <1>1, <1>2, <1>3, <3>4, <3>10, GossipTail, Zenon
    <3>12. Kept'
      <4>1. \A u \in wal' : u.item.height \in {Last, Last + 1}
        BY <1>0, <2>1, <2>2, <3>1, Zenon DEF Kept
      <4> QED BY <1>0, <1>8, <3>2, <4>1, Zenon DEF Kept
    <3>13. VotesOK'
      BY <1>0, <1>2, <1>8, <3>2, <3>6, FirstBehind, Zenon DEF VotesOK
    <3>14. PropsOK'
      <4>1. \A k : Settled(LogRows, k) => Settled(LogRows', k)
        BY <3>2, Zenon DEF Settled
      <4> QED BY <1>0, <1>2, <1>8, <4>1, Zenon DEF PropsOK
    <3>15. NeedsOK'
      BY <1>0, <1>2, <1>8, <3>10, Zenon DEF NeedsOK
    <3>16. NoEquivocation'
      BY <1>2 DEF HInv, NoEquivocation
    <3> QED BY <1>6, <1>7, <2>3, <3>10, <3>11, <3>12, <3>13, <3>14, <3>15, <3>16, Zenon DEF HInv, Phase
  <2>8. CASE Closed
    <3>1. i.height = Last /\ Last + 1 # Last /\ i.kind = "value"
      <4>1. i.kind = "value"
        BY <1>1, <1>4, <2>8, Zenon DEF Closed, i
      <4> QED BY <1>8, <2>6, <2>8, <4>1 DEF Closed
    <3>2. LogRows' = LogRows /\ Rows(Last)' = Rows(Last) \cup {x}
      BY <1>8, <2>1, <2>2, <3>1 DEF LogRows, Rows
    <3>3. LogRows = {} /\ \A u \in Rows(Last) : u.seq < walSeq
      BY <2>8, Zenon DEF Closed
    <3>4. \A u \in Rows(Last)' : u.seq < walSeq'
      <4>1. \A u \in Rows(Last) : u.seq \in Nat
        <5>1. Rows(Last) \subseteq RowT
          BY <1>3 DEF Rows
        <5> QED BY <5>1, RowFields
      <4> QED BY <1>3, <2>1, <2>2, <3>2, <3>3, <4>1
    <3>5. Closed'
      BY <1>1, <1>2, <1>3, <2>5, <2>8, <3>2, <3>3, <3>4, ClosedTail, Zenon
    <3>6. ~Running
      BY <1>8, <2>8 DEF Running, Working, Closed
    <3>7. GossipOK'
      BY <1>0, <1>1, <1>2, <1>3, <3>6, GossipTail, Zenon
    <3>8. Kept'
      <4>1. \A u \in wal' : u.item.height \in {Last, Last + 1}
        BY <1>0, <2>1, <2>2, <3>1, Zenon DEF Kept
      <4>2. \A u \in Rows(Last)' : u.item.kind = "value"
        BY <1>0, <2>2, <3>1, <3>2, Zenon DEF Kept
      <4> QED BY <1>0, <1>8, <4>1, <4>2, Zenon DEF Kept
    <3>9. VotesOK' /\ PropsOK' /\ NeedsOK'
      BY <1>0, <1>2, <1>8, <3>2, <3>6, Zenon DEF VotesOK, PropsOK, NeedsOK
    <3>10. NoEquivocation'
      BY <1>2 DEF HInv, NoEquivocation
    <3> QED BY <1>6, <1>7, <2>3, <3>5, <3>7, <3>8, <3>9, <3>10, Zenon DEF HInv, Phase
  <2> QED BY <2>4, <2>7, <2>8
<1> QED BY <1>9, <1>10

\* The engine's vote is the one the log determines.
LEMMA VoteLogged ==
    ASSUME Types, Running \/ Replaying, eng.vote # "none", Full = LogRows
    PROVE  First(LogRows, eng.round, eng.vote) /\ RowsOK(LogRows)
<1>1. CASE Running
  BY <1>1, Zenon DEF Running, EngOK, VoteOK
<1>2. CASE Replaying
  <2>1. LogRows \subseteq RowT /\ \A y \in LogRows : y.seq \in Nat
    BY LogType, Zenon
  <2>2. Prefix(Replayed, LogRows)
    <3>1. walSeq - Len(replay) \in Int
      BY DEF Types
    <3> QED BY <2>1, <3>1 DEF Prefix, Replayed, Before
  <2>3. First(Replayed, eng.round, eng.vote)
    BY <1>2, Zenon DEF Replaying, EngOK, VoteOK
  <2> QED BY <1>2, <2>1, <2>2, <2>3, FirstPrefix, Zenon DEF Replaying
<1> QED BY <1>1, <1>2

\* Publish: the vote is the one that the logged rows determine.
LEMMA PublishKeeps ==
    ASSUME HInv, Publish
    PROVE  HInv'
<1> DEFINE i == Head(fx).item
<1>0. Types /\ Phase /\ Kept /\ Queue /\ VotesOK /\ PropsOK /\ NeedsOK /\ GossipOK /\ Asked
  BY DEF HInv
<1>1. mode # "down" /\ fx # <<>> /\ Head(fx).op = "publish" /\ fx' = Tail(fx) /\ votes' = votes \cup {i}
  BY Zenon DEF Publish, Next1
<1>2. UNCHANGED <<chain, wal, mode, eng, walSeq, blocks, needs, asked, props, deferred, stash, todo, replay>>
  BY DEF Publish, rest
<1>3. fx \in Seq(EffT) /\ walSeq \in Nat
  BY <1>0, Zenon DEF Types
<1>4. Head(fx) = fx[1] /\ 1 \in 1 .. Len(fx) /\ Head(fx) \in EffT /\ fx' \in Seq(EffT)
  BY <1>1, <1>3, TailEffects, Zenon
<1>5. i \in ItemT /\ Head(fx).op # "decide" /\ Head(fx).op # "wal"
  BY <1>1, <1>4 DEF EffT
<1>6. LogRows' = LogRows /\ Last' = Last /\ (Sealed' <=> Sealed) /\ Last \in Nat
  BY <1>0, <1>2, LogSame, LogType, Zenon
<1>7. Running \/ Replaying
  <2>1. Has(fx, "publish")
    BY <1>1, <1>4, Zenon DEF Has
  <2> QED BY <1>0, <1>1, <2>1, Zenon DEF Phase, Stopped, Closed, Waiting
<1>8. FxOK(fx, eng) /\ eng.height = Last + 1
  BY <1>7, Zenon DEF Running, Replaying, Working
<1>9. eng.vote # "none" /\ i = VoteItem(eng)
  BY <1>1, <1>8, HeadPlaced, Zenon
<1>10. i.height = Last + 1 /\ i.round = eng.round /\ i.value = eng.vote
  BY <1>0, <1>8, <1>9, VoteItemType, Zenon DEF Types
<1> HIDE DEF i
<1>11. Full = LogRows /\ Full' = LogRows
  <2>1. PendOf(walSeq, fx) = {} /\ PendOf(walSeq, fx') = {}
    BY <1>1, <1>5, <1>8, PendNone, Zenon
  <2> QED BY <1>2, <1>6, <2>1, Zenon DEF Full
<1>12. First(LogRows, i.round, i.value) /\ RowsOK(LogRows)
  BY <1>0, <1>7, <1>9, <1>10, <1>11, VoteLogged, Zenon
<1>13. VotesOK'
  <2>1. Last + 1 <= Last + 1
    BY <1>6
  <2> QED BY <1>0, <1>1, <1>6, <1>10, <1>12, <2>1, Zenon DEF VotesOK
<1>14. NoEquivocation'
  <2>1. ASSUME NEW y \in votes, y.height = i.height, y.round = i.round PROVE y.value = i.value
    <3>1. First(LogRows, i.round, y.value)
      BY <1>0, <1>10, <2>1, Zenon DEF VotesOK
    <3> QED BY <1>12, <3>1, FirstUnique, Zenon DEF RowsOK
  <2>2. \A y, z \in votes : y.height = z.height /\ y.round = z.round => y.value = z.value
    BY Zenon DEF HInv, NoEquivocation
  <2>3. \A y, z \in votes' : y.height = z.height /\ y.round = z.round => y.value = z.value
    BY <1>1, <2>1, <2>2, Zenon
  <2>4. \A y, z \in props' : y.height = z.height /\ y.round = z.round => y.value = z.value
    BY <1>2, Zenon DEF HInv, NoEquivocation
  <2> QED BY <2>3, <2>4, Zenon DEF NoEquivocation
<1>15. Types'
  <2>1. votes' \subseteq ItemT
    BY <1>0, <1>1, <1>5, Zenon DEF Types
  <2> QED BY <1>0, <1>2, <1>4, <2>1, Zenon DEF Types
<1>16. Replaying => Replaying'
  BY <1>0, <1>1, <1>2, <1>5, ReplayingTail, Zenon
<1>17. Running => Running'
  <2> SUFFICES ASSUME Running PROVE Running'
    OBVIOUS
  <2>1. FxOK(fx', eng) /\ (eng.done => Has(fx', "decide"))
    BY <1>1, <1>3, <1>5, <1>8, FxTail, HasTail, Zenon DEF Running, Working
  <2>2. Working'
    BY <1>2, <1>6, <2>1, Zenon DEF Running, Working
  <2> QED BY <1>2, <1>11, <2>2, Zenon DEF Running
<1>18. Phase'
  BY <1>7, <1>16, <1>17, Zenon DEF Phase
<1>19. GossipOK'
  BY <1>0, <1>1, <1>2, <1>3, <1>11, <1>17, GossipTail, Zenon
<1>20. Kept'
  BY <1>0, <1>2 DEF Kept, Rows, Last
<1>21. PropsOK' /\ NeedsOK' /\ Queue'
  BY <1>0, <1>2, <1>6, <1>17, Zenon DEF PropsOK, NeedsOK, Queue, TaskOK
<1>22. Asked'
  BY <1>0, <1>2 DEF Asked, Owed
<1> QED BY <1>13, <1>14, <1>15, <1>18, <1>19, <1>20, <1>21, <1>22, Zenon DEF HInv

\* Broadcast: the block shipped is the only one of its height and round.
LEMMA BroadcastKeeps ==
    ASSUME HInv, Broadcast
    PROVE  HInv'
<1> DEFINE i == Head(fx).item
<1>0. Types /\ Phase /\ Kept /\ Queue /\ VotesOK /\ PropsOK /\ NeedsOK /\ GossipOK /\ Asked
  BY DEF HInv
<1>1. mode # "down" /\ fx # <<>> /\ Head(fx).op = "gossip" /\ fx' = Tail(fx) /\ props' = props \cup {i}
  BY Zenon DEF Broadcast, Next1
<1>2. UNCHANGED <<chain, wal, mode, eng, walSeq, blocks, needs, asked, votes, deferred, stash, todo, replay>>
  BY DEF Broadcast, rest
<1>3. fx \in Seq(EffT) /\ walSeq \in Nat
  BY <1>0, Zenon DEF Types
<1>4. Head(fx) = fx[1] /\ 1 \in 1 .. Len(fx) /\ Head(fx) \in EffT /\ fx' \in Seq(EffT)
  BY <1>1, <1>3, TailEffects, Zenon
<1>5. i \in ItemT /\ Head(fx).op # "decide" /\ Head(fx).op # "wal"
  BY <1>1, <1>4 DEF EffT
<1>6. /\ LogRows' = LogRows /\ Last' = Last /\ (Sealed' <=> Sealed) /\ Rows(Last)' = Rows(Last)
      /\ Last \in Nat
  BY <1>0, <1>2, LogSame, LogType
<1>7. Running \/ Closed
  <2>1. Has(fx, "gossip")
    BY <1>1, <1>4, Zenon DEF Has
  <2> QED BY <1>0, <1>1, <2>1, Zenon DEF Phase, Stopped, Replaying, Waiting
<1>8. FxOK(fx, eng) /\ FxOK(fx', eng)
  BY <1>1, <1>7, FxTail, Zenon DEF Running, Working, Closed
<1>9. fx' = <<>>
  <2>1. 1 = Len(fx)
    BY <1>1, <1>8, HeadPlaced, Zenon
  <2> QED BY <1>1, <1>3, <2>1
<1>10. Shipping(i)
  BY <1>0, <1>1, <1>4, Zenon DEF GossipOK
<1> HIDE DEF i
<1>11. Full = LogRows /\ Full' = LogRows
  <2>1. PendOf(walSeq, fx) = {} /\ PendOf(walSeq, fx') = {}
    BY <1>1, <1>5, <1>8, PendNone, Zenon
  <2> QED BY <1>2, <1>6, <2>1, Zenon DEF Full
<1>12. PropsOK'
  <2>1. /\ i.height <= Last + 1 /\ <<i.height, i.round>> \in Mine \ needs
        /\ i.height = Last + 1 => Settled(LogRows, i.round)
    BY <1>10, <1>11, Zenon DEF Shipping
  <2> QED BY <1>0, <1>1, <1>2, <1>6, <2>1, Zenon DEF PropsOK
<1>13. NoEquivocation'
  <2>1. \A y \in props : ~(y.height = i.height /\ y.round = i.round)
    BY <1>10, Zenon DEF Shipping
  <2>2. \A y, z \in props : y.height = z.height /\ y.round = z.round => y.value = z.value
    BY Zenon DEF HInv, NoEquivocation
  <2>3. \A y, z \in props' : y.height = z.height /\ y.round = z.round => y.value = z.value
    BY <1>1, <2>1, <2>2, Zenon
  <2>4. \A y, z \in votes' : y.height = z.height /\ y.round = z.round => y.value = z.value
    BY <1>2, Zenon DEF HInv, NoEquivocation
  <2> QED BY <2>3, <2>4, Zenon DEF NoEquivocation
<1>14. Types'
  <2>1. props' \subseteq ItemT
    BY <1>0, <1>1, <1>5, Zenon DEF Types
  <2> QED BY <1>0, <1>2, <1>4, <2>1, Zenon DEF Types
<1>15. Running => Running'
  <2> SUFFICES ASSUME Running PROVE Running'
    OBVIOUS
  <2>1. eng.done => Has(fx', "decide")
    BY <1>1, <1>3, <1>5, HasTail, Zenon DEF Running, Working
  <2>2. Working'
    BY <1>2, <1>6, <1>8, <2>1, Zenon DEF Running, Working
  <2> QED BY <1>2, <1>11, <2>2, Zenon DEF Running
<1>16. Closed => Closed'
  <2> SUFFICES ASSUME Closed PROVE Closed'
    OBVIOUS
  <2>1. LogRows' = {} /\ \A u \in Rows(Last)' : u.seq < walSeq'
    BY <1>2, <1>6, Zenon DEF Closed
  <2> QED BY <1>1, <1>2, <1>3, <1>8, <2>1, ClosedTail, Zenon
<1>17. Phase'
  BY <1>7, <1>15, <1>16, Zenon DEF Phase
<1>18. GossipOK'
  BY <1>9, NoneHas, Zenon DEF GossipOK, Has
<1>19. Kept'
  BY <1>0, <1>2 DEF Kept, Rows, Last
<1>20. VotesOK' /\ NeedsOK' /\ Queue'
  BY <1>0, <1>2, <1>6, <1>15, Zenon DEF VotesOK, NeedsOK, Queue, TaskOK
<1>21. Asked'
  BY <1>0, <1>2 DEF Asked, Owed
<1> QED BY <1>12, <1>13, <1>14, <1>17, <1>18, <1>19, <1>20, <1>21, Zenon DEF HInv

\* The rounds of this node are pairs of a height and a round.
LEMMA MineIs ==
    ASSUME NEW n \in Mine
    PROVE  n[1] \in Nat /\ n[2] \in Nat /\ n = <<n[1], n[2]>>
  BY HostAssumption

\* Decide: the height closes and takes its rows with it.
LEMMA DecideKeeps ==
    ASSUME HInv, Decide
    PROVE  HInv'
<1> DEFINE h == Head(fx).item.height
           v == Head(fx).item.value
<1>0. Types /\ Phase /\ Kept /\ Queue /\ VotesOK /\ PropsOK /\ NeedsOK /\ GossipOK
  BY DEF HInv
<1>1. mode # "down" /\ fx # <<>> /\ Head(fx).op = "decide" /\ Next1("decide")
  BY Zenon DEF Decide, Next1
<1>2. /\ chain' = Append(chain, v) /\ wal' = {x \in wal : x.item.height > h}
      /\ deferred' = (IF h = SealHeight THEN 0 ELSE h + 1) /\ walSeq' = 0 /\ fx' = Tail(fx)
  BY Zenon DEF Decide
<1>3. UNCHANGED <<mode, eng, needs, asked, stash, todo, replay, votes, props>>
  BY DEF Decide
<1>4. (Replaying \/ Running) /\ Head(fx).item = DecideItem(eng) /\ eng.done
  BY <1>0, <1>1, DecideIs, Zenon
<1>5. /\ ~Sealed /\ eng.height = Last + 1 /\ eng.height \in Heights /\ FxOK(fx, eng)
  BY <1>4, Zenon DEF Replaying, Running, Working
<1>6. h = Last + 1 /\ v = Chosen[eng.height]
  BY <1>4, <1>5 DEF DecideItem, Item
<1> HIDE DEF h, v
<1>7. Last \in Nat /\ SealHeight \in Nat /\ v \in Values
  BY <1>0, <1>5, <1>6, LogType, HostAssumption
<1>8. chain' \in Seq(Values) /\ Last' = Last + 1
  <2>1. chain \in Seq(Values)
    BY <1>0, Zenon DEF Types
  <2> QED BY <1>2, <1>7, <2>1 DEF Last
<1>9. wal' = {}
  <2>1. \A x \in wal : x.item.height \in {Last, Last + 1}
    BY <1>0, Zenon DEF Kept
  <2>2. \A x \in wal : ~(x.item.height > h)
    BY <1>6, <1>7, <2>1
  <2> QED BY <1>2, <2>2
<1>10. LogRows' = {} /\ Rows(Last)' = {}
  BY <1>9 DEF LogRows, Rows
<1>11. fx \in Seq(EffT) /\ fx' \in Seq(EffT) /\ fx[1].op = "decide" /\ 1 \in 1 .. Len(fx)
  BY <1>0, <1>1, <1>2, TailEffects, Zenon DEF Types
<1>12. \A i \in 1 .. Len(fx') : fx'[i].op = "gossip"
  <2>1. \A j \in 2 .. Len(fx) : fx[j].op = "gossip"
    <3>1. Placed(fx, 1, eng)
      BY <1>5, <1>11, Zenon DEF FxOK
    <3>2. \A j \in 1 + 1 .. Len(fx) : fx[j].op = "gossip"
      BY <1>11, <3>1, Zenon DEF Placed
    <3> QED BY <3>2
  <2>2. \A i \in 1 .. Len(fx') : i + 1 \in 2 .. Len(fx) /\ fx'[i] = fx[i + 1]
    BY <1>1, <1>2, <1>11
  <2> QED BY <2>1, <2>2, Zenon
<1>13. ~Has(fx', "publish") /\ ~Has(fx', "decide") /\ ~Has(fx', "wal")
  BY <1>12 DEF Has
<1>14. Closed'
  <2>1. mode' \in {"replay", "run"}
    BY <1>3, <1>4 DEF Replaying, Running
  <2>2. FxOK(fx', eng')
    BY <1>1, <1>2, <1>3, <1>5, FxTail, Zenon
  <2>3. \A i \in 1 .. Len(fx') : fx'[i].op = "wal" => fx'[i].item.kind = "value"
    BY <1>13, Zenon DEF Has
  <2>4. mode' = "replay" => needs' = {} /\ ~Has(fx', "gossip")
    <3>1. mode = "replay" => Replaying
      BY <1>4 DEF Running
    <3>2. Replaying => ~Has(fx', "gossip")
      BY <1>1, <1>2, <1>11, HasTail, Zenon DEF Replaying
    <3> QED BY <1>3, <3>1, <3>2, Zenon DEF Replaying
  <2>5. mode' = "run" => replay' = <<>>
    BY <1>3, <1>4 DEF Replaying, Running
  <2>6. deferred' = (IF Last' = SealHeight THEN 0 ELSE Last' + 1)
    BY <1>2, <1>6, <1>8, Zenon
  <2>7. eng'.done /\ eng'.height = Last'
    BY <1>3, <1>4, <1>5, <1>8, Zenon
  <2> QED BY <1>10, <1>13, <2>1, <2>2, <2>3, <2>4, <2>5, <2>6, <2>7, Zenon DEF Closed
<1>15. Types'
  <2>1. deferred' \in Nat /\ walSeq' \in Nat /\ wal' \subseteq RowT
    BY <1>2, <1>6, <1>7, <1>9
  <2> QED BY <1>0, <1>3, <1>8, <1>11, <2>1, Zenon DEF Types
<1>16. Kept'
  <2>1. SealHeight > 0 => Last + 1 <= SealHeight
    BY <1>5, <1>7 DEF Sealed
  <2> QED BY <1>8, <1>9, <1>10, <2>1, Zenon DEF Kept
<1>17. VotesOK'
  <2>1. ASSUME NEW x \in votes PROVE x.height <= (Last + 1) + 1 /\ x.height # (Last + 1) + 1
    <3>1. x.height \in Nat
      BY <1>0 DEF Types, ItemT
    <3>2. x.height <= Last + 1
      BY <1>0, Zenon DEF VotesOK
    <3> QED BY <1>7, <3>1, <3>2
  <2> QED BY <1>3, <1>8, <2>1, Zenon DEF VotesOK
<1>18. PropsOK'
  <2>1. ASSUME NEW x \in props PROVE x.height <= (Last + 1) + 1 /\ x.height # (Last + 1) + 1
    <3>1. x.height \in Nat
      BY <1>0 DEF Types, ItemT
    <3>2. x.height <= Last + 1
      BY <1>0, Zenon DEF PropsOK
    <3> QED BY <1>7, <3>1, <3>2
  <2> QED BY <1>0, <1>3, <1>8, <2>1, Zenon DEF PropsOK
<1>19. NeedsOK'
  <2>1. ASSUME NEW n \in needs PROVE n[1] <= (Last + 1) + 1 /\ n[1] # (Last + 1) + 1
    <3>1. n[1] \in Nat
      BY <1>0, MineIs, Zenon DEF Types
    <3>2. n[1] <= Last + 1
      BY <1>0, Zenon DEF NeedsOK
    <3> QED BY <1>7, <3>1, <3>2
  <2> QED BY <1>3, <1>8, <2>1, Zenon DEF NeedsOK
<1>20. GossipOK'
  <2>1. ASSUME NEW x \in ItemT, Shipping(x) PROVE Shipping(x)'
    <3>1. x.height \in Nat
      BY DEF ItemT
    <3>2. x.height <= Last + 1
      BY <2>1, Zenon DEF Shipping
    <3>3. x.height <= (Last + 1) + 1 /\ x.height # (Last + 1) + 1
      BY <1>7, <3>1, <3>2
    <3> QED BY <1>3, <1>8, <2>1, <3>3, Zenon DEF Shipping
  <2>2. ASSUME NEW i \in 1 .. Len(fx) PROVE fx[i].item \in ItemT
    <3>1. fx[i] \in EffT
      BY <1>11
    <3> QED BY <3>1 DEF EffT
  <2>3. \A i \in 1 .. Len(fx') : i + 1 \in 1 .. Len(fx) /\ fx'[i] = fx[i + 1]
    BY <1>1, <1>2, <1>11, TailEffects, Zenon
  <2> QED BY <1>0, <2>1, <2>2, <2>3, Zenon DEF GossipOK
<1>21. Queue'
  BY <1>0, <1>3, Zenon DEF Queue, TaskOK
<1>22. Asked'
  <2>1. Owed' = {}
    BY <1>3, <1>4 DEF Owed, Asks
  <2> QED BY <2>1, Zenon DEF Asked
<1>23. NoEquivocation'
  BY <1>3 DEF HInv, NoEquivocation
<1> QED BY <1>14, <1>15, <1>16, <1>17, <1>18, <1>19, <1>20, <1>21, <1>22, <1>23, Zenon DEF HInv, Phase

-----------------------------------------------------------------------------
(* Boot and crashes *)

\* A row is its number and its item.
LEMMA RowIs ==
    ASSUME NEW x \in RowT
    PROVE  x = Row(x.seq, x.item)
  BY DEF RowT, Row

\* The rows of the open height, in order
LEMMA FetchIs ==
    ASSUME Types, RowsOK(LogRows), NEW n \in Nat, Dense(LogRows, n)
    PROVE  LET rows == Fetch(Last + 1) IN
           /\ rows \in Seq(ItemT) /\ Len(rows) = n
           /\ \A i \in 1 .. n : Row(i - 1, rows[i]) \in LogRows
<1> DEFINE rows == Fetch(Last + 1)
<1>1. LogRows \subseteq RowT /\ \A x \in LogRows : x.seq \in Nat /\ x.seq < n
  BY LogType, Zenon DEF Dense
<1>2. ASSUME NEW i \in 1 .. n PROVE \E x \in LogRows : x.seq = i - 1
  <2>1. i - 1 \in 0 .. n - 1
    OBVIOUS
  <2> QED BY <2>1, Zenon DEF Dense
<1>3. {x.seq + 1 : x \in LogRows} = 1 .. n
  <2>1. \A x \in LogRows : x.seq + 1 \in 1 .. n
    BY <1>1
  <2>2. ASSUME NEW i \in 1 .. n PROVE \E x \in LogRows : i = x.seq + 1
    <3>1. PICK x \in LogRows : x.seq = i - 1
      BY <1>2
    <3>2. i = x.seq + 1
      BY <3>1
    <3> QED BY <3>2, Zenon
  <2> QED BY <2>1, <2>2, Zenon
<1>4. rows = [i \in 1 .. n |-> (CHOOSE x \in LogRows : x.seq = i - 1).item]
  BY <1>3, Zenon DEF Fetch, LogRows
<1> HIDE DEF rows
<1>5. ASSUME NEW i \in 1 .. n PROVE Row(i - 1, rows[i]) \in LogRows /\ rows[i] \in ItemT
  <2> DEFINE x == CHOOSE x \in LogRows : x.seq = i - 1
  <2>1. x \in LogRows /\ x.seq = i - 1 /\ rows[i] = x.item
    BY <1>2, <1>4, <1>5, Zenon
  <2> HIDE DEF x
  <2>2. x = Row(i - 1, rows[i])
    BY <1>1, <2>1, RowIs, Zenon
  <2>3. x.item \in ItemT
    BY <1>1, <2>1, RowFields, Zenon
  <2> QED BY <2>1, <2>2, <2>3, Zenon
<1>6. rows \in Seq(ItemT) /\ Len(rows) = n
  BY <1>4, <1>5
<1> QED BY <1>5, <1>6, Zenon DEF rows

\* The engine of a height that starts
LEMMA FreshReady ==
    ASSUME NEW h \in Heights
    PROVE  /\ Fresh(h) \in EngT /\ Fresh(h).height = h /\ Fresh(h).round = 0
           /\ Fresh(h).values = {} /\ Ready(Fresh(h), 0, {}) /\ EngOK(Fresh(h), {})
<1> DEFINE e == Fresh(h)
<1>1. h \in Nat
  BY HostAssumption DEF Heights
<1>2. /\ e.height = h /\ e.round = 0 /\ e.vote = "none" /\ e.values = {}
      /\ e.quorum = FALSE /\ e.done = FALSE
  BY DEF Fresh
<1>3. e \in EngT
  <2>1. FALSE \in BOOLEAN /\ "none" \in Votable /\ 0 \in Nat /\ {} \in SUBSET HeldT
    BY DEF Votable
  <2> QED BY <1>1, <2>1, ZenonT(60) DEF Fresh, EngT
<1> HIDE DEF e
<1>4. RoundOf({}, 0)
  BY DEF RoundOf
<1>5. VoteOK({}, e.round, e.vote)
  BY <1>2, <1>4, Zenon DEF VoteOK
<1>6. ValsOK({}, e.values)
  BY <1>2, Zenon DEF ValsOK
<1>7. OpenOK({}, e) /\ ~(e.quorum /\ Holds(e, Chosen[e.height]))
  BY <1>2, Zenon DEF OpenOK
<1>8. EngOK(e, {})
  BY <1>5, <1>6, <1>7, Zenon DEF EngOK
<1>9. 0 \in Nat /\ ~e.done /\ RowsOK({})
  BY <1>2, NoRows
<1>10. Ready(e, 0, {})
  BY <1>2, <1>3, <1>8, <1>9, Zenon DEF Ready
<1> QED BY <1>2, <1>3, <1>8, <1>10, Zenon DEF e

\* The item that drains the stash
LEMMA DrainIs ==
    /\ Drain \in ItemT /\ Drain.height = 0 /\ TaskOK(Drain)
<1>1. Drain.kind = "drain" /\ Drain.height = 0
  BY DEF Drain, Item
<1>2. Drain \in ItemT
  <2>1. "drain" \in Kinds /\ 0 \in Nat /\ "none" \in Votable /\ TRUE \in BOOLEAN
    BY Zenon DEF Kinds, Votable
  <2> QED BY <2>1, ItemFields, Zenon DEF Drain
<1>3. Drain.kind \notin {"proposal", "polka"} /\ Drain.kind # "proposal" /\ Drain.kind # "sync"
  BY <1>1
<1> QED BY <1>1, <1>2, <1>3, Zenon DEF TaskOK

\* No row is before number 0.
LEMMA BeforeNone ==
    ASSUME NEW S, S \subseteq RowT
    PROVE  Before(S, 0) = {}
<1>1. \A u \in S : u.seq \in Nat
  BY RowFields
<1> QED BY <1>1 DEF Before

\* Boot: the engine starts with the rows of the open height to replay, or waits.
LEMMA BootKeeps ==
    ASSUME HInv, Boot
    PROVE  HInv'
<1> DEFINE h == Last + 1
           rows == Fetch(h)
<1>0. Types /\ Phase /\ Queue
  BY DEF HInv
<1>1. mode = "down" /\ ~Sealed /\ h <= MaxHeight
  BY Zenon DEF Boot
<1>2. Stopped
  BY <1>0, <1>1 DEF Phase, Replaying, Running, Closed, Waiting
<1>3. /\ deferred = 0 /\ stash = {} /\ buffered = {} /\ replay = <<>> /\ fx = <<>>
      /\ todo = <<>> /\ needs = {} /\ RowsOK(LogRows)
  BY <1>2, Zenon DEF Stopped
<1>4. PICK n \in Nat : Dense(LogRows, n)
  BY <1>2, Zenon DEF Stopped
<1>5. Last \in Nat /\ LogRows \subseteq RowT
  BY <1>0, LogType, Zenon
<1>6. h \in Heights
  BY <1>1, <1>5, HostAssumption DEF Heights
<1>7. Fresh(h) \in EngT /\ Fresh(h).height = h /\ Fresh(h).values = {} /\ EngOK(Fresh(h), {})
  BY <1>6, FreshReady, Zenon
<1>8. rows \in Seq(ItemT) /\ Len(rows) = n /\ \A i \in 1 .. n : Row(i - 1, rows[i]) \in LogRows
  BY <1>0, <1>3, <1>4, FetchIs, Zenon
<1> HIDE DEF rows
<1>9. UNCHANGED <<chain, wal, stash, votes, props>>
  BY DEF Boot
<1>10. LogRows' = LogRows /\ Last' = Last /\ (Sealed' <=> Sealed)
  BY <1>9, LogSame
<1>11. CASE rows = <<>>
  <2>1. /\ mode' = "run" /\ deferred' = h /\ eng' = Fresh(h)
        /\ UNCHANGED <<walSeq, fx, buffered, needs, asked, replay, todo>>
    BY <1>11, Zenon DEF Boot, rows
  <2>2. n = 0
    BY <1>8, <1>11
  <2>3. LogRows = {}
    <3>1. \A x \in LogRows : x.seq \in Nat /\ x.seq < 0
      BY <1>4, <1>5, <2>2, RowFields DEF Dense
    <3> QED BY <3>1
  <2>4. todo' = <<>> /\ \A i \in 1 .. Len(todo') : FALSE
    BY <1>3, <2>1
  <2>5. Waiting'
    BY <1>1, <1>3, <1>9, <1>10, <2>1, <2>3, <2>4, Zenon DEF Waiting
  <2>6. Types'
    <3>1. deferred' \in Nat
      BY <1>5, <2>1
    <3> QED BY <1>0, <1>7, <1>9, <2>1, <3>1, Zenon DEF Types
  <2>7. NeedsOK' /\ Queue'
    BY <1>0, <1>3, <1>9, <2>1, Zenon DEF NeedsOK, Queue, TaskOK
  <2>8. GossipOK'
    <3>1. fx' = <<>>
      BY <1>3, <2>1, Zenon
    <3> QED BY <3>1 DEF GossipOK
  <2>9. Asked'
    <3>1. deferred' # 0
      BY <1>5, <2>1
    <3> QED BY <3>1, Zenon DEF Asked
  <2> QED BY <1>9, <2>1, <2>5, <2>6, <2>7, <2>8, <2>9, Rest, Zenon DEF Phase
<1>12. CASE rows # <<>>
  <2>1. /\ mode' = "replay" /\ StartHeight(h, Len(rows), FALSE) /\ replay' = rows
        /\ todo' = <<Drain>> /\ deferred' = deferred
    BY <1>12, Zenon DEF Boot, rows
  <2>2. walSeq' = n /\ eng' = Ignore(Fresh(h)).eng /\ fx' = Ignore(Fresh(h)).fx /\ needs' = needs \cup {}
    BY <1>3, <1>8, <2>1, Zenon DEF StartHeight
  <2>3. Ignore(Fresh(h)).eng = Fresh(h) /\ Ignore(Fresh(h)).fx = <<>>
    BY DEF Ignore
  <2>4. eng' = Fresh(h) /\ fx' = <<>> /\ needs' = needs
    BY <2>2, <2>3
  <2>5. ~Fresh(h).done
    BY DEF Fresh
  <2>6. Working'
    BY <1>1, <1>3, <1>4, <1>6, <1>7, <1>10, <2>1, <2>2, <2>4, <2>5, FxEmpty, Zenon DEF Working
  <2>7. /\ walSeq' - Len(replay') = 0 /\ Len(replay') <= walSeq'
        /\ \A i \in 1 .. Len(replay') : walSeq' - Len(replay') + i - 1 = i - 1
    <3>1. replay' = rows /\ walSeq' = n
      BY <1>8, <2>1, <2>2, Zenon
    <3>2. Len(replay') = n
      BY <1>8, <3>1, Zenon
    <3> QED BY <3>1, <3>2
  <2>8. Replayed' = {}
    BY <1>5, <1>10, <2>7, BeforeNone, Zenon DEF Replayed
  <2>9. \A i \in 1 .. Len(replay') : Row(walSeq' - Len(replay') + i - 1, replay'[i]) \in LogRows
    BY <1>8, <2>1, <2>7, Zenon
  <2>10. Replaying'
    BY <1>3, <1>7, <1>10, <2>1, <2>4, <2>6, <2>7, <2>8, <2>9, NoneHas, Zenon DEF Replaying
  <2>11. todo' \in Seq(ItemT) /\ \A i \in 1 .. Len(todo') : todo'[i] = Drain
    BY <2>1, DrainIs
  <2>12. Types'
    BY <1>0, <1>7, <1>8, <1>9, <2>1, <2>2, <2>4, <2>11, FxEmpty, Zenon DEF Types, FxOK
  <2>13. NeedsOK' /\ Queue'
    BY <1>0, <1>3, <1>9, <2>4, <2>11, DrainIs, Zenon DEF NeedsOK, Queue, TaskOK
  <2>14. GossipOK'
    BY <2>4, NoneHas, Zenon DEF GossipOK, Has
  <2>15. Asked'
    <3>1. mode' # "run"
      BY <2>1
    <3> QED BY <3>1, Zenon DEF Asked
  <2> QED BY <1>9, <2>4, <2>10, <2>12, <2>13, <2>14, <2>15, Rest, Zenon DEF Phase
<1> QED BY <1>11, <1>12

\* The pending rows are numbered from the next free number on.
LEMMA PendSeq ==
    ASSUME NEW n \in Nat, NEW f \in Seq(EffT), NEW u \in PendOf(n, f)
    PROVE  u.seq >= n
<1>1. PICK i \in 1 .. Len(f) : u = Row(n + i - 1, f[i].item)
  BY DEF PendOf
<1>2. u.seq = n + i - 1
  BY <1>1 DEF Row
<1> QED BY <1>2

\* Down: a crash leaves a beginning of the rows, which is well formed.
LEMMA DownKeeps ==
    ASSUME HInv, mode # "down", Down, UNCHANGED <<chain, wal, votes, props>>
    PROVE  HInv'
<1>0. Types /\ Phase /\ PropsOK
  BY DEF HInv
<1>1. LogRows' = LogRows /\ Last' = Last /\ (Sealed' <=> Sealed)
  BY LogSame
<1>2. LogRows \subseteq RowT /\ walSeq \in Nat /\ fx \in Seq(EffT)
  BY <1>0, LogType, Zenon DEF Types
<1>3. RowsOK(LogRows)
  <2>1. CASE Replaying
    BY <2>1, Zenon DEF Replaying
  <2>2. CASE Running
    <3>1. Prefix(LogRows, Full)
      <4>1. ASSUME NEW w \in LogRows, NEW u \in PendOf(walSeq, fx) PROVE ~(u.seq < w.seq)
        <5>1. u.seq >= walSeq
          BY <1>2, PendSeq, Zenon
        <5>2. w.seq < walSeq /\ w.seq \in Nat
          BY <1>0, <2>2, LogType, Zenon DEF Running, Working, Dense
        <5>3. u.seq \in Nat
          <6>1. u \in RowT
            BY <2>2, Zenon DEF Running, RowsOK, Full
          <6> QED BY <6>1, RowFields
        <5> QED BY <1>2, <5>1, <5>2, <5>3
      <4> QED BY <4>1, Zenon DEF Prefix, Full
    <3> QED BY <2>2, <3>1, RowsPrefix, Zenon DEF Running
  <2>3. CASE Closed \/ Waiting
    <3>1. LogRows = {}
      BY <2>3, Zenon DEF Closed, Waiting
    <3> QED BY <3>1, NoRows, Zenon
  <2> QED BY <1>0, <2>1, <2>2, <2>3 DEF Phase, Stopped
<1>4. \E n \in Nat : Dense(LogRows, n)
  <2>1. CASE Replaying \/ Running
    BY <1>2, <2>1, Zenon DEF Replaying, Running, Working
  <2>2. CASE Closed \/ Waiting
    <3>1. LogRows = {}
      BY <2>2, Zenon DEF Closed, Waiting
    <3>2. 0 \in Nat /\ Dense({}, 0)
      BY DEF Dense
    <3> QED BY <3>1, <3>2, Zenon
  <2> QED BY <1>0, <2>1, <2>2 DEF Phase, Stopped
<1>5. Sealed => LogRows = {}
  BY <1>0, Zenon DEF Phase, Stopped, Replaying, Running, Working, Closed, Waiting
<1>6. /\ mode' = "down" /\ eng' = Fresh(1) /\ walSeq' = 0 /\ blocks' = {}
      /\ deferred' = 0 /\ stash' = {} /\ buffered' = {} /\ replay' = <<>>
      /\ fx' = <<>> /\ todo' = <<>> /\ needs' = {} /\ asked' = {}
  BY DEF Down
<1>7. Stopped'
  BY <1>1, <1>3, <1>4, <1>5, <1>6, Zenon DEF Stopped
<1>8. Types'
  <2>1. 1 \in Heights
    BY HostAssumption DEF Heights
  <2>2. eng' \in EngT
    BY <1>6, <2>1, FreshReady, Zenon
  <2>3. /\ walSeq' \in Nat /\ deferred' \in Nat /\ fx' \in Seq(EffT) /\ replay' \in Seq(ItemT)
        /\ todo' \in Seq(ItemT) /\ stash' \subseteq ItemT /\ needs' \subseteq Mine
    BY <1>6
  <2> QED BY <1>0, <2>2, <2>3, Zenon DEF Types
<1>9. Kept' /\ VotesOK' /\ NoEquivocation'
  BY DurableSame, Zenon
<1>10. PropsOK'
  BY <1>0, <1>1, <1>6, Zenon DEF PropsOK
<1>11. NeedsOK' /\ GossipOK' /\ Queue'
  <2>1. 1 .. Len(fx') = {} /\ 1 .. Len(todo') = {}
    BY <1>6
  <2> QED BY <1>6, <2>1, Zenon DEF NeedsOK, GossipOK, Queue
<1>12. Asked'
  <2>1. mode' # "run"
    BY <1>6
  <2> QED BY <2>1, Zenon DEF Asked
<1> QED BY <1>7, <1>8, <1>9, <1>10, <1>11, <1>12, Zenon DEF HInv, Phase

\* The invariant holds initially.
LEMMA InitHolds ==
    ASSUME Init
    PROVE  HInv
<1>1. /\ chain = <<>> /\ wal = {} /\ mode = "down" /\ eng = Fresh(1) /\ walSeq = 0 /\ blocks = {}
      /\ deferred = 0 /\ stash = {} /\ buffered = {} /\ replay = <<>>
      /\ fx = <<>> /\ todo = <<>> /\ needs = {} /\ asked = {} /\ votes = {} /\ props = {}
  BY Zenon DEF Init
<1>2. Last = 0
  BY <1>1 DEF Last
<1>3. LogRows = {}
  BY <1>1 DEF LogRows, Rows
<1>4. RowsOK({}) /\ 0 \in Nat /\ Dense({}, 0)
  BY NoRows DEF Dense
<1>5. Stopped
  BY <1>1, <1>3, <1>4, Zenon DEF Stopped
<1>6. Types
  <2>1. 1 \in Heights
    BY HostAssumption DEF Heights
  <2>2. eng \in EngT
    BY <1>1, <2>1, FreshReady, Zenon
  <2>3. /\ walSeq \in Nat /\ deferred \in Nat /\ fx \in Seq(EffT) /\ replay \in Seq(ItemT)
        /\ todo \in Seq(ItemT) /\ stash \subseteq ItemT /\ needs \subseteq Mine
        /\ chain \in Seq(Values) /\ wal \subseteq RowT
        /\ votes \subseteq ItemT /\ props \subseteq ItemT
    BY <1>1
  <2> QED BY <2>2, <2>3, Zenon DEF Types
<1>7. Kept
  <2>1. Last = 0 /\ (SealHeight > 0 => 0 <= SealHeight) /\ Rows(Last) = {}
    BY <1>1, <1>2, HostAssumption DEF Rows
  <2> QED BY <1>1, <2>1, Zenon DEF Kept
<1>8. VotesOK /\ PropsOK /\ NeedsOK /\ NoEquivocation
  BY <1>1, Zenon DEF VotesOK, PropsOK, NeedsOK, NoEquivocation
<1>9. GossipOK /\ Queue
  <2>1. 1 .. Len(fx) = {} /\ 1 .. Len(todo) = {}
    BY <1>1
  <2> QED BY <1>1, <2>1, Zenon DEF GossipOK, Queue
<1>10. Asked
  <2>1. mode # "run"
    BY <1>1
  <2> QED BY <2>1, Zenon DEF Asked
<1> QED BY <1>5, <1>6, <1>7, <1>8, <1>9, <1>10, Zenon DEF HInv, Phase

\* The invariant speaks of no more than the variables.
LEMMA StutterKeeps ==
    ASSUME HInv, UNCHANGED vars
    PROVE  HInv'
<1>0. Types /\ Phase /\ NeedsOK /\ GossipOK /\ Queue /\ Asked
  BY DEF HInv
<1>1. UNCHANGED <<chain, wal, votes, props, mode, eng, walSeq, blocks, deferred, stash, buffered,
                  replay, fx, todo, needs, asked>>
  BY DEF vars, process
<1>2. LogRows' = LogRows /\ Last' = Last /\ (Sealed' <=> Sealed) /\ Rows(Last)' = Rows(Last)
  BY <1>1, LogSame
<1>3. Full' = Full /\ Replayed' = Replayed
  BY <1>1, <1>2, Zenon DEF Full, Replayed
<1>4. Working => Working'
  BY <1>1, <1>2, Zenon DEF Working
<1>5. Running => Running'
  BY <1>1, <1>3, <1>4, Zenon DEF Running
<1>6. Replaying => Replaying'
  BY <1>1, <1>2, <1>3, <1>4, Zenon DEF Replaying
<1>7. Stopped => Stopped'
  BY <1>1, <1>2, Zenon DEF Stopped
<1>8. Closed => Closed'
  BY <1>1, <1>2, Zenon DEF Closed
<1>9. Waiting => Waiting'
  BY <1>1, <1>2, Zenon DEF Waiting
<1>10. Phase'
  BY <1>0, <1>5, <1>6, <1>7, <1>8, <1>9, Zenon DEF Phase
<1>11. Types'
  BY <1>0, <1>1, Zenon DEF Types
<1>12. NeedsOK' /\ GossipOK'
  BY <1>0, <1>1, <1>2, <1>3, <1>5, Zenon DEF NeedsOK, GossipOK, Shipping
<1>13. Queue'
  BY <1>0, <1>1, Zenon DEF Queue, TaskOK
<1>14. Asked'
  BY <1>0, <1>1 DEF Asked, Owed
<1> QED BY <1>1, <1>10, <1>11, <1>12, <1>13, <1>14, Rest, Zenon

-----------------------------------------------------------------------------
(* The engine's answers *)

\* What each update of the engine record changes
LEMMA EngUpdates ==
    ASSUME NEW e \in EngT
    PROVE  /\ \A v \in Votable :
                Becomes(e, [e EXCEPT !.vote = v], e.round, v, e.values, e.quorum, e.done)
           /\ Becomes(e, [e EXCEPT !.done = TRUE], e.round, e.vote, e.values, e.quorum, TRUE)
           /\ Becomes(e, [e EXCEPT !.quorum = TRUE], e.round, e.vote, e.values, TRUE, e.done)
           /\ \A x \in HeldT :
                Becomes(e, [e EXCEPT !.values = @ \cup {x}], e.round, e.vote, e.values \cup {x},
                        e.quorum, e.done)
           /\ Becomes(e, [e EXCEPT !.round = @ + 1, !.vote = "none"], e.round + 1, "none",
                      e.values, e.quorum, e.done)
           /\ Becomes(e, e, e.round, e.vote, e.values, e.quorum, e.done)
<1>0. TRUE \in BOOLEAN /\ "none" \in Votable
  BY Zenon DEF Votable
<1>1. \A v \in Votable :
        Becomes(e, [e EXCEPT !.vote = v], e.round, v, e.values, e.quorum, e.done)
  BY DEF Becomes, EngT
<1>2. Becomes(e, [e EXCEPT !.done = TRUE], e.round, e.vote, e.values, e.quorum, TRUE)
  BY <1>0, Zenon DEF Becomes, EngT
<1>3. Becomes(e, [e EXCEPT !.quorum = TRUE], e.round, e.vote, e.values, TRUE, e.done)
  BY <1>0, Zenon DEF Becomes, EngT
<1>4. \A x \in HeldT :
        Becomes(e, [e EXCEPT !.values = @ \cup {x}], e.round, e.vote, e.values \cup {x},
                e.quorum, e.done)
  BY DEF Becomes, EngT
<1>5. Becomes(e, [e EXCEPT !.round = @ + 1, !.vote = "none"], e.round + 1, "none",
              e.values, e.quorum, e.done)
  <2>1. e.round + 1 \in Nat
    BY DEF EngT
  <2>2. [e EXCEPT !.round = @ + 1, !.vote = "none"] \in EngT
    BY <1>0, <2>1, ZenonT(60) DEF EngT
  <2> QED BY <2>2, Zenon DEF Becomes, EngT
<1>6. Becomes(e, e, e.round, e.vote, e.values, e.quorum, e.done)
  BY Zenon DEF Becomes
<1> QED BY <1>1, <1>2, <1>3, <1>4, <1>5, <1>6, Zenon

\* Settling: the engine decides when it can.
LEMMA SettleOK ==
    ASSUME NEW r, NEW S, r.eng \in EngT, ~r.eng.done, PreOK(r.eng, S)
    PROVE  LET q == Settle(r) IN
           /\ Becomes(r.eng, q.eng, r.eng.round, r.eng.vote, r.eng.values, r.eng.quorum, q.eng.done)
           /\ EngOK(q.eng, S)
           /\ q.eng.done => Holds(q.eng, Chosen[q.eng.height])
           /\ q.fx = IF q.eng.done
                     THEN Append(r.fx, Effect("decide", Item("decide", r.eng.height, 0,
                                                             Chosen[r.eng.height], TRUE)))
                     ELSE r.fx
<1> DEFINE e == r.eng
           q == Settle(r)
<1>1. CASE e.quorum /\ Holds(e, Chosen[e.height])
  <2>1. q.eng = [e EXCEPT !.done = TRUE]
    BY <1>1, Zenon DEF Settle
  <2>2. Becomes(e, q.eng, e.round, e.vote, e.values, e.quorum, TRUE)
    BY <2>1, EngUpdates, Zenon
  <2>3. q.fx = Append(r.fx, Effect("decide", Item("decide", e.height, 0, Chosen[e.height], TRUE)))
    BY <1>1, Zenon DEF Settle
  <2>4. EngOK(q.eng, S)
    BY <2>2, Zenon DEF EngOK, PreOK, Becomes
  <2>5. Holds(q.eng, Chosen[q.eng.height])
    BY <1>1, <2>2, Zenon DEF Becomes, Holds
  <2> QED BY <2>2, <2>3, <2>4, <2>5, Zenon DEF Becomes
<1>2. CASE ~(e.quorum /\ Holds(e, Chosen[e.height]))
  <2>1. q = r
    BY <1>2, Zenon DEF Settle
  <2>2. Becomes(e, q.eng, e.round, e.vote, e.values, e.quorum, e.done)
    BY <2>1, EngUpdates, Zenon
  <2>3. EngOK(q.eng, S)
    BY <1>2, <2>1, Zenon DEF EngOK, PreOK
  <2> QED BY <2>1, <2>2, <2>3, Zenon
<1> QED BY <1>1, <1>2, Zenon

\* A well-placed list with an append put first
LEMMA FxCons ==
    ASSUME NEW f, NEW e, FxOK(f, e), NEW x \in EffT, x.op = "wal", x.item.height = e.height
    PROVE  FxOK(<<x>> \o f, e)
<1> DEFINE g == <<x>> \o f
<1>1. f \in Seq(EffT) /\ \A i \in 1 .. Len(f) : Placed(f, i, e)
  BY DEF FxOK
<1>2. /\ g \in Seq(EffT) /\ Len(g) = Len(f) + 1 /\ Len(f) \in Nat /\ g[1] = x
      /\ \A i \in 1 .. Len(f) : g[i + 1] = f[i]
  BY <1>1
<1> HIDE DEF g
<1>3. ASSUME NEW i \in 1 .. Len(g) PROVE Placed(g, i, e)
  <2>1. CASE i = 1
    BY <1>2, <2>1 DEF Placed
  <2>2. CASE i # 1
    <3>1. i - 1 \in 1 .. Len(f) /\ (i - 1) + 1 = i
      BY <1>2, <2>2
    <3>2. g[i] = f[i - 1] /\ Placed(f, i - 1, e)
      BY <1>1, <1>2, <3>1, Zenon
    <3>3. ASSUME g[i].op = "wal", NEW j \in 1 .. i PROVE g[j].op = "wal"
      <4>1. CASE j = 1
        BY <1>2, <4>1, Zenon
      <4>2. CASE j # 1
        <5>1. j - 1 \in 1 .. (i - 1) /\ j - 1 \in 1 .. Len(f) /\ (j - 1) + 1 = j
          BY <1>2, <4>2
        <5>2. g[j] = f[j - 1] /\ f[i - 1].op = "wal"
          BY <1>2, <3>2, <3>3, <5>1
        <5> QED BY <3>2, <5>1, <5>2, Zenon DEF Placed
      <4> QED BY <4>1, <4>2
    <3>4. ASSUME g[i].op = "decide", NEW j \in i + 1 .. Len(g) PROVE g[j].op = "gossip"
      <4>1. j - 1 \in (i - 1) + 1 .. Len(f) /\ j - 1 \in 1 .. Len(f) /\ (j - 1) + 1 = j
        BY <1>2, <3>1
      <4>2. g[j] = f[j - 1] /\ f[i - 1].op = "decide"
        BY <1>2, <3>2, <3>4, <4>1, SMTT(60)
      <4> QED BY <3>2, <4>1, <4>2, Zenon DEF Placed
    <3>5. ASSUME g[i].op = "gossip" PROVE i = Len(g)
      <4>1. i - 1 = Len(f)
        BY <3>2, <3>5, Zenon DEF Placed
      <4> QED BY <1>2, <4>1
    <3> QED BY <3>2, <3>3, <3>4, <3>5, Zenon DEF Placed
  <2> QED BY <2>1, <2>2
<1>4. FxOK(g, e)
  BY <1>2, <1>3, Zenon DEF FxOK
<1> QED BY <1>4 DEF g

\* A well-placed list with a decide or a block put last
LEMMA FxAppend ==
    ASSUME NEW f, NEW e, FxOK(f, e), NEW x \in EffT, NEW e1,
           e1.height = e.height, e1.round = e.round, e1.vote = e.vote, ~Has(f, "gossip"),
           \/ x.op = "gossip" /\ e1 = e
           \/ /\ x.op = "decide" /\ ~Has(f, "decide")
              /\ e1.done /\ Holds(e1, Chosen[e1.height]) /\ x.item = DecideItem(e1)
    PROVE  FxOK(Append(f, x), e1)
<1> DEFINE g == Append(f, x)
<1>1. f \in Seq(EffT) /\ \A i \in 1 .. Len(f) : Placed(f, i, e)
  BY DEF FxOK
<1>2. /\ g \in Seq(EffT) /\ Len(g) = Len(f) + 1 /\ Len(f) \in Nat /\ g[Len(g)] = x
      /\ \A i \in 1 .. Len(f) : g[i] = f[i]
  BY <1>1
<1> HIDE DEF g
<1>3. ASSUME NEW i \in 1 .. Len(g) PROVE Placed(g, i, e1)
  <2>1. CASE i = Len(g)
    <3>1. g[i] = x /\ \A j \in i + 1 .. Len(g) : FALSE
      BY <1>2, <2>1
    <3> QED BY <2>1, <3>1, Zenon DEF Placed
  <2>2. CASE i # Len(g)
    <3>1. i \in 1 .. Len(f) /\ g[i] = f[i] /\ Placed(f, i, e) /\ g[i].op # "gossip"
      BY <1>1, <1>2, <2>2 DEF Has
    <3>2. ASSUME g[i].op = "wal", NEW j \in 1 .. i PROVE g[j].op = "wal"
      <4>1. g[j] = f[j] /\ f[i].op = "wal"
        BY <1>2, <3>1, <3>2
      <4> QED BY <3>1, <4>1, Zenon DEF Placed
    <3>3. ASSUME g[i].op = "decide" PROVE \A j \in i + 1 .. Len(g) : g[j].op = "gossip"
      <4>1. x.op = "gossip" /\ \A j \in i + 1 .. Len(f) : f[j].op = "gossip"
        BY <3>1, <3>3, Zenon DEF Placed, Has
      <4> QED BY <1>2, <3>1, <4>1
    <3>4. g[i].op = "decide" => e1 = e
      BY <3>1, Zenon DEF Has
    <3>5. VoteItem(e1) = VoteItem(e)
      BY Zenon DEF VoteItem
    <3> QED BY <3>1, <3>2, <3>3, <3>4, <3>5, Zenon DEF Placed
  <2> QED BY <2>1, <2>2
<1>4. FxOK(g, e1)
  BY <1>2, <1>3, Zenon DEF FxOK
<1> QED BY <1>4 DEF g

\* The effects of a list with one put first
LEMMA HasCons ==
    ASSUME NEW f \in Seq(EffT), NEW x \in EffT, NEW op, x.op # op, ~Has(f, op)
    PROVE  ~Has(<<x>> \o f, op)
<1> DEFINE g == <<x>> \o f
<1>1. /\ Len(g) = Len(f) + 1 /\ Len(f) \in Nat /\ g[1] = x
      /\ \A i \in 1 .. Len(f) : g[i + 1] = f[i]
  OBVIOUS
<1> HIDE DEF g
<1>2. ASSUME NEW i \in 1 .. Len(g) PROVE g[i].op # op
  <2>1. CASE i = 1
    BY <1>1, <2>1, Zenon
  <2>2. CASE i # 1
    <3>1. i - 1 \in 1 .. Len(f) /\ (i - 1) + 1 = i
      BY <1>1, <2>2
    <3> QED BY <1>1, <3>1, Zenon DEF Has
  <2> QED BY <2>1, <2>2
<1> QED BY <1>2, Zenon DEF Has, g

\* The effects of a list with one put last
LEMMA HasAppend ==
    ASSUME NEW f \in Seq(EffT), NEW x \in EffT, NEW op
    PROVE  Has(Append(f, x), op) <=> x.op = op \/ Has(f, op)
<1> DEFINE g == Append(f, x)
<1>1. /\ Len(g) = Len(f) + 1 /\ Len(f) \in Nat /\ g[Len(g)] = x
      /\ \A i \in 1 .. Len(f) : g[i] = f[i]
  OBVIOUS
<1> HIDE DEF g
<1>2. Has(g, op) <=> x.op = op \/ Has(f, op)
  BY <1>1 DEF Has
<1> QED BY <1>2 DEF g

\* The effects of a vote, if r casts one
CastFx(r) ==
    \/ r.fx = <<>>
    \/ /\ r.eng.vote # "none"
       /\ r.fx = <<Effect("wal", VoteItem(r.eng)), Effect("publish", VoteItem(r.eng))>>

\* What a list of effects appends besides the input, from number n on
VoteRows(n, f, e) ==
    \/ PendOf(n, f) = {}
    \/ e.vote # "none" /\ PendOf(n, f) = {Row(n, VoteItem(e))}

\* The effects of a vote are well placed.
LEMMA CastFxOK ==
    ASSUME NEW r, r.eng \in EngT, CastFx(r)
    PROVE  /\ FxOK(r.fx, r.eng) /\ ~Has(r.fx, "gossip") /\ ~Has(r.fx, "decide")
           /\ \A n \in Nat : VoteRows(n, r.fx, r.eng)
           /\ \A n \in Nat : r.fx # <<>> => PendOf(n, r.fx) = {Row(n, VoteItem(r.eng))}
<1>1. CASE r.fx = <<>>
  <2>1. FxOK(r.fx, r.eng)
    BY <1>1, FxEmpty
  <2>2. ~Has(r.fx, "gossip") /\ ~Has(r.fx, "decide")
    BY <1>1 DEF Has
  <2>3. \A n \in Nat : PendOf(n, r.fx) = {}
    BY <1>1, PendEmpty, Zenon
  <2> QED BY <1>1, <2>1, <2>2, <2>3, Zenon DEF VoteRows
<1>2. CASE r.fx # <<>>
  <2> DEFINE v == VoteItem(r.eng)
             x == Effect("wal", v)
             y == Effect("publish", v)
  <2>1. r.eng.vote # "none" /\ r.fx = <<x, y>>
    BY <1>2, Zenon DEF CastFx
  <2>2. v \in ItemT /\ v.height = r.eng.height
    BY VoteItemType, Zenon
  <2>3. /\ x \in EffT /\ x.op = "wal" /\ x.item = v
        /\ y \in EffT /\ y.op = "publish" /\ y.item = v
    BY <2>2, EffFields, Zenon
  <2> HIDE DEF x, y
  <2> DEFINE f == r.fx
  <2>4. f \in Seq(EffT) /\ Len(f) = 2 /\ f[1] = x /\ f[2] = y
    BY <2>1, <2>3
  <2> HIDE DEF f
  <2>5. 1 .. Len(f) = {1, 2} /\ 1 .. 1 = {1}
    BY <2>4
  <2>6. Placed(f, 1, r.eng)
    BY <2>2, <2>3, <2>4, <2>5, Zenon DEF Placed
  <2>7. Placed(f, 2, r.eng)
    BY <2>1, <2>3, <2>4, Zenon DEF Placed
  <2>8. FxOK(f, r.eng)
    BY <2>4, <2>5, <2>6, <2>7, Zenon DEF FxOK
  <2>9. ~Has(f, "gossip") /\ ~Has(f, "decide")
    BY <2>3, <2>4, <2>5 DEF Has
  <2>10. ASSUME NEW n \in Nat PROVE PendOf(n, f) = {Row(n, v)}
    <3>1. {j \in 1 .. Len(f) : f[j].op = "wal"} = {1}
      BY <2>3, <2>4, <2>5
    <3>2. n + 1 - 1 = n
      OBVIOUS
    <3>3. PendOf(n, f) = {Row(n + i - 1, f[i].item) : i \in {1}}
      BY <3>1, Zenon DEF PendOf
    <3>4. PendOf(n, f) = {Row(n + 1 - 1, f[1].item)}
      BY <3>3, Zenon
    <3> QED BY <2>3, <2>4, <3>2, <3>4, Zenon
  <2> QED BY <2>1, <2>8, <2>9, <2>10, Zenon DEF VoteRows, f
<1> QED BY <1>1, <1>2

\* Casting a vote: the rows determine it.
LEMMA CastOK ==
    ASSUME NEW e \in EngT, ~e.done, NEW v \in Votable, v # "none"
    PROVE  /\ CastFx(Cast(e, v))
           /\ Becomes(e, Cast(e, v).eng, e.round, IF e.vote = "none" THEN v ELSE e.vote, e.values,
                      e.quorum, e.done)
<1>1. CASE e.vote # "none"
  <2>1. Cast(e, v) = Ignore(e)
    BY <1>1, Zenon DEF Cast
  <2>2. Ignore(e).eng = e /\ Ignore(e).fx = <<>>
    BY DEF Ignore
  <2>3. Becomes(e, e, e.round, e.vote, e.values, e.quorum, e.done)
    BY EngUpdates, Zenon
  <2> QED BY <1>1, <2>1, <2>2, <2>3, Zenon DEF CastFx
<1>2. CASE e.vote = "none"
  <2> DEFINE e1 == [e EXCEPT !.vote = v]
             i == Item("vote", e.height, e.round, v, TRUE)
  <2>1. Cast(e, v).eng = e1 /\ Cast(e, v).fx = <<Effect("wal", i), Effect("publish", i)>>
    BY <1>2, Zenon DEF Cast
  <2>2. Becomes(e, e1, e.round, v, e.values, e.quorum, e.done)
    BY EngUpdates, Zenon
  <2>3. VoteItem(e1) = i
    BY <2>2, Zenon DEF VoteItem, Becomes
  <2>4. e1.vote # "none"
    BY <2>2, Zenon DEF Becomes
  <2> HIDE DEF e1, i
  <2> QED BY <1>2, <2>1, <2>2, <2>3, <2>4, Zenon DEF CastFx
<1> QED BY <1>1, <1>2

\* q answers an input whose row, if it has one, is in S.
Answer(q, S) ==
    /\ q.eng \in EngT /\ EngOK(q.eng, S) /\ FxOK(q.fx, q.eng)
    /\ ~Has(q.fx, "gossip") /\ (q.eng.done => Has(q.fx, "decide"))

\* The same, when q logs the input as item i.
Outcome(q, i, S) ==
    /\ Answer(q, S)
    /\ \A n \in Nat :
         \/ PendOf(n, q.fx) = {Row(n, i)}
         \/ q.eng.vote # "none" /\ PendOf(n, q.fx) = {Row(n, i)} \cup {Row(n + 1, VoteItem(q.eng))}

\* The engine after an input that is logged, its vote and its decide
LEMMA LoggedOK ==
    ASSUME NEW i \in ItemT, NEW r, r.eng \in EngT, r.eng.height \in Heights, ~r.eng.done,
           i.height = r.eng.height, CastFx(r), NEW S, PreOK(r.eng, S)
    PROVE  LET q == Logged(i, r) IN
           /\ Outcome(q, i, S)
           /\ Becomes(r.eng, q.eng, r.eng.round, r.eng.vote, r.eng.values, r.eng.quorum, q.eng.done)
<1> DEFINE w == Effect("wal", i)
           r1 == [eng |-> r.eng, fx |-> <<w>> \o r.fx]
           q == Settle(r1)
           d == Effect("decide", DecideItem(r.eng))
<1>1. Logged(i, r) = q
  BY Zenon DEF Logged
<1>2. r1.eng = r.eng /\ r1.fx = <<w>> \o r.fx
  OBVIOUS
<1>3. w \in EffT /\ w.op = "wal" /\ w.item = i
  BY EffFields, Zenon
<1>4. d \in EffT /\ d.op = "decide" /\ d.item = DecideItem(r.eng)
  BY DecideItemType, EffFields, Zenon
<1> HIDE DEF w, d
<1>5. /\ FxOK(r.fx, r.eng) /\ ~Has(r.fx, "gossip") /\ ~Has(r.fx, "decide")
      /\ \A n \in Nat : VoteRows(n, r.fx, r.eng)
  BY CastFxOK, Zenon
<1>6. r.fx \in Seq(EffT)
  BY <1>5, Zenon DEF FxOK
<1> DEFINE f == <<w>> \o r.fx
<1>7. FxOK(f, r.eng)
  BY <1>3, <1>5, FxCons, Zenon
<1>8. ~Has(f, "gossip") /\ ~Has(f, "decide")
  BY <1>3, <1>5, <1>6, HasCons
<1>9. f \in Seq(EffT)
  BY <1>7, Zenon DEF FxOK
<1>10. /\ Becomes(r.eng, q.eng, r.eng.round, r.eng.vote, r.eng.values, r.eng.quorum, q.eng.done)
       /\ EngOK(q.eng, S)
       /\ q.eng.done => Holds(q.eng, Chosen[q.eng.height])
       /\ q.fx = IF q.eng.done THEN Append(f, d) ELSE f
  <2> HIDE DEF r1
  <2> QED BY <1>2, SettleOK, Zenon DEF d, DecideItem
<1> HIDE DEF q
<1>11. /\ q.eng \in EngT /\ q.eng.height = r.eng.height /\ q.eng.round = r.eng.round
       /\ q.eng.vote = r.eng.vote
  BY <1>10, Zenon DEF Becomes
<1>12. VoteItem(q.eng) = VoteItem(r.eng) /\ DecideItem(q.eng) = DecideItem(r.eng)
  BY <1>11, Zenon DEF VoteItem, DecideItem
<1>13. FxOK(q.fx, q.eng) /\ ~Has(q.fx, "gossip") /\ (q.eng.done => Has(q.fx, "decide"))
  <2>1. CASE q.eng.done
    <3>1. q.fx = Append(f, d)
      BY <1>10, <2>1, Zenon
    <3> HIDE DEF f
    <3>2. FxOK(q.fx, q.eng)
      BY <1>4, <1>7, <1>8, <1>10, <1>11, <1>12, <2>1, <3>1, FxAppend, Zenon
    <3>3. Has(q.fx, "decide") /\ ~Has(q.fx, "gossip")
      BY <1>4, <1>8, <1>9, <3>1, HasAppend
    <3> QED BY <3>2, <3>3
  <2>2. CASE ~q.eng.done
    <3>1. q.fx = f
      BY <1>10, <2>2, Zenon
    <3>2. q.eng.done = r.eng.done
      <4>1. q.eng.done \in BOOLEAN /\ r.eng.done \in BOOLEAN
        BY <1>11, Zenon DEF EngT
      <4> QED BY <2>2, <4>1, Zenon
    <3>3. \A j : Placed(f, j, r.eng) /\ f[j].op # "decide" => Placed(f, j, q.eng)
      BY <1>11, <1>12, Zenon DEF Placed
    <3>4. \A j \in 1 .. Len(f) : f[j].op # "decide"
      BY <1>8, Zenon DEF Has
    <3>5. FxOK(f, q.eng)
      BY <1>7, <3>3, <3>4, Zenon DEF FxOK
    <3> QED BY <1>8, <2>2, <3>1, <3>5, Zenon
  <2> QED BY <2>1, <2>2
<1>14. ASSUME NEW n \in Nat
       PROVE  \/ PendOf(n, q.fx) = {Row(n, i)}
              \/ /\ q.eng.vote # "none"
                 /\ PendOf(n, q.fx) = {Row(n, i)} \cup {Row(n + 1, VoteItem(q.eng))}
  <2>1. PendOf(n, f) = {Row(n, i)} \cup PendOf(n + 1, r.fx)
    BY <1>3, <1>6, PendCons, Zenon
  <2>2. PendOf(n, q.fx) = PendOf(n, f)
    <3> HIDE DEF f
    <3>1. PendOf(n, Append(f, d)) = PendOf(n, f)
      BY <1>4, <1>9, PendAppend
    <3> QED BY <1>10, <3>1, Zenon
  <2>3. n + 1 \in Nat
    OBVIOUS
  <2>4. VoteRows(n + 1, r.fx, r.eng)
    BY <1>5, <2>3, Zenon
  <2> QED BY <1>11, <1>12, <2>1, <2>2, <2>4 DEF VoteRows
<1> QED BY <1>1, <1>10, <1>11, <1>13, <1>14, ZenonT(60) DEF Outcome, Answer

-----------------------------------------------------------------------------
(* The logged inputs *)

\* A row that is no proposal leaves the values.
LEMMA ValsStay ==
    ASSUME NEW S, NEW vals, ValsOK(S, vals), NEW x, x.item.kind # "value"
    PROVE  ValsOK(S \cup {x}, vals)
  BY Zenon DEF ValsOK

\* The row of a proposal adds its value.
LEMMA ValsAdd ==
    ASSUME NEW S, NEW vals, ValsOK(S, vals), NEW x, x.item.kind = "value"
    PROVE  ValsOK(S \cup {x}, vals \cup {Held(x.item)})
  BY Zenon DEF ValsOK

ValueRow(x, h, r, v, ok) == x.item = Item("value", h, r, v, ok)
Unheld(e, r, v) == ~\E y \in e.values : y.round = r /\ y.value = v

\* q keeps the vote of its round.
KeepsVote(q, e) == e.vote # "none" => q.eng.vote = e.vote

\* q takes the proposal of row x.
Took(q, e, S, x) ==
    /\ Outcome(q, x.item, S \cup {x})
    /\ q.eng.height = e.height /\ q.eng.round = e.round /\ KeepsVote(q, e)
    /\ q.eng.values = e.values \cup {Held(x.item)}

\* A proposal's row x
LEMMA ValueOK ==
    ASSUME NEW e \in EngT, ~e.done, e.height \in Heights, NEW S, EngOK(e, S),
           NEW r \in Nat, NEW v \in Values, NEW ok \in BOOLEAN,
           Unheld(e, r, v),
           NEW x, Behind(S, x), ValueRow(x, e.height, r, v, ok)
    PROVE  Took(OnValue(e, r, v, ok), e, S, x)
<1> DEFINE h == Held(x.item)
           e1 == [e EXCEPT !.values = @ \cup {h}]
           c == IF ok THEN v ELSE "nil"
           r0 == IF r = e.round THEN Cast(e1, c) ELSE Ignore(e1)
           i == x.item
<1>1. /\ i \in ItemT /\ i.kind = "value" /\ i.height = e.height /\ i.round = r
      /\ i.value = v /\ i.ok = ok
  <2>1. x \in RowT
    BY Zenon DEF Behind
  <2>2. i \in ItemT
    BY <2>1, RowFields
  <2> QED BY <2>2 DEF Item, ValueRow
<1>2. h = [round |-> r, value |-> v, ok |-> ok]
  BY <1>1, Zenon DEF Held
<1>3. h \in HeldT
  BY <1>2 DEF HeldT
<1>4. h.round = r
  BY <1>2
<1>5. r # -1
  OBVIOUS
<1>6. OnValue(e, r, v, ok) = Logged(i, r0)
  BY <1>2, Zenon DEF OnValue, Unheld, ValueRow
<1> HIDE DEF h, i
<1>7. Becomes(e, e1, e.round, e.vote, e.values \cup {h}, e.quorum, e.done)
  BY <1>3, EngUpdates, Zenon
<1> HIDE DEF e1
<1>8. c \in Votable /\ c # "none"
  BY HostAssumption DEF Votable
<1>9. VoteOf(i) = c
  BY <1>1, Zenon DEF VoteOf
<1> HIDE DEF c
<1>10. e1 \in EngT /\ ~e1.done /\ e1.round = e.round /\ e1.vote = e.vote
  BY <1>7, Zenon DEF Becomes
<1>11. /\ CastFx(r0)
       /\ Becomes(e1, r0.eng, e1.round, IF r = e.round /\ e.vote = "none" THEN c ELSE e.vote, e1.values,
                  e1.quorum, e1.done)
  <2>1. CASE r = e.round
    <3>1. r0 = Cast(e1, c)
      BY <2>1, Zenon
    <3>2. /\ CastFx(Cast(e1, c))
          /\ Becomes(e1, Cast(e1, c).eng, e1.round, IF e1.vote = "none" THEN c ELSE e1.vote, e1.values,
                      e1.quorum, e1.done)
      BY <1>8, <1>10, CastOK, Zenon
    <3> QED BY <1>10, <2>1, <3>1, <3>2, Zenon
  <2>2. CASE r # e.round
    <3>1. r0 = Ignore(e1)
      BY <2>2, Zenon
    <3>2. Ignore(e1).eng = e1 /\ Ignore(e1).fx = <<>>
      BY DEF Ignore
    <3>3. Becomes(e1, e1, e1.round, e1.vote, e1.values, e1.quorum, e1.done)
      BY <1>10, EngUpdates, Zenon
    <3> QED BY <1>10, <2>2, <3>1, <3>2, <3>3, Zenon DEF CastFx
  <2> QED BY <2>1, <2>2, Zenon
<1> HIDE DEF r0
<1>12. Becomes(e, r0.eng, e.round, IF r = e.round /\ e.vote = "none" THEN c ELSE e.vote,
               e.values \cup {h}, e.quorum, e.done)
  BY <1>7, <1>11, Zenon DEF Becomes
<1>13. /\ r0.eng \in EngT /\ r0.eng.height = e.height /\ r0.eng.round = e.round
       /\ r0.eng.values = e.values \cup {h} /\ r0.eng.quorum = e.quorum /\ ~r0.eng.done
  BY <1>12, Zenon DEF Becomes
<1>14. VoteOK(S \cup {x}, e.round, r0.eng.vote)
  <2>1. VoteOK(S, e.round, e.vote)
    BY Zenon DEF EngOK
  <2>2. CASE r = e.round /\ e.vote = "none"
    <3>1. r0.eng.vote = c
      BY <1>12, <2>2, Zenon DEF Becomes
    <3>2. x.item.kind \in {"vote", "expire", "value"} /\ x.item.round = e.round
      BY <1>1, <2>2, Zenon DEF i
    <3>3. VoteOf(x.item) # "none" /\ VoteOK(S, e.round, "none")
      BY <1>8, <1>9, <2>1, <2>2, Zenon DEF i
    <3>4. VoteOK(S \cup {x}, e.round, VoteOf(x.item))
      BY <3>2, <3>3, VoteMade, ZenonT(60)
    <3> QED BY <1>9, <3>1, <3>4, Zenon DEF i
  <2>3. CASE ~(r = e.round /\ e.vote = "none")
    <3>1. r0.eng.vote = e.vote
      BY <1>12, <2>3, Zenon DEF Becomes
    <3>2. x.item.kind # "skip"
      BY <1>1 DEF i
    <3> QED BY <1>1, <2>1, <2>3, <3>1, <3>2, VoteStays, Zenon DEF i
  <2> QED BY <2>2, <2>3
<1>19. e.vote # "none" => r0.eng.vote = e.vote
  BY <1>12, Zenon DEF Becomes
<1>15. ValsOK(S \cup {x}, e.values \cup {h})
  BY <1>1, ValsAdd, Zenon DEF EngOK, h, i
<1>16. OpenOK(S \cup {x}, r0.eng)
  <2>1. OpenOK(S, e)
    BY Zenon DEF EngOK
  <2>2. x.item.kind # "quorum"
    BY <1>1 DEF i
  <2> QED BY <1>4, <1>5, <1>13, <2>1, <2>2, Zenon DEF OpenOK
<1>17. PreOK(r0.eng, S \cup {x})
  BY <1>13, <1>14, <1>15, <1>16, Zenon DEF PreOK
<1> DEFINE q == Logged(i, r0)
<1>18. /\ Outcome(q, i, S \cup {x})
       /\ Becomes(r0.eng, q.eng, r0.eng.round, r0.eng.vote, r0.eng.values, r0.eng.quorum, q.eng.done)
  BY <1>1, <1>11, <1>13, <1>17, LoggedOK, Zenon
<1> QED BY <1>6, <1>13, <1>18, <1>19, Zenon DEF Becomes, Took, KeepsVote, h, i

\* The row x of a quorum of votes
LEMMA QuorumOK ==
    ASSUME NEW e \in EngT, ~e.done, ~e.quorum, e.height \in Heights, NEW S, EngOK(e, S),
           NEW x, Behind(S, x), x.item.kind = "quorum"
    PROVE  LET q == OnQuorum(e) IN
           /\ Outcome(q, Item("quorum", e.height, 0, "none", TRUE), S \cup {x})
           /\ q.eng.height = e.height /\ q.eng.round = e.round /\ q.eng.values = e.values
           /\ KeepsVote(q, e)
<1> DEFINE e1 == [e EXCEPT !.quorum = TRUE]
           r0 == Ignore(e1)
           i == Item("quorum", e.height, 0, "none", TRUE)
<1>1. i \in ItemT /\ i.height = e.height
  <2>1. e.height \in Nat /\ 0 \in Nat
    BY DEF EngT
  <2>2. "quorum" \in Kinds /\ "none" \in Votable /\ TRUE \in BOOLEAN
    BY Zenon DEF Kinds, Votable
  <2> QED BY <2>1, <2>2, SMTT(60) DEF Item, ItemT
<1>2. OnQuorum(e) = Logged(i, r0)
  BY Zenon DEF OnQuorum
<1> HIDE DEF i
<1>3. Becomes(e, e1, e.round, e.vote, e.values, TRUE, e.done)
  BY EngUpdates, Zenon
<1> HIDE DEF e1
<1>4. r0.eng = e1 /\ r0.fx = <<>>
  BY DEF Ignore
<1> HIDE DEF r0
<1>5. /\ r0.eng \in EngT /\ r0.eng.height = e.height /\ r0.eng.round = e.round /\ r0.eng.vote = e.vote
      /\ r0.eng.values = e.values /\ r0.eng.quorum /\ ~r0.eng.done
  BY <1>3, <1>4, Zenon DEF Becomes
<1>6. VoteOK(S \cup {x}, e.round, e.vote)
  <2>1. VoteOK(S, e.round, e.vote)
    BY Zenon DEF EngOK
  <2>2. x.item.kind # "skip"
    BY Zenon
  <2> QED BY <2>1, <2>2, VoteStays, Zenon
<1>7. ValsOK(S \cup {x}, e.values)
  <2>1. x.item.kind # "value"
    BY Zenon
  <2> QED BY <2>1, ValsStay, Zenon DEF EngOK
<1>8. OpenOK(S \cup {x}, r0.eng)
  BY <1>5, Zenon DEF OpenOK, EngOK
<1>9. PreOK(r0.eng, S \cup {x})
  BY <1>5, <1>6, <1>7, <1>8, Zenon DEF PreOK
<1> DEFINE q == Logged(i, r0)
<1>10. /\ Outcome(q, i, S \cup {x})
       /\ Becomes(r0.eng, q.eng, r0.eng.round, r0.eng.vote, r0.eng.values, r0.eng.quorum, q.eng.done)
  <2>1. CastFx(r0)
    BY <1>4, Zenon DEF CastFx
  <2> QED BY <1>1, <1>5, <1>9, <2>1, LoggedOK, Zenon
<1> QED BY <1>2, <1>5, <1>10, Zenon DEF Becomes, KeepsVote, i

\* The row x of a propose timeout
LEMMA ExpireOK ==
    ASSUME NEW e \in EngT, ~e.done, e.height \in Heights, NEW S, EngOK(e, S),
           NEW x, Behind(S, x), x.item.kind = "expire", x.item.round = e.round
    PROVE  LET q == OnProposeTimeout(e) IN
           /\ Outcome(q, Item("expire", e.height, e.round, "none", TRUE), S \cup {x})
           /\ q.eng.height = e.height /\ q.eng.round = e.round /\ q.eng.values = e.values
           /\ KeepsVote(q, e)
<1> DEFINE r0 == Cast(e, "nil")
           i == Item("expire", e.height, e.round, "none", TRUE)
<1>1. i \in ItemT /\ i.height = e.height
  <2>1. e.height \in Nat /\ e.round \in Nat
    BY DEF EngT
  <2>2. "expire" \in Kinds /\ "none" \in Votable /\ TRUE \in BOOLEAN
    BY Zenon DEF Kinds, Votable
  <2> QED BY <2>1, <2>2, SMTT(60) DEF Item, ItemT
<1>2. OnProposeTimeout(e) = Logged(i, r0)
  BY Zenon DEF OnProposeTimeout
<1> HIDE DEF i
<1>3. "nil" \in Votable /\ "nil" # "none"
  BY Zenon DEF Votable
<1>4. /\ CastFx(r0)
      /\ Becomes(e, r0.eng, e.round, IF e.vote = "none" THEN "nil" ELSE e.vote, e.values, e.quorum, e.done)
  BY <1>3, CastOK, Zenon
<1> HIDE DEF r0
<1>5. /\ r0.eng \in EngT /\ r0.eng.height = e.height /\ r0.eng.round = e.round
      /\ r0.eng.values = e.values /\ r0.eng.quorum = e.quorum /\ ~r0.eng.done
      /\ r0.eng.vote = IF e.vote = "none" THEN "nil" ELSE e.vote
  BY <1>4, Zenon DEF Becomes
<1>6. VoteOK(S \cup {x}, e.round, r0.eng.vote)
  <2>1. VoteOK(S, e.round, e.vote)
    BY Zenon DEF EngOK
  <2>2. CASE e.vote = "none"
    <3>1. VoteOf(x.item) = "nil"
      BY Zenon DEF VoteOf
    <3>2. x.item.kind \in {"vote", "expire", "value"}
      BY Zenon
    <3>3. VoteOK(S, e.round, "none") /\ VoteOf(x.item) # "none"
      BY <1>3, <2>1, <2>2, <3>1, Zenon
    <3>4. VoteOK(S \cup {x}, e.round, VoteOf(x.item))
      BY <3>2, <3>3, VoteMade, ZenonT(60)
    <3> QED BY <1>5, <2>2, <3>1, <3>4, Zenon
  <2>3. CASE e.vote # "none"
    <3>1. r0.eng.vote = e.vote /\ x.item.kind # "skip"
      BY <1>5, <2>3, Zenon
    <3> QED BY <2>1, <2>3, <3>1, VoteStays, Zenon
  <2> QED BY <2>2, <2>3
<1>7. ValsOK(S \cup {x}, e.values)
  <2>1. x.item.kind # "value"
    BY Zenon
  <2> QED BY <2>1, ValsStay, Zenon DEF EngOK
<1>8. OpenOK(S \cup {x}, r0.eng)
  <2>1. x.item.kind # "quorum"
    BY Zenon
  <2> QED BY <1>5, <2>1, Zenon DEF OpenOK, EngOK
<1>9. PreOK(r0.eng, S \cup {x})
  BY <1>5, <1>6, <1>7, <1>8, Zenon DEF PreOK
<1> DEFINE q == Logged(i, r0)
<1>10. /\ Outcome(q, i, S \cup {x})
       /\ Becomes(r0.eng, q.eng, r0.eng.round, r0.eng.vote, r0.eng.values, r0.eng.quorum, q.eng.done)
  BY <1>1, <1>4, <1>5, <1>9, LoggedOK, Zenon
<1> QED BY <1>2, <1>5, <1>10, Zenon DEF Becomes, KeepsVote, i

\* The row x of a round's end
LEMMA SkipOK ==
    ASSUME NEW e \in EngT, ~e.done, e.height \in Heights, NEW S, EngOK(e, S),
           NEW x, Behind(S, x), x.item.kind = "skip", x.item.round = e.round
    PROVE  LET q == OnRoundTimeout(e) IN
           /\ Outcome(q, Item("skip", e.height, e.round, "none", TRUE), S \cup {x})
           /\ q.eng.height = e.height /\ q.eng.round = e.round + 1 /\ q.eng.values = e.values
<1> DEFINE e1 == [e EXCEPT !.round = @ + 1, !.vote = "none"]
           r0 == Ignore(e1)
           i == Item("skip", e.height, e.round, "none", TRUE)
<1>0. e.height \in Nat /\ e.round \in Nat
  BY DEF EngT
<1>1. i \in ItemT /\ i.height = e.height
  <2>2. "skip" \in Kinds /\ "none" \in Votable /\ TRUE \in BOOLEAN
    BY Zenon DEF Kinds, Votable
  <2> QED BY <1>0, <2>2, SMTT(60) DEF Item, ItemT
<1>2. OnRoundTimeout(e) = Logged(i, r0)
  BY Zenon DEF OnRoundTimeout
<1> HIDE DEF i
<1>3. Becomes(e, e1, e.round + 1, "none", e.values, e.quorum, e.done)
  BY EngUpdates, Zenon
<1> HIDE DEF e1
<1>4. r0.eng = e1 /\ r0.fx = <<>>
  BY DEF Ignore
<1> HIDE DEF r0
<1>5. /\ r0.eng \in EngT /\ r0.eng.height = e.height /\ r0.eng.round = e.round + 1
      /\ r0.eng.vote = "none"
      /\ r0.eng.values = e.values /\ r0.eng.quorum = e.quorum /\ ~r0.eng.done
  BY <1>3, <1>4, Zenon DEF Becomes
<1>6. VoteOK(S \cup {x}, e.round + 1, "none")
  BY <1>0, RoundEnds, Zenon DEF EngOK, VoteOK
<1>7. ValsOK(S \cup {x}, e.values)
  <2>1. x.item.kind # "value"
    BY Zenon
  <2> QED BY <2>1, ValsStay, Zenon DEF EngOK
<1>8. OpenOK(S \cup {x}, r0.eng)
  <2>1. x.item.kind # "quorum"
    BY Zenon
  <2> QED BY <1>5, <2>1, Zenon DEF OpenOK, EngOK
<1>9. PreOK(r0.eng, S \cup {x})
  BY <1>5, <1>6, <1>7, <1>8, Zenon DEF PreOK
<1> DEFINE q == Logged(i, r0)
<1>10. /\ Outcome(q, i, S \cup {x})
       /\ Becomes(r0.eng, q.eng, r0.eng.round, r0.eng.vote, r0.eng.values, r0.eng.quorum, q.eng.done)
  <2>1. CastFx(r0)
    BY <1>4, Zenon DEF CastFx
  <2> QED BY <1>1, <1>5, <1>9, <2>1, LoggedOK, Zenon
<1> QED BY <1>2, <1>5, <1>10, Zenon DEF Becomes, i

-----------------------------------------------------------------------------
(* Replaying the log *)

\* The kinds of a replayed row
LEMMA ReplayCases ==
    ASSUME NEW e, NEW i, e.height = i.height, ~e.done
    PROVE  /\ i.kind = "value" => OnReplay(e, i) = OnValue(e, i.round, i.value, i.ok)
           /\ i.kind = "quorum" => OnReplay(e, i) = OnQuorum(e)
           /\ i.kind = "expire" => OnReplay(e, i) = OnProposeTimeout(e)
           /\ i.kind = "skip" => OnReplay(e, i) = OnRoundTimeout(e)
           /\ i.kind = "vote" => OnReplay(e, i) =
                Ignore(IF e.round = i.round /\ e.vote = "none" THEN [e EXCEPT !.vote = i.value] ELSE e)
<1>1. i.kind = "value" => OnReplay(e, i) = OnValue(e, i.round, i.value, i.ok)
  BY DEF OnReplay
<1>2. i.kind = "quorum" => OnReplay(e, i) = OnQuorum(e)
  BY DEF OnReplay
<1>3. i.kind = "expire" => OnReplay(e, i) = OnProposeTimeout(e)
  BY DEF OnReplay
<1>4. i.kind = "skip" => OnReplay(e, i) = OnRoundTimeout(e)
  BY DEF OnReplay
<1>5. i.kind = "vote" => OnReplay(e, i) =
        Ignore(IF e.round = i.round /\ e.vote = "none" THEN [e EXCEPT !.vote = i.value] ELSE e)
  BY DEF OnReplay
<1> QED BY <1>1, <1>2, <1>3, <1>4, <1>5, Zenon

\* An engine that ignores the row x, and has the vote of the rows with x
LEMMA IgnoredOK ==
    ASSUME NEW e \in EngT, ~e.done, NEW S, EngOK(e, S), NEW x, NEW v \in Votable,
           VoteOK(S \cup {x}, e.round, v),
           x.item.kind = "vote" \/ (x.item.kind = "quorum" /\ e.quorum),
           NEW e1, Becomes(e, e1, e.round, v, e.values, e.quorum, e.done)
    PROVE  EngOK(e1, S \cup {x})
<1>1. ValsOK(S \cup {x}, e.values)
  <2>1. x.item.kind # "value"
    BY Zenon
  <2> QED BY <2>1, ValsStay, Zenon DEF EngOK
<1>2. OpenOK(S, e) /\ ~(e.quorum /\ Holds(e, Chosen[e.height]))
  BY Zenon DEF EngOK
<1>3. OpenOK(S \cup {x}, e1)
  <2>1. x.item.kind = "quorum" => e.quorum
    BY Zenon
  <2> QED BY <1>2, <2>1, Zenon DEF OpenOK, Becomes
<1>4. ~(e1.quorum /\ Holds(e1, Chosen[e1.height]))
  BY <1>2, Zenon DEF Becomes, Holds
<1> QED BY <1>1, <1>3, <1>4, Zenon DEF EngOK, Becomes

\* An engine that ignores its input answers it.
LEMMA IgnoreAnswer ==
    ASSUME NEW e \in EngT, ~e.done, NEW S, EngOK(e, S)
    PROVE  Answer(Ignore(e), S)
<1>1. Ignore(e).eng = e /\ Ignore(e).fx = <<>>
  BY DEF Ignore
<1>2. ~Has(<<>>, "gossip")
  BY DEF Has
<1> QED BY <1>1, <1>2, FxEmpty, Zenon DEF Answer

\* Replaying a row brings the engine to what the rows up to it determine.
LEMMA ReplayOK ==
    ASSUME NEW e \in EngT, ~e.done, e.height \in Heights, NEW S, EngOK(e, S),
           NEW x, Behind(S, x), RowsOK(S \cup {x}), x.item.height = e.height
    PROVE  LET q == OnReplay(e, x.item) IN
           /\ Answer(q, S \cup {x}) /\ q.eng.height = e.height
           /\ \/ q.eng.values = e.values
              \/ x.item.kind = "value" /\ q.eng.values = e.values \cup {Held(x.item)}
<1> DEFINE i == x.item
           q == OnReplay(e, i)
<1>1. /\ x \in RowT /\ i \in ItemT /\ i.round \in Nat /\ i.ok \in BOOLEAN /\ i.value \in Votable
      /\ e.round \in Nat
  BY RowFields DEF Behind, EngT
<1>2. Timely(S, i)
  BY BeforeBehind, Zenon DEF RowsOK
<1>3. S \subseteq RowT /\ RoundOf(S, e.round) /\ VoteOK(S, e.round, e.vote)
  BY Zenon DEF Behind, EngOK, VoteOK
<1>4. i.kind \in {"vote", "expire", "skip"} => i.round = e.round
  BY <1>1, <1>2, <1>3, RoundUnique, Zenon DEF Timely
<1>5. CASE i.kind = "value"
  <2>1. i.value \in Values
    BY <1>2, <1>5, Zenon DEF Timely
  <2>2. ASSUME NEW y \in e.values, y.round = i.round, y.value = i.value PROVE FALSE
    <3>1. y.round # -1
      BY <1>1, <2>2
    <3>2. PICK w \in S : w.item.kind = "value" /\ y = Held(w.item)
      BY <3>1, Zenon DEF EngOK, ValsOK
    <3>3. y.round = w.item.round /\ y.value = w.item.value
      BY <3>2 DEF Held
    <3>4. w = x
      BY <1>5, <2>2, <3>2, <3>3, Zenon DEF RowsOK, SameValue
    <3>5. x.seq < x.seq /\ x.seq \in Nat
      BY <1>1, <3>4, RowFields DEF Behind
    <3> QED BY <3>5
  <2>3. i = Item("value", e.height, i.round, i.value, i.ok)
    BY <1>1, <1>5 DEF Item, ItemT
  <2>4. q = OnValue(e, i.round, i.value, i.ok)
    BY <1>5, ReplayCases, Zenon
  <2>5. Unheld(e, i.round, i.value)
    BY <2>2, Zenon DEF Unheld
  <2>6. /\ i.round \in Nat /\ i.ok \in BOOLEAN
        /\ ValueRow(x, e.height, i.round, i.value, i.ok)
    BY <1>1, <2>3, Zenon DEF ValueRow
  <2> DEFINE p == OnValue(e, i.round, i.value, i.ok)
  <2> HIDE DEF i, q
  <2>7. Took(p, e, S, x)
    BY <2>1, <2>5, <2>6, ValueOK, Zenon
  <2> QED BY <1>5, <2>4, <2>7, Zenon DEF Outcome, Took, i, q
<1>6. CASE i.kind = "quorum"
  <2>1. q = OnQuorum(e)
    BY <1>6, ReplayCases, Zenon
  <2>2. CASE e.quorum
    <3>1. q = Ignore(e)
      BY <2>1, <2>2, Zenon DEF OnQuorum
    <3>2. VoteOK(S \cup {x}, e.round, e.vote)
      <4>1. x.item.kind # "skip"
        BY <1>6
      <4> QED BY <1>3, <1>6, <4>1, VoteStays, Zenon
    <3>3. EngOK(e, S \cup {x})
      <4>1. Becomes(e, e, e.round, e.vote, e.values, e.quorum, e.done) /\ e.vote \in Votable
        BY EngUpdates, Zenon DEF EngT
      <4> QED BY <1>6, <2>2, <3>2, <4>1, IgnoredOK, Zenon
    <3>4. q.eng = e
      BY <3>1 DEF Ignore
    <3> QED BY <3>1, <3>3, <3>4, IgnoreAnswer, Zenon
  <2>3. CASE ~e.quorum
    BY <1>6, <2>1, <2>3, QuorumOK, ZenonT(60) DEF Outcome
  <2> QED BY <2>2, <2>3
<1>7. CASE i.kind = "expire"
  <2>1. q = OnProposeTimeout(e) /\ i.round = e.round
    BY <1>4, <1>7, ReplayCases, Zenon
  <2> QED BY <1>7, <2>1, ExpireOK, ZenonT(60) DEF Outcome
<1>8. CASE i.kind = "skip"
  <2>1. q = OnRoundTimeout(e) /\ i.round = e.round
    BY <1>4, <1>8, ReplayCases, Zenon
  <2> QED BY <1>8, <2>1, SkipOK, ZenonT(60) DEF Outcome
<1>9. CASE i.kind = "vote"
  <2> DEFINE e1 == IF e.round = i.round /\ e.vote = "none" THEN [e EXCEPT !.vote = i.value] ELSE e
             v == IF e.vote = "none" THEN i.value ELSE e.vote
  <2>1. q = Ignore(e1) /\ i.round = e.round
    BY <1>4, <1>9, ReplayCases, Zenon
  <2>2. Becomes(e, e1, e.round, v, e.values, e.quorum, e.done)
    <3>1. /\ Becomes(e, [e EXCEPT !.vote = i.value], e.round, i.value, e.values, e.quorum, e.done)
          /\ Becomes(e, e, e.round, e.vote, e.values, e.quorum, e.done)
      BY <1>1, EngUpdates, Zenon
    <3> QED BY <2>1, <3>1, Zenon
  <2>3. v \in Votable
    BY <1>1, Zenon DEF EngT
  <2>4. VoteOK(S \cup {x}, e.round, v)
    <3>1. CASE e.vote = "none"
      <4>1. VoteOf(i) = i.value /\ i.value # "none"
        BY <1>2, <1>9 DEF VoteOf, Timely
      <4>2. x.item.kind \in {"vote", "expire", "value"} /\ x.item.round = e.round
        BY <1>9, <2>1, Zenon
      <4>3. VoteOK(S, e.round, "none") /\ VoteOf(x.item) # "none"
        BY <1>3, <3>1, <4>1, Zenon
      <4>4. VoteOK(S \cup {x}, e.round, VoteOf(x.item))
        BY <4>2, <4>3, VoteMade, ZenonT(60)
      <4> QED BY <3>1, <4>1, <4>4, Zenon
    <3>2. CASE e.vote # "none"
      <4>1. x.item.kind # "skip" /\ v = e.vote
        BY <1>9, <3>2, Zenon
      <4> QED BY <1>3, <3>2, <4>1, VoteStays, Zenon
    <3> QED BY <3>1, <3>2
  <2> HIDE DEF e1, v
  <2>5. EngOK(e1, S \cup {x})
    <3>1. x.item.kind = "vote" \/ (x.item.kind = "quorum" /\ e.quorum)
      BY <1>9, Zenon
    <3> HIDE DEF i, q
    <3> QED BY <2>2, <2>3, <2>4, <3>1, IgnoredOK, ZenonT(60)
  <2>6. e1 \in EngT /\ ~e1.done /\ e1.height = e.height /\ e1.values = e.values
    BY <2>2, Zenon DEF Becomes
  <2>7. q.eng = e1
    BY <2>1 DEF Ignore
  <2> QED BY <2>1, <2>5, <2>6, <2>7, IgnoreAnswer, Zenon
<1> QED BY <1>2, <1>5, <1>6, <1>7, <1>8, <1>9, Zenon DEF Timely

\* The next row comes behind the rows of the height.
LEMMA NextBehind ==
    ASSUME NEW S, S \subseteq RowT, NEW n \in Nat, \A u \in S : u.seq < n, NEW i \in ItemT
    PROVE  /\ Behind(S, Row(n, i)) /\ \A u \in S \cup {Row(n, i)} : u.seq < n + 1
<1>1. Row(n, i) \in RowT /\ Row(n, i).seq = n
  BY RowType, Zenon
<1>2. Behind(S, Row(n, i))
  BY <1>1, Zenon DEF Behind
<1>3. \A u \in S : u.seq \in Nat
  BY RowFields
<1>4. ASSUME NEW u \in S \cup {Row(n, i)} PROVE u.seq < n + 1
  <2>1. CASE u \in S
    BY <1>3, <2>1
  <2>2. CASE u = Row(n, i)
    BY <1>1, <2>2
  <2> QED BY <2>1, <2>2
<1> QED BY <1>2, <1>4, Zenon

\* The engine asks for a value where this node proposes.
LEMMA AsksIs ==
    ASSUME NEW e
    PROVE  Asks(e) \subseteq Mine /\ \A n \in Asks(e) : n = <<e.height, e.round>> /\ ~e.done
  BY DEF Asks

\* This node has proposed nothing for a round that the log has not reached.
LEMMA NotSettled ==
    ASSUME NEW S, RowsOK(S), NEW r \in Nat, RoundOf(S, r), NEW h, \A w \in S : w.item.height = h,
           NEW k \in Nat, <<h, k>> \in Mine,
           k > r \/ (k = r /\ \A w \in S : w.item.kind = "value" => w.item.round # k)
    PROVE  ~Settled(S, k)
<1> SUFFICES ASSUME NEW w \in S, \/ w.item.kind = "value" /\ w.item.round = k
                                 \/ w.item.kind = "skip" /\ w.item.round >= k
             PROVE  FALSE
  BY Zenon DEF Settled
<1>1. \A u \in S : u.item.round \in Nat
  <2>1. S \subseteq RowT
    BY DEF RowsOK
  <2> QED BY <2>1, RowFields
<1>2. \A u \in S : u.item.kind = "skip" => u.item.round < r
  BY DEF RoundOf
<1>3. CASE w.item.kind = "skip" /\ w.item.round >= k
  BY <1>1, <1>2, <1>3
<1>4. CASE w.item.kind = "value" /\ w.item.round = k
  <2>1. k > r
    BY <1>4
  <2>2. RoundOf(Before(S, w.seq), k)
    BY <1>4, Zenon DEF RowsOK, Timely
  <2>3. k > 0
    BY <2>1
  <2>4. PICK u \in Before(S, w.seq) : u.item.kind = "skip" /\ u.item.round = k - 1
    BY <2>2, <2>3, Zenon DEF RoundOf
  <2>5. u \in S
    BY DEF Before
  <2>6. u.item.round < r
    BY <1>2, <2>4, <2>5, Zenon
  <2> QED BY <2>1, <2>4, <2>6
<1> QED BY <1>3, <1>4

\* Replay: one row more is replayed.
LEMMA ReplayKeeps ==
    ASSUME HInv, Replay
    PROVE  HInv'
<1> DEFINE i == Head(replay)
           q == OnReplay(eng, i)
<1>0. Types /\ Phase /\ Queue /\ NeedsOK
  BY DEF HInv
<1>1. mode = "replay" /\ fx = <<>> /\ replay # <<>>
  BY Zenon DEF Replay
<1>2. /\ eng' = q.eng /\ fx' = q.fx /\ replay' = Tail(replay)
      /\ blocks' = IF i.kind = "value" THEN blocks \cup {<<i.height, i.value>>} ELSE blocks
  BY Zenon DEF Replay
<1>3. UNCHANGED <<chain, wal, mode, walSeq, deferred, stash, todo, needs, asked, votes, props>>
  BY DEF Replay
<1>4. /\ replay \in Seq(ItemT) /\ replay' \in Seq(ItemT) /\ i \in ItemT /\ i = replay[1]
      /\ Len(replay') = Len(replay) - 1 /\ Len(replay) \in Nat /\ Len(replay) > 0
      /\ \A j \in 1 .. Len(replay') : j + 1 \in 1 .. Len(replay) /\ replay'[j] = replay[j + 1]
  <2>1. replay \in Seq(ItemT)
    BY <1>0, Zenon DEF Types
  <2> QED BY <1>1, <1>2, <2>1
<1>5. Queue'
  BY <1>0, <1>3, Zenon DEF Queue, TaskOK
<1>6. Asked'
  <2>1. mode' # "run"
    BY <1>1, <1>3
  <2> QED BY <2>1, Zenon DEF Asked
<1>7. LogRows' = LogRows /\ Last' = Last /\ (Sealed' <=> Sealed) /\ Rows(Last)' = Rows(Last)
  BY <1>3, LogSame
<1>8. LogRows \subseteq RowT /\ \A u \in LogRows : u.seq \in Nat /\ u.item.height = Last + 1
  BY <1>0, LogType, Zenon
<1>9. CASE Replaying
  <2> DEFINE k == walSeq - Len(replay)
             w == Row(k, i)
             S == Before(LogRows, k)
  <2>1. k \in Nat /\ walSeq \in Nat /\ 1 \in 1 .. Len(replay) /\ k + 1 - 1 = k
    BY <1>0, <1>4, <1>9 DEF Replaying, Types
  <2>2. w \in LogRows
    BY <1>4, <1>9, <2>1, Zenon DEF Replaying
  <2>3. w \in RowT /\ w.seq = k /\ w.item = i
    BY <1>4, <2>1, RowType, Zenon
  <2>4. EngOK(eng, S) /\ RowsOK(LogRows) /\ needs = {}
    BY <1>9, Zenon DEF Replaying, Replayed
  <2>5. ~eng.done /\ eng.height \in Heights /\ eng.height = Last + 1 /\ eng \in EngT
    BY <1>0, <1>1, <1>9, NoneHas, Zenon DEF Replaying, Working, Types
  <2> HIDE DEF k, w
  <2>6. \A x, y \in LogRows : x.seq = y.seq => x = y
    BY <2>4, Zenon DEF RowsOK
  <2>7. S \cup {w} = Before(LogRows, k + 1)
    <3>1. \A u \in LogRows : u.seq < k + 1 <=> u.seq < k \/ u.seq = k
      BY <1>8, <2>1
    <3>2. \A u \in LogRows : u.seq = k <=> u = w
      BY <2>2, <2>3, <2>6, Zenon
    <3> QED BY <2>2, <3>1, <3>2 DEF Before
  <2>8. Behind(S, w)
    <3>1. S \subseteq LogRows /\ \A u \in S : u.seq < k
      BY DEF Before
    <3> QED BY <1>8, <2>3, <3>1, Zenon DEF Behind
  <2>9. RowsOK(S \cup {w})
    <3>1. Prefix(Before(LogRows, k + 1), LogRows)
      BY <1>8, <2>1 DEF Prefix, Before
    <3> QED BY <2>4, <2>7, <3>1, RowsPrefix, Zenon
  <2>10. w.item.height = eng.height
    BY <1>8, <2>2, <2>5, Zenon
  <2> HIDE DEF S
  <2>11. /\ Answer(q, S \cup {w}) /\ q.eng.height = eng.height
         /\ \/ q.eng.values = eng.values
            \/ i.kind = "value" /\ q.eng.values = eng.values \cup {Held(i)}
    <3> HIDE DEF q, i
    <3> QED BY <2>3, <2>4, <2>5, <2>8, <2>9, <2>10, ReplayOK, Zenon DEF q
  <2> HIDE DEF q, i
  <2>12. /\ eng' \in EngT /\ EngOK(eng', S \cup {w}) /\ FxOK(fx', eng')
         /\ ~Has(fx', "gossip") /\ (eng'.done => Has(fx', "decide"))
    BY <1>2, <2>11, Zenon DEF Answer
  <2>13. \A x \in eng'.values : <<eng.height, x.value>> \in blocks'
    <3>1. \A x \in eng.values : <<eng.height, x.value>> \in blocks
      BY <1>9, Zenon DEF Replaying, Working
    <3>2. Held(i).value = i.value /\ i.height = eng.height
      BY <2>3, <2>10 DEF Held
    <3>3. CASE q.eng.values = eng.values
      BY <1>2, <3>1, <3>3, Zenon
    <3>4. CASE i.kind = "value" /\ q.eng.values = eng.values \cup {Held(i)}
      BY <1>2, <3>1, <3>2, <3>4, Zenon
    <3> QED BY <2>11, <3>3, <3>4
  <2>14. Working'
    <3>1. eng'.height = eng.height
      BY <1>2, <2>11, Zenon
    <3> QED BY <1>3, <1>7, <1>9, <2>5, <2>12, <2>13, <3>1, Zenon DEF Replaying, Working
  <2>15. walSeq' - Len(replay') = k + 1 /\ Len(replay') <= walSeq'
    BY <1>3, <1>4, <2>1 DEF k
  <2>16. Replayed' = S \cup {w}
    BY <1>7, <2>7, <2>15, Zenon DEF Replayed
  <2>17. ASSUME NEW j \in 1 .. Len(replay')
         PROVE  Row(walSeq' - Len(replay') + j - 1, replay'[j]) \in LogRows
    <3>1. Row(k + (j + 1) - 1, replay[j + 1]) \in LogRows
      BY <1>4, <1>9, Zenon DEF Replaying, k
    <3>2. walSeq' - Len(replay') + j - 1 = k + (j + 1) - 1
      BY <2>1, <2>15
    <3> QED BY <1>4, <3>1, <3>2, Zenon
  <2>18. Replaying'
    BY <1>1, <1>3, <1>7, <2>4, <2>12, <2>14, <2>15, <2>16, <2>17, Zenon DEF Replaying
  <2>19. Types'
    BY <1>0, <1>3, <1>4, <2>12, Zenon DEF Types, FxOK
  <2>20. NeedsOK' /\ GossipOK'
    BY <1>3, <2>4, <2>12, Zenon DEF NeedsOK, GossipOK, Has
  <2> QED BY <1>3, <1>5, <1>6, <2>18, <2>19, <2>20, Rest, Zenon DEF Phase
<1>10. CASE Closed
  <2>1. q = Ignore(eng)
    BY <1>10, Zenon DEF Closed, OnReplay
  <2>2. eng' = eng /\ fx' = <<>>
    BY <1>2, <2>1 DEF Ignore
  <2>3. needs = {}
    BY <1>1, <1>10, Zenon DEF Closed
  <2>4. Closed'
    <3>1. mode' # "run" /\ fx' = fx
      BY <1>1, <1>3, <2>2
    <3> QED BY <1>1, <1>3, <1>7, <1>10, <2>2, <3>1, Zenon DEF Closed
  <2>5. Types'
    BY <1>0, <1>1, <1>3, <1>4, <2>2, Zenon DEF Types
  <2>6. NeedsOK' /\ GossipOK'
    BY <1>3, <2>2, <2>3, NoneHas, Zenon DEF NeedsOK, GossipOK, Has
  <2> QED BY <1>3, <1>5, <1>6, <2>4, <2>5, <2>6, Rest, Zenon DEF Phase
<1>11. ~Stopped /\ ~Running /\ ~Waiting
  BY <1>1 DEF Stopped, Running, Waiting
<1> QED BY <1>0, <1>9, <1>10, <1>11, Zenon DEF Phase

\* ReplayDone: the engine has what the log determines, and asks again.
LEMMA ReplayDoneKeeps ==
    ASSUME HInv, ReplayDone
    PROVE  HInv'
<1>0. Types /\ Phase /\ Queue /\ PropsOK
  BY DEF HInv
<1>1. mode = "replay" /\ fx = <<>> /\ replay = <<>> /\ mode' = "run"
  BY Zenon DEF ReplayDone
<1>2. needs' = needs \cup Owed /\ asked' = asked \cup Owed
  BY Zenon DEF ReplayDone
<1>3. UNCHANGED <<chain, wal, eng, walSeq, blocks, deferred, stash, replay, fx, todo, votes, props>>
  BY DEF ReplayDone
<1>4. Queue'
  BY <1>0, <1>3, Zenon DEF Queue, TaskOK
<1>5. LogRows' = LogRows /\ Last' = Last /\ (Sealed' <=> Sealed) /\ Rows(Last)' = Rows(Last)
  BY <1>3, LogSame
<1>6. /\ Last \in Nat /\ LogRows \subseteq RowT
      /\ \A u \in LogRows : u.seq \in Nat /\ u.item.height = Last + 1
  BY <1>0, LogType, Zenon
<1>7. Owed' = Owed /\ Owed \subseteq Asks(eng)
  BY <1>3, Zenon DEF Owed, Asks
<1>8. Asks(eng) \subseteq Mine /\ \A n \in Asks(eng) : n = <<eng.height, eng.round>> /\ ~eng.done
  BY AsksIs, Zenon
<1>9. Asked'
  BY <1>2, <1>7, Zenon DEF Asked
<1>10. Types'
  BY <1>0, <1>2, <1>3, <1>7, <1>8, Zenon DEF Types
<1>11. GossipOK'
  <2>1. fx' = <<>>
    BY <1>1, <1>3, Zenon
  <2> QED BY <2>1, NoneHas, Zenon DEF GossipOK, Has
<1>12. Kept' /\ VotesOK' /\ NoEquivocation'
  BY <1>3, DurableSame, Zenon
<1>13. CASE Replaying
  <2>1. Replayed = LogRows
    <3>1. walSeq \in Nat /\ walSeq - Len(replay) = walSeq
      BY <1>0, <1>1 DEF Types
    <3>2. \A u \in LogRows : u.seq < walSeq
      BY <1>13, Zenon DEF Replaying, Working, Dense
    <3> QED BY <3>1, <3>2 DEF Replayed, Before
  <2>2. EngOK(eng, LogRows) /\ RowsOK(LogRows) /\ Working /\ needs = {}
    BY <1>13, <2>1, Zenon DEF Replaying
  <2>3. Full' = LogRows
    <3>1. PendOf(walSeq, <<>>) = {}
      BY PendEmpty, Zenon
    <3> QED BY <1>1, <1>3, <1>5, <3>1, Zenon DEF Full
  <2>4. Working'
    BY <1>3, <1>5, <2>2, Zenon DEF Working
  <2>5. Running'
    BY <1>1, <1>3, <2>2, <2>3, <2>4, Zenon DEF Running
  <2>6. eng.height = Last + 1 /\ eng.round \in Nat
    BY <1>0, <2>2 DEF Working, Types, EngT
  <2>7. PropsOK'
    <3> SUFFICES ASSUME NEW x \in props, <<x.height, x.round>> \in needs' PROVE FALSE
      BY <1>0, <1>3, <1>5, Zenon DEF PropsOK
    <3>1. /\ <<x.height, x.round>> \in Mine
          /\ x.height = Last + 1 => Settled(LogRows, x.round)
      BY <1>0, Zenon DEF PropsOK
    <3>2. <<x.height, x.round>> \in Owed
      BY <1>2, <2>2, Zenon
    <3>3. <<x.height, x.round>> = <<eng.height, eng.round>> /\ ~eng.done
      BY <1>7, <1>8, <3>2, Zenon
    <3>4. x.height = eng.height /\ x.round = eng.round
      BY <3>3
    <3>5. \A y \in eng.values : y.round # eng.round
      BY <3>2, Zenon DEF Owed
    <3>6. \A w \in LogRows : w.item.kind = "value" => w.item.round # eng.round
      <4>1. \A w \in LogRows : w.item.kind = "value" => Held(w.item) \in eng.values
        BY <2>2, Zenon DEF EngOK, ValsOK
      <4>2. \A w \in LogRows : Held(w.item).round = w.item.round
        BY DEF Held
      <4> QED BY <3>5, <4>1, <4>2, Zenon
    <3>7. RoundOf(LogRows, eng.round)
      BY <2>2, Zenon DEF EngOK, VoteOK
    <3>8. <<Last + 1, eng.round>> \in Mine /\ Settled(LogRows, eng.round)
      BY <2>6, <3>1, <3>4, Zenon
    <3> QED BY <1>6, <2>2, <2>6, <3>6, <3>7, <3>8, NotSettled, Zenon
  <2>8. NeedsOK'
    <3> SUFFICES ASSUME NEW n \in needs'
                 PROVE  n[1] <= Last + 1 /\ (n[1] = Last + 1 => n[2] <= eng'.round)
      BY <1>5, <2>5, Zenon DEF NeedsOK
    <3>1. n = <<Last + 1, eng.round>>
      BY <1>2, <1>7, <1>8, <2>2, <2>6, Zenon
    <3> QED BY <1>3, <1>6, <2>6, <3>1
  <2> QED BY <1>4, <1>9, <1>10, <1>11, <1>12, <2>5, <2>7, <2>8, Zenon DEF HInv, Phase
<1>14. CASE Closed
  <2>1. eng.done /\ needs = {}
    BY <1>1, <1>14, Zenon DEF Closed
  <2>2. Owed = {}
    BY <1>7, <1>8, <2>1, Zenon
  <2>3. needs' = {}
    BY <1>2, <2>1, <2>2, Zenon
  <2>4. Closed'
    <3>1. mode' # "replay" /\ mode' \in {"replay", "run"}
      BY <1>1
    <3> QED BY <1>1, <1>3, <1>5, <1>14, <3>1, Zenon DEF Closed
  <2>5. NeedsOK' /\ needs' = needs
    BY <2>1, <2>3, Zenon DEF NeedsOK
  <2> QED BY <1>3, <1>4, <1>9, <1>10, <1>11, <2>4, <2>5, Rest, Zenon DEF Phase
<1>15. ~Stopped /\ ~Running /\ ~Waiting
  BY <1>1 DEF Stopped, Running, Waiting
<1> QED BY <1>0, <1>13, <1>14, <1>15, Zenon DEF Phase

=============================================================================
