-------------------------- MODULE MembershipProofs --------------------------
(***************************************************************************)
(* What the quorum arithmetic guarantees for a set of any size (the unit   *)
(* tests of quorum.rs and membership.rs look at tables up to v = 30), and  *)
(* the safety of the validators table for every set of nodes, every        *)
(* profile and every bound.                                                *)
(*                                                                         *)
(* Neither invariant of the table is inductive alone.  Both rest on the    *)
(* shape of the block under vote (it rides alone, and its checks hold in   *)
(* the state it is applied to, because nothing else moves the chain) and   *)
(* on every stored height being below the current one, so that a new row   *)
(* is the latest of its node.  The proven quorum rests on the voters'      *)
(* evidence agreeing while there are no faults, and on the proven members  *)
(* only becoming more between a voter's check and the decision.            *)
(***************************************************************************)
EXTENDS Membership, FiniteSetTheorems, TLAPS

-----------------------------------------------------------------------------
(* The quorum arithmetic *)

\* quorum returns the smallest number that is more than half of the set, or
\* more than two thirds of it, and never more than the set has members.
THEOREM QuorumIsLeast ==
    ASSUME NEW p \in Profiles, NEW v \in Nat \ {0}
    PROVE  /\ Quorum(p, v) \in 1 .. v
           /\ ProfileAt(p, v) = "bft" => /\ 3 * Quorum(p, v) > 2 * v
                                         /\ 3 * (Quorum(p, v) - 1) <= 2 * v
           /\ ProfileAt(p, v) # "bft" => /\ 2 * Quorum(p, v) > v
                                         /\ 2 * (Quorum(p, v) - 1) <= v
  BY SMT DEF Quorum

LEMMA QuorumType ==
    ASSUME NEW p, NEW v \in Nat
    PROVE  Quorum(p, v) \in Nat /\ FEq(p, v) \in Nat
  BY SMT DEF Quorum, FEq

\* Two quorums of one set share more members than may equivocate: under bft
\* one that does not, under majority any one (the reason quorum and f_eq are
\* safe together, at every size and on both sides of the seam).
THEOREM QuorumsIntersect ==
    ASSUME NEW p \in Profiles, NEW S, IsFiniteSet(S), S # {},
           NEW A \in SUBSET S, NEW B \in SUBSET S,
           Cardinality(A) >= Quorum(p, Cardinality(S)),
           Cardinality(B) >= Quorum(p, Cardinality(S))
    PROVE  Cardinality(A \cap B) > FEq(p, Cardinality(S))
<1> DEFINE v == Cardinality(S)
<1>1. v \in Nat \ {0}
  BY FS_CardinalityType, FS_EmptySet
<1>2. /\ IsFiniteSet(A) /\ IsFiniteSet(B) /\ IsFiniteSet(A \cup B) /\ IsFiniteSet(A \cap B)
      /\ Cardinality(A \cup B) <= v
  <2>1. A \cup B \subseteq S /\ A \cap B \subseteq S
    OBVIOUS
  <2> QED BY <2>1, FS_Subset
<1>3. Cardinality(A \cup B) = Cardinality(A) + Cardinality(B) - Cardinality(A \cap B)
  BY <1>2, FS_Union
<1>4. /\ Cardinality(A) \in Nat /\ Cardinality(B) \in Nat
      /\ Cardinality(A \cup B) \in Nat /\ Cardinality(A \cap B) \in Nat
  BY <1>2, FS_CardinalityType
<1>5. Quorum(p, v) \in Nat /\ FEq(p, v) \in Nat
  BY <1>1, QuorumType
<1>6. 2 * Quorum(p, v) - v > FEq(p, v)
  <2> HIDE DEF v
  <2> QED BY <1>1, SMT DEF Quorum, FEq
<1> HIDE DEF v
<1>7. Cardinality(A) >= Quorum(p, v) /\ Cardinality(B) >= Quorum(p, v)
  BY DEF v
<1>8. Cardinality(A \cap B) > FEq(p, v)
  BY <1>1, <1>2, <1>3, <1>4, <1>5, <1>6, <1>7, SMT
<1> QED BY <1>8 DEF v

\* Quorum grows with the set, by at most one per member, also where AUTO
\* changes profile: the unsigned subtractions of delta_h, exposure and
\* ceiling_ok never wrap, and delta_h's debug_assert never fires.
THEOREM QuorumSlope ==
    ASSUME NEW p \in Profiles, NEW v \in Nat, NEW b \in Nat
    PROVE  /\ Quorum(p, v + b) - Quorum(p, v) \in 0 .. b
           /\ DeltaH(p, v, b) \in 0 .. b
           /\ Exposure(p, v, b) \in 0 .. b
<1>1. CASE p = "auto"
  BY <1>1, SMT DEF Quorum, ProfileAt, VBft, DeltaH, Exposure
<1>2. CASE p = "bft"
  BY <1>2, SMT DEF Quorum, ProfileAt, DeltaH, Exposure
<1>3. CASE p = "majority"
  BY <1>3, SMT DEF Quorum, ProfileAt, DeltaH, Exposure
<1> QED BY <1>1, <1>2, <1>3 DEF Profiles

\* A mesh can always grow: some batch within B_MAX gains headroom, whatever
\* the size of the set and the profile (the licence for B_MAX).
THEOREM GainingBatchExists ==
    ASSUME NEW p \in Profiles, NEW v \in Nat \ {0}
    PROVE  \E b \in 1 .. BMax : DeltaH(p, v, b) >= 1 /\ PostureOk(p, v, b)
<1>1. CASE p = "auto"
  <2>1. v >= 5 => DeltaH(p, v, 5) >= 1
    BY <1>1, SMT DEF Quorum, ProfileAt, VBft, DeltaH
  <2>2. v < 5 => DeltaH(p, v, 2) >= 1
    BY <1>1, SMT DEF Quorum, ProfileAt, VBft, DeltaH
  <2> QED BY <2>1, <2>2 DEF PostureOk, BMax
<1>2. CASE p = "bft"
  <2>1. DeltaH(p, v, 3) >= 1
    BY <1>2, SMT DEF Quorum, ProfileAt, DeltaH
  <2> QED BY <2>1 DEF PostureOk, BMax
<1>3. CASE p = "majority"
  <2>1. DeltaH(p, v, 2) >= 1
    BY <1>3, SMT DEF Quorum, ProfileAt, DeltaH
  <2> QED BY <2>1 DEF PostureOk, BMax
<1> QED BY <1>1, <1>2, <1>3 DEF Profiles

\* The ceiling composes: when the proven members hold a quorum and ceiling_ok
\* lets a batch in, they still hold a quorum of the larger set, even if every
\* new member dies at once.  Sets that ceiling_ok waives are the exception.
THEOREM CeilingKeepsProvenQuorum ==
    ASSUME NEW p \in Profiles, NEW v \in Nat, NEW b \in Nat, NEW proven \in Nat,
           ~Waived(p, v), proven >= Quorum(p, v), CeilingOk(p, v, b, proven)
    PROVE  proven >= Quorum(p, v + b)
<1>1. Quorum(p, v) \in Nat /\ Quorum(p, v + b) \in Nat
  BY QuorumType
<1> QED BY <1>1, SMT DEF CeilingOk

\* The death count that stalls the mesh never drops by a seating that
\* posture_ok lets through, and removing a dead member never costs headroom.
THEOREM PostureKeepsTolerance ==
    ASSUME NEW p \in Profiles, NEW v \in Nat, NEW b \in Nat \ {0}, PostureOk(p, v, b)
    PROVE  /\ (v + b) - Quorum(p, v + b) >= v - Quorum(p, v)
           /\ (v + b) - Quorum(p, v + b) > v - Quorum(p, v) \/ FEq(p, v + b) > FEq(p, v)
<1>1. /\ Quorum(p, v) \in Nat /\ Quorum(p, v + b) \in Nat
      /\ FEq(p, v) \in Nat /\ FEq(p, v + b) \in Nat
  BY QuorumType
<1> QED BY <1>1, SMT DEF PostureOk, DeltaH

-----------------------------------------------------------------------------
(* The validators table *)

RowType == [height : Nat, node : Nodes, active : BOOLEAN,
            kind : {"none", "voluntary", "voted_out"}]

TableOK ==
    /\ height \in Nat
    /\ rows \subseteq RowType
    /\ \A r \in rows : r.height < height

BlockOK ==
    /\ submitted \subseteq Txs /\ IsFiniteSet(submitted)
    /\ block \subseteq Txs /\ IsFiniteSet(block)
    /\ Solo(block)
    /\ \A t \in block : Objective(t)

IInv == TableOK /\ BlockOK /\ KeysUnique /\ SetNeverEmpties

\* A height past every row reads all the rows of a node.
LEMMA ReadsAll ==
    ASSUME TableOK, NEW n, NEW h \in Nat, h >= height
    PROVE  RowsOf(n, h) = {r \in rows : r.node = n}
  BY SMT DEF RowsOf, TableOK, RowType

\* The handlers' reading (the decided height) and the guards' (the pending
\* one) are the same set.
LEMMA SeatedIsCommitted ==
    ASSUME TableOK
    PROVE  /\ Seated = ValidatorSet(height)
           /\ \A n \in Nodes : n \in Seated <=> IsActive(n, height)
<1>1. height \in Nat /\ Pending \in Nat /\ Pending >= height
  BY SMT DEF TableOK, Pending
<1>2. \A n : RowsOf(n, height) = RowsOf(n, Pending)
  BY <1>1, ReadsAll
<1>3. \A n : IsActive(n, height) = IsActive(n, Pending)
  BY <1>2 DEF IsActive
<1> QED BY <1>3 DEF Seated, ValidatorSet

LEMMA InitIInv == Init => IInv
<1> SUFFICES ASSUME Init PROVE IInv
  OBVIOUS
<1> USE MembershipAssumption
<1>0. \A r \in rows : /\ r \in RowType /\ r.height = 0
                      /\ r = Row(0, r.node, TRUE, "none")
  <2> SUFFICES ASSUME NEW r \in rows
               PROVE  r \in RowType /\ r.height = 0 /\ r = Row(0, r.node, TRUE, "none")
    BY Zenon
  <2>1. PICK n \in Genesis : r = Row(0, n, TRUE, "none")
    BY Zenon DEF Init
  <2>2. n \in Nodes /\ 0 \in Nat
    OBVIOUS
  <2> QED BY <2>1, <2>2 DEF Row, RowType
<1>1. TableOK
  <2>1. height = 1
    BY DEF Init
  <2>2. rows \subseteq RowType
    BY Zenon, <1>0
  <2>3. \A r \in rows : r.height < height
    <3>1. \A r \in rows : r.height = 0
      BY Zenon, <1>0
    <3>2. 0 < height
      BY <2>1
    <3> QED BY <3>1, <3>2
  <2> QED BY <2>1, <2>2, <2>3 DEF TableOK
<1>2. BlockOK
  BY FS_EmptySet DEF Init, BlockOK, Solo
<1>3. KeysUnique
  <2> SUFFICES ASSUME NEW r \in rows, NEW s \in rows, r.node = s.node PROVE r = s
    BY DEF KeysUnique
  <2> QED BY Zenon, <1>0
<1>4. SetNeverEmpties
  <2>1. PICK n \in Genesis : TRUE
    OBVIOUS
  <2>2. RowsOf(n, height) = {Row(0, n, TRUE, "none")}
    <3>1. height \in Nat /\ height >= height
      BY SMT DEF Init
    <3>2. RowsOf(n, height) = {r \in rows : r.node = n}
      BY <1>1, <3>1, ReadsAll
    <3> QED BY <3>2 DEF Init, Row
  <2>3. Latest(RowsOf(n, height)) = Row(0, n, TRUE, "none")
    <3> DEFINE w == Row(0, n, TRUE, "none")
    <3>1. w.height <= w.height
      BY SMT DEF Row
    <3> HIDE DEF w
    <3>2. (CHOOSE r \in {w} : \A s \in {w} : s.height <= r.height) = w
      BY <3>1
    <3> QED BY Zenon, <2>2, <3>2 DEF Latest, w
  <2>4. IsActive(n, height)
    BY <2>2, <2>3 DEF IsActive, Row
  <2> QED BY <1>1, <2>4, SeatedIsCommitted DEF SetNeverEmpties
<1> QED BY <1>1, <1>2, <1>3, <1>4 DEF IInv

-----------------------------------------------------------------------------
\* A step that leaves the table and the block alone keeps the invariant.
LEMMA QuietStep ==
    ASSUME IInv, UNCHANGED <<rows, height, block>>, submitted' \subseteq Txs,
           IsFiniteSet(submitted')
    PROVE  IInv'
<1>1. TableOK' /\ KeysUnique'
  BY DEF IInv, TableOK, KeysUnique
<1>2. SetNeverEmpties'
  BY Zenon DEF IInv, SetNeverEmpties, Seated, ValidatorSet, IsActive, RowsOf, Pending
<1>3. \A n, h : IsActive(n, h)' = IsActive(n, h)
  BY DEF IsActive, RowsOf
<1>4. \A h : ValidatorSet(h)' = ValidatorSet(h)
  BY <1>3 DEF ValidatorSet
<1>5. \A t \in block : Objective(t)'
  BY <1>3, <1>4 DEF IInv, BlockOK, Objective
<1>6. BlockOK'
  BY <1>5 DEF IInv, BlockOK, Solo
<1> QED BY <1>1, <1>2, <1>6 DEF IInv

\* Rows at the current height collide with no stored row.
LEMMA FreshRows ==
    ASSUME IInv, NEW M \in SUBSET Nodes, NEW a \in BOOLEAN,
           NEW k \in {"none", "voluntary", "voted_out"},
           rows' = rows \cup {Row(height, x, a, k) : x \in M}, height' = Pending
    PROVE  /\ TableOK' /\ KeysUnique'
           /\ \A n \in Seated \ M : n \in Seated'
<1>1. height \in Nat /\ height' = height + 1
  BY DEF IInv, TableOK, Pending
<1>2. \A r \in rows : r \in RowType /\ r.height < height
  BY DEF IInv, TableOK
<1>3. \A x \in M : /\ Row(height, x, a, k) \in RowType
                   /\ Row(height, x, a, k).height = height
                   /\ Row(height, x, a, k).node = x
  BY <1>1 DEF Row, RowType
<1>4. TableOK'
  <2>1. rows' \subseteq RowType
    BY <1>2, <1>3
  <2>2. \A r \in rows' : r.height < height'
    <3>1. \A r \in rows : r.height \in Nat
      BY <1>2 DEF RowType
    <3> QED BY <1>1, <1>2, <1>3, <3>1, SMT
  <2> QED BY <1>1, <2>1, <2>2 DEF TableOK
<1>5. KeysUnique'
  <2> SUFFICES ASSUME NEW r \in rows', NEW s \in rows', r.height = s.height, r.node = s.node
               PROVE  r = s
    BY DEF KeysUnique
  <2>1. CASE r \in rows /\ s \in rows
    BY <2>1 DEF IInv, KeysUnique
  <2>2. CASE r \notin rows /\ s \notin rows
    BY <1>3, <2>2
  <2>3. CASE r \in rows /\ s \notin rows
    BY <1>1, <1>2, <1>3, <2>3, SMT DEF RowType
  <2>4. CASE r \notin rows /\ s \in rows
    BY <1>1, <1>2, <1>3, <2>4, SMT DEF RowType
  <2> QED BY <2>1, <2>2, <2>3, <2>4
<1>6. ASSUME NEW n \in Seated \ M PROVE n \in Seated'
  <2>1. n \in Nodes /\ IsActive(n, height)
    BY <1>1, SeatedIsCommitted DEF IInv, Seated, ValidatorSet
  <2>2. RowsOf(n, height) = {r \in rows : r.node = n}
    BY <1>1, ReadsAll, SMT DEF IInv
  <2>3. RowsOf(n, Pending)' = {r \in rows' : r.node = n}
    <3>1. \A r \in rows' : r.height <= height' + 1
      BY <1>1, <1>4, SMT DEF TableOK, RowType
    <3> QED BY <3>1 DEF RowsOf, Pending
  <2>4. RowsOf(n, Pending)' = RowsOf(n, height)
    BY <1>3, <2>2, <2>3
  <2>5. IsActive(n, Pending)'
    BY <2>1, <2>4 DEF IsActive
  <2> QED BY <2>1, <2>5 DEF Seated, ValidatorSet
<1> QED BY <1>4, <1>5, <1>6

-----------------------------------------------------------------------------
\* Deciding a block keeps the invariant.  A block of other transactions moves
\* no row; a membership transaction is alone, and each kind leaves someone in
\* the set: an activation everyone, a leave one of at least two, a vote-out
\* its submitter.
LEMMA DecideStep ==
    ASSUME IInv, Decide
    PROVE  IInv'
<1>1. /\ rows' = rows \cup UNION {Executed(t) : t \in block}
      /\ height' = Pending /\ block' = {} /\ submitted' = submitted \ block
  BY DEF Decide
<1>2. BlockOK'
  <2>1. IsFiniteSet(submitted') /\ IsFiniteSet(block')
    BY <1>1, FS_EmptySet, FS_Subset DEF IInv, BlockOK
  <2> QED BY <1>1, <2>1 DEF IInv, BlockOK, Solo
<1>3. PICK n \in Seated : TRUE
  BY DEF IInv, SetNeverEmpties
<1>4. CASE \A t \in block : t.fn = "other"
  <2>1. \A t \in block : Executed(t) = {}
    BY Zenon, <1>4 DEF Executed
  <2>2. rows' = rows \cup {Row(height, x, TRUE, "none") : x \in {}}
    BY <1>1, <2>1
  <2>3. TableOK' /\ KeysUnique' /\ n \in Seated'
    <3>1. {} \in SUBSET Nodes /\ n \in Seated \ {}
      BY <1>3
    <3>2. TRUE \in BOOLEAN /\ "none" \in {"none", "voluntary", "voted_out"}
      OBVIOUS
    <3> QED BY Zenon, <1>1, <2>2, <3>1, <3>2, FreshRows
  <2> QED BY <1>2, <2>3 DEF IInv, SetNeverEmpties
<1>5. CASE \E t \in block : t.fn # "other"
  <2>1. PICK t \in block : t.fn # "other"
    BY <1>5
  <2>2. block = {t}
    <3>1. Cardinality(block) = 1
      BY <2>1 DEF IInv, BlockOK, Solo
    <3>2. PICK u : block = {u}
      <4>1. IsFiniteSet(block)
        BY DEF IInv, BlockOK
      <4> QED BY <3>1, <4>1, FS_Singleton
    <3> QED BY <3>2
  <2>3. rows' = rows \cup Executed(t)
    BY <1>1, <2>2
  <2>4. /\ t.members \in SUBSET Nodes
        /\ t.fn \in {"activation", "leave", "vote_out"}
    BY <2>1 DEF IInv, BlockOK, Txs
  <2>5. Objective(t)
    BY DEF IInv, BlockOK
  <2>6. \A x \in Nodes : x \in Seated <=> IsActive(x, height)
    BY SeatedIsCommitted DEF IInv
  <2>7. CASE t.fn = "activation"
    <3>1. \A x \in t.members : ~IsActive(x, height)
      BY <2>5, <2>7 DEF Objective
    <3>2. n \in Seated \ t.members
      BY <1>3, <2>4, <2>6, <3>1
    <3>3. rows' = rows \cup {Row(height, x, TRUE, "none") : x \in t.members}
      BY <2>3, <2>7 DEF Executed
    <3>4. TableOK' /\ KeysUnique' /\ n \in Seated'
      BY Zenon, <1>1, <2>4, <3>2, <3>3, FreshRows
    <3> QED BY <1>2, <3>4 DEF IInv, SetNeverEmpties
  <2>8. CASE t.fn = "leave"
    <3>1. t.members = {t.by} /\ Cardinality(ValidatorSet(height)) >= 2
      BY <2>5, <2>8 DEF Objective
    <3>2. PICK o \in Seated : o # t.by
      <4>1. Seated = ValidatorSet(height)
        BY SeatedIsCommitted DEF IInv
      <4>2. CASE Seated \subseteq {t.by}
        <5>1. IsFiniteSet({t.by}) /\ Cardinality({t.by}) = 1
          BY Zenon, FS_Singleton
        <5>2. Cardinality(Seated) \in Nat /\ Cardinality(Seated) <= 1
          BY <4>2, <5>1, FS_Subset, FS_CardinalityType
        <5> QED BY <3>1, <4>1, <5>2, SMT
      <4> QED BY <4>2
    <3>3. rows' = rows \cup {Row(height, x, FALSE, "voluntary") : x \in t.members}
      BY <2>3, <2>8 DEF Executed
    <3>4. TableOK' /\ KeysUnique' /\ o \in Seated'
      BY Zenon, <1>1, <2>4, <3>1, <3>2, <3>3, FreshRows
    <3> QED BY <1>2, <3>4 DEF IInv, SetNeverEmpties
  <2>9. CASE t.fn = "vote_out"
    <3>1. t.by \notin t.members /\ IsActive(t.by, height)
      BY <2>5, <2>9 DEF Objective
    <3>2. t.by \in Seated
      <4>1. t.by \in Nodes
        <5>1. RowsOf(t.by, height) # {}
          BY <3>1 DEF IsActive
        <5>2. PICK r \in rows : r.node = t.by
          BY <5>1 DEF RowsOf
        <5> QED BY <5>2 DEF IInv, TableOK, RowType
      <4> QED BY <2>6, <3>1, <4>1
    <3>3. rows' = rows \cup {Row(height, x, FALSE, "voted_out") : x \in t.members}
      BY <2>3, <2>9 DEF Executed
    <3>4. TableOK' /\ KeysUnique' /\ t.by \in Seated'
      BY Zenon, <1>1, <2>4, <3>1, <3>2, <3>3, FreshRows
    <3> QED BY <1>2, <3>4 DEF IInv, SetNeverEmpties
  <2> QED BY <2>4, <2>7, <2>8, <2>9
<1> QED BY <1>4, <1>5

-----------------------------------------------------------------------------
\* A proposal passed the proposer's validate_inner in the state it is made in.
LEMMA ProposeStep ==
    ASSUME IInv, NEW p \in Nodes, NEW B \in SUBSET submitted, Propose(p, B)
    PROVE  IInv'
<1>1. /\ rows' = rows /\ height' = height /\ submitted' = submitted /\ block' = B
      /\ Solo(B) /\ \A t \in B : Objective(t)
  BY DEF Propose, Valid, chain
<1>2. TableOK' /\ KeysUnique'
  BY <1>1 DEF IInv, TableOK, KeysUnique
<1>3. SetNeverEmpties'
  BY Zenon, <1>1 DEF IInv, SetNeverEmpties, Seated, ValidatorSet, IsActive, RowsOf, Pending
<1>4. \A n, h : IsActive(n, h)' = IsActive(n, h)
  BY <1>1 DEF IsActive, RowsOf
<1>5. \A h : ValidatorSet(h)' = ValidatorSet(h)
  BY <1>4 DEF ValidatorSet
<1>6. \A t \in B : Objective(t)'
  BY <1>1, <1>4, <1>5 DEF Objective
<1>7. IsFiniteSet(submitted) /\ IsFiniteSet(B)
  BY FS_Subset DEF IInv, BlockOK
<1>8. BlockOK'
  BY <1>1, <1>6, <1>7 DEF IInv, BlockOK, Solo
<1> QED BY <1>2, <1>3, <1>8 DEF IInv

\* Whatever is submitted keeps the invariant.
LEMMA SubmitStep ==
    ASSUME IInv, NEW t \in Txs, Submit(t)
    PROVE  IInv'
<1>1. IsFiniteSet(submitted \cup {t})
  BY FS_AddElement DEF IInv, BlockOK
<1> QED BY <1>1, QuietStep DEF Submit, chain, round, IInv, BlockOK

LEMMA NextIInv == IInv /\ [Next]_vars => IInv'
<1> SUFFICES ASSUME IInv, [Next]_vars PROVE IInv'
  OBVIOUS
<1>0. submitted \subseteq Txs /\ IsFiniteSet(submitted)
  BY DEF IInv, BlockOK
<1>1. CASE UNCHANGED vars
  BY SMTT(60), <1>0, <1>1, QuietStep DEF vars, chain, round
<1>2. CASE Watch
  BY <1>0, <1>2, QuietStep DEF Watch, Contact, Dwell, Silence, Crash, Restart, chain, round
<1>3. CASE SubmitOther
  <2>1. Tx("other", "user", {}) \in Txs
    BY DEF Tx, Txs
  <2> QED BY <1>3, <2>1, SubmitStep DEF SubmitOther
<1>4. CASE \E p \in Nodes : SubmitLeave(p)
  <2>1. PICK p \in Nodes : SubmitLeave(p)
    BY <1>4
  <2>2. Tx("leave", p, {p}) \in Txs
    BY DEF Tx, Txs
  <2> QED BY <2>1, <2>2, SubmitStep DEF SubmitLeave
<1>5. CASE \E p \in Nodes : ScanSeat(p)
  <2>1. PICK p \in Nodes : ScanSeat(p)
    BY <1>5
  <2>2. PICK B \in SeatingBatches(p) : Submit(Tx("activation", p, B))
    BY <2>1 DEF ScanSeat
  <2>3. B \in SUBSET Nodes
    BY DEF SeatingBatches, kSubset, Candidates, Pool
  <2>4. Tx("activation", p, B) \in Txs
    BY <2>3 DEF Tx, Txs
  <2> QED BY <2>2, <2>4, SubmitStep
<1>6. CASE \E p, x \in Nodes : ScanVoteOut(p, x)
  <2>1. PICK p \in Nodes, x \in Nodes : ScanVoteOut(p, x)
    BY <1>6
  <2>2. Tx("vote_out", p, {x}) \in Txs
    BY DEF Tx, Txs
  <2> QED BY <2>1, <2>2, SubmitStep DEF ScanVoteOut
<1>7. CASE \E p \in Nodes, t \in submitted : Refuse(p, t)
  <2>1. PICK t \in submitted : /\ submitted' = submitted \ {t}
                               /\ UNCHANGED <<rows, height, block>>
    BY <1>7 DEF Refuse, chain, round
  <2>2. IsFiniteSet(submitted')
    BY <1>0, <2>1, FS_Subset
  <2> QED BY <1>0, <2>1, <2>2, QuietStep
<1>8. CASE \E p \in Nodes, B \in SUBSET submitted : Propose(p, B)
  BY <1>8, ProposeStep
<1>9. CASE \E n \in Nodes : Vote(n)
  BY <1>0, <1>9, QuietStep DEF Vote, chain
<1>10. CASE Abandon
  <2>1. rows' = rows /\ height' = height /\ submitted' = submitted /\ block' = {}
    BY <1>10 DEF Abandon, chain
  <2>2. TableOK' /\ KeysUnique' /\ SetNeverEmpties'
    BY <2>1 DEF IInv, TableOK, KeysUnique, SetNeverEmpties, Seated, ValidatorSet,
                IsActive, RowsOf, Pending
  <2>3. BlockOK'
    BY <1>0, <2>1, FS_EmptySet DEF BlockOK, Solo
  <2> QED BY <2>2, <2>3 DEF IInv
<1>11. CASE Decide
  BY <1>11, DecideStep
<1> QED
  BY <1>1, <1>2, <1>3, <1>4, <1>5, <1>6, <1>7, <1>8, <1>9, <1>10, <1>11
  DEF Next, Offer, Agree

\* The validator set never becomes empty: not by leaves and vote-outs in any
\* order, for any set of nodes, profile and bounds (INV-FLOOR of the leave
\* handler, with the solo-block rule it needs).
THEOREM SetFloor == Spec => []SetNeverEmpties
<1>1. IInv => SetNeverEmpties
  BY DEF IInv
<1> QED BY InitIInv, NextIInv, <1>1, PTL DEF Spec

\* No decide ever fails on the primary key of the validators table.
THEOREM TableKeys == Spec => []KeysUnique
<1>1. IInv => KeysUnique
  BY DEF IInv
<1> QED BY InitIInv, NextIInv, <1>1, PTL DEF Spec

-----------------------------------------------------------------------------
(* Growth without faults *)

Proven == {x \in Seated : ActivationHeight(x, Pending) <= 1 \/ span[x] = 3}

\* Nobody has left, nothing has crashed and no probe was lost, and the mesh
\* started with a tolerance to protect.
Calm == /\ crashes = 0 /\ losses = 0 /\ \A r \in rows : r.active
        /\ ~Waived(Profile, Cardinality(Genesis))

\* All evidence then is bright and as old as the mesh, and no vote-out is
\* proposed.
Bright ==
    /\ up = Nodes
    /\ \A x \in Nodes : contact[x] = "live" /\ boot[x] = 1
    /\ span \in [Nodes -> 0 .. 3]
    /\ \A t \in submitted \cup block : t.fn # "vote_out"

\* The joint rules that the voters checked still hold for the block: the
\* proven members can only have become more.
Judged ==
    \A t \in block : t.fn = "activation" =>
        /\ PostureOk(Profile, V, Cardinality(t.members))
        /\ CeilingOk(Profile, V, Cardinality(t.members), Cardinality(Proven))

Grown == Bright /\ Judged /\ ~Waived(Profile, V) /\ Cardinality(Proven) >= Q

GInv == IInv /\ crashes \in Nat /\ losses \in Nat /\ (Calm => Grown)

LEMMA SizeTypes ==
    /\ IsFiniteSet(Seated) /\ V \in Nat /\ Q \in Nat
    /\ IsFiniteSet(Proven) /\ Cardinality(Proven) \in Nat
<1>1. Seated \subseteq Nodes /\ Proven \subseteq Nodes
  BY Zenon DEF Seated, ValidatorSet, Proven
<1>2. IsFiniteSet(Seated) /\ IsFiniteSet(Proven)
  BY <1>1, FS_Subset, MembershipAssumption
<1>3. V \in Nat /\ Cardinality(Proven) \in Nat
  BY <1>2, FS_CardinalityType DEF V
<1> QED BY <1>2, <1>3, QuorumType DEF Q

\* A batch that passed the ceiling passes it with more proven members.
LEMMA CeilingGrows ==
    ASSUME NEW v \in Nat, NEW b \in Nat, NEW p \in Nat, NEW q \in Nat, p <= q,
           CeilingOk(Profile, v, b, p)
    PROVE  CeilingOk(Profile, v, b, q)
<1>1. Quorum(Profile, v) \in Nat /\ Quorum(Profile, v + b) \in Nat
  BY QuorumType
<1> QED BY <1>1, SMT DEF CeilingOk

\* The voters' count of proven members is the count of all of them.
LEMMA VotersCountAll ==
    ASSUME Bright, NEW n \in Nodes
    PROVE  ProvenLive(n) = Proven
<1>1. Seated \subseteq Nodes
  BY Zenon DEF Seated, ValidatorSet
<1>2. LiveSeen(n, Seated) = Seated
  BY <1>1, Zenon DEF LiveSeen, Bright
<1>3. boot[n] = 1
  BY DEF Bright
<1> QED BY <1>2, <1>3, Zenon DEF ProvenLive, Proven

\* A step that leaves the table alone: the set is the same and the proven
\* members stay proven.
LEMMA SameTable ==
    ASSUME UNCHANGED <<rows, height>>,
           \A x \in Nodes : span[x] = 3 => span'[x] = 3
    PROVE  /\ V' = V /\ Q' = Q
           /\ Cardinality(Proven) <= Cardinality(Proven')
<1>1. \A n, h : /\ IsActive(n, h)' = IsActive(n, h)
                /\ ActivationHeight(n, h)' = ActivationHeight(n, h)
  BY Zenon DEF IsActive, ActivationHeight, Activations, RowsOf
<1>2. Seated' = Seated /\ Pending' = Pending
  BY <1>1, Zenon DEF Seated, ValidatorSet, Pending
<1>3. V' = V /\ Q' = Q
  BY <1>2, Zenon DEF V, Q
<1>4. Proven \subseteq Proven'
  <2> SUFFICES ASSUME NEW x \in Proven PROVE x \in Proven'
    BY Zenon
  <2>1. x \in Seated' /\ x \in Nodes
    BY <1>2, Zenon DEF Proven, Seated, ValidatorSet
  <2>2. ActivationHeight(x, Pending)' = ActivationHeight(x, Pending)
    BY <1>1, <1>2, Zenon DEF ActivationHeight, Activations, RowsOf
  <2> QED BY <2>1, <2>2, Zenon DEF Proven
<1>5. IsFiniteSet(Proven')
  <2>1. Proven' \subseteq Nodes
    BY Zenon DEF Proven, Seated, ValidatorSet
  <2> QED BY <2>1, FS_Subset, MembershipAssumption
<1> QED BY <1>3, <1>4, <1>5, FS_Subset

\* A step that moves neither the table nor the block keeps the rest.
LEMMA SameRound ==
    ASSUME IInv, Grown, UNCHANGED <<rows, height>>, block' \subseteq block,
           \A x \in Nodes : span[x] = 3 => span'[x] = 3
    PROVE  Judged' /\ ~Waived(Profile, V') /\ Cardinality(Proven') >= Q'
<1>1. /\ V' = V /\ Q' = Q
      /\ Cardinality(Proven) <= Cardinality(Proven')
  BY SameTable
<1>2. /\ V \in Nat /\ Q \in Nat /\ Cardinality(Proven) \in Nat /\ Cardinality(Proven') \in Nat
  <2>1. Proven' \subseteq Nodes
    BY Zenon DEF Proven, Seated, ValidatorSet
  <2>2. Cardinality(Proven') \in Nat
    BY <2>1, FS_Subset, FS_CardinalityType, MembershipAssumption
  <2> QED BY <2>2, SizeTypes
<1>3. \A t \in block : Cardinality(t.members) \in Nat
  <2> SUFFICES ASSUME NEW t \in block PROVE Cardinality(t.members) \in Nat
    OBVIOUS
  <2>1. t.members \subseteq Nodes
    BY DEF IInv, BlockOK, Txs
  <2> QED BY <2>1, FS_Subset, FS_CardinalityType, MembershipAssumption
<1>4. Judged'
  <2> SUFFICES ASSUME NEW t \in block', t.fn = "activation"
               PROVE  /\ PostureOk(Profile, V', Cardinality(t.members))
                      /\ CeilingOk(Profile, V', Cardinality(t.members), Cardinality(Proven'))
    BY Zenon DEF Judged
  <2>1. t \in block
    OBVIOUS
  <2>2. /\ PostureOk(Profile, V, Cardinality(t.members))
        /\ CeilingOk(Profile, V, Cardinality(t.members), Cardinality(Proven))
    BY <2>1, ZenonT(60) DEF Grown, Judged
  <2> QED BY <1>1, <1>2, <1>3, <2>1, <2>2, CeilingGrows
<1> QED BY <1>1, <1>2, <1>4 DEF Grown

Batch(M, a, k) == {Row(height, x, a, k) : x \in M}

LEMMA BatchRows ==
    ASSUME NEW M, NEW a \in BOOLEAN, NEW k
    PROVE  /\ \A r \in Batch(M, a, k) : r.node \in M /\ r.height = height /\ r.active = a
           /\ \A x \in M : \E w \in Batch(M, a, k) :
                w.node = x /\ \A r \in Batch(M, a, k) : r.node = x => r = w
<1> DEFINE w(x) == Row(height, x, a, k)
<1>1. \A x \in M : w(x).node = x /\ w(x).height = height /\ w(x).active = a
  BY Zenon DEF Row
<1>2. Batch(M, a, k) = {w(x) : x \in M}
  BY Zenon DEF Batch
<1> HIDE DEF w
<1>3. ASSUME NEW r \in Batch(M, a, k)
      PROVE  r.node \in M /\ r.height = height /\ r.active = a /\ r = w(r.node)
  <2>1. PICK x \in M : r = w(x)
    BY <1>2, Zenon
  <2>2. r.node = x
    BY <1>1, <2>1
  <2> QED BY <1>1, <2>1, <2>2
<1>4. ASSUME NEW x \in M
      PROVE  \E v \in Batch(M, a, k) : v.node = x /\ \A r \in Batch(M, a, k) : r.node = x => r = v
  <2>1. w(x) \in Batch(M, a, k) /\ w(x).node = x
    BY <1>1, <1>2, Zenon
  <2>2. \A r \in Batch(M, a, k) : r.node = x => r = w(x)
    BY <1>3, Zenon
  <2> QED BY <2>1, <2>2, Zenon
<1> QED BY <1>3, <1>4

\* A batch of rows moves exactly the members it names, and leaves the
\* activation heights of the others as they were.
LEMMA Rewrites ==
    ASSUME IInv, NEW M \in SUBSET Nodes, NEW a \in BOOLEAN,
           NEW k \in {"none", "voluntary", "voted_out"},
           rows' = rows \cup Batch(M, a, k), height' = Pending
    PROVE  /\ Seated' = IF a THEN Seated \cup M ELSE Seated \ M
           /\ \A x \in Nodes \ M :
                ActivationHeight(x, Pending)' = ActivationHeight(x, Pending)
<1>1. height \in Nat /\ height' = height + 1 /\ Pending = height + 1
  BY DEF IInv, TableOK, Pending
<1>3. TableOK'
  BY FreshRows, Zenon DEF Batch
<1>4. \A r \in Batch(M, a, k) : r.node \in M /\ r.height = height /\ r.active = a
  BY BatchRows, SMT
<1>5. \A n : RowsOf(n, Pending) = {r \in rows : r.node = n}
  <2>1. Pending \in Nat /\ Pending >= height
    BY <1>1
  <2> QED BY <2>1, ReadsAll DEF IInv
<1>6. \A n : RowsOf(n, Pending)' = {r \in rows' : r.node = n}
  <2>1. \A r \in rows' : r.height <= height' + 1
    BY <1>1, <1>3, SMT DEF TableOK, RowType
  <2> QED BY <2>1 DEF RowsOf, Pending
<1>7. ASSUME NEW n \in Nodes \ M PROVE RowsOf(n, Pending)' = RowsOf(n, Pending)
  <2>1. {r \in rows' : r.node = n} = {r \in rows : r.node = n}
    BY <1>4
  <2> QED BY <1>5, <1>6, <2>1, Zenon
<1>8. ASSUME NEW n \in M PROVE IsActive(n, Pending)' = a
  <2> DEFINE R == RowsOf(n, Pending)'
  <2>0. PICK w \in Batch(M, a, k) : w.node = n /\ \A r \in Batch(M, a, k) : r.node = n => r = w
    BY BatchRows, SMT
  <2>1. R = {r \in rows' : r.node = n}
    BY <1>6, Zenon
  <2>2. w \in R /\ w.height = height /\ w.active = a
    BY <1>4, <2>0, <2>1
  <2>3. \A r \in R : r = w \/ r.height < height
    BY <2>0, <2>1 DEF IInv, TableOK
  <2>4. \A r \in R : r.height \in Nat
    BY <1>3, <2>1 DEF TableOK, RowType
  <2> HIDE DEF R
  <2>5. \A r \in R : r.height <= w.height
    BY <1>1, <2>2, <2>3, <2>4, SMT
  <2>6. \A r \in R : (\A s \in R : s.height <= r.height) => r = w
    BY <1>1, <2>2, <2>3, <2>4, SMT
  <2>7. (CHOOSE r \in R : \A s \in R : s.height <= r.height) = w
    BY <2>2, <2>5, <2>6, Zenon
  <2>8. Latest(R) = w
    BY <2>7, Zenon DEF Latest
  <2> QED BY <2>2, <2>8, Zenon DEF IsActive, R, Latest
<1>9. \A n \in Nodes \ M : /\ IsActive(n, Pending)' = IsActive(n, Pending)
                           /\ ActivationHeight(n, Pending)' = ActivationHeight(n, Pending)
  BY <1>7, Zenon DEF IsActive, ActivationHeight, Activations
<1>10. \A n \in Nodes : n \in Seated' <=> IF n \in M THEN a ELSE n \in Seated
  BY <1>8, <1>9, Zenon DEF Seated, ValidatorSet
<1>11. Seated \subseteq Nodes /\ Seated' \subseteq Nodes
  BY Zenon DEF Seated, ValidatorSet
<1>12. Seated' = IF a THEN Seated \cup M ELSE Seated \ M
  <2>1. CASE a
    BY <1>10, <1>11, <2>1
  <2>2. CASE ~a
    BY <1>10, <1>11, <2>2
  <2> QED BY <2>1, <2>2
<1> QED BY <1>9, <1>12

LEMMA Seating ==
    ASSUME IInv, NEW M \in SUBSET Nodes,
           rows' = rows \cup Batch(M, TRUE, "none"), height' = Pending
    PROVE  /\ Seated' = Seated \cup M
           /\ \A x \in Nodes \ M :
                ActivationHeight(x, Pending)' = ActivationHeight(x, Pending)
<1>1. TRUE \in BOOLEAN /\ "none" \in {"none", "voluntary", "voted_out"}
  OBVIOUS
<1> QED BY <1>1, Rewrites, Zenon

\* Deciding a seating: the members who were proven are a quorum of the larger
\* set too, whatever becomes of the new ones.
LEMMA SeatingKeepsQuorum ==
    ASSUME IInv, Grown, NEW t \in block, t.fn = "activation", span' = span,
           rows' = rows \cup Batch(t.members, TRUE, "none"),
           height' = Pending
    PROVE  ~Waived(Profile, V') /\ Cardinality(Proven') >= Q'
<1> DEFINE b == Cardinality(t.members)
           p == Cardinality(Proven)
<1>1. t.members \in SUBSET Nodes /\ IsFiniteSet(t.members) /\ b \in Nat
  <2>1. t.members \subseteq Nodes
    BY DEF IInv, BlockOK, Txs
  <2> QED BY <2>1, FS_Subset, FS_CardinalityType, MembershipAssumption
<1>2. Objective(t)
  BY DEF IInv, BlockOK
<1>3. t.members # {} /\ \A x \in t.members : ~IsActive(x, height)
  BY <1>2, Zenon DEF Objective
<1>4. Seated \cap t.members = {}
  <2>1. \A x \in Nodes : x \in Seated <=> IsActive(x, height)
    BY SeatedIsCommitted DEF IInv
  <2> QED BY <1>1, <1>3, <2>1
<1>5. /\ Seated' = Seated \cup t.members
      /\ \A x \in Nodes \ t.members :
           ActivationHeight(x, Pending)' = ActivationHeight(x, Pending)
  BY <1>1, Seating, Zenon
<1>6. /\ IsFiniteSet(Seated) /\ V \in Nat /\ Q \in Nat /\ p \in Nat
  BY SizeTypes
<1>7. V' = V + b
  <2>1. Cardinality(Seated \cup t.members) = Cardinality(Seated) + Cardinality(t.members) - Cardinality({})
    BY <1>1, <1>4, <1>6, FS_Union
  <2>2. Cardinality({}) = 0
    BY FS_EmptySet
  <2> QED BY <1>5, <1>6, <1>1, <2>1, <2>2 DEF V
<1>8. b # 0
  BY <1>1, <1>3, FS_EmptySet
<1>9. Proven \subseteq Proven'
  <2> SUFFICES ASSUME NEW x \in Proven PROVE x \in Proven'
    BY Zenon
  <2>1. x \in Seated /\ x \in Nodes \ t.members
    BY <1>4 DEF Proven, Seated, ValidatorSet
  <2>2. ActivationHeight(x, Pending)' = ActivationHeight(x, Pending) /\ x \in Seated'
    BY <1>5, <2>1
  <2> QED BY <2>2, Zenon DEF Proven
<1>10. Cardinality(Proven') \in Nat /\ p <= Cardinality(Proven')
  <2>1. Proven' \subseteq Nodes
    BY Zenon DEF Proven, Seated, ValidatorSet
  <2>2. IsFiniteSet(Proven')
    BY <2>1, FS_Subset, MembershipAssumption
  <2> QED BY <1>9, <2>2, FS_Subset, FS_CardinalityType
<1>11. /\ ~Waived(Profile, V) /\ p >= Quorum(Profile, V)
       /\ PostureOk(Profile, V, b) /\ CeilingOk(Profile, V, b, p)
  BY Zenon DEF Grown, Judged, Q
<1> HIDE DEF b, p
<1>12. p >= Quorum(Profile, V + b)
  BY <1>1, <1>6, <1>11, CeilingKeepsProvenQuorum, MembershipAssumption
<1>13. (V + b) - Quorum(Profile, V + b) >= V - Quorum(Profile, V)
  BY <1>1, <1>6, <1>8, <1>11, PostureKeepsTolerance, MembershipAssumption
<1>14. V >= Quorum(Profile, V)
  <2>1. V # 0
    <3>1. Seated # {}
      BY DEF IInv, SetNeverEmpties
    <3> QED BY <1>6, <3>1, FS_EmptySet DEF V
  <2>2. Quorum(Profile, V) \in 1 .. V
    BY <1>6, <2>1, QuorumIsLeast, MembershipAssumption
  <2> QED BY <1>6, <2>2
<1>15. Quorum(Profile, V) \in Nat /\ Quorum(Profile, V + b) \in Nat
  BY <1>1, <1>6, QuorumType
<1>16. ~Waived(Profile, V')
  BY <1>1, <1>6, <1>7, <1>11, <1>13, <1>14, <1>15, SMT DEF Waived
<1>17. Q' = Quorum(Profile, V + b)
  BY <1>7, Zenon DEF Q
<1> QED BY <1>10, <1>12, <1>15, <1>16, <1>17, <1>1, <1>6, SMT

\* At the start every seated member is proven.
LEMMA GrowthStarts == Init => GInv
<1> SUFFICES ASSUME Init PROVE GInv
  OBVIOUS
<1> USE MembershipAssumption
<1>1. IInv
  BY InitIInv
<1>2. height = 1 /\ Pending = 2
  BY SMT DEF Init, Pending
<1>3. \A n : RowsOf(n, Pending) = {r \in rows : r.node = n}
  <2>1. Pending \in Nat /\ Pending >= height
    BY <1>2
  <2> QED BY <1>1, <2>1, ReadsAll DEF IInv
<1>4. \A r \in rows : r.node \in Genesis
  <2> SUFFICES ASSUME NEW r \in rows PROVE r.node \in Genesis
    OBVIOUS
  <2>1. PICK n \in Genesis : r = Row(0, n, TRUE, "none")
    BY Zenon DEF Init
  <2> QED BY <2>1 DEF Row
<1>5. ASSUME NEW n \in Genesis PROVE IsActive(n, Pending)
  <2> DEFINE w == Row(0, n, TRUE, "none")
  <2>1. RowsOf(n, Pending) = {w}
    BY <1>3 DEF Init, Row
  <2>2. w.height <= w.height /\ w.active
    BY SMT DEF Row
  <2> HIDE DEF w
  <2>3. (CHOOSE r \in {w} : \A s \in {w} : s.height <= r.height) = w
    BY <2>2
  <2> QED BY <2>1, <2>2, <2>3, Zenon DEF IsActive, Latest
<1>6. Seated = Genesis
  <2>1. \A n \in Seated : n \in Genesis
    <3> SUFFICES ASSUME NEW n \in Seated PROVE n \in Genesis
      OBVIOUS
    <3>1. RowsOf(n, Pending) # {}
      BY Zenon DEF Seated, ValidatorSet, IsActive
    <3> QED BY <1>3, <1>4, <3>1
  <2>2. \A n \in Genesis : n \in Seated
    BY <1>5, Zenon DEF Seated, ValidatorSet
  <2> QED BY <2>1, <2>2
<1>7. Proven = Seated
  <2>1. \A n \in Genesis : span[n] = 3
    BY DEF Init
  <2> QED BY <1>6, <2>1, Zenon DEF Proven
<1>8. Calm => ~Waived(Profile, V)
  BY <1>6, Zenon DEF V, Calm
<1>9. Cardinality(Proven) >= Q
  <2>1. V \in Nat \ {0}
    BY <1>6, SizeTypes, FS_EmptySet DEF V
  <2>2. Quorum(Profile, V) \in 1 .. V
    BY <2>1, QuorumIsLeast
  <2>3. Cardinality(Proven) = V
    BY <1>7, Zenon DEF V
  <2> QED BY <2>1, <2>2, <2>3 DEF Q
<1>10. Bright /\ Judged
  BY DEF Init, Bright, Judged
<1>11. crashes \in Nat /\ losses \in Nat
  BY SMT DEF Init
<1> QED BY <1>1, <1>8, <1>9, <1>10, <1>11, Zenon DEF GInv, Grown

\* What a step may do to the evidence and to what is waiting.
LEMMA BrightStep ==
    ASSUME IInv, Calm, Calm', Bright, [Next]_vars
    PROVE  Bright' /\ \A x \in Nodes : span[x] = 3 => span'[x] = 3
<1>1. CASE \E x \in Nodes : Dwell(x)
  <2>1. PICK x \in Nodes : Dwell(x)
    BY <1>1
  <2>2. /\ UNCHANGED <<submitted, block, up, contact, boot, crashes, losses>>
        /\ span[x] < 3 /\ span' = [span EXCEPT ![x] = @ + 1]
    BY <2>1, Zenon DEF Dwell, round
  <2>3. span' \in [Nodes -> 0 .. 3] /\ \A y \in Nodes : span[y] = 3 => span'[y] = 3
    BY <2>2, SMT DEF Bright
  <2> QED BY <2>2, <2>3, Zenon DEF Bright
<1>2. CASE UNCHANGED evidence
  <2>0. UNCHANGED <<up, contact, span, boot, crashes, losses>>
    BY <1>2, Zenon DEF evidence
  <2>1. \A t \in submitted' \cup block' : t.fn # "vote_out"
    <3>1. CASE submitted' \cup block' \subseteq submitted \cup block
      BY <3>1 DEF Bright
    <3>2. CASE \E t : Submit(t) /\ t.fn # "vote_out"
      BY <3>2 DEF Bright, Submit, round
    <3>3. CASE UNCHANGED vars
      BY <3>1, <3>3, Zenon DEF vars, round
    <3>4. CASE Watch
      BY <3>1, <3>4, Zenon DEF Watch, Contact, Dwell, Silence, Crash, Restart, round
    <3>5. CASE SubmitOther
      <4>1. Tx("other", "user", {}).fn = "other"
        BY DEF Tx
      <4> QED BY <3>2, <3>5, <4>1 DEF SubmitOther
    <3>6. CASE \E p \in Nodes : SubmitLeave(p)
      <4>1. PICK p \in Nodes : Submit(Tx("leave", p, {p}))
        BY <3>6, Zenon DEF SubmitLeave
      <4>2. Tx("leave", p, {p}).fn = "leave"
        BY DEF Tx
      <4> QED BY <3>2, <4>1, <4>2
    <3>7. CASE \E p \in Nodes : ScanSeat(p)
      <4>1. PICK p \in Nodes : \E B : Submit(Tx("activation", p, B))
        BY <3>7, Zenon DEF ScanSeat
      <4>2. PICK B : Submit(Tx("activation", p, B))
        BY <4>1, Zenon
      <4>3. Tx("activation", p, B).fn = "activation"
        BY DEF Tx
      <4> QED BY <3>2, <4>2, <4>3
    <3>8. ~\E p, x \in Nodes : ScanVoteOut(p, x)
      BY Zenon DEF ScanVoteOut, Bright
    <3>9. CASE Agree
      <4>1. submitted' \subseteq submitted
        BY <3>9, Zenon DEF Agree, Refuse, Propose, Vote, Abandon, Decide
      <4>2. block' \subseteq block \cup submitted
        BY <3>9, Zenon DEF Agree, Refuse, Propose, Vote, Abandon, Decide, round
      <4> QED BY <3>1, <4>1, <4>2
    <3> QED BY <3>3, <3>4, <3>5, <3>6, <3>7, <3>8, <3>9, Zenon DEF Next, Offer
  <2> QED BY <2>0, <2>1, Zenon DEF Bright
<1>3. ~\E x \in Nodes : Contact(x) \/ Silence(x) \/ Crash(x) \/ Restart(x)
  BY SMT DEF Contact, Silence, Crash, Restart, Bright, Calm
<1>4. CASE Offer \/ Agree
  BY <1>2, <1>4, Zenon DEF Offer, Agree, SubmitOther, SubmitLeave, ScanSeat, ScanVoteOut, Submit,
     Refuse, Propose, Vote, Abandon, Decide
<1>5. CASE UNCHANGED vars
  BY <1>2, <1>5, Zenon DEF vars
<1> QED BY <1>1, <1>3, <1>4, <1>5, Zenon DEF Next, Watch

\* What has happened stays so: the history of a calm state is calm.
LEMMA CalmBefore ==
    ASSUME IInv, crashes \in Nat, losses \in Nat, [Next]_vars
    PROVE  crashes' \in Nat /\ losses' \in Nat /\ (Calm' => Calm)
<1>1. /\ crashes' \in {crashes, crashes + 1}
      /\ losses' \in {losses, losses + 1}
  <2>1. CASE Watch
    BY <2>1, Zenon DEF Watch, Contact, Dwell, Silence, Crash, Restart
  <2>2. CASE Offer \/ Agree \/ UNCHANGED vars
    <3>1. UNCHANGED evidence
      BY <2>2, Zenon DEF Offer, Agree, SubmitOther, SubmitLeave, ScanSeat, ScanVoteOut, Submit,
         Refuse, Propose, Vote, Abandon, Decide, vars
    <3> QED BY <3>1, Zenon DEF evidence
  <2> QED BY <2>1, <2>2, Zenon DEF Next
<1>2. rows \subseteq rows'
  <2>1. CASE Decide
    BY <2>1, Zenon DEF Decide
  <2>2. CASE UNCHANGED chain
    BY <2>2, Zenon DEF chain
  <2> QED BY <2>1, <2>2, Zenon DEF Next, Watch, Offer, Agree, Contact, Dwell, Silence, Crash,
       Restart, SubmitOther, SubmitLeave, ScanSeat, ScanVoteOut, Submit, Refuse, Propose, Vote,
       Abandon, vars
<1>3. Calm' => crashes = 0 /\ losses = 0
  BY <1>1, SMT DEF Calm
<1>4. Calm' => Calm
  BY <1>2, <1>3, Zenon DEF Calm
<1> QED BY <1>1, <1>4

LEMMA GrowthStep == GInv /\ [Next]_vars => GInv'
<1> SUFFICES ASSUME GInv, [Next]_vars PROVE GInv'
  OBVIOUS
<1>0. IInv /\ crashes' \in Nat /\ losses' \in Nat /\ (Calm' => Calm)
  BY CalmBefore DEF GInv
<1>1. IInv'
  BY NextIInv, Zenon DEF GInv
<1> SUFFICES ASSUME Calm' PROVE Grown'
  BY <1>0, <1>1, Zenon DEF GInv
<1> HIDE DEF Calm
<1>g. Calm /\ Grown /\ Bright
  BY <1>0, Zenon DEF GInv, Grown
<1>2. Bright' /\ \A x \in Nodes : span[x] = 3 => span'[x] = 3
  BY <1>0, <1>g, BrightStep, Zenon
<1> SUFFICES Judged' /\ ~Waived(Profile, V') /\ Cardinality(Proven') >= Q'
  BY <1>2, Zenon DEF Grown
<1>3. CASE UNCHANGED <<rows, height>> /\ block' \subseteq block
  BY <1>0, <1>g, <1>2, <1>3, SameRound
<1>4. CASE \E p \in Nodes, B \in SUBSET submitted : Propose(p, B)
  <2>1. PICK p \in Nodes, B \in SUBSET submitted : Propose(p, B)
    BY <1>4
  <2>2. UNCHANGED <<rows, height, span>> /\ block' = B /\ \A t \in B : Subjective(p, t)
    BY <2>1, Zenon DEF Propose, Valid, chain, evidence
  <2>3. \A t \in B : t.fn = "activation" => JointlyOk(p, Cardinality(t.members))
    BY <2>2, Zenon DEF Subjective, CheckActivation
  <2>4. ProvenLive(p) = Proven
    BY <1>g, VotersCountAll
  <2>5. Seated' = Seated /\ Proven' = Proven
    BY <2>2, Zenon DEF Proven, Seated, ValidatorSet, IsActive, ActivationHeight, Activations,
       RowsOf, Pending
  <2>6. V' = V /\ Q' = Q /\ Proven' = Proven
    BY <2>5, Zenon DEF V, Q
  <2>7. Judged'
    BY <2>2, <2>3, <2>4, <2>6, Zenon DEF Judged, JointlyOk
  <2> QED BY <1>g, <2>6, <2>7, Zenon DEF Grown
<1>5. CASE Decide
  <2>1. /\ rows' = rows \cup UNION {Executed(t) : t \in block}
        /\ height' = Pending /\ block' = {} /\ span' = span
    BY <1>5, Zenon DEF Decide, evidence
  <2>2. Judged'
    BY <2>1, Zenon DEF Judged
  <2>3. CASE \A t \in block : t.fn = "other"
    <3>1. UNION {Executed(t) : t \in block} = {}
      <4>1. \A t \in block : Executed(t) = {}
        BY <2>3, Zenon DEF Executed
      <4> QED BY <4>1
    <3>2. rows' = rows \cup Batch({}, TRUE, "none") /\ {} \in SUBSET Nodes
      <4>1. Batch({}, TRUE, "none") = {}
        BY Zenon DEF Batch
      <4> QED BY <2>1, <3>1, <4>1
    <3>3. /\ Seated' = Seated \cup {}
          /\ \A x \in Nodes \ {} :
               ActivationHeight(x, Pending)' = ActivationHeight(x, Pending)
      BY <1>0, <2>1, <3>2, Seating, Zenon
    <3>4. Seated' = Seated /\ Seated \subseteq Nodes
      BY <3>3, Zenon DEF Seated, ValidatorSet
    <3>5. Proven' = Proven
      <4>1. \A x \in Seated : ActivationHeight(x, Pending)' = ActivationHeight(x, Pending)
        BY <3>3, <3>4
      <4>2. \A x : x \in Proven' <=> x \in Proven
        BY <2>1, <3>4, <4>1, Zenon DEF Proven
      <4> QED BY <4>2
    <3>6. V' = V /\ Q' = Q
      BY <3>4, Zenon DEF V, Q
    <3> QED BY <1>g, <2>2, <3>5, <3>6, Zenon DEF Grown
  <2>4. CASE \E t \in block : t.fn # "other"
    <3>1. PICK t \in block : t.fn # "other"
      BY <2>4
    <3>2. block = {t}
      <4>1. Cardinality(block) = 1 /\ IsFiniteSet(block)
        BY <1>0, <3>1 DEF IInv, BlockOK, Solo
      <4>2. PICK u : block = {u}
        BY <4>1, FS_Singleton
      <4> QED BY <4>2
    <3>3. t.fn = "activation"
      <4>1. t.fn \in {"activation", "leave"}
        BY <1>0, <1>g, <3>1 DEF IInv, BlockOK, Txs, Bright
      <4>2. CASE t.fn = "leave"
        <5>1. t.by \in t.members
          <6>1. Objective(t)
            BY <1>0, Zenon DEF IInv, BlockOK
          <6> QED BY <4>2, <6>1, Zenon DEF Objective
        <5>2. Row(height, t.by, FALSE, "voluntary") \in Executed(t)
          BY <4>2, <5>1, Zenon DEF Executed
        <5>3. Row(height, t.by, FALSE, "voluntary") \in rows'
          BY <2>1, <5>2, Zenon
        <5>4. Row(height, t.by, FALSE, "voluntary").active = FALSE
          BY Zenon DEF Row
        <5> QED BY <5>3, <5>4, Zenon DEF Calm
      <4> QED BY <4>1, <4>2
    <3>4. Executed(t) = Batch(t.members, TRUE, "none")
      BY <3>3, Zenon DEF Executed, Batch
    <3>5. rows' = rows \cup Batch(t.members, TRUE, "none")
      BY <2>1, <3>2, <3>4
    <3> QED BY <1>0, <1>g, <2>1, <2>2, <3>3, <3>5, SeatingKeepsQuorum, Zenon
  <2> QED BY <2>3, <2>4
<1>6. CASE Offer \/ Watch \/ UNCHANGED vars
  <2>1. UNCHANGED <<rows, height, block>>
    BY <1>6, Zenon DEF Offer, Watch, SubmitOther, SubmitLeave, ScanSeat, ScanVoteOut, Submit,
       Contact, Dwell, Silence, Crash, Restart, vars, chain, round
  <2> QED BY <1>3, <2>1
<1>7. CASE Abandon \/ (\E n \in Nodes : Vote(n)) \/ \E p \in Nodes, t \in submitted : Refuse(p, t)
  <2>1. UNCHANGED <<rows, height>> /\ block' \subseteq block
    BY <1>7, Zenon DEF Abandon, Vote, Refuse, chain, round
  <2> QED BY <1>3, <2>1
<1> QED BY <1>4, <1>5, <1>6, <1>7, Zenon DEF Next, Agree

\* While nobody has left, crashed or fallen silent, the members that every
\* voter counts as proven hold a quorum on their own, through any number of
\* seatings of any size and over the profile seam, in a mesh that starts with
\* a tolerance to protect (ceiling_ok waives its rule for those without).
THEOREM ProvenQuorumKept == Spec => []ProvenHoldQuorum
<1>1. GInv => ProvenHoldQuorum
  BY Zenon DEF GInv, Grown, Calm, ProvenHoldQuorum, Proven
<1> QED BY GrowthStarts, GrowthStep, <1>1, PTL DEF Spec

-----------------------------------------------------------------------------
(* Transitions *)

\* What the votes for a block vouch for, as long as none of them was misled
\* and nothing crashed since: the voters are up, and
\*   - the members of a seating are up,
\*   - those who are up hold a quorum of the set without a leaver,
\*   - nobody voted for their own removal.
Vouched ==
    block # {} /\ ~misled =>
        /\ votes \subseteq up \cap Seated
        /\ \A t \in block :
             /\ t.fn = "activation" => t.members \subseteq up
             /\ t.fn = "leave" =>
                  Cardinality(up \cap (Seated \ t.members))
                    >= Quorum(Profile, Cardinality(Seated \ t.members))
             /\ t.fn = "vote_out" => votes \cap t.members = {}

LEMMA SameSeats ==
    ASSUME UNCHANGED <<rows, height>>
    PROVE  Seated' = Seated
  BY Zenon DEF Seated, ValidatorSet, IsActive, RowsOf, Pending

\* A part of the running validators is no larger than all of them.
LEMMA UpCount ==
    ASSUME NEW S \in SUBSET Nodes, NEW A, A \subseteq up \cap S
    PROVE  /\ Cardinality(A) \in Nat /\ Cardinality(up \cap S) \in Nat
           /\ Cardinality(A) <= Cardinality(up \cap S)
<1>1. IsFiniteSet(up \cap S)
  <2>1. up \cap S \subseteq Nodes
    OBVIOUS
  <2> QED BY <2>1, FS_Subset, MembershipAssumption
<1> QED BY <1>1, FS_Subset, FS_CardinalityType

\* A vote on a leave counts, when it is not misled, only nodes that are up.
LEMMA LeaveVote ==
    ASSUME NEW n \in up \cap Seated, ~Wrong, NEW x, CheckLeave(n, x)
    PROVE  Cardinality(up \cap (Seated \ {x})) >= Quorum(Profile, Cardinality(Seated \ {x}))
<1> DEFINE S == Seated \ {x}
           L == LiveSeen(n, S)
<1>1. S \subseteq Nodes
  BY Zenon DEF Seated, ValidatorSet
<1>2. L \subseteq up \cap S
  BY <1>1, Zenon DEF LiveSeen, Wrong
<1>3. Cardinality(L) \in Nat /\ Cardinality(L) <= Cardinality(up \cap S) /\ Cardinality(up \cap S) \in Nat
  BY <1>1, <1>2, UpCount
<1>4. Cardinality(S) \in Nat
  BY <1>1, FS_Subset, FS_CardinalityType, MembershipAssumption
<1>5. Quorum(Profile, Cardinality(S)) \in Nat
  BY <1>4, QuorumType
<1>6. Cardinality(L) - Quorum(Profile, Cardinality(S)) >= 0
  BY Zenon DEF CheckLeave, Headroom
<1> HIDE DEF S, L
<1>7. Cardinality(up \cap S) >= Quorum(Profile, Cardinality(S))
  BY <1>3, <1>5, <1>6, SMT
<1> QED BY <1>7 DEF S

\* What one voter's checks establish for a transaction.
LEMMA VoteEstablishes ==
    ASSUME NEW n \in up \cap Seated, NEW t \in Txs, ~Wrong, Objective(t), Subjective(n, t)
    PROVE  /\ t.fn = "activation" => t.members \subseteq up
           /\ t.fn = "leave" =>
                Cardinality(up \cap (Seated \ t.members))
                  >= Quorum(Profile, Cardinality(Seated \ t.members))
           /\ t.fn = "vote_out" => n \notin t.members
<1>1. CASE t.fn = "activation"
  <2>1. \A x \in t.members : contact[x] = "live" /\ x \in Nodes
    BY <1>1, Zenon DEF Subjective, CheckActivation, Eligible, Txs
  <2> QED BY <1>1, <2>1, Zenon DEF Wrong
<1>2. CASE t.fn = "leave"
  <2>1. t.members = {t.by}
    BY <1>2, Zenon DEF Objective
  <2>2. CheckLeave(n, t.by)
    BY <1>2, <2>1, Zenon DEF Subjective
  <2>3. Cardinality(up \cap (Seated \ {t.by})) >= Quorum(Profile, Cardinality(Seated \ {t.by}))
    BY <2>2, LeaveVote, Zenon
  <2> QED BY <1>2, <2>1, <2>3, Zenon
<1>3. CASE t.fn = "vote_out"
  BY <1>3, Zenon DEF Subjective, CheckVoteOut
<1> QED BY <1>1, <1>2, <1>3, Zenon

\* Restarts and everything outside the round keep what was vouched for.
LEMMA VouchedKept ==
    ASSUME Vouched, UNCHANGED <<rows, height, block, votes>>, up \subseteq up', misled' = misled
    PROVE  Vouched'
<1> SUFFICES ASSUME block # {}, ~misled PROVE Vouched'
  BY Zenon DEF Vouched
<1>1. Seated' = Seated /\ Seated \subseteq Nodes
  BY SameSeats, Zenon DEF Seated, ValidatorSet
<1>2. /\ votes \subseteq up \cap Seated
      /\ \A t \in block :
           /\ t.fn = "activation" => t.members \subseteq up
           /\ t.fn = "leave" =>
                Cardinality(up \cap (Seated \ t.members))
                  >= Quorum(Profile, Cardinality(Seated \ t.members))
           /\ t.fn = "vote_out" => votes \cap t.members = {}
  BY Zenon DEF Vouched
<1>3. votes' \subseteq up' \cap Seated'
  BY <1>1, <1>2, Zenon
<1>4. ASSUME NEW t \in block, t.fn = "leave"
      PROVE  Cardinality(up' \cap (Seated \ t.members))
               >= Quorum(Profile, Cardinality(Seated \ t.members))
  <2> DEFINE S == Seated \ t.members
  <2>1. S \subseteq Nodes
    BY <1>1, Zenon
  <2>2. IsFiniteSet(S) /\ IsFiniteSet(up' \cap S) /\ IsFiniteSet(up \cap S)
    <3>1. up' \cap S \subseteq Nodes /\ up \cap S \subseteq Nodes
      BY <2>1, Zenon
    <3> QED BY <2>1, <3>1, FS_Subset, MembershipAssumption
  <2>3. Cardinality(up \cap S) <= Cardinality(up' \cap S)
    <3>1. up \cap S \subseteq up' \cap S
      BY Zenon
    <3> QED BY <2>2, <3>1, FS_Subset
  <2>4. /\ Cardinality(up \cap S) \in Nat /\ Cardinality(up' \cap S) \in Nat
        /\ Quorum(Profile, Cardinality(S)) \in Nat
    BY <2>2, FS_CardinalityType, QuorumType
  <2>5. Cardinality(up \cap S) >= Quorum(Profile, Cardinality(S))
    BY <1>2, <1>4, Zenon
  <2> HIDE DEF S
  <2>6. Cardinality(up' \cap S) >= Quorum(Profile, Cardinality(S))
    BY <2>3, <2>4, <2>5, SMT
  <2> QED BY <2>6 DEF S
<1>5. \A t \in block' :
           /\ t.fn = "activation" => t.members \subseteq up'
           /\ t.fn = "leave" =>
                Cardinality(up' \cap (Seated' \ t.members))
                  >= Quorum(Profile, Cardinality(Seated' \ t.members))
           /\ t.fn = "vote_out" => votes' \cap t.members = {}
  BY <1>1, <1>2, <1>4, Zenon
<1> QED BY <1>3, <1>5, Zenon DEF Vouched

LEMMA VouchedStep == IInv /\ Vouched /\ [Next]_vars => Vouched'
<1> SUFFICES ASSUME IInv, Vouched, [Next]_vars PROVE Vouched'
  OBVIOUS
<1>1. CASE \E x \in Nodes : Crash(x)
  BY <1>1, Zenon DEF Crash, Vouched
<1>2. CASE \E x \in Nodes : Contact(x) \/ Dwell(x) \/ Silence(x) \/ Restart(x)
  <2>1. UNCHANGED <<rows, height, block, votes, misled>> /\ up \subseteq up'
    BY <1>2, Zenon DEF Contact, Dwell, Silence, Restart, chain, round
  <2> QED BY <2>1, VouchedKept
<1>3. CASE Offer \/ UNCHANGED vars \/ \E p \in Nodes, t \in submitted : Refuse(p, t)
  <2>1. UNCHANGED <<rows, height, block, votes, misled, up>>
    BY <1>3, Zenon DEF Offer, SubmitOther, SubmitLeave, ScanSeat, ScanVoteOut, Submit, Refuse,
       chain, round, evidence, vars
  <2> QED BY <2>1, VouchedKept
<1>4. CASE \E p \in Nodes, B \in SUBSET submitted : Propose(p, B)
  <2>1. PICK p \in Nodes, B \in SUBSET submitted : Propose(p, B)
    BY <1>4
  <2>2. /\ UNCHANGED <<rows, height, up>> /\ block' = B /\ votes' = {p} /\ misled' = Wrong
        /\ p \in up \cap Seated /\ \A t \in B : Objective(t) /\ Subjective(p, t)
    BY <2>1, Zenon DEF Propose, Valid, chain, evidence
  <2>3. Seated' = Seated
    BY <2>2, SameSeats
  <2>4. \A t \in B : t \in Txs
    BY Zenon DEF IInv, BlockOK
  <2>5. ~Wrong => \A t \in B :
             /\ t.fn = "activation" => t.members \subseteq up
             /\ t.fn = "leave" =>
                  Cardinality(up \cap (Seated \ t.members))
                    >= Quorum(Profile, Cardinality(Seated \ t.members))
             /\ t.fn = "vote_out" => p \notin t.members
    BY <2>2, <2>4, VoteEstablishes, Zenon
  <2> QED BY <2>2, <2>3, <2>5, Zenon DEF Vouched
<1>5. CASE \E n \in Nodes : Vote(n)
  <2>1. PICK n \in Nodes : Vote(n)
    BY <1>5
  <2>2. /\ UNCHANGED <<rows, height, up, block>> /\ votes' = votes \cup {n}
        /\ misled' = (misled \/ Wrong)
        /\ n \in up \cap Seated /\ \A t \in block : Objective(t) /\ Subjective(n, t)
    BY <2>1, Zenon DEF Vote, Valid, chain, evidence
  <2>3. Seated' = Seated
    BY <2>2, SameSeats
  <2>4. \A t \in block : t \in Txs
    BY Zenon DEF IInv, BlockOK
  <2>5. ~Wrong => \A t \in block : t.fn = "vote_out" => n \notin t.members
    BY <2>2, <2>4, VoteEstablishes, Zenon
  <2> QED BY <2>2, <2>3, <2>5, Zenon DEF Vouched
<1>6. CASE Abandon \/ Decide
  BY <1>6, Zenon DEF Abandon, Decide, Vouched
<1> QED BY <1>1, <1>2, <1>3, <1>4, <1>5, <1>6, Zenon DEF Next, Watch, Agree

\* The quorum of a larger set grows by no more than the set.
LEMMA QuorumMonotone ==
    ASSUME NEW v \in Nat, NEW b \in Nat
    PROVE  /\ Quorum(Profile, v) <= Quorum(Profile, v + b)
           /\ Quorum(Profile, v + b) <= Quorum(Profile, v) + b
<1>1. Quorum(Profile, v + b) - Quorum(Profile, v) \in 0 .. b
  BY QuorumSlope, MembershipAssumption
<1>2. Quorum(Profile, v) \in Nat /\ Quorum(Profile, v + b) \in Nat
  BY QuorumType
<1> QED BY <1>1, <1>2, SMT

\* A decided block leaves a running quorum of the set it makes.
LEMMA TransitionStep ==
    ASSUME IInv, Vouched, Decide, ~misled
    PROVE  Cardinality(up \cap Seated') >= Quorum(Profile, Cardinality(Seated'))
<1>1. /\ rows' = rows \cup UNION {Executed(t) : t \in block}
      /\ height' = Pending /\ block # {} /\ Cardinality(votes) >= Q
  BY Zenon DEF Decide
<1>2. Seated \subseteq Nodes /\ votes \subseteq up \cap Seated
  BY <1>1, Zenon DEF Vouched, Seated, ValidatorSet
<1>3. /\ Cardinality(votes) \in Nat /\ Cardinality(up \cap Seated) \in Nat
      /\ Cardinality(votes) <= Cardinality(up \cap Seated)
  BY <1>2, UpCount, Zenon
<1>4. IsFiniteSet(Seated) /\ V \in Nat /\ Q \in Nat /\ IsFiniteSet(votes)
  <2>1. votes \subseteq Nodes
    BY <1>2, Zenon
  <2> QED BY <2>1, FS_Subset, SizeTypes, MembershipAssumption
<1>5. CASE \A t \in block : t.fn = "other"
  <2>1. \A t \in block : Executed(t) = {}
    BY <1>5, Zenon DEF Executed
  <2>2. rows' = rows \cup Batch({}, TRUE, "none") /\ {} \in SUBSET Nodes
    <3>1. Batch({}, TRUE, "none") = {}
      BY Zenon DEF Batch
    <3>2. UNION {Executed(t) : t \in block} = {}
      BY <2>1
    <3> QED BY <1>1, <3>1, <3>2, Zenon
  <2>3. Seated' = Seated \cup {}
    BY <1>1, <2>2, Seating, Zenon
  <2>4. Seated' = Seated
    BY <2>3
  <2> QED BY <1>1, <1>3, <1>4, <2>4, SMT DEF Q, V
<1>6. CASE \E t \in block : t.fn # "other"
  <2>1. PICK t \in block : t.fn # "other"
    BY <1>6
  <2>2. block = {t}
    <3>1. Cardinality(block) = 1 /\ IsFiniteSet(block)
      BY <2>1 DEF IInv, BlockOK, Solo
    <3>2. PICK u : block = {u}
      BY <3>1, FS_Singleton
    <3> QED BY <3>2
  <2>3. rows' = rows \cup Executed(t)
    BY <1>1, <2>2
  <2>4. t.members \in SUBSET Nodes /\ t.fn \in {"activation", "leave", "vote_out"}
    BY <2>1 DEF IInv, BlockOK, Txs
  <2>5. IsFiniteSet(t.members) /\ Cardinality(t.members) \in Nat
    BY <2>4, FS_Subset, FS_CardinalityType, MembershipAssumption
  <2>6. CASE t.fn = "activation"
    <3>1. Seated' = Seated \cup t.members
      <4>1. rows' = rows \cup Batch(t.members, TRUE, "none")
        BY <2>3, <2>6, Zenon DEF Executed, Batch
      <4> QED BY <1>1, <2>4, <4>1, Seating, Zenon
    <3>2. t.members \subseteq up
      BY <1>1, <2>6, Zenon DEF Vouched
    <3>3. Seated \cap t.members = {}
      <4>1. \A x \in t.members : ~IsActive(x, height)
        BY <2>6, Zenon DEF IInv, BlockOK, Objective
      <4>2. \A x \in Nodes : x \in Seated <=> IsActive(x, height)
        BY SeatedIsCommitted DEF IInv
      <4> QED BY <2>4, <4>1, <4>2
    <3>4. Cardinality(Seated') = V + Cardinality(t.members)
      <4>1. Cardinality(Seated \cup t.members)
              = Cardinality(Seated) + Cardinality(t.members) - Cardinality({})
        BY <1>4, <2>5, <3>3, FS_Union
      <4>2. Cardinality({}) = 0
        BY FS_EmptySet
      <4> QED BY <1>4, <2>5, <3>1, <4>1, <4>2, SMT DEF V
    <3>5. Cardinality(votes \cup t.members) = Cardinality(votes) + Cardinality(t.members)
      <4>0. votes \cap t.members = {}
        BY <1>2, <3>3
      <4>1. Cardinality(votes \cup t.members)
              = Cardinality(votes) + Cardinality(t.members) - Cardinality({})
        BY <1>4, <2>5, <4>0, FS_Union
      <4>2. Cardinality({}) = 0
        BY FS_EmptySet
      <4> QED BY <1>3, <2>5, <4>1, <4>2, SMT
    <3>6. /\ Cardinality(votes \cup t.members) <= Cardinality(up \cap Seated')
          /\ Cardinality(up \cap Seated') \in Nat
      <4>1. votes \cup t.members \subseteq up \cap Seated' /\ Seated' \in SUBSET Nodes
        BY <1>2, <2>4, <3>1, <3>2
      <4> QED BY <4>1, UpCount
    <3>7. /\ Quorum(Profile, V + Cardinality(t.members)) <= Q + Cardinality(t.members)
          /\ Quorum(Profile, V + Cardinality(t.members)) \in Nat
      <4>1. V + Cardinality(t.members) \in Nat
        BY <1>4, <2>5, SMT
      <4>2. Quorum(Profile, V + Cardinality(t.members)) <= Q + Cardinality(t.members)
        BY <1>4, <2>5, QuorumMonotone, ZenonT(60) DEF Q
      <4> QED BY <4>1, <4>2, QuorumType, Zenon
    <3> QED BY <1>1, <1>3, <1>4, <2>5, <3>4, <3>5, <3>6, <3>7, SMT
  <2>7. CASE t.fn = "leave"
    <3>1. Seated' = Seated \ t.members
      <4>1. rows' = rows \cup Batch(t.members, FALSE, "voluntary")
        BY <2>3, <2>7, Zenon DEF Executed, Batch
      <4>2. FALSE \in BOOLEAN /\ "voluntary" \in {"none", "voluntary", "voted_out"}
        OBVIOUS
      <4>3. Seated' = IF FALSE THEN Seated \cup t.members ELSE Seated \ t.members
        BY <1>1, <2>4, <4>1, <4>2, Rewrites, Zenon
      <4> QED BY <4>3
    <3>2. Cardinality(up \cap (Seated \ t.members))
            >= Quorum(Profile, Cardinality(Seated \ t.members))
      BY <1>1, <2>7, Zenon DEF Vouched
    <3> QED BY <3>1, <3>2, Zenon
  <2>8. CASE t.fn = "vote_out"
    <3>1. Seated' = Seated \ t.members
      <4>1. rows' = rows \cup Batch(t.members, FALSE, "voted_out")
        BY <2>3, <2>8, Zenon DEF Executed, Batch
      <4>2. FALSE \in BOOLEAN /\ "voted_out" \in {"none", "voluntary", "voted_out"}
        OBVIOUS
      <4>3. Seated' = IF FALSE THEN Seated \cup t.members ELSE Seated \ t.members
        BY <1>1, <2>4, <4>1, <4>2, Rewrites, Zenon
      <4> QED BY <4>3
    <3>2. votes \cap t.members = {}
      BY <1>1, <2>8, Zenon DEF Vouched
    <3>3. /\ Cardinality(votes) <= Cardinality(up \cap Seated')
          /\ Cardinality(up \cap Seated') \in Nat
      <4>1. votes \subseteq up \cap Seated' /\ Seated' \in SUBSET Nodes
        BY <1>2, <3>1, <3>2
      <4> QED BY <4>1, UpCount, Zenon
    <3>4. Cardinality(Seated') \in Nat /\ Cardinality(Seated') <= V
      <4>1. Seated' \subseteq Seated
        BY <3>1, Zenon
      <4> QED BY <1>4, <4>1, FS_Subset, FS_CardinalityType DEF V
    <3>5. Quorum(Profile, Cardinality(Seated')) <= Q
      <4> DEFINE v == Cardinality(Seated')
                 b == V - v
      <4>1. v \in Nat /\ b \in Nat /\ v + b = V
        BY <1>4, <3>4, SMT
      <4> HIDE DEF v, b
      <4>2. Quorum(Profile, v) <= Quorum(Profile, v + b)
        BY <4>1, QuorumMonotone, Zenon
      <4>3. Quorum(Profile, v) <= Q
        BY <4>1, <4>2, Zenon DEF Q
      <4> QED BY <4>3, Zenon DEF v
    <3>6. Quorum(Profile, Cardinality(Seated')) \in Nat
      BY <3>4, QuorumType
    <3> QED BY <1>1, <1>3, <1>4, <3>3, <3>5, <3>6, SMT
  <2> QED BY <2>4, <2>6, <2>7, <2>8
<1> QED BY <1>5, <1>6

\* A membership change never stalls the mesh by itself: unless a vote relied
\* on evidence that was wrong or something crashed since the proposal, the
\* validators that are up hold a quorum of the set after every decision.
THEOREM TransitionsKeepQuorum == Spec => NoTransitionStalls
<1> DEFINE Kept == height' > height /\ ~misled =>
                     Cardinality(up \cap Seated') >= Quorum(Profile, Cardinality(Seated'))
<1>1. Init => Vouched
  BY Zenon DEF Init, Vouched
<1>2. IInv /\ Vouched /\ [Next]_vars => [Kept]_vars
  <2> SUFFICES ASSUME IInv, Vouched, Next PROVE Kept
    BY Zenon
  <2>1. CASE Decide
    BY <2>1, TransitionStep, Zenon
  <2>2. CASE height' = height
    <3>1. height \in Nat
      BY DEF IInv, TableOK
    <3>2. ~(height' > height)
      BY <2>2, <3>1, SMT
    <3> QED BY <3>2, Zenon
  <2>3. Decide \/ height' = height
    BY Zenon DEF Next, Watch, Offer, Agree, Contact, Dwell, Silence, Crash, Restart, SubmitOther,
       SubmitLeave, ScanSeat, ScanVoteOut, Submit, Refuse, Propose, Vote, Abandon, chain
  <2> QED BY <2>1, <2>2, <2>3, Zenon
<1>3. Spec => [](IInv /\ Vouched)
  BY InitIInv, NextIInv, VouchedStep, <1>1, PTL DEF Spec
<1> QED BY <1>2, <1>3, PTL DEF Spec, NoTransitionStalls, Kept
=============================================================================
