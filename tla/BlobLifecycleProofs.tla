------------------------ MODULE BlobLifecycleProofs ------------------------
(***************************************************************************)
(* What the inventory and the handoff pair guarantee for every number of   *)
(* nodes and classes, every sequence of views and every bound.             *)
(*                                                                         *)
(* A stamp is true because the claim is true at every stage it passes      *)
(* through: the listing of a running sweep, the attestation waiting to be  *)
(* decided, the row.  The inductive invariant carries the claim through    *)
(* the three, with the order confirmed <= desired <= tip of the pair.  The *)
(* copies of the upload are safe until the first confirmation because no   *)
(* database from before it, however late a node acts on it, has a surplus. *)
(***************************************************************************)
EXTENDS BlobLifecycle, TLAPS

ReplicaType == [height : Int, desired : Int, confirmed : Int,
                inv : [Nodes -> [Classes -> Int]]]

DeclareType == [kind : {"declare"}, from : Int, to : Int]
ConfirmType == [kind : {"confirm"}, height : Int]
SelfCheckType == [kind : {"selfcheck"}, node : Nodes, height : Int,
                  added : SUBSET Classes, removed : SUBSET Classes]
AttestType == [kind : {"attest"}, node : Nodes, height : Int, present : SUBSET Classes]
TxType == DeclareType \cup ConfirmType \cup SelfCheckType \cup AttestType

\* Every row of d is at most what the node's disk showed.
RowsTrue(d) == \A n \in Nodes, c \in Classes : d.inv[n][c] <= held[n][c]

\* The claim a transaction carries is true.
TxTrue(t, H) == t \in AttestType => \A c \in t.present : t.height <= H[t.node][c]

PairOrdered(d, h) == 0 <= d.confirmed /\ d.confirmed <= d.desired /\ d.desired <= h

ChainOK ==
    /\ views \in Seq(Views) /\ Tip \in Nat /\ Tip >= 1 /\ Tip \in DOMAIN state
    /\ \A h \in DOMAIN state : state[h] \in ReplicaType
    /\ at \in [Nodes -> Int] /\ \A n \in Nodes : at[n] \in DOMAIN state /\ at[n] <= Tip
    /\ DOMAIN state \subseteq Int
    /\ \A h \in Int : (h <= Tip /\ \E m \in Nodes : at[m] <= h) => h \in DOMAIN state

DisksOK ==
    /\ disk \in [Nodes -> SUBSET Classes] /\ flag \in [Nodes -> SUBSET Classes]
    /\ held \in [Nodes -> [Classes -> Nat]]
    /\ \A n \in Nodes, c \in Classes :
          held[n][c] <= at[n] /\ (c \in disk[n] => held[n][c] = at[n])

ClaimsOK ==
    /\ txs \subseteq TxType /\ \A t \in txs : TxTrue(t, held)
    /\ sweep \in [Nodes -> [phase : {"idle", "listed", "marked"}, height : Int,
                            listing : SUBSET Classes]]
    /\ \A n \in Nodes : \A c \in sweep[n].listing : sweep[n].height <= held[n][c]

IInv ==
    /\ ChainOK /\ DisksOK /\ ClaimsOK
    /\ RowsTrue(state[Tip]) /\ PairOrdered(state[Tip], Tip)

-----------------------------------------------------------------------------
(* The apply handlers *)

\* A stamp is one of the old row and a value at most the report's height.
LEMMA StampedBound ==
    ASSUME NEW row \in Int, NEW t, t.height \in Int, NEW h \in Int
    PROVE  /\ Stamped(row, t, h) \in Int
           /\ Stamped(row, t, h) = row \/ Stamped(row, t, h) <= t.height
<1>1. \A x, y \in Int : Max({x, y}) \in {x, y}
  <2> TAKE x, y \in Int
  <2>1. \E z \in {x, y} : \A w \in {x, y} : z >= w
    BY SMT
  <2> QED BY <2>1 DEF Max
<1>2. \A x, y \in Int : Min({x, y}) \in {x, y} /\ Min({x, y}) <= x
  <2> TAKE x, y \in Int
  <2>1. \E z \in {x, y} : \A w \in {x, y} : z <= w
    BY SMT
  <2>2. Min({x, y}) \in {x, y} /\ \A w \in {x, y} : Min({x, y}) <= w
    BY <2>1 DEF Min
  <2> QED BY <2>2
<1>3. Min({t.height, h}) \in Int /\ Min({t.height, h}) <= t.height
  BY <1>2, SMT
<1> DEFINE m == Min({t.height, h})
<1>4. Max({row, m}) \in {row, m}
  BY <1>1, <1>3
<1> QED BY <1>3, <1>4 DEF Stamped

\* Self-checks never raise a row above zero.
LEMMA SelfCheckedBound ==
    ASSUME NEW row \in Int, NEW c, NEW t, t.height \in Int
    PROVE  /\ SelfChecked(row, c, t) \in Int
           /\ SelfChecked(row, c, t) = row \/ SelfChecked(row, c, t) <= 0
  BY SMT DEF SelfChecked, Removed, Asserted, NoRow, Null

\* What one transaction does to the blob: the rows stay true, the pair moves
\* forward in order, and a new confirmation rests on recent true rows.
LEMMA ExecutedOK ==
    ASSUME NEW d \in ReplicaType, NEW t \in TxType, NEW h \in Int, TxTrue(t, held),
           RowsTrue(d), PairOrdered(d, h - 1), held \in [Nodes -> [Classes -> Nat]]
    PROVE  LET e == Executed(d, t, h) IN
           /\ e \in ReplicaType /\ RowsTrue(e) /\ PairOrdered(e, h - 1)
           /\ d.desired <= e.desired /\ d.confirmed <= e.confirmed
           /\ e.confirmed # d.confirmed =>
                /\ e.inv = d.inv
                /\ EvidenceComplete(d, SnapshotAt(e.confirmed).assign, h)
<1> DEFINE e == Executed(d, t, h)
<1>1. CASE t \in DeclareType
  <2>1. e = ApplyDeclare(d, t, h)
    BY <1>1 DEF Executed, DeclareType
  <2>2. t.from \in Int /\ t.to \in Int
    BY <1>1 DEF DeclareType
  <2>3. CASE DeclareHolds(d, t, h)
    <3>1. e = [d EXCEPT !.desired = t.to] /\ d.desired < t.to /\ t.to < h
      BY <2>1, <2>3 DEF ApplyDeclare, DeclareHolds
    <3> QED BY <2>2, <3>1, SMT DEF ReplicaType, RowsTrue, PairOrdered
  <2>4. CASE ~DeclareHolds(d, t, h)
    <3>1. e = d
      BY <2>1, <2>4 DEF ApplyDeclare
    <3> QED BY <3>1, SMT DEF ReplicaType
  <2> QED BY <2>3, <2>4
<1>2. CASE t \in ConfirmType
  <2>1. e = ApplyConfirm(d, t, h)
    BY <1>2 DEF Executed, ConfirmType
  <2>2. t.height \in Int
    BY <1>2 DEF ConfirmType
  <2>3. CASE ConfirmHolds(d, t, h)
    <3>1. /\ e = [d EXCEPT !.confirmed = t.height] /\ d.desired = t.height
          /\ EvidenceComplete(d, SnapshotAt(t.height).assign, h)
      BY <2>1, <2>3 DEF ApplyConfirm, ConfirmHolds
    <3>2. e \in ReplicaType /\ e.confirmed = t.height /\ e.desired = d.desired /\ e.inv = d.inv
      BY <2>2, <3>1 DEF ReplicaType
    <3> QED BY <2>2, <3>1, <3>2, SMTT(60) DEF ReplicaType, RowsTrue, PairOrdered
  <2>4. CASE ~ConfirmHolds(d, t, h)
    <3>1. e = d
      BY <2>1, <2>4 DEF ApplyConfirm
    <3> QED BY <3>1, SMT DEF ReplicaType
  <2> QED BY <2>3, <2>4
<1>3. CASE t \in SelfCheckType
  <2>1. e = ApplySelfCheck(d, t)
    BY <1>3 DEF Executed, SelfCheckType
  <2>2. t.node \in Nodes /\ t.height \in Int
    BY <1>3 DEF SelfCheckType
  <2>3. d.inv \in [Nodes -> [Classes -> Int]]
    BY DEF ReplicaType
  <2> DEFINE row == [c \in Classes |-> SelfChecked(d.inv[t.node][c], c, t)]
  <2>4. e = [d EXCEPT !.inv = [d.inv EXCEPT ![t.node] = row]]
    BY <2>1, <2>2, <2>3 DEF ApplySelfCheck, ReplicaType
  <2>5. \A c \in Classes : row[c] \in Int /\ (row[c] = d.inv[t.node][c] \/ row[c] <= 0)
    BY <2>2, <2>3, SelfCheckedBound
  <2> HIDE DEF row
  <2>6. row \in [Classes -> Int]
    BY <2>5 DEF row
  <2>7. /\ e \in ReplicaType /\ e.desired = d.desired /\ e.confirmed = d.confirmed
        /\ e.inv = [d.inv EXCEPT ![t.node] = row]
    BY ZenonT(60), <2>2, <2>3, <2>4, <2>6 DEF ReplicaType
  <2>8. RowsTrue(e)
    BY <2>2, <2>3, <2>5, <2>7, SMT DEF RowsTrue
  <2> QED BY <2>7, <2>8, SMT DEF PairOrdered, ReplicaType
<1>4. CASE t \in AttestType
  <2>1. e = ApplyAttestation(d, t, h)
    BY <1>4 DEF Executed, AttestType
  <2>2. t.node \in Nodes /\ t.height \in Int /\ t.present \subseteq Classes
    BY <1>4 DEF AttestType
  <2>3. d.inv \in [Nodes -> [Classes -> Int]]
    BY DEF ReplicaType
  <2> DEFINE row == [c \in Classes |->
               IF c \in t.present /\ d.inv[t.node][c] # NoRow
               THEN Stamped(d.inv[t.node][c], t, h) ELSE d.inv[t.node][c]]
  <2>4. e = [d EXCEPT !.inv = [d.inv EXCEPT ![t.node] = row]]
    BY <2>1, <2>2, <2>3 DEF ApplyAttestation, ReplicaType
  <2>5. \A c \in Classes : /\ row[c] \in Int
                           /\ row[c] = d.inv[t.node][c] \/ (c \in t.present /\ row[c] <= t.height)
    BY Zenon, <2>2, <2>3, StampedBound
  <2> HIDE DEF row
  <2>6. row \in [Classes -> Int]
    BY <2>5 DEF row
  <2>7. /\ e \in ReplicaType /\ e.desired = d.desired /\ e.confirmed = d.confirmed
        /\ e.inv = [d.inv EXCEPT ![t.node] = row]
    BY ZenonT(60), <2>2, <2>3, <2>4, <2>6 DEF ReplicaType
  <2>8. \A c \in Classes : row[c] <= held[t.node][c]
    BY <1>4, <2>2, <2>3, <2>5, SMT DEF TxTrue, RowsTrue
  <2>9. RowsTrue(e)
    BY <2>2, <2>3, <2>7, <2>8, SMT DEF RowsTrue
  <2> QED BY <2>7, <2>9, SMT DEF PairOrdered, ReplicaType
<1> QED BY <1>1, <1>2, <1>3, <1>4 DEF TxType

-----------------------------------------------------------------------------
(* The steps *)

\* The record of what a disk showed only grows.
LEMMA HeldGrows ==
    ASSUME DisksOK, at \in [Nodes -> Int], at' \in [Nodes -> Nat],
           \A n \in Nodes : at[n] <= at'[n], disk' \in [Nodes -> SUBSET Classes], Observed
    PROVE  /\ held' \in [Nodes -> [Classes -> Nat]]
           /\ \A n \in Nodes, c \in Classes :
                 /\ held[n][c] <= held'[n][c] /\ held'[n][c] <= at'[n]
                 /\ c \in disk'[n] => held'[n][c] = at'[n]
<1>1. \A n \in Nodes, c \in Classes :
        held'[n][c] = IF c \in disk'[n] THEN at'[n] ELSE held[n][c]
  BY DEF Observed
<1>2. held' = [n \in Nodes |-> [c \in Classes |->
                 IF c \in disk'[n] THEN at'[n] ELSE held[n][c]]]
  BY DEF Observed
<1>3. \A n \in Nodes, c \in Classes : held[n][c] \in Nat /\ at'[n] \in Nat /\ at[n] \in Int
  BY DEF DisksOK
<1>4. held' \in [Nodes -> [Classes -> Nat]]
  BY <1>2, <1>3
<1>5. \A n \in Nodes, c \in Classes : held[n][c] <= at[n]
  BY DEF DisksOK
<1>6. ASSUME NEW n \in Nodes, NEW c \in Classes
      PROVE  /\ held[n][c] <= held'[n][c] /\ held'[n][c] <= at'[n]
             /\ c \in disk'[n] => held'[n][c] = at'[n]
  BY <1>1, <1>3, <1>5, <1>6, SMT
<1> QED BY <1>4, <1>6

\* Claims that were true stay true as the record grows.
LEMMA ClaimsStay ==
    ASSUME ClaimsOK, DisksOK, held' \in [Nodes -> [Classes -> Nat]],
           \A n \in Nodes, c \in Classes : held[n][c] <= held'[n][c]
    PROVE  /\ \A t \in txs : TxTrue(t, held')
           /\ \A n \in Nodes : \A c \in sweep[n].listing : sweep[n].height <= held'[n][c]
<1>1. ASSUME NEW t \in txs PROVE TxTrue(t, held')
  <2> SUFFICES ASSUME t \in AttestType, NEW c \in t.present
               PROVE  t.height <= held'[t.node][c]
    BY DEF TxTrue
  <2>1. t.node \in Nodes /\ c \in Classes /\ t.height \in Int
    BY DEF AttestType
  <2>2. t.height <= held[t.node][c]
    BY DEF ClaimsOK, TxTrue
  <2>3. held[t.node][c] \in Nat /\ held'[t.node][c] \in Nat /\ held[t.node][c] <= held'[t.node][c]
    BY <2>1 DEF DisksOK
  <2> QED BY <2>1, <2>2, <2>3, SMT
<1>2. ASSUME NEW n \in Nodes, NEW c \in sweep[n].listing
      PROVE  sweep[n].height <= held'[n][c]
  <2>1. sweep[n].height \in Int /\ c \in Classes /\ sweep[n].height <= held[n][c]
    BY <1>2 DEF ClaimsOK
  <2>2. held[n][c] \in Nat /\ held'[n][c] \in Nat /\ held[n][c] <= held'[n][c]
    BY <2>1 DEF DisksOK
  <2> QED BY <2>1, <2>2, SMT
<1> QED BY <1>1, <1>2

LEMMA RowsStay ==
    ASSUME NEW d \in ReplicaType, RowsTrue(d), DisksOK, held' \in [Nodes -> [Classes -> Nat]],
           \A n \in Nodes, c \in Classes : held[n][c] <= held'[n][c]
    PROVE  \A n \in Nodes, c \in Classes : d.inv[n][c] <= held'[n][c]
<1> SUFFICES ASSUME NEW n \in Nodes, NEW c \in Classes PROVE d.inv[n][c] <= held'[n][c]
  OBVIOUS
<1>1. d.inv[n][c] \in Int /\ held[n][c] \in Nat /\ held'[n][c] \in Nat
  BY DEF ReplicaType, DisksOK
<1> QED BY <1>1, SMT DEF RowsTrue

\* Nodes are at natural heights.
LEMMA AtNat == IInv => at \in [Nodes -> Nat]
<1> SUFFICES ASSUME IInv, NEW n \in Nodes PROVE at[n] \in Nat
  BY DEF IInv, ChainOK
<1>1. PICK c \in Classes : TRUE
  BY LifecycleAssumption
<1>2. held[n][c] \in Nat /\ held[n][c] <= at[n] /\ at[n] \in Int
  BY DEF IInv, DisksOK, ChainOK
<1> QED BY <1>2, SMT

\* A step of one node that decides and applies no block: it is enough that
\* the transactions it submits and the listing it keeps are true.
LEMMA LocalStep ==
    ASSUME IInv, Local, NEW T, T \subseteq TxType, txs' \subseteq txs \cup T,
           disk' \in [Nodes -> SUBSET Classes], flag' \in [Nodes -> SUBSET Classes],
           sweep' \in [Nodes -> [phase : {"idle", "listed", "marked"}, height : Int,
                                 listing : SUBSET Classes]],
           \A t \in T : TxTrue(t, held'),
           \A n \in Nodes : \/ sweep'[n].listing = {}
                           \/ /\ sweep'[n].listing = sweep[n].listing
                              /\ sweep'[n].height = sweep[n].height
                           \/ \A c \in sweep'[n].listing : sweep'[n].height <= held'[n][c]
    PROVE  IInv'
<1>0. at \in [Nodes -> Nat] /\ UNCHANGED <<views, state, at>> /\ Observed
  BY AtNat DEF Local
<1>1. /\ held' \in [Nodes -> [Classes -> Nat]]
      /\ \A n \in Nodes, c \in Classes :
            /\ held[n][c] <= held'[n][c] /\ held'[n][c] <= at'[n]
            /\ c \in disk'[n] => held'[n][c] = at'[n]
  <2>1. at \in [Nodes -> Int] /\ at' \in [Nodes -> Nat] /\ \A n \in Nodes : at[n] <= at'[n]
    BY <1>0, SMT
  <2> QED BY <1>0, <2>1, HeldGrows DEF IInv
<1>2. ChainOK'
  BY Zenon, <1>0 DEF IInv, ChainOK, Tip
<1>3. DisksOK'
  BY <1>1 DEF DisksOK
<1>4. /\ \A t \in txs : TxTrue(t, held')
      /\ \A n \in Nodes : \A c \in sweep[n].listing : sweep[n].height <= held'[n][c]
  BY <1>1, ClaimsStay DEF IInv
<1>5. ClaimsOK'
  <2>1. \A n \in Nodes : \A c \in sweep'[n].listing : sweep'[n].height <= held'[n][c]
    BY <1>4
  <2>2. txs' \subseteq TxType
    BY DEF IInv, ClaimsOK
  <2>3. \A t \in txs' : TxTrue(t, held')
    BY <1>4
  <2> QED BY <2>1, <2>2, <2>3 DEF ClaimsOK
<1>6. state[Tip] \in ReplicaType /\ state'[Tip'] = state[Tip] /\ Tip' = Tip
  BY <1>0 DEF IInv, ChainOK, Tip
<1>7. RowsTrue(state[Tip])'
  BY Zenon, <1>1, <1>6, RowsStay DEF IInv, RowsTrue
<1>8. PairOrdered(state[Tip], Tip)'
  BY <1>6 DEF IInv, PairOrdered
<1> QED BY <1>2, <1>3, <1>5, <1>7, <1>8 DEF IInv

\* A block whose database has true rows and an ordered pair.
LEMMA DecidedStep ==
    ASSUME IInv, NEW d \in ReplicaType, NEW v \in Views, Decided(d, v), txs' \subseteq txs,
           RowsTrue(d), PairOrdered(d, Tip)
    PROVE  /\ IInv' /\ Tip' = Tip + 1
           /\ state'[Tip'].desired = d.desired /\ state'[Tip'].confirmed = d.confirmed
<1>1. /\ views' = Append(views, v) /\ at' = at /\ disk' = disk /\ flag' = flag
      /\ sweep' = sweep /\ Observed
      /\ state' = [h \in DOMAIN state \cup {Tip + 1} |->
                     IF h = Tip + 1 THEN [d EXCEPT !.height = Tip + 1] ELSE state[h]]
  BY DEF Decided
<1>2. Tip \in Nat /\ Tip' = Tip + 1
  BY <1>1, SMT DEF IInv, ChainOK, Tip
<1>3. /\ held' \in [Nodes -> [Classes -> Nat]]
      /\ \A n \in Nodes, c \in Classes :
            /\ held[n][c] <= held'[n][c] /\ held'[n][c] <= at'[n]
            /\ c \in disk'[n] => held'[n][c] = at'[n]
  <2>1. at \in [Nodes -> Nat]
    BY AtNat
  <2>2. at \in [Nodes -> Int] /\ at' \in [Nodes -> Nat] /\ \A n \in Nodes : at[n] <= at'[n]
    BY <1>1, <2>1, SMT
  <2>3. disk' \in [Nodes -> SUBSET Classes]
    BY <1>1 DEF IInv, DisksOK
  <2> QED BY <1>1, <2>2, <2>3, HeldGrows DEF IInv
<1> DEFINE e == [d EXCEPT !.height = Tip + 1]
<1>4. /\ e \in ReplicaType /\ e.desired = d.desired /\ e.confirmed = d.confirmed /\ e.inv = d.inv
      /\ state'[Tip'] = e /\ Tip' \in DOMAIN state'
  BY <1>1, <1>2 DEF ReplicaType
<1>5. ChainOK'
  <2>1. views' \in Seq(Views) /\ Tip' \in Nat /\ Tip' >= 1
    BY <1>1, <1>2, SMT DEF IInv, ChainOK
  <2>2. \A h \in DOMAIN state' : state'[h] \in ReplicaType
    BY <1>1, <1>4 DEF IInv, ChainOK
  <2>3. DOMAIN state' = DOMAIN state \cup {Tip + 1}
    BY <1>1
  <2>4. at' \in [Nodes -> Int] /\ \A n \in Nodes : at'[n] \in DOMAIN state' /\ at'[n] <= Tip'
    BY <1>1, <1>2, <2>3, SMT DEF IInv, ChainOK
  <2>5. DOMAIN state' \subseteq Int
    BY <1>2, <2>3, SMT DEF IInv, ChainOK
  <2>6. ASSUME NEW h \in Int, h <= Tip', \E m \in Nodes : at'[m] <= h
        PROVE  h \in DOMAIN state'
    <3>1. h <= Tip \/ h = Tip + 1
      BY <1>2, <2>6, SMT
    <3>2. \E m \in Nodes : at[m] <= h
      BY <1>1, <2>6
    <3> QED BY <2>3, <3>1, <3>2 DEF IInv, ChainOK
  <2> QED BY <1>4, <2>1, <2>2, <2>4, <2>5, <2>6 DEF ChainOK
<1>6. DisksOK'
  BY <1>1, <1>3 DEF IInv, DisksOK
<1>7. ClaimsOK'
  <2>1. /\ \A t \in txs : TxTrue(t, held')
        /\ \A n \in Nodes : \A c \in sweep[n].listing : sweep[n].height <= held'[n][c]
    BY <1>3, ClaimsStay DEF IInv
  <2> QED BY SMTT(60), <1>1, <2>1 DEF IInv, ClaimsOK
<1>8. RowsTrue(state[Tip])'
  BY SMTT(60), <1>3, <1>4, RowsStay DEF IInv, RowsTrue
<1>9. PairOrdered(state[Tip], Tip)'
  BY <1>2, <1>4, SMT DEF PairOrdered, ReplicaType
<1> QED BY <1>2, <1>4, <1>5, <1>6, <1>7, <1>8, <1>9 DEF IInv

\* The database after the one or two transactions of a block.
LEMMA BlockOK ==
    ASSUME IInv, NEW t \in txs, NEW u \in txs
    PROVE  LET h == Tip + 1
               d == state[Tip]
               first == Executed(d, t, h)
               e == IF u = t THEN first ELSE Executed(first, u, h)
           IN  /\ e \in ReplicaType /\ RowsTrue(e) /\ PairOrdered(e, Tip)
               /\ d.desired <= e.desired /\ d.confirmed <= e.confirmed
               /\ e.confirmed # d.confirmed =>
                     \E r \in ReplicaType :
                        RowsTrue(r) /\ EvidenceComplete(r, SnapshotAt(e.confirmed).assign, h)
<1> DEFINE h == Tip + 1
           d == state[Tip]
           first == Executed(d, t, h)
           second == Executed(first, u, h)
<1>0. d \in ReplicaType /\ h \in Int /\ RowsTrue(d) /\ held \in [Nodes -> [Classes -> Nat]]
  BY SMT DEF IInv, ChainOK, DisksOK
<1>1. h - 1 = Tip /\ PairOrdered(d, h - 1)
  BY SMT DEF IInv, ChainOK
<1>2. t \in TxType /\ u \in TxType /\ TxTrue(t, held) /\ TxTrue(u, held)
  BY DEF IInv, ClaimsOK
<1> HIDE DEF d, h
<1>3. /\ first \in ReplicaType /\ RowsTrue(first) /\ PairOrdered(first, h - 1)
      /\ d.desired <= first.desired /\ d.confirmed <= first.confirmed
      /\ first.confirmed # d.confirmed =>
            EvidenceComplete(d, SnapshotAt(first.confirmed).assign, h)
  BY <1>0, <1>1, <1>2, ExecutedOK
<1> HIDE DEF first
<1>4. /\ second \in ReplicaType /\ RowsTrue(second) /\ PairOrdered(second, h - 1)
      /\ first.desired <= second.desired /\ first.confirmed <= second.confirmed
      /\ second.confirmed # first.confirmed =>
            EvidenceComplete(first, SnapshotAt(second.confirmed).assign, h)
  BY <1>0, <1>2, <1>3, ExecutedOK
<1> HIDE DEF second
<1>5. d.desired <= second.desired /\ d.confirmed <= second.confirmed
  BY <1>0, <1>3, <1>4, SMT DEF ReplicaType
<1>6. second.confirmed # d.confirmed =>
         \E r \in ReplicaType : RowsTrue(r) /\ EvidenceComplete(r, SnapshotAt(second.confirmed).assign, h)
  BY <1>0, <1>3, <1>4
<1>7. first.confirmed # d.confirmed =>
         \E r \in ReplicaType : RowsTrue(r) /\ EvidenceComplete(r, SnapshotAt(first.confirmed).assign, h)
  BY SMTT(60), <1>0, <1>3
<1>8. CASE u = t
  BY SMTT(60), <1>1, <1>3, <1>7, <1>8 DEF first, d, h
<1>9. CASE u # t
  BY SMTT(60), <1>1, <1>4, <1>5, <1>6, <1>9 DEF second, first, d, h
<1> QED BY SMTT(60), <1>8, <1>9

-----------------------------------------------------------------------------
(* The inductive invariant *)

LEMMA InitIInv == Init => IInv
<1> SUFFICES ASSUME Init PROVE IInv
  OBVIOUS
<1> USE LifecycleAssumption
<1>1. /\ views = <<FirstView>> /\ Tip = 1 /\ DOMAIN state = {1} /\ state[1] = ApplyBlobInsert(1)
      /\ at = [n \in Nodes |-> 1]
  BY DEF Init, Tip
<1>2. /\ state[1] \in ReplicaType /\ state[1].desired = 1 /\ state[1].confirmed = 0
      /\ state[1].inv = [n \in Nodes |-> [c \in Classes |-> -1]]
  BY <1>1, SMT DEF ApplyBlobInsert, ReplicaType, Null, NoRow
<1>3. ChainOK
  BY <1>1, <1>2, SMT DEF ChainOK
<1>4. DisksOK
  BY <1>1, SMT DEF Init, DisksOK
<1>5. ClaimsOK
  BY DEF Init, ClaimsOK, Idle
<1>6. RowsTrue(state[Tip])
  BY <1>1, <1>2, <1>4, SMT DEF RowsTrue, DisksOK
<1>7. PairOrdered(state[Tip], Tip)
  BY <1>1, <1>2, SMT DEF PairOrdered
<1> QED BY <1>3, <1>4, <1>5, <1>6, <1>7 DEF IInv

\* A step that leaves the tip's database alone moves no goal.
LEMMA SameTip ==
    ASSUME IInv, Tip' = Tip, state'[Tip'] = state[Tip]
    PROVE  PairForward /\ HeldAtConfirm
<1>1. state[Tip] \in ReplicaType /\ PairOrdered(state[Tip], Tip) /\ Tip \in Nat
  BY DEF IInv, ChainOK
<1> QED BY <1>1, SMT DEF PairForward, HeldAtConfirm, PairOrdered, ReplicaType

\* Complete evidence in true rows is possession within the window.
LEMMA EvidenceIsHeld ==
    ASSUME IInv, NEW r \in ReplicaType, RowsTrue(r), NEW p \in 1 .. Tip,
           EvidenceComplete(r, SnapshotAt(p).assign, Tip + 1), NEW c \in Classes
    PROVE  held[views[p].assign[c]][c] >= Tip + 1 - Window
<1> DEFINE n == views[p].assign[c]
<1>1. views[p] \in Views
  BY SMT DEF IInv, ChainOK, Tip
<1>2. n \in Nodes
  BY <1>1, LifecycleAssumption
<1> HIDE DEF n
<1>3. Tip \in Nat /\ Window \in Nat /\ r.inv[n][c] \in Int
  BY <1>2, LifecycleAssumption DEF IInv, ChainOK, ReplicaType
<1>4. r.inv[n][c] >= Tip + 1 - Window
  <2>1. Recent(r.inv[SnapshotAt(p).assign[c]][c], Tip + 1)
    BY SMTT(60) DEF EvidenceComplete
  <2>2. Recent(r.inv[n][c], Tip + 1)
    BY <2>1 DEF SnapshotAt, n
  <2> QED BY <1>3, <2>2, SMT DEF Recent, NoRow, Null
<1>5. r.inv[n][c] \in Int /\ held[n][c] \in Nat /\ r.inv[n][c] <= held[n][c]
  BY <1>2 DEF ReplicaType, RowsTrue, IInv, DisksOK
<1>6. held[n][c] >= Tip + 1 - Window
  BY <1>4, <1>5, <1>3, SMT
<1> QED BY <1>6 DEF n

LEMMA DecideStep ==
    ASSUME IInv, NEW t \in txs, NEW u \in txs, Decide(t, u)
    PROVE  IInv' /\ PairForward /\ HeldAtConfirm
<1> DEFINE h == Tip + 1
           d == state[Tip]
           first == Executed(d, t, h)
           e == IF u = t THEN first ELSE Executed(first, u, h)
<1>1. /\ e \in ReplicaType /\ RowsTrue(e) /\ PairOrdered(e, Tip)
      /\ d.desired <= e.desired /\ d.confirmed <= e.confirmed
      /\ e.confirmed # d.confirmed =>
            \E r \in ReplicaType :
               RowsTrue(r) /\ EvidenceComplete(r, SnapshotAt(e.confirmed).assign, h)
  BY SMTT(60), BlockOK
<1>2. Decided(e, views[Tip]) /\ txs' \subseteq txs
  BY DEF Decide
<1>3. views[Tip] \in Views /\ Tip \in Nat /\ d \in ReplicaType /\ PairOrdered(d, Tip)
  BY SMTT(60) DEF IInv, ChainOK, Tip
<1> HIDE DEF e
<1>4. /\ IInv' /\ Tip' = Tip + 1
      /\ state'[Tip'].desired = e.desired /\ state'[Tip'].confirmed = e.confirmed
  BY <1>1, <1>2, <1>3, DecidedStep
<1>5. PairForward
  BY <1>1, <1>3, <1>4, SMT DEF PairForward, PairOrdered, ReplicaType
<1>6. HeldAtConfirm
  <2> SUFFICES ASSUME state'[Tip'].confirmed # d.confirmed, NEW c \in Classes
               PROVE  held[views[state'[Tip'].confirmed].assign[c]][c] >= Tip' - Window
    BY SMTT(60) DEF HeldAtConfirm
  <2>1. e.confirmed # d.confirmed /\ e.confirmed \in 1 .. Tip
    BY <1>1, <1>3, <1>4, SMT DEF PairOrdered, ReplicaType
  <2>2. PICK r \in ReplicaType :
           RowsTrue(r) /\ EvidenceComplete(r, SnapshotAt(e.confirmed).assign, h)
    BY SMTT(60), <1>1, <2>1
  <2>3. held[views[e.confirmed].assign[c]][c] >= Tip + 1 - Window
    BY <2>1, <2>2, EvidenceIsHeld
  <2>4. state'[Tip'].confirmed = e.confirmed
    BY <1>4
  <2>5. Tip' - Window = Tip + 1 - Window
    BY <1>3, <1>4, LifecycleAssumption, SMT
  <2> QED BY SMTT(60), <2>3, <2>4, <2>5
<1> QED BY SMTT(60), <1>4, <1>5, <1>6

LEMMA ChangeViewStep ==
    ASSUME IInv, NEW v \in Views, ChangeView(v)
    PROVE  IInv' /\ PairForward /\ HeldAtConfirm
<1>1. /\ state[Tip] \in ReplicaType /\ RowsTrue(state[Tip]) /\ PairOrdered(state[Tip], Tip)
      /\ Tip \in Nat
  BY DEF IInv, ChainOK
<1>2. /\ IInv' /\ Tip' = Tip + 1
      /\ state'[Tip'].desired = state[Tip].desired
      /\ state'[Tip'].confirmed = state[Tip].confirmed
  BY <1>1, DecidedStep DEF ChangeView
<1> QED BY <1>1, <1>2, SMT DEF PairForward, HeldAtConfirm, PairOrdered, ReplicaType

LEMMA ApplyStep ==
    ASSUME IInv, NEW n \in Nodes, Apply(n)
    PROVE  IInv' /\ PairForward /\ HeldAtConfirm
<1>1. /\ at[n] < Tip /\ at' = [at EXCEPT ![n] = @ + 1] /\ views' = views /\ txs' = txs
      /\ disk' = disk /\ flag' = flag /\ sweep' = sweep /\ Observed
      /\ state' = [h \in {g \in DOMAIN state : \E m \in Nodes : at'[m] <= g} |-> state[h]]
  BY DEF Apply
<1>2. at \in [Nodes -> Nat] /\ Tip \in Nat /\ Tip' = Tip /\ at \in [Nodes -> Int]
  BY <1>1, AtNat DEF IInv, ChainOK, Tip
<1>3. /\ at' \in [Nodes -> Nat]
      /\ \A m \in Nodes : at[m] <= at'[m] /\ at'[m] <= Tip
  <2>1. \A m \in Nodes : at[m] <= Tip
    BY DEF IInv, ChainOK
  <2> QED BY <1>1, <1>2, <2>1, SMT
<1>4. DOMAIN state' = {g \in DOMAIN state : \E m \in Nodes : at'[m] <= g}
  BY <1>1
<1>5. Tip \in DOMAIN state' /\ state'[Tip'] = state[Tip]
  BY <1>1, <1>2, <1>3, <1>4 DEF IInv, ChainOK
<1>6. /\ held' \in [Nodes -> [Classes -> Nat]]
      /\ \A m \in Nodes, c \in Classes :
            /\ held[m][c] <= held'[m][c] /\ held'[m][c] <= at'[m]
            /\ c \in disk'[m] => held'[m][c] = at'[m]
  <2>1. disk' \in [Nodes -> SUBSET Classes]
    BY <1>1 DEF IInv, DisksOK
  <2> QED BY <1>1, <1>2, <1>3, <2>1, HeldGrows DEF IInv
<1>7. ChainOK'
  <2>1. \A g \in DOMAIN state' : state'[g] \in ReplicaType /\ g \in Int
    BY <1>1, <1>4 DEF IInv, ChainOK
  <2>2. ASSUME NEW g \in Int, g <= Tip, NEW m \in Nodes, at'[m] <= g
        PROVE  g \in DOMAIN state'
    <3>1. at[m] <= g
      BY <1>2, <1>3, <2>2, SMT
    <3> QED BY <1>4, <2>2, <3>1 DEF IInv, ChainOK
  <2>3. ASSUME NEW m \in Nodes PROVE at'[m] \in DOMAIN state' /\ at'[m] \in Int
    <3>1. at'[m] \in Int /\ at'[m] <= Tip /\ at'[m] <= at'[m]
      BY <1>3, SMT
    <3> QED BY <2>2, <3>1
  <2>4. at' \in [Nodes -> Int]
    BY <1>3, <2>3
  <2>5. views' \in Seq(Views) /\ Tip' >= 1
    BY <1>1, <1>2 DEF IInv, ChainOK
  <2> QED BY <1>2, <1>3, <1>5, <2>1, <2>2, <2>3, <2>4, <2>5 DEF ChainOK
<1>8. DisksOK'
  BY SMTT(60), <1>1, <1>6 DEF IInv, DisksOK
<1>9. ClaimsOK'
  <2>1. /\ \A t \in txs : TxTrue(t, held')
        /\ \A m \in Nodes : \A c \in sweep[m].listing : sweep[m].height <= held'[m][c]
    BY SMTT(60), <1>6, ClaimsStay DEF IInv
  <2> QED BY <1>1, <2>1 DEF IInv, ClaimsOK
<1>10. RowsTrue(state[Tip])'
  <2>1. state[Tip] \in ReplicaType /\ RowsTrue(state[Tip])
    BY DEF IInv, ChainOK
  <2> QED BY Zenon, <1>5, <1>6, <2>1, RowsStay DEF IInv, RowsTrue
<1>11. PairOrdered(state[Tip], Tip)'
  BY <1>2, <1>5 DEF IInv, PairOrdered
<1>12. PairForward /\ HeldAtConfirm
  BY <1>2, <1>5, SameTip
<1> QED BY <1>7, <1>8, <1>9, <1>10, <1>11, <1>12 DEF IInv

SweepType == [phase : {"idle", "listed", "marked"}, height : Int, listing : SUBSET Classes]

\* A local step leaves the tip alone.
LEMMA LocalTip ==
    ASSUME IInv, Local
    PROVE  PairForward /\ HeldAtConfirm
<1>1. Tip' = Tip /\ state'[Tip'] = state[Tip]
  BY DEF Local, Tip
<1> QED BY <1>1, SameTip

\* Types of what a node works with, and a disk that shows a class now.
LEMMA NodeOK ==
    ASSUME IInv, NEW n \in Nodes
    PROVE  /\ disk[n] \subseteq Classes /\ flag[n] \subseteq Classes /\ at[n] \in Int
           /\ sweep[n] \in SweepType /\ Db(n) \in ReplicaType
           /\ disk \in [Nodes -> SUBSET Classes] /\ flag \in [Nodes -> SUBSET Classes]
           /\ sweep \in [Nodes -> SweepType]
  BY DEF IInv, ChainOK, DisksOK, ClaimsOK, SweepType, Db

\* The attestation of classes a node has on disk after the step, at the
\* height it is at, is true.
LEMMA SeenNow ==
    ASSUME IInv, Local, NEW n \in Nodes, NEW P, P \subseteq Classes,
           disk' \in [Nodes -> SUBSET Classes], P \subseteq disk'[n]
    PROVE  TxTrue(AttestTx(n, at[n], P), held') /\ AttestTx(n, at[n], P) \in AttestType
<1>1. at' = at /\ at[n] \in Int
  BY NodeOK DEF Local
<1>2. \A c \in P : held'[n][c] = at[n]
  BY <1>1 DEF Local, Observed
<1>3. \A c \in P : at[n] <= held'[n][c]
  BY <1>1, <1>2, SMT
<1>4. AttestTx(n, at[n], P) \in AttestType
  BY <1>1 DEF AttestTx, AttestType
<1>5. AttestTx(n, at[n], P).node = n /\ AttestTx(n, at[n], P).height = at[n]
        /\ AttestTx(n, at[n], P).present = P
  BY DEF AttestTx
<1> QED BY <1>1, <1>3, <1>4, <1>5 DEF TxTrue

LEMMA PassSteps ==
    ASSUME IInv, NEW n \in Nodes, Declare(n) \/ Confirm(n)
    PROVE  IInv' /\ PairForward /\ HeldAtConfirm
<1>0. Local /\ disk' = disk /\ flag' = flag /\ sweep' = sweep
  BY Zenon DEF Declare, Confirm
<1>1. PICK T : /\ txs' = txs \cup T
               /\ T \subseteq DeclareType \cup ConfirmType
  <2>1. Db(n) \in ReplicaType
    BY NodeOK
  <2>2. CASE Declare(n)
    <3>1. PICK to \in 1 .. Db(n).height : txs' = txs \cup {DeclareTx(Db(n).desired, to)}
      BY <2>2 DEF Declare, Submit
    <3>2. DeclareTx(Db(n).desired, to) \in DeclareType
      BY <2>1, <3>1, SMT DEF DeclareTx, DeclareType, ReplicaType
    <3> QED BY Zenon, <3>1, <3>2
  <2>3. CASE Confirm(n)
    <3>1. txs' = txs \cup {ConfirmTx(Db(n).desired)}
      BY <2>3 DEF Confirm, Submit
    <3>2. ConfirmTx(Db(n).desired) \in ConfirmType
      BY <2>1 DEF ConfirmTx, ConfirmType, ReplicaType
    <3> QED BY Zenon, <3>1, <3>2
  <2> QED BY <2>2, <2>3
<1>2. T \subseteq TxType /\ \A t \in T : TxTrue(t, held')
  <2>1. \A t \in T : t \notin AttestType
    BY <1>1 DEF DeclareType, ConfirmType, AttestType
  <2> QED BY <1>1, <2>1 DEF TxType, TxTrue
<1>3. IInv'
  BY Zenon, <1>0, <1>1, <1>2, NodeOK, LocalStep DEF SweepType
<1> QED BY <1>0, <1>3, LocalTip

\* Steps of the faults, the eviction and the repair submit nothing.
LEMMA QuietSteps ==
    ASSUME IInv, Local, NEW n \in Nodes, txs' \subseteq txs,
           disk' \in [Nodes -> SUBSET Classes], flag' \in [Nodes -> SUBSET Classes],
           sweep' = sweep \/ sweep' = [sweep EXCEPT ![n] = Idle]
    PROVE  IInv' /\ PairForward /\ HeldAtConfirm
<1>1. /\ sweep' \in [Nodes -> SweepType]
      /\ \A m \in Nodes : sweep'[m].listing = {} \/ sweep'[m] = sweep[m]
  BY NodeOK DEF Idle, SweepType
<1>2. IInv'
  <2> DEFINE T == {}
  <2>1. T \subseteq TxType /\ txs' \subseteq txs \cup T /\ \A t \in T : TxTrue(t, held')
    OBVIOUS
  <2> HIDE DEF T
  <2> QED BY Zenon, <1>1, <2>1, LocalStep DEF SweepType
<1> QED BY <1>2, LocalTip

LEMMA PullStep ==
    ASSUME IInv, NEW n \in Nodes, Pull(n)
    PROVE  IInv' /\ PairForward /\ HeldAtConfirm
<1>1. PICK got \in SUBSET Classes :
        /\ disk' = [disk EXCEPT ![n] = @ \cup got]
        /\ flag' = [flag EXCEPT ![n] = @ \cup got]
        /\ txs' = txs \cup Evidence(n, flag'[n], disk'[n])
        /\ sweep' = sweep /\ Local
  BY ZenonT(60) DEF Pull, Submit, Owed
<1>2. /\ disk' \in [Nodes -> SUBSET Classes] /\ flag' \in [Nodes -> SUBSET Classes]
      /\ flag'[n] \subseteq Classes /\ disk'[n] \subseteq Classes /\ at[n] \in Int
  BY SMTT(60), <1>1, NodeOK
<1> DEFINE added == flag'[n] \ Rows(Db(n), n)
           T == Evidence(n, flag'[n], disk'[n])
<1>3. T \subseteq {AttestTx(n, at[n], disk'[n]), SelfCheckTx(n, at[n], added, {})}
  BY DEF Evidence
<1>4. SelfCheckTx(n, at[n], added, {}) \in SelfCheckType
  BY SMTT(60), <1>2 DEF SelfCheckTx, SelfCheckType
<1>5. SelfCheckTx(n, at[n], added, {}) \notin AttestType
  BY SMTT(60) DEF SelfCheckTx, AttestType
<1>6. TxTrue(AttestTx(n, at[n], disk'[n]), held') /\ AttestTx(n, at[n], disk'[n]) \in AttestType
  <2> DEFINE P == disk'[n]
  <2>1. P \subseteq Classes /\ P \subseteq disk'[n]
    BY SMTT(60), <1>2
  <2> QED BY <1>1, <1>2, <2>1, SeenNow
<1>7. T \subseteq TxType /\ \A t \in T : TxTrue(t, held')
  BY <1>3, <1>4, <1>5, <1>6 DEF TxType, TxTrue
<1> HIDE DEF T
<1>8. txs' \subseteq txs \cup T
  BY SMTT(60), <1>1 DEF T
<1>9. IInv'
  BY Zenon, <1>1, <1>2, <1>7, <1>8, NodeOK, LocalStep DEF SweepType
<1> QED BY <1>1, <1>9, LocalTip

LEMMA SweepListStep ==
    ASSUME IInv, NEW n \in Nodes, SweepList(n) \/ SweepMark(n)
    PROVE  IInv' /\ PairForward /\ HeldAtConfirm
<1>1. Local /\ txs' = txs /\ disk' = disk
  BY DEF SweepList, SweepMark
<1>2. flag' \in [Nodes -> SUBSET Classes] /\ disk' \in [Nodes -> SUBSET Classes]
  BY <1>1, NodeOK DEF SweepList, SweepMark, SweepType
<1>3. sweep' \in [Nodes -> SweepType]
  BY SMTT(60), NodeOK DEF SweepList, SweepMark, SweepType
<1>4. \A m \in Nodes : \/ /\ sweep'[m].listing = sweep[m].listing
                            /\ sweep'[m].height = sweep[m].height
                         \/ \A c \in sweep'[m].listing : sweep'[m].height <= held'[m][c]
  <2>1. CASE SweepMark(n)
    BY SMTT(60), <2>1, NodeOK DEF SweepMark, SweepType
  <2>2. CASE SweepList(n)
    <3>1. /\ \A m \in Nodes : m # n => sweep'[m] = sweep[m]
          /\ sweep'[n].listing = disk[n] /\ sweep'[n].height = at[n]
      BY <2>2, NodeOK DEF SweepList
    <3>2. \A c \in disk[n] : at[n] <= held'[n][c]
      <4>1. at' = at /\ at[n] \in Int /\ disk[n] \subseteq Classes
        BY SMTT(60), <1>1, NodeOK DEF Local
      <4>2. \A c \in disk[n] : held'[n][c] = at[n]
        BY SMTT(60), <1>1, <4>1 DEF Local, Observed
      <4> QED BY <4>1, <4>2, SMT
    <3> QED BY SMTT(60), <3>1, <3>2
  <2> QED BY <2>1, <2>2
<1>5. IInv'
  <2> DEFINE T == {}
  <2>1. T \subseteq TxType /\ txs' \subseteq txs \cup T /\ \A t \in T : TxTrue(t, held')
    BY <1>1
  <2> HIDE DEF T
  <2> QED BY Zenon, <1>1, <1>2, <1>3, <1>4, <2>1, LocalStep DEF SweepType
<1> QED BY <1>1, <1>5, LocalTip

LEMMA SweepReportStep ==
    ASSUME IInv, NEW n \in Nodes, SweepReport(n)
    PROVE  IInv' /\ PairForward /\ HeldAtConfirm
<1> DEFINE h == sweep[n].height
           rows == Rows(Db(n), n)
<1>1. PICK gone \in SUBSET sweep[n].listing, due \in SUBSET sweep[n].listing :
        LET flagged == flag[n] \ gone
            check == SelfCheckTx(n, h, flagged \ rows, rows \ flagged)
        IN  /\ disk' = [disk EXCEPT ![n] = @ \ gone]
            /\ flag' = [flag EXCEPT ![n] = flagged]
            /\ sweep' = [sweep EXCEPT ![n] = Idle]
            /\ txs' \subseteq txs \cup {check, AttestTx(n, h, due)}
            /\ Local
  <2>1. PICK gone \in SUBSET sweep[n].listing :
          LET present == sweep[n].listing \ gone
              flagged == flag[n] \ gone
              due == {c \in present : Due(n, c, h)}
          IN  /\ disk' = [disk EXCEPT ![n] = @ \ gone]
              /\ flag' = [flag EXCEPT ![n] = flagged]
              /\ sweep' = [sweep EXCEPT ![n] = Idle]
              /\ txs' = txs \cup
                   ({t \in {SelfCheckTx(n, h, flagged \ rows, rows \ flagged)} : flagged # rows}
                      \cup {t \in {AttestTx(n, h, due)} : due # {}})
              /\ Local
    BY Zenon DEF SweepReport, Submit
  <2> DEFINE due == {c \in sweep[n].listing \ gone : Due(n, c, h)}
  <2>2. due \in SUBSET sweep[n].listing
    BY SMTT(60)
  <2> QED BY ZenonT(60), <2>1, <2>2
<1> DEFINE flagged == flag[n] \ gone
           check == SelfCheckTx(n, h, flagged \ rows, rows \ flagged)
           T == {check, AttestTx(n, h, due)}
<1>2. /\ h \in Int /\ sweep[n].listing \subseteq Classes /\ flag[n] \subseteq Classes
      /\ rows \subseteq Classes
  BY SMTT(60), NodeOK DEF SweepType, Rows
<1>3. check \in SelfCheckType /\ check \notin AttestType
  BY SMTT(60), <1>2 DEF SelfCheckTx, SelfCheckType, AttestType
<1>4. Local /\ disk' \in [Nodes -> SUBSET Classes] /\ flag' \in [Nodes -> SUBSET Classes]
  BY SMTT(60), <1>1, NodeOK
<1>5. \A c \in sweep[n].listing : h <= held'[n][c]
  <2>1. at' = at /\ at \in [Nodes -> Nat] /\ Observed
    BY SMTT(60), <1>4, AtNat DEF Local
  <2>2. at \in [Nodes -> Int] /\ at' \in [Nodes -> Nat] /\ \A m \in Nodes : at[m] <= at'[m]
    BY <2>1, SMTT(60)
  <2>3. /\ held' \in [Nodes -> [Classes -> Nat]]
        /\ \A m \in Nodes, c \in Classes : held[m][c] <= held'[m][c]
    BY SMTT(60), <1>4, <2>1, <2>2, HeldGrows DEF IInv
  <2> QED BY SMTT(60), <2>3, ClaimsStay DEF IInv
<1>6. AttestTx(n, h, due) \in AttestType /\ TxTrue(AttestTx(n, h, due), held')
  <2>1. /\ AttestTx(n, h, due).node = n /\ AttestTx(n, h, due).height = h
        /\ AttestTx(n, h, due).present = due
    BY SMTT(60) DEF AttestTx
  <2>2. AttestTx(n, h, due) \in AttestType
    BY SMTT(60), <1>2 DEF AttestTx, AttestType
  <2> QED BY SMTT(60), <1>5, <2>1, <2>2 DEF TxTrue
<1>7. T \subseteq TxType /\ \A t \in T : TxTrue(t, held')
  BY ZenonT(60), <1>3, <1>6 DEF TxType, TxTrue
<1>8. txs' \subseteq txs \cup T
  BY ZenonT(60), <1>1
<1> HIDE DEF T
<1>9. /\ sweep' \in [Nodes -> SweepType]
      /\ \A m \in Nodes : sweep'[m].listing = {} \/ sweep'[m] = sweep[m]
  BY SMTT(60), <1>1, NodeOK DEF Idle, SweepType
<1>10. IInv'
  BY ZenonT(60), <1>4, <1>7, <1>8, <1>9, LocalStep DEF SweepType
<1> QED BY <1>4, <1>10, LocalTip

LEMMA NextStep ==
    ASSUME IInv, Next
    PROVE  IInv' /\ PairForward /\ HeldAtConfirm
<1>1. ASSUME NEW t \in txs, NEW u \in txs, Decide(t, u)
      PROVE  IInv' /\ PairForward /\ HeldAtConfirm
  BY <1>1, DecideStep
<1>2. ASSUME NEW t \in txs, Lose(t)
      PROVE  IInv' /\ PairForward /\ HeldAtConfirm
  <2>1. Origin \in Nodes
    BY LifecycleAssumption
  <2> QED BY <1>2, <2>1, NodeOK, QuietSteps DEF Lose
<1>3. ASSUME NEW v \in Views, ChangeView(v)
      PROVE  IInv' /\ PairForward /\ HeldAtConfirm
  BY <1>3, ChangeViewStep
<1>4. ASSUME NEW n \in Nodes,
             Repair(n) \/ EvictPlan(n) \/ EvictDelete(n) \/ EvictMark(n) \/ Crash(n)
      PROVE  IInv' /\ PairForward /\ HeldAtConfirm
  <2>1. Owed(n) \subseteq Classes
    BY DEF Owed
  <2>2. /\ Local /\ txs' = txs /\ sweep' \in {sweep, [sweep EXCEPT ![n] = Idle]}
    BY <1>4, Zenon DEF Repair, EvictPlan, EvictDelete, EvictMark, Crash
  <2>3. disk' \in [Nodes -> SUBSET Classes] /\ flag' \in [Nodes -> SUBSET Classes]
    BY <1>4, <2>1, NodeOK DEF Repair, EvictPlan, EvictDelete, EvictMark, Crash
  <2> QED BY <2>2, <2>3, QuietSteps
<1>5. ASSUME NEW n \in Nodes,
             \/ Apply(n) \/ Declare(n) \/ Confirm(n) \/ Pull(n)
             \/ SweepList(n) \/ SweepMark(n) \/ SweepReport(n)
      PROVE  IInv' /\ PairForward /\ HeldAtConfirm
  BY SMTT(60), <1>5, ApplyStep, PassSteps, PullStep, SweepListStep, SweepReportStep
<1> QED BY <1>1, <1>2, <1>3, <1>4, <1>5 DEF Next

LEMMA StutterStep ==
    ASSUME IInv, UNCHANGED vars
    PROVE  IInv'
  BY DEF IInv, ChainOK, DisksOK, ClaimsOK, RowsTrue, PairOrdered, TxTrue, Tip, vars

LEMMA Invariance == Spec => []IInv
<1>1. IInv /\ [Next]_vars => IInv'
  BY NextStep, StutterStep
<1> QED BY InitIInv, <1>1, PTL DEF Spec

-----------------------------------------------------------------------------
(* The birth copies *)

EvictType == [phase : {"idle", "planned", "deleted"}, classes : SUBSET Classes]

\* Until the first confirmation no database that a node may still act on has
\* a confirmed view, nothing is planned for eviction, and the origin has every
\* class.
BirthInv ==
    /\ evict \in [Nodes -> EvictType]
    /\ state[Tip].confirmed = Null =>
        /\ \A h \in DOMAIN state : state[h].confirmed = Null
        /\ \A n \in Nodes : evict[n].classes = {}
        /\ disk[Origin] = Classes

\* A database without a confirmed view has no surplus: nothing is released or
\* evicted on its account, however old it is.
LEMMA NoSurplus ==
    ASSUME IInv, BirthInv, state[Tip].confirmed = Null, NEW n \in Nodes
    PROVE  Releasable(n) = {} /\ Evictable(n) = {}
<1>1. Db(n).confirmed = Null
  BY DEF IInv, ChainOK, BirthInv, Db
<1>2. Surplus(n) = {}
  BY <1>1 DEF Surplus, Protects
<1> QED BY <1>2 DEF Releasable, Evictable

\* An eviction keeps to its phases, and plans only what a database allows.
LEMMA EvictStep ==
    ASSUME IInv, BirthInv, Next
    PROVE  /\ evict' \in [Nodes -> EvictType]
           /\ state[Tip].confirmed = Null => \A n \in Nodes : evict'[n].classes = {}
<1>1. evict \in [Nodes -> EvictType]
  BY DEF BirthInv
<1>2. None \in EvictType /\ None.classes = {}
  BY DEF None, EvictType
<1>3. ASSUME NEW n \in Nodes, EvictPlan(n)
      PROVE  /\ evict' \in [Nodes -> EvictType]
             /\ state[Tip].confirmed = Null => \A m \in Nodes : evict'[m].classes = {}
  <2>1. PICK gone \in SUBSET (disk[n] \cap Evictable(n)) :
          gone # {} /\ evict' = [evict EXCEPT ![n] = [phase |-> "planned", classes |-> gone]]
    BY <1>3, Zenon DEF EvictPlan
  <2>2. gone \in SUBSET Classes
    BY <2>1, Zenon DEF Evictable, Surplus
  <2>3. [phase |-> "planned", classes |-> gone] \in EvictType
    BY <2>2 DEF EvictType
  <2>4. evict' \in [Nodes -> EvictType]
    BY <1>1, <2>1, <2>3, Zenon
  <2>5. state[Tip].confirmed # Null
    BY <2>1, NoSurplus, Zenon
  <2> QED BY <2>4, <2>5, Zenon
<1>4. ASSUME NEW n \in Nodes, EvictDelete(n)
      PROVE  /\ evict' \in [Nodes -> EvictType]
             /\ \A m \in Nodes : evict'[m].classes = evict[m].classes
  <2>1. evict' = [evict EXCEPT ![n].phase = "deleted"]
    BY <1>4, Zenon DEF EvictDelete
  <2> QED BY <1>1, <2>1 DEF EvictType
<1>5. ASSUME NEW n \in Nodes, evict' = [evict EXCEPT ![n] = None]
      PROVE  /\ evict' \in [Nodes -> EvictType]
             /\ \A m \in Nodes : evict'[m].classes \in {evict[m].classes, {}}
  BY <1>1, <1>2, <1>5, Zenon
<1>6. ASSUME NEW n \in Nodes, EvictMark(n) \/ Crash(n)
      PROVE  evict' = [evict EXCEPT ![n] = None]
  BY <1>6, Zenon DEF EvictMark, Crash
<1>7. ASSUME NEW n \in Nodes,
             \/ Apply(n) \/ Declare(n) \/ Confirm(n) \/ Pull(n) \/ Repair(n)
             \/ SweepList(n) \/ SweepMark(n) \/ SweepReport(n)
      PROVE  evict' = evict
  BY <1>7, Zenon DEF Apply, Declare, Confirm, Pull, Repair, SweepList, SweepMark, SweepReport
<1>8. ASSUME NEW t, NEW u, NEW v, Decide(t, u) \/ ChangeView(v) \/ Lose(t)
      PROVE  evict' = evict
  BY <1>8, Zenon DEF Decide, ChangeView, Decided, Lose
<1>9. state[Tip].confirmed = Null => \A n \in Nodes : evict[n].classes = {}
  BY DEF BirthInv
<1> QED
  BY <1>1, <1>3, <1>4, <1>5, <1>6, <1>7, <1>8, <1>9, ZenonT(30) DEF Next

\* Every step keeps the birth copies: a block with no confirmation extends the
\* databases without one, and a deletion needs a surplus.
LEMMA BirthStep ==
    ASSUME IInv, BirthInv, Next
    PROVE  BirthInv'
<1>1. IInv' /\ PairForward
  BY NextStep
<1>2. SUFFICES ASSUME (state[Tip].confirmed = Null)'
               PROVE  /\ \A h \in DOMAIN state' : state'[h].confirmed = Null
                      /\ \A n \in Nodes : evict'[n].classes = {}
                      /\ disk'[Origin] = Classes
  BY EvictStep, Zenon DEF BirthInv
<1>3. state[Tip].confirmed = Null
  <2>1. state[Tip].confirmed <= state'[Tip'].confirmed
    BY <1>1, Zenon DEF PairForward
  <2>2. state'[Tip'].confirmed = 0
    BY <1>2, Zenon DEF Null
  <2>3. state[Tip] \in ReplicaType /\ 0 <= state[Tip].confirmed
    BY Zenon DEF IInv, ChainOK, PairOrdered
  <2>4. state[Tip].confirmed \in Int
    BY <2>3, Zenon DEF ReplicaType
  <2> QED BY <2>1, <2>2, <2>3, <2>4 DEF Null
<1>13. \A n \in Nodes : evict[n].classes = {} /\ evict'[n].classes = {}
  BY <1>3, EvictStep, Zenon DEF BirthInv
<1>4. /\ \A h \in DOMAIN state : state[h].confirmed = Null
      /\ disk[Origin] = Classes /\ Origin \in Nodes
      /\ disk \in [Nodes -> SUBSET Classes] /\ views \in Seq(Views)
  BY <1>3, LifecycleAssumption DEF BirthInv, IInv, DisksOK, ChainOK
<1>5. ASSUME NEW d, NEW v, Decided(d, v)
      PROVE  /\ \A h \in DOMAIN state' : state'[h].confirmed = Null
             /\ disk'[Origin] = Classes
  <2>1. /\ DOMAIN state' = DOMAIN state \cup {Tip + 1} /\ disk' = disk
        /\ \A h \in DOMAIN state : h # Tip + 1 => state'[h] = state[h]
        /\ Len(views') = Tip + 1
    BY <1>4, <1>5 DEF Decided, Tip
  <2> QED BY <1>2, <1>4, <2>1 DEF Tip
<1>6. ASSUME NEW n \in Nodes, Apply(n)
      PROVE  /\ \A h \in DOMAIN state' : state'[h].confirmed = Null
             /\ disk'[Origin] = Classes
  BY <1>4, <1>6 DEF Apply
<1>7. ASSUME state' = state, disk' \in [Nodes -> SUBSET Classes], disk[Origin] \subseteq disk'[Origin]
      PROVE  /\ \A h \in DOMAIN state' : state'[h].confirmed = Null
             /\ disk'[Origin] = Classes
  BY <1>4, <1>7, Zenon
<1>8. disk' \in [Nodes -> SUBSET Classes]
  BY <1>1 DEF IInv, DisksOK
<1>9. ASSUME NEW n \in Nodes,
             \/ Declare(n) \/ Confirm(n) \/ Pull(n) \/ Repair(n) \/ SweepList(n) \/ SweepMark(n)
             \/ EvictPlan(n) \/ EvictMark(n)
      PROVE  state' = state /\ disk[Origin] \subseteq disk'[Origin]
  BY <1>4, <1>9, ZenonT(30) DEF Declare, Confirm, Pull, Repair, SweepList, SweepMark,
      EvictPlan, EvictMark, Local
<1>10. ASSUME NEW n \in Nodes, SweepReport(n) \/ EvictDelete(n) \/ Crash(n)
       PROVE  state' = state /\ disk[Origin] \subseteq disk'[Origin]
  <2>1. Releasable(n) = {} /\ Deleting(n) = {} /\ evict[n].classes = {}
    BY <1>3, <1>13, NoSurplus DEF Deleting
  <2>2. CASE SweepReport(n)
    BY <1>4, <2>1, <2>2, ZenonT(30) DEF SweepReport, Local
  <2>3. CASE EvictDelete(n)
    BY <1>4, <2>1, <2>3, ZenonT(30) DEF EvictDelete, Local
  <2>4. CASE Crash(n)
    BY <1>4, <2>1, <2>4, ZenonT(30) DEF Crash, Local
  <2> QED BY <1>10, <2>2, <2>3, <2>4, Zenon
<1>11. ASSUME NEW t, Lose(t)
       PROVE  state' = state /\ disk[Origin] \subseteq disk'[Origin]
  BY <1>11 DEF Lose, Local
<1> QED
  BY <1>5, <1>6, <1>7, <1>8, <1>9, <1>10, <1>11, <1>13, ZenonT(30) DEF Next, Decide, ChangeView

-----------------------------------------------------------------------------
(* The theorems *)

\* No inventory row claims a file was seen later than the node had it: the
\* sweep's and the evidence lane's rule of reading the height before the disk
\* holds through every delay and reordering of the reports.
THEOREM TrueStamps == Spec => []StampsAreTrue
<1>1. IInv => StampsAreTrue
  BY DEF IInv, RowsTrue, StampsAreTrue
<1> QED BY <1>1, Invariance, PTL

\* The compare-and-swaps of apply_declare and apply_confirm keep the handoff
\* pair ordered and moving forward.
THEOREM ForwardGoals == Spec => GoalsMoveForward
<1>1. IInv /\ [Next]_vars => [PairForward]_vars
  BY NextStep
<1> QED BY <1>1, Invariance, PTL DEF Spec, GoalsMoveForward

\* apply_confirm never rests on a node that had not held its class within the
\* recency window.
THEOREM HeldConfirmations == Spec => ConfirmedWasHeld
<1>1. IInv /\ [Next]_vars => [HeldAtConfirm]_vars
  BY NextStep
<1> QED BY <1>1, Invariance, PTL DEF Spec, ConfirmedWasHeld

\* Until a blob's first placement is confirmed, the node that took the upload
\* keeps every class of it: Protects spares an unconfirmed blob, and a late
\* database can only be one from before the confirmation.
THEOREM OriginKeepsBirthCopies == Spec => []BirthCopies
<1>1. Init => BirthInv
  <2> SUFFICES ASSUME Init PROVE BirthInv
    OBVIOUS
  <2>1. None \in EvictType /\ None.classes = {}
    BY DEF None, EvictType
  <2>2. evict \in [Nodes -> EvictType] /\ \A n \in Nodes : evict[n].classes = {}
    BY <2>1, Zenon DEF Init
  <2>3. /\ \A h \in DOMAIN state : state[h].confirmed = Null
        /\ disk[Origin] = Classes
    BY LifecycleAssumption, Zenon DEF Init, ApplyBlobInsert
  <2> QED BY <2>2, <2>3, Zenon DEF BirthInv
<1>2. IInv /\ BirthInv /\ [Next]_vars => BirthInv'
  BY BirthStep DEF BirthInv, vars, Tip
<1>3. BirthInv => BirthCopies
  BY DEF BirthInv, BirthCopies
<1> QED BY <1>1, <1>2, <1>3, Invariance, PTL DEF Spec
=============================================================================
