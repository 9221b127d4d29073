--------------------------- MODULE BlobLifecycle ---------------------------
(***************************************************************************)
(* The lifecycle of one stored blob: the handoff pair (placement_height,   *)
(* desired_placement_height) and the transactions that move it             *)
(* (hopnet-storage/src/lifecycle.rs), the inventory rows nodes report      *)
(* about their own disks (store.rs), and the local work on those disks:    *)
(* pulls (engine/mod.rs, engine/evidence.rs), the disk-truth sweep with    *)
(* its surplus release, and the watermark eviction (storage_host/jobs.rs). *)
(*                                                                         *)
(* The model starts at the block that inserted the blob.  Later blocks     *)
(* carry one or two transactions.  Every node executes the same blocks, so *)
(* a node's database is the replicated state at the height it has reached: *)
(* a node may act on a database that is behind.  Submitted transactions    *)
(* are decided late, in any order, or never.                               *)
(***************************************************************************)
EXTENDS Integers, Sequences, FiniteSets, FiniteSetsExt

CONSTANTS
    Nodes,
    Origin,       \* the node the blob is uploaded to
    Classes,      \* the blob's fragment classes
    K,            \* classes enough to rebuild any other
    Views,        \* storage views: [members, assign], assign from Classes
    FirstView,    \* the view at height 1
    Follows,      \* the pairs of views of which the second may follow the first
    Window,       \* ATTESTATION_RECENCY_HEIGHTS
    Refresh,      \* RefreshPolicy::threshold
    MaxHeight,    \* bound: last decided height
    MaxLag,       \* bound: heights a node may be behind
    MaxPending,   \* bound: submitted transactions waiting
    MaxViews,     \* bound: view transitions, the first included
    MaxReports,   \* bound: sweeps, and pulls that move nothing
    MaxFaults     \* bound: crashes and lost transactions

ASSUME LifecycleAssumption ==
    /\ IsFiniteSet(Nodes) /\ Origin \in Nodes
    /\ IsFiniteSet(Classes) /\ Classes # {}
    /\ K \in 1..Cardinality(Classes)
    /\ Views \subseteq [members : SUBSET Nodes, assign : [Classes -> Nodes]]
    /\ FirstView \in Views /\ Follows \subseteq Views \X Views
    /\ Window \in Nat /\ Refresh \in 0..Window
    /\ MaxHeight \in Nat /\ MaxLag \in Nat /\ MaxPending \in Nat
    /\ MaxViews \in Nat /\ MaxReports \in Nat /\ MaxFaults \in Nat

VARIABLES
    views,   \* views[h]: the storage view at height h; its last index is the tip
    state,   \* state[h]: the database after block h, for the heights some node is at or before
    at,      \* at[n]: the last height node n has applied
    txs,     \* submitted transactions that are not decided
    disk,    \* disk[n]: classes whose fragment file n has
    flag,    \* flag[n]: classes marked stored_locally on n
    sweep,   \* sweep[n]: the listing a running sweep works from
    evict,   \* evict[n]: the classes a running eviction deletes, and how far it is
    held,    \* history: the last height at which n had the class on disk
    reports, \* sweeps, and pulls that moved nothing
    faults   \* faults so far

vars == <<views, state, at, txs, disk, flag, sweep, evict, held, reports, faults>>

-----------------------------------------------------------------------------
(* The replicated state and the reads of it *)

NoRow == -1       \* no fragment_inventory row
Null == 0         \* a row without verified_height; a NULL placement_height

Tip == Len(views)
Db(n) == state[at[n]]

SnapshotAt(h) == views[h]
IsTransition(h) == h > 1 => views[h] # views[h - 1]
TransitionIn(from, to) == \E h \in from + 1 .. to : IsTransition(h)
IsLatestTransition(h, d) == IsTransition(h) /\ ~TransitionIn(h, d.height)

\* The goal's assignment (pull_target).
Goal(d) == SnapshotAt(d.desired).assign
InFlight(d) == d.confirmed # d.desired

\* A recent row: disk-verified within the window of height h.
Recent(row, h) == row # NoRow /\ row # Null /\ row >= h - Window

\* Mutant: any node's recent row counts as evidence.
EvidenceOfAnyone(d, assign, h) ==
    \A c \in Classes : \E n \in Nodes : Recent(d.inv[n][c], h)

EvidenceComplete(d, assign, h) ==
    \A c \in Classes : Recent(d.inv[assign[c]][c], h)

\* Mutant: the confirmed view stops protecting.
ProtectsGoalOnly(d, n, c) ==
    \/ d.confirmed = Null
    \/ \E h \in d.confirmed + 1 .. d.desired : SnapshotAt(h).assign[c] = n

\* Mutant: an unconfirmed blob is protected at its goal only.
ProtectsDesired(d, n, c) == SnapshotAt(d.desired).assign[c] = n

\* The protection predicate: the epochs of the confirmed view and of every
\* declared one since.
Protects(d, n, c) ==
    \/ d.confirmed = Null
    \/ SnapshotAt(d.confirmed).assign[c] = n
    \/ \E h \in d.confirmed + 1 .. d.desired : SnapshotAt(h).assign[c] = n

Members(d) == SnapshotAt(d.height).members
OtherHolders(d, n, c) == {m \in Members(d) \ {n} : d.inv[m][c] # NoRow}
RecentHolders(d, n, c) == {m \in Members(d) \ {n} : Recent(d.inv[m][c], d.height)}

-----------------------------------------------------------------------------
(* The transactions and their apply handlers; h is the deciding height *)

DeclareTx(from, to) == [kind |-> "declare", from |-> from, to |-> to]
ConfirmTx(h) == [kind |-> "confirm", height |-> h]
SelfCheckTx(n, h, added, removed) ==
    [kind |-> "selfcheck", node |-> n, height |-> h, added |-> added, removed |-> removed]
AttestTx(n, h, present) ==
    [kind |-> "attest", node |-> n, height |-> h, present |-> present]

\* The row of a blob inserted at height h, before any inventory.
ApplyBlobInsert(h) ==
    [height |-> h, desired |-> h, confirmed |-> Null,
     inv |-> [n \in Nodes |-> [c \in Classes |-> NoRow]]]

DeclareHolds(d, t, h) ==
    /\ d.desired = t.from
    /\ t.from < t.to /\ t.to < h
    /\ TransitionIn(t.from, t.to)

ApplyDeclare(d, t, h) == IF DeclareHolds(d, t, h) THEN [d EXCEPT !.desired = t.to] ELSE d

ConfirmHolds(d, t, h) ==
    /\ d.desired = t.height
    /\ d.confirmed # t.height
    /\ EvidenceComplete(d, SnapshotAt(t.height).assign, h)

\* Mutant: the deciding height is recorded as the placement.
ConfirmAtDecision(d, t, h) == IF ConfirmHolds(d, t, h) THEN [d EXCEPT !.confirmed = h] ELSE d

ApplyConfirm(d, t, h) == IF ConfirmHolds(d, t, h) THEN [d EXCEPT !.confirmed = t.height] ELSE d

\* Removals first, each only if the row was not verified after the report's
\* height; then additions, which leave an existing row as it is.
Removed(row, h) == IF row <= h THEN NoRow ELSE row
Asserted(row) == IF row = NoRow THEN Null ELSE row

SelfChecked(row, c, t) ==
    LET kept == IF c \in t.removed THEN Removed(row, t.height) ELSE row
    IN  IF c \in t.added THEN Asserted(kept) ELSE kept

ApplySelfCheck(d, t) ==
    [d EXCEPT !.inv[t.node] = [c \in Classes |-> SelfChecked(@[c], c, t)]]

\* Mutant: the deciding height is stamped.
StampedAtDecision(row, t, h) == Max({row, h})

\* A stamp is capped at the deciding height, only rises, and only on an
\* existing row.
Stamped(row, t, h) == Max({row, Min({t.height, h})})

ApplyAttestation(d, t, h) ==
    [d EXCEPT !.inv[t.node] = [c \in Classes |->
        IF c \in t.present /\ @[c] # NoRow THEN Stamped(@[c], t, h) ELSE @[c]]]

Executed(d, t, h) ==
    CASE t.kind = "declare"   -> ApplyDeclare(d, t, h)
      [] t.kind = "confirm"   -> ApplyConfirm(d, t, h)
      [] t.kind = "selfcheck" -> ApplySelfCheck(d, t)
      [] t.kind = "attest"    -> ApplyAttestation(d, t, h)

-----------------------------------------------------------------------------
Idle == [phase |-> "idle", height |-> 0, listing |-> {}]
None == [phase |-> "idle", classes |-> {}]

Init ==
    /\ views = <<FirstView>>
    /\ state = [h \in {1} |-> ApplyBlobInsert(1)]
    /\ at = [n \in Nodes |-> 1]
    /\ txs = {}
    /\ disk = [n \in Nodes |-> IF n = Origin THEN Classes ELSE {}]
    /\ flag = disk
    /\ sweep = [n \in Nodes |-> Idle] /\ evict = [n \in Nodes |-> None]
    /\ held = [n \in Nodes |-> [c \in Classes |-> IF n = Origin THEN 1 ELSE 0]]
    /\ reports = 0 /\ faults = 0

Submit(T) ==
    /\ txs' = txs \cup T
    /\ Cardinality(txs') <= MaxPending

\* The history variable, last in every action.
Observed == held' = [n \in Nodes |-> [c \in Classes |->
    IF c \in disk'[n] THEN at'[n] ELSE held[n][c]]]

\* No block is decided or applied.
Local == UNCHANGED <<views, state, at>> /\ Observed
Report == reports < MaxReports /\ reports' = reports + 1
Fault == faults < MaxFaults /\ faults' = faults + 1

-----------------------------------------------------------------------------
(* Blocks *)

\* Block Tip + 1 is decided with database d and view v after it.
Decided(d, v) ==
    /\ Tip < MaxHeight
    /\ \A n \in Nodes : Tip - at[n] < MaxLag
    /\ views' = Append(views, v)
    /\ state' = [h \in DOMAIN state \cup {Tip + 1} |->
                    IF h = Tip + 1 THEN [d EXCEPT !.height = Tip + 1] ELSE state[h]]
    /\ UNCHANGED <<at, disk, flag, sweep, evict, reports, faults>> /\ Observed

\* The block carries t, and after it u when they differ.
Decide(t, u) ==
    LET h == Tip + 1
        first == Executed(state[Tip], t, h)
    IN  /\ txs' = txs \ {t, u}
        /\ Decided(IF u = t THEN first ELSE Executed(first, u, h), views[Tip])

\* A metrics or availability transaction moves the derived storage view.
ChangeView(v) ==
    /\ <<views[Tip], v>> \in Follows
    /\ Cardinality({h \in 1 .. Tip : IsTransition(h)}) < MaxViews
    /\ Decided(state[Tip], v)
    /\ UNCHANGED txs

\* Node n applies its next block.
Apply(n) ==
    /\ at[n] < Tip
    /\ at' = [at EXCEPT ![n] = @ + 1]
    /\ state' = [h \in {g \in DOMAIN state : \E m \in Nodes : at'[m] <= g} |-> state[h]]
    /\ UNCHANGED <<views, txs, disk, flag, sweep, evict, reports, faults>> /\ Observed

-----------------------------------------------------------------------------
(* The staleness pass and the fulfillment pass *)

Declare(n) ==
    LET d == Db(n) IN
    \E to \in 1 .. d.height :
        /\ IsLatestTransition(to, d)
        /\ d.desired < to
        /\ Submit({DeclareTx(d.desired, to)})
        /\ UNCHANGED <<disk, flag, sweep, evict, reports, faults>> /\ Local

Confirm(n) ==
    LET d == Db(n) IN
    /\ InFlight(d)
    /\ EvidenceComplete(d, Goal(d), d.height)
    /\ Submit({ConfirmTx(d.desired)})
    /\ UNCHANGED <<disk, flag, sweep, evict, reports, faults>> /\ Local

-----------------------------------------------------------------------------
(* Pulls *)

Owed(n) == {c \in Classes : Goal(Db(n))[c] = n /\ c \notin flag[n]}

OnDisks == {c \in Classes : \E n \in Nodes : c \in disk[n]}
Served(n, c) == \E m \in Nodes \ {n} : c \in disk[m]
Sourceable(n, c) == Served(n, c) \/ Cardinality(OnDisks) >= K

Rows(d, n) == {c \in Classes : d.inv[n][c] # NoRow}

\* The evidence lane: belief for the flagged classes without a row, then the
\* disk's truth; nothing when the disk shows nothing.
Evidence(n, flagged, present) ==
    LET added == flagged \ Rows(Db(n), n)
    IN  IF present = {} THEN {}
        ELSE {AttestTx(n, at[n], present)}
               \cup {t \in {SelfCheckTx(n, at[n], added, {})} : added # {}}

\* One pull check, of which the fetches and rebuilds in got succeed.
Pull(n) ==
    \E got \in SUBSET {c \in Owed(n) : Sourceable(n, c)} :
        LET d == Db(n)
            birthHolder == d.confirmed = Null /\ flag[n] # {}
        IN  /\ InFlight(d) /\ (got # {} \/ birthHolder)
            /\ disk' = [disk EXCEPT ![n] = @ \cup got]
            /\ flag' = [flag EXCEPT ![n] = @ \cup got]
            /\ IF got = {} THEN Report ELSE UNCHANGED reports
            /\ Submit(Evidence(n, flag'[n], disk'[n]))
            /\ UNCHANGED <<sweep, evict, faults>> /\ Local

\* A pull or re-encode that owes no evidence: the goal is confirmed.
Repair(n) ==
    \E c \in Owed(n) :
        /\ ~InFlight(Db(n)) /\ Sourceable(n, c)
        /\ disk' = [disk EXCEPT ![n] = @ \cup {c}]
        /\ flag' = [flag EXCEPT ![n] = @ \cup {c}]
        /\ UNCHANGED <<txs, sweep, evict, reports, faults>> /\ Local

-----------------------------------------------------------------------------
(* The disk-truth sweep *)

\* The height is read before the files are listed.
SweepList(n) ==
    /\ sweep[n] = Idle
    /\ sweep' = [sweep EXCEPT ![n] = [phase |-> "listed", height |-> at[n], listing |-> disk[n]]]
    /\ Report
    /\ UNCHANGED <<txs, disk, flag, evict, faults>> /\ Local

\* The flags that disagree with the listing are repaired.
SweepMark(n) ==
    /\ sweep[n].phase = "listed"
    /\ sweep' = [sweep EXCEPT ![n].phase = "marked"]
    /\ flag' = [flag EXCEPT ![n] = sweep[n].listing]
    /\ UNCHANGED <<txs, disk, evict, reports, faults>> /\ Local

Surplus(n) == {c \in Classes : ~Protects(Db(n), n, c)}
Releasable(n) == {c \in Surplus(n) : RecentHolders(Db(n), n, c) # {}}
Evictable(n) == {c \in Surplus(n) : OtherHolders(Db(n), n, c) # {}}

\* split_present: no stamp yet, or one older than the refresh threshold.
Due(n, c, h) == LET row == Db(n).inv[n][c] IN row \in {NoRow, Null} \/ h - row >= Refresh

\* Surplus past its grace is released; the flags' differential and the due
\* stamps of what was listed are reported at the sweep's height.
SweepReport(n) ==
    \E gone \in SUBSET (sweep[n].listing \cap Releasable(n)) :
        LET h == sweep[n].height
            present == sweep[n].listing \ gone
            flagged == flag[n] \ gone
            rows == Rows(Db(n), n)
            due == {c \in present : Due(n, c, h)}
        IN  /\ sweep[n].phase = "marked"
            /\ disk' = [disk EXCEPT ![n] = @ \ gone]
            /\ flag' = [flag EXCEPT ![n] = flagged]
            /\ sweep' = [sweep EXCEPT ![n] = Idle]
            /\ Submit({t \in {SelfCheckTx(n, h, flagged \ rows, rows \ flagged)} : flagged # rows}
                        \cup {t \in {AttestTx(n, h, due)} : due # {}})
            /\ UNCHANGED <<evict, reports, faults>> /\ Local

\* Disk pressure: no recency is asked of the other holder, and the removal
\* waits for the next sweep.  The plan is made under one read of the database,
\* the files are deleted by it later, and the flags are cleared after that; a
\* file that cannot be deleted is left out like one that was not planned.
EvictPlan(n) ==
    /\ evict[n] = None
    /\ \E gone \in SUBSET (disk[n] \cap Evictable(n)) :
         /\ gone # {}
         /\ evict' = [evict EXCEPT ![n] = [phase |-> "planned", classes |-> gone]]
    /\ UNCHANGED <<txs, disk, flag, sweep, reports, faults>> /\ Local

EvictDelete(n) ==
    /\ evict[n].phase = "planned"
    /\ disk' = [disk EXCEPT ![n] = @ \ evict[n].classes]
    /\ evict' = [evict EXCEPT ![n].phase = "deleted"]
    /\ UNCHANGED <<txs, flag, sweep, reports, faults>> /\ Local

EvictMark(n) ==
    /\ evict[n].phase = "deleted"
    /\ flag' = [flag EXCEPT ![n] = @ \ evict[n].classes]
    /\ evict' = [evict EXCEPT ![n] = None]
    /\ UNCHANGED <<txs, disk, sweep, reports, faults>> /\ Local

-----------------------------------------------------------------------------
(* Faults *)

Deleting(n) == IF evict[n].phase = "planned" THEN evict[n].classes ELSE {}

\* A crash drops the running sweep and eviction; it may fall between a file
\* operation and the mark of it.
Crash(n) ==
    /\ Fault
    /\ sweep' = [sweep EXCEPT ![n] = Idle] /\ evict' = [evict EXCEPT ![n] = None]
    /\ \/ \E c \in Owed(n) : Sourceable(n, c) /\ disk' = [disk EXCEPT ![n] = @ \cup {c}]
       \/ \E gone \in SUBSET (Deleting(n) \cup Releasable(n)) :
              disk' = [disk EXCEPT ![n] = @ \ gone]
    /\ UNCHANGED <<txs, flag, reports>> /\ Local

Lose(t) ==
    /\ Fault
    /\ txs' = txs \ {t}
    /\ UNCHANGED <<disk, flag, sweep, evict, reports>> /\ Local

Next ==
    \/ \E t, u \in txs : Decide(t, u)
    \/ \E t \in txs : Lose(t)
    \/ \E v \in Views : ChangeView(v)
    \/ \E n \in Nodes :
          \/ Apply(n) \/ Declare(n) \/ Confirm(n) \/ Pull(n) \/ Repair(n)
          \/ SweepList(n) \/ SweepMark(n) \/ SweepReport(n)
          \/ EvictPlan(n) \/ EvictDelete(n) \/ EvictMark(n) \/ Crash(n)

Spec == Init /\ [][Next]_vars

-----------------------------------------------------------------------------
(* Properties *)

Heights == 0 .. MaxHeight
Replica == [height : Heights, desired : Heights, confirmed : Heights,
            inv : [Nodes -> [Classes -> Heights \cup {NoRow}]]]

\* One replicated state per height some node still needs; nodes at such heights.
TypeOK ==
    /\ views \in Seq(Views) /\ Tip \in 1 .. MaxHeight
    /\ DOMAIN state \subseteq 1 .. MaxHeight
    /\ \A h \in DOMAIN state : state[h] \in Replica /\ state[h].height = h
    /\ at \in [Nodes -> DOMAIN state]
    /\ disk \in [Nodes -> SUBSET Classes] /\ flag \in [Nodes -> SUBSET Classes]
    /\ evict \in [Nodes -> [phase : {"idle", "planned", "deleted"}, classes : SUBSET Classes]]

\* A verified_height in the inventory is never later than the last height at
\* which the node really had the file, whatever was released, evicted or
\* decided late in between (store.rs apply_attestation, sweep step 6).
StampsAreTrue ==
    \A n \in Nodes, c \in Classes : state[Tip].inv[n][c] <= held[n][c]

\* Until its first confirmation a blob keeps every class on the node that took
\* the upload: no release or eviction, however late its database, touches it.
BirthCopies == state[Tip].confirmed = Null => disk[Origin] = Classes

\* Release and eviction never delete the last copy of a class.
NoClassLost == OnDisks = Classes

\* What block-lifecycle.md says of stale rows: a class that an eviction chain
\* kills traces to a fault.
LossNeedsFault == faults = 0 => NoClassLost

\* The handoff pair only moves forward, and never past what was declared or
\* decided, whatever order declares and confirms are decided in.
PairForward ==
    LET d == state[Tip]
        e == state'[Tip']
    IN  /\ d.confirmed <= e.confirmed /\ d.desired <= e.desired
        /\ e.confirmed <= e.desired /\ e.desired <= Tip'
GoalsMoveForward == [][PairForward]_vars

\* When a placement is confirmed, every responsible node had its class on disk
\* within the recency window of the deciding height.
HeldAtConfirm ==
    LET e == state'[Tip']
    IN  e.confirmed # state[Tip].confirmed =>
            \A c \in Classes : held[views[e.confirmed].assign[c]][c] >= Tip' - Window
ConfirmedWasHeld == [][HeldAtConfirm]_vars
=============================================================================
