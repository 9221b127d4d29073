---------------------------- MODULE PhotoPublish ----------------------------
(***************************************************************************)
(* The photo daemon's publish queue (crates/ingress-core), for one photo.  *)
(* The daemon mirrors a Photos library into the mesh.  It keeps a row per  *)
(* photo and per resource, and beside each fact a marker of what the mesh  *)
(* was last told; where the two differ, a queue owes the mesh a            *)
(* transaction: publish, restore, edit or delete.  A pass claims the photo *)
(* from its queues, asks the node for its standing, submits in that order, *)
(* marks what was answered, and evicts from the spool the bytes the mesh   *)
(* has.  Answers get lost: what was submitted may be decided later, or     *)
(* never.  The original's own row, fetched once and never edited, is left  *)
(* out; "edited" and "thumb" stand for the rows an edit changes.           *)
(***************************************************************************)
EXTENDS Integers

CONSTANTS
    Renders,    \* the photo's edited renders are 1..Renders, 0 is the original
    RetryCap,   \* attempts after which a ledger gives up until the next scan
    MaxOpen,    \* bound on submitted transactions not yet decided
    MaxEvents,  \* bound on what the user does in Photos
    MaxOutages  \* bound on failed calls, lost answers and crashes

ASSUME PhotoAssumption == Renders \in Nat /\ MaxOpen \in Nat

VARIABLES
    render,     \* what Photos shows of it
    photo,      \* the photos row
    attempts,   \* its failed attempts, by ledger
    res,        \* res[k]: the photo_resources row of kind k
    spool,      \* the <<kind, render>> whose bytes are in the spool
    remote,     \* the photo in the mesh: [added, deleted, holds]
    undecided,  \* submitted transactions
    pass,       \* the running pass
    doubt,      \* ledgers whose last submission went unanswered
    overtaken,  \* history: the user acted on the photo while in doubt
    events, outages

photoVars == <<render, photo, attempts, res, spool, remote, undecided, pass, doubt,
               overtaken, events, outages>>

Kinds == {"edited", "thumb"}
Ledgers == {"publish", "edit", "tombstone"}
Ops == {"publish", "restore", "edit", "delete"}
None == -1
LedgerOf(op) == IF op \in {"restore", "delete"} THEN "tombstone" ELSE op

\* state "marker": removed_at is set, the removal is still owed to the mesh
NoRow == [state |-> "none", content |-> None, written |-> FALSE, told |-> None]
PendingRow == [NoRow EXCEPT !.state = "live"]
PassAt(at, todo) == [at |-> at, todo |-> todo, tx |-> 0, sent |-> <<>>, answer |-> "none"]
Idle == PassAt("idle", {})

\* The daemon starts on a photo it has just discovered, or on one that it
\* brought into the mesh earlier, deleted since or not
PhotoInit ==
    /\ render \in 0..Renders
    /\ \E told, gone \in BOOLEAN :
        /\ gone => told
        /\ photo = [kept |-> TRUE, deleted |-> gone, materialized |-> told,
                    published |-> told, tombstone |-> gone]
        /\ res = [k \in Kinds |->
                    IF k = "edited" /\ render = 0 THEN NoRow
                    ELSE IF told THEN [PendingRow EXCEPT !.content = render,
                                                         !.written = TRUE, !.told = render]
                    ELSE PendingRow]
        /\ remote = [added |-> told, deleted |-> gone,
                     holds |-> [k \in Kinds |-> res[k].content]]
    /\ attempts = [l \in Ledgers |-> 0]
    /\ spool = {}
    /\ undecided = {}
    /\ pass = Idle
    /\ doubt = {}
    /\ overtaken = FALSE
    /\ events = 0 /\ outages = 0

Failure == outages < MaxOutages /\ outages' = outages + 1

-----------------------------------------------------------------------------
(* Photos and the daemon's rows.  Events for a photo in a pass are deferred. *)

\* A submission that nobody waits for any more, decided or not
Unsure == doubt # {} \/ \E t \in undecided : t.id # pass.tx
Act == events < MaxEvents /\ events' = events + 1
Noted == overtaken' = (overtaken \/ Unsure)

\* The completion guard counts every row, the markers too
Complete(rs) == \A k \in Kinds : rs[k].state # "none" => rs[k].written

\* soft_remove_resource where the mesh has the row's bytes, delete_resource_row
\* where it never had any
RetiredWithoutMarker(row) == NoRow
Retired(row) == IF row.told = None THEN NoRow
                ELSE [row EXCEPT !.state = "marker", !.content = None]

\* plan_changes and the resource transaction of apply_change, for render v.
\* A re-edit shows only in the size of its file: resized says whether the
\* descriptor gives a size other than that of the bytes the row holds.
Revise(v, resized) ==
    LET e == res["edited"]
        add == v > 0 /\ e.state = "none"
        reopen == resized /\ v > 0 /\ e.state = "live" /\ e.written /\ e.content # v
        remove == v = 0 /\ e.state = "live"
        thumb == (add \/ reopen \/ remove) /\ res["thumb"].written
    IN  /\ res' = [res EXCEPT
            !["edited"] = IF add THEN PendingRow
                          ELSE IF reopen THEN [@ EXCEPT !.written = FALSE]
                          ELSE IF remove THEN Retired(@) ELSE @,
            !["thumb"].written = @ /\ ~thumb]
        /\ spool' = IF remove THEN spool \ {<<"edited", e.content>>} ELSE spool
        /\ photo' = [photo EXCEPT !.deleted = FALSE,
            !.materialized = IF add \/ reopen \/ thumb THEN FALSE
                             ELSE @ \/ (remove /\ Complete(res'))]

Applying == /\ pass.at = "idle" /\ photo.kept /\ Noted
            /\ UNCHANGED <<attempts, remote, undecided, pass, doubt, outages>>

\* apply_change of a descriptor with render v: a restore, then the revision.
\* A new edited row collides with a marker, and the revision fails as a whole.
ApplyChange(v) ==
    /\ Applying
    /\ IF v > 0 /\ res["edited"].state = "marker"
       THEN photo' = [photo EXCEPT !.deleted = FALSE] /\ UNCHANGED <<res, spool>>
       ELSE \E resized \in BOOLEAN : Revise(v, resized)

Change(v) ==
    /\ Act
    /\ photo.deleted \/ render # v
    /\ render' = v
    /\ ApplyChange(v)

\* A scan delivers again the change that failed
Rescan ==
    /\ ~photo.deleted /\ render > 0 /\ res["edited"].state = "none"
    /\ Applying /\ Revise(render, FALSE)
    /\ UNCHANGED <<render, events>>

\* An event, or the scan's synthesis, which does not wait for a pass
Delete ==
    /\ Act /\ Noted
    /\ photo.kept /\ ~photo.deleted
    /\ photo' = [photo EXCEPT !.deleted = TRUE]
    /\ UNCHANGED <<render, attempts, res, spool, remote, undecided, pass, doubt,
                   outages>>

\* mark_resource_written: the new bytes replace the superseded ones
Fetch(k) ==
    /\ pass.at = "idle" /\ ~photo.materialized /\ ~photo.deleted
    /\ res[k].state = "live" /\ ~res[k].written
    /\ res' = [res EXCEPT ![k].content = render, ![k].written = TRUE]
    /\ spool' = (spool \ {<<k, res[k].content>>}) \cup {<<k, render>>}
    /\ photo' = [photo EXCEPT !.materialized = Complete(res')]
    /\ UNCHANGED <<render, attempts, remote, undecided, pass, doubt, overtaken,
                   events, outages>>

ScanFinishPublishOnly ==
    /\ attempts["publish"] = RetryCap
    /\ attempts' = [attempts EXCEPT !["publish"] = 0]
    /\ UNCHANGED <<render, photo, res, spool, remote, undecided, pass, doubt,
                   overtaken, events, outages>>

\* scan::finish: the ledgers at the cap start again
ScanFinish ==
    /\ \E l \in Ledgers : attempts[l] = RetryCap
    /\ attempts' = [l \in Ledgers |-> attempts[l] % RetryCap]
    /\ UNCHANGED <<render, photo, res, spool, remote, undecided, pass, doubt,
                   overtaken, events, outages>>

EvictablePublished == {b \in spool : \A k \in Kinds :
    <<k, res[k].content>> = b => photo.published}

\* evictable_blobs: every row with these bytes is published with them
Evictable == {b \in spool : \A k \in Kinds :
    <<k, res[k].content>> = b => photo.published /\ res[k].told = res[k].content}

\* The hourly tick: published bytes go, and tombstones past their retention
CleanupEvict ==
    /\ Evictable # {}
    /\ spool' = spool \ Evictable
    /\ UNCHANGED <<render, photo, attempts, res, remote, undecided, pass, doubt,
                   overtaken, events, outages>>

HardDelete ==
    /\ pass.at = "idle" /\ photo.kept /\ photo.deleted
    /\ ~photo.published \/ photo.tombstone
    /\ photo' = [photo EXCEPT !.kept = FALSE]
    /\ res' = [k \in Kinds |-> NoRow]
    /\ spool' = {}
    /\ UNCHANGED <<render, attempts, remote, undecided, pass, doubt, overtaken,
                   events, outages>>

-----------------------------------------------------------------------------
(* A pass.  todo holds the claimed operations it has not come to the end of. *)

Diverged == {k \in Kinds :
    \/ res[k].state = "marker"
    \/ res[k].state = "live" /\ res[k].written /\ res[k].told # res[k].content}

Publishable == photo.kept /\ ~photo.published /\ photo.materialized /\ ~photo.deleted
Propagatable == photo.kept /\ photo.published /\ photo.deleted # photo.tombstone
Editable == /\ photo.kept /\ photo.published /\ photo.materialized
            /\ ~photo.deleted /\ Diverged # {}
Owed(op) == CASE op = "publish" -> Publishable
              [] op = "restore" -> Propagatable /\ ~photo.deleted
              [] op = "edit"    -> Editable
              [] op = "delete"  -> Propagatable /\ photo.deleted
Claimed == {op \in Ops : Owed(op) /\ attempts[LedgerOf(op)] < RetryCap}

Claim ==
    /\ pass.at = "idle" /\ Claimed # {}
    /\ pass' = PassAt("resolve", Claimed)
    /\ UNCHANGED <<render, photo, attempts, res, spool, remote, undecided, doubt,
                   overtaken, events, outages>>

\* One failed attempt for each operation of ops
Burned(ops) == [l \in Ledgers |->
    IF \E op \in ops : LedgerOf(op) = l THEN attempts[l] + 1 ELSE attempts[l]]

\* mark_published, with its baseline: what the rows hold now counts as told
Published ==
    /\ photo' = [photo EXCEPT !.published = TRUE]
    /\ attempts' = IF photo.published THEN attempts
                   ELSE [attempts EXCEPT !["publish"] = 0]
    /\ res' = [k \in Kinds |->
        IF ~photo.published /\ res[k].state = "live" /\ res[k].written
        THEN [res[k] EXCEPT !.told = res[k].content] ELSE res[k]]
    /\ doubt' = doubt \ {"publish"}

\* The operations of a pass take their turns in this order
Op == IF "publish" \in pass.todo THEN "publish"
      ELSE IF "restore" \in pass.todo THEN "restore"
      ELSE IF "edit" \in pass.todo THEN "edit" ELSE "delete"
Running == pass.at = "run" /\ pass.todo # {}
Done == PassAt("run", pass.todo \ {Op})
Parked == PassAt("run", {})

\* The resolve call answers: a photo_add of an earlier pass may show in it
Resolve ==
    /\ pass.at = "resolve"
    /\ \/ /\ pass' = PassAt("run", pass.todo)
          /\ UNCHANGED <<photo, attempts, res, doubt>>
       \/ /\ pass.todo = {"publish"} /\ remote.added
          /\ Published
          /\ pass' = Parked
    /\ UNCHANGED <<render, spool, remote, undecided, overtaken, events,
                   outages>>

\* The node is unreachable, this device is not responsible, or resolve fails
ResolveFails ==
    /\ pass.at = "resolve" /\ Failure
    /\ pass' = Parked
    /\ attempts' \in {attempts, Burned(pass.todo)}
    /\ UNCHANGED <<render, photo, res, spool, remote, undecided, doubt,
                   overtaken, events>>

\* What an operation sends: all of the photo, or what diverged of it
Bytes(op) == IF op = "edit"
             THEN [k \in Diverged |-> res[k].content]
             ELSE [k \in Kinds |-> res[k].content]

\* The confirm probe finds the photo_add of an earlier pass
ProbeFinds ==
    /\ Running /\ Op = "publish" /\ pass.tx = 0 /\ remote.added
    /\ Published
    /\ pass' = Done
    /\ UNCHANGED <<render, spool, remote, undecided, overtaken, events,
                   outages>>

Send ==
    /\ Running /\ pass.tx = 0
    /\ Op = "publish" => ~remote.added
    /\ \E id \in 1..MaxOpen :
        /\ \A t \in undecided : t.id # id
        /\ \A j \in 1..(id - 1) : \E t \in undecided : t.id = j
        /\ undecided' = undecided \cup {[id |-> id, op |-> Op, bytes |-> Bytes(Op)]}
        /\ pass' = [pass EXCEPT !.tx = id, !.sent = Bytes(Op)]
    /\ UNCHANGED <<render, photo, attempts, res, spool, remote, doubt,
                   overtaken, events, outages>>

\* A probe, an admission or an upload fails before anything is submitted
SendFails ==
    /\ Running /\ pass.tx = 0 /\ Failure
    /\ \/ pass' = Parked /\ UNCHANGED attempts
       \/ pass' = Done /\ attempts' = Burned({Op})
    /\ UNCHANGED <<render, photo, res, spool, remote, undecided, doubt,
                   overtaken, events>>

-----------------------------------------------------------------------------
(* The mesh: a transaction is decided once, in any order, or dropped *)

Accepts(t) == CASE t.op = "publish" -> ~remote.added
                [] t.op = "delete"  -> TRUE
                [] t.op = "restore" -> remote.added /\ remote.deleted
                [] t.op = "edit"    -> remote.added /\ ~remote.deleted

Executed(t) == [added |-> remote.added \/ t.op = "publish",
                deleted |-> IF t.op = "delete" THEN remote.added
                            ELSE IF t.op = "restore" THEN FALSE ELSE remote.deleted,
                holds |-> [k \in Kinds |->
                    IF t.op \in {"publish", "edit"} /\ k \in DOMAIN t.bytes
                    THEN t.bytes[k] ELSE remote.holds[k]]]

Answered(t, answer) ==
    /\ undecided' = undecided \ {t}
    /\ pass' = IF pass.tx = t.id THEN [pass EXCEPT !.answer = answer] ELSE pass

Decide(t) ==
    /\ remote' = IF Accepts(t) THEN Executed(t) ELSE remote
    /\ Answered(t, IF Accepts(t) THEN "ok" ELSE "refused")
    /\ UNCHANGED <<render, photo, attempts, res, spool, doubt, overtaken,
                   events, outages>>

Drop(t) ==
    /\ Failure
    /\ Answered(t, "refused")
    /\ UNCHANGED <<render, photo, attempts, res, spool, remote, doubt,
                   overtaken, events>>

-----------------------------------------------------------------------------
(* Answers *)

\* A restore that leaves the marker of the deletion
ToldSticky(on) ==
    /\ photo' = [photo EXCEPT !.tombstone = @ \/ on]
    /\ attempts' = [attempts EXCEPT !["tombstone"] = 0]
    /\ UNCHANGED res

\* mark_tombstone_published, clear_tombstone_published
Told(on) ==
    /\ photo' = [photo EXCEPT !.tombstone = on]
    /\ attempts' = [attempts EXCEPT !["tombstone"] = 0]
    /\ UNCHANGED res

\* An answered edit: the bytes sent are told, the removals sent are over
EditTold ==
    /\ attempts' = [attempts EXCEPT !["edit"] = 0]
    /\ UNCHANGED photo
    /\ res' = [k \in Kinds |-> IF k \notin DOMAIN pass.sent THEN res[k]
                              ELSE IF res[k].state = "marker" THEN NoRow
                              ELSE [res[k] EXCEPT !.told = pass.sent[k]]]

TakeOk ==
    /\ Running /\ pass.answer = "ok"
    /\ \/ Op = "publish" /\ Published
       \/ Op = "edit" /\ EditTold /\ doubt' = doubt \ {"edit"}
       \/ /\ Op \in {"restore", "delete"} /\ Told(Op = "delete")
          /\ doubt' = doubt \ {"tombstone"}
    /\ pass' = Done
    /\ UNCHANGED <<render, spool, remote, undecided, overtaken, events,
                   outages>>

TakeRefusal ==
    /\ Running /\ pass.answer = "refused"
    /\ attempts' = Burned({Op})
    /\ pass' = Done
    /\ UNCHANGED <<render, photo, res, spool, remote, undecided, doubt,
                   overtaken, events, outages>>

\* The submission goes unanswered, decided or not.  Where the scan deleted the
\* photo meanwhile, the user has already acted.
Unanswered ==
    /\ Failure
    /\ doubt' = doubt \cup {LedgerOf(Op)}
    /\ overtaken' = (overtaken \/ (photo.deleted /\ Op # "delete"))

LoseAnswer ==
    /\ Running /\ pass.tx # 0 /\ Unanswered
    /\ \/ pass' = Parked /\ UNCHANGED attempts
       \/ pass' = Done /\ attempts' = Burned({Op})
    /\ UNCHANGED <<render, photo, res, spool, remote, undecided, events>>

\* The daemon dies in a pass: its rows stay, what it waited for does not
Crash ==
    /\ pass.at # "idle"
    /\ IF pass.tx # 0 THEN Unanswered ELSE Failure /\ UNCHANGED <<doubt, overtaken>>
    /\ pass' = Idle
    /\ UNCHANGED <<render, photo, attempts, res, spool, remote, undecided,
                   events>>

EndPass ==
    /\ pass.at = "run" /\ pass.todo = {}
    /\ pass' = Idle
    /\ spool' = spool \ Evictable
    /\ UNCHANGED <<render, photo, attempts, res, remote, undecided, doubt,
                   overtaken, events, outages>>

Pass == \/ Claim \/ Resolve \/ ProbeFinds \/ Send \/ TakeOk \/ TakeRefusal \/ EndPass
Faulty == ResolveFails \/ SendFails \/ LoseAnswer \/ Crash
PhotoNext ==
    \/ \E v \in 0..Renders : Change(v)
    \/ Delete \/ Rescan \/ \E k \in Kinds : Fetch(k)
    \/ ScanFinish \/ CleanupEvict \/ HardDelete
    \/ Pass \/ Faulty
    \/ \E t \in undecided : Decide(t) \/ Drop(t)

PhotoSpec == PhotoInit /\ [][PhotoNext]_photoVars

\* Passes, fetches and scans recur, and the mesh decides what it was given
PhotoFairness == /\ WF_photoVars(Pass) /\ WF_photoVars(\E k \in Kinds : Fetch(k))
                 /\ WF_photoVars(ScanFinish) /\ WF_photoVars(Rescan)
                 /\ WF_photoVars(\E t \in undecided : Decide(t))
FairPhotoSpec == PhotoSpec /\ PhotoFairness

-----------------------------------------------------------------------------
(* Properties *)

\* No queue owes anything, no pass runs, and every submission is decided
Quiet ==
    /\ pass.at = "idle" /\ undecided = {}
    /\ photo.kept => /\ photo.published => photo.deleted = photo.tombstone
                     /\ \/ photo.deleted
                        \/ photo.published /\ photo.materialized /\ Diverged = {}

Agreed == IF photo.deleted THEN remote.added => remote.deleted
          ELSE /\ remote.added /\ ~remote.deleted
               /\ \A k \in Kinds : remote.holds[k] = res[k].content

\* Where the queues have nothing left to say, the mesh has the photo as the
\* daemon has it, byte for byte, or has its deletion: whatever failed, was lost
\* or was decided late on the way, the markers never claim more than the mesh
\* knows (photos.rs:340-341, :257-262).  A change in Photos that the daemon
\* applies while an unanswered submission is in doubt is excepted.
SettledIsAgreed == Quiet /\ ~overtaken => Agreed

\* Eviction never takes the only copy (evictable_blobs).  Bytes that a queue has
\* yet to send are in the spool, edits whose propagation parked included, so a
\* retry always finds them; and bytes that are current leave the spool only once
\* the mesh serves them, with the exception above.
EvictedIsHeld ==
    \A k \in Kinds :
        res[k].state = "live" /\ res[k].written /\ <<k, res[k].content>> \notin spool
            => /\ photo.published /\ k \notin Diverged
               /\ overtaken \/ remote.holds[k] = res[k].content

\* The answer of a restore was lost and the restore is decided: photo_restore
\* refuses a photo that is not deleted, so the retry is refused for ever
StuckRestore == /\ photo.tombstone /\ ~photo.deleted /\ ~remote.deleted
                /\ "tombstone" \in doubt

\* The user took back a deletion that was in doubt and is decided after all: the
\* daemon owes no restore, and photo_edit_content refuses a deleted photo
StuckEdit == overtaken /\ ~photo.tombstone /\ ~photo.deleted /\ remote.deleted

\* A row reopened by a re-edit and then removed by a revert stays unwritten, so
\* the photo never counts as materialized and the removal is never sent
StuckRemoval == res["edited"].state = "marker" /\ ~res["edited"].written

\* Every queue drains once calls stop failing: a ledger that gave up starts again
\* with the next scan, a photo is refetched, a parked edit is sent
\* (reset_gave_up_publishes).  The three states above are the only ones in which
\* something is left behind, also for a photo whose change overtook a submission
\* in doubt.
Drained == Quiet \/ StuckRestore \/ StuckEdit \/ StuckRemoval
QueuesDrain == ~Quiet ~> Drained
=============================================================================
