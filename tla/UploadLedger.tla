---------------------------- MODULE UploadLedger ----------------------------
(***************************************************************************)
(* One node's own uploads: put_own_upload with its drop guard, the ledger  *)
(* hook and the detached chunk task (hopnet-projection/src/host.rs, over   *)
(* hopnet-storage/src/api.rs), the sweep's orphan step and the operator's  *)
(* purge (src/storage_host/jobs.rs).  An upload's fragment files are on    *)
(* disk before the transaction that carries their fragment_hashes rows is  *)
(* decided; what keeps the sweep from deleting them as orphans is the      *)
(* node-local ledger of holds.                                             *)
(*                                                                         *)
(* One batch of fragments (the ten originals of a chunk, or its twenty     *)
(* recovery fragments) is one file <<upload, batch>>; two batches make a   *)
(* chunk.  Each database transaction is one step.  Time is kept as the age *)
(* of a hold and of a file, saturating at the limit the code compares it   *)
(* with; the clock never steps back.                                       *)
(***************************************************************************)
EXTENDS Integers, FiniteSets

CONSTANTS
    Uploads,       \* blob ids
    Batches,       \* batches of an upload, two to a chunk
    Grace,         \* SWEEP_ORPHAN_GRACE_SECS
    PurgeMinAge,   \* PURGE_MIN_AGE_SECS
    Retention,     \* LOCAL_UPLOAD_RETENTION_SECS
    MaxFaults,     \* bound: database or disk operations that fail
    MaxRestarts    \* bound: restarts of the process

ASSUME UploadAssumption ==
    /\ Batches \in Nat \ {0} /\ Batches % 2 = 0
    /\ Grace \in Nat /\ PurgeMinAge \in Nat /\ Retention \in Nat
    /\ MaxFaults \in Nat /\ MaxRestarts \in Nat

VARIABLES
    fut,        \* each put_own_upload future
    task,       \* its chunk task, which outlives a dropped future
    done,       \* batches written so far
    abandoned,  \* UploadGuard::abandoned
    abandon,    \* the clean-up of a failed or dropped upload
    purge,      \* the operator's purge of an upload
    sweep,      \* the sweep's orphan step
    holds,      \* hopnet_storage_local_uploads
    age,        \* time since each hold was stamped
    files,      \* fragment files on disk
    fileAge,    \* time since each file was written
    rows,       \* files with a fragment_hashes row in this node's database
    tx,         \* the transaction that carries an upload's rows
    faults, restarts

putVars == <<fut, task, done, abandoned>>
cleaners == <<abandon, purge, sweep>>
disk == <<files, fileAge>>
ledger == <<holds, age>>
mesh == <<rows, tx>>
bounds == <<faults, restarts>>
vars == <<putVars, cleaners, ledger, disk, mesh, bounds>>

Files == Uploads \X (1 .. Batches)
Of(b) == {b} \X (1 .. Batches)
Coming(b) == <<b, done[b] + 1>>          \* the batch the chunk task is at
LastBatch(b) == {f \in Of(b) : f[2] = done[b]}
Nothing == [pc |-> "none", todo |-> {}]  \* a cleaner that is not running

\* delete_unclaimed_fragments keeps a file that has a row or a hold
Unclaimed(f) == f \notin rows /\ f \notin holds
DeleteUnclaimed(f) == files' = IF Unclaimed(f) THEN files \ {f} ELSE files

\* upload_is_live: registered for the life of the guard
Live(b) == fut[b] \in {"open", "err"}

\* A database or disk operation fails once its retries are spent
Fault == faults < MaxFaults /\ faults' = faults + 1 /\ UNCHANGED restarts

Init ==
    /\ fut = [b \in Uploads |-> "new"] /\ task = [b \in Uploads |-> "idle"]
    /\ done = [b \in Uploads |-> 0] /\ abandoned = [b \in Uploads |-> FALSE]
    /\ abandon = [b \in Uploads |-> Nothing]
    /\ purge = [b \in Uploads |-> Nothing]
    /\ sweep = Nothing
    /\ holds = {} /\ age = [f \in Files |-> Retention]
    /\ files = {} /\ fileAge = [f \in Files |-> Grace + 1]
    /\ rows = {} /\ tx = [b \in Uploads |-> "none"]
    /\ faults = 0 /\ restarts = 0
-----------------------------------------------------------------------------
(* The put and its chunk task *)

\* put_own_upload starts; its guard registers the upload as live
Begin(b) ==
    /\ fut[b] = "new"
    /\ fut' = [fut EXCEPT ![b] = "open"]
    /\ UNCHANGED <<task, done, abandoned, cleaners, ledger, disk, mesh, bounds>>

\* put_with has read a chunk and hands it to the blocking pool
Chunk(b) ==
    /\ fut[b] = "open" /\ task[b] = "idle" /\ done[b] < Batches
    /\ task' = [task EXCEPT ![b] = "hook"]
    /\ UNCHANGED <<fut, done, abandoned, cleaners, ledger, disk, mesh, bounds>>

\* The future sees its put fail: it marks the upload abandoned and awaits
\* the clean-up.  A task whose future is gone fails unseen.
PutFails(b) ==
    IF fut[b] = "open"
    THEN /\ fut' = [fut EXCEPT ![b] = "err"]
         /\ abandoned' = [abandoned EXCEPT ![b] = TRUE]
         /\ abandon' = [abandon EXCEPT ![b].pc = "release"]
    ELSE UNCHANGED <<fut, abandoned, abandon>>

\* The client's stream ends in an error between two chunks
ReadFails(b) ==
    /\ fut[b] = "open" /\ task[b] = "idle"
    /\ PutFails(b)
    /\ UNCHANGED <<task, done, purge, sweep, ledger, disk, mesh, bounds>>

\* The handler is dropped: the guard marks the upload abandoned and schedules
\* the clean-up, beside one that is awaited already
Disconnect(b) ==
    /\ Live(b)
    /\ fut' = [fut EXCEPT ![b] = "gone"]
    /\ abandoned' = [abandoned EXCEPT ![b] = TRUE]
    /\ abandon' = [abandon EXCEPT ![b].pc = "release"]
    /\ UNCHANGED <<task, done, purge, sweep, ledger, disk, mesh, bounds>>

\* Every batch is written: the put returns and the guard is settled
PutOk(b) ==
    /\ fut[b] = "open" /\ task[b] = "idle" /\ done[b] = Batches
    /\ fut' = [fut EXCEPT ![b] = "ok"]
    /\ UNCHANGED <<task, done, abandoned, cleaners, ledger, disk, mesh, bounds>>

\* The hook refuses a batch of an abandoned upload, and releases and unlinks
\* the batch it let through last
HookRefuses(b) ==
    /\ task[b] = "hook" /\ abandoned[b]
    /\ task' = [task EXCEPT ![b] = "idle"]
    /\ \/ /\ holds' = holds \ LastBatch(b)
          /\ files' = files \ (LastBatch(b) \ rows)
          /\ UNCHANGED bounds
       \/ Fault /\ UNCHANGED <<holds, files>>
    /\ UNCHANGED <<fut, done, abandoned, cleaners, age, fileAge, mesh>>

HookAccepts(b) ==
    /\ task[b] = "hook" /\ ~abandoned[b]
    /\ task' = [task EXCEPT ![b] = "record"]
    /\ UNCHANGED <<fut, done, abandoned, cleaners, ledger, disk, mesh, bounds>>

\* record_own_upload commits the holds of the batch
Record(b) ==
    /\ task[b] = "record"
    /\ task' = [task EXCEPT ![b] = "recheck"]
    /\ holds' = holds \cup {Coming(b)}
    /\ age' = [age EXCEPT ![Coming(b)] = 0]
    /\ UNCHANGED <<fut, done, abandoned, cleaners, disk, mesh, bounds>>

RecordFails(b) ==
    /\ task[b] = "record"
    /\ Fault
    /\ task' = [task EXCEPT ![b] = "idle"]
    /\ PutFails(b)
    /\ UNCHANGED <<done, purge, sweep, ledger, disk, mesh>>

\* The hook without its second look at the abandoned flag
RecheckTrusting(b) ==
    /\ task[b] = "recheck"
    /\ task' = [task EXCEPT ![b] = "write"]
    /\ UNCHANGED <<fut, done, abandoned, cleaners, ledger, disk, mesh, bounds>>

\* The hook looks again: a batch recorded while the upload was being abandoned
\* is released and refused
Recheck(b) ==
    /\ task[b] = "recheck"
    /\ IF abandoned[b]
       THEN /\ task' = [task EXCEPT ![b] = "idle"]
            /\ \/ holds' = holds \ {Coming(b)} /\ UNCHANGED bounds
               \/ Fault /\ UNCHANGED holds
       ELSE /\ task' = [task EXCEPT ![b] = "write"]
            /\ UNCHANGED <<holds, bounds>>
    /\ UNCHANGED <<fut, done, abandoned, cleaners, age, disk, mesh>>

\* The batch is written; the recovery fragments of a chunk follow its
\* originals in the same task
Write(b) ==
    /\ task[b] = "write"
    /\ task' = [task EXCEPT ![b] = IF done[b] % 2 = 0 THEN "hook" ELSE "idle"]
    /\ done' = [done EXCEPT ![b] = @ + 1]
    /\ files' = files \cup {Coming(b)}
    /\ fileAge' = [fileAge EXCEPT ![Coming(b)] = 0]
    /\ UNCHANGED <<fut, abandoned, cleaners, ledger, mesh, bounds>>

\* A fragment of the batch fails; those before it may stay on disk
WriteFails(b) ==
    /\ task[b] = "write"
    /\ Fault
    /\ task' = [task EXCEPT ![b] = "idle"]
    /\ PutFails(b)
    /\ \/ UNCHANGED disk
       \/ /\ files' = files \cup {Coming(b)}
          /\ fileAge' = [fileAge EXCEPT ![Coming(b)] = 0]
    /\ UNCHANGED <<done, purge, sweep, ledger, mesh>>

-----------------------------------------------------------------------------
(* abandon_own_upload_with *)

\* The awaited clean-up is over and the put returns its error
Returned(b) == fut' = [fut EXCEPT ![b] = IF @ = "err" THEN "gone" ELSE @]

\* release_blob: the upload's holds go, and its files become candidates
AbandonRelease(b) ==
    /\ abandon[b].pc = "release"
    /\ abandon' = [abandon EXCEPT
         ![b] = [pc |-> "unlink", todo |-> @.todo \cup (holds \cap Of(b))]]
    /\ holds' = holds \ Of(b)
    /\ UNCHANGED <<putVars, purge, sweep, age, disk, mesh, bounds>>

\* unlink_batch
AbandonUnlink(b) ==
    /\ abandon[b].pc = "unlink"
    /\ \E f \in abandon[b].todo :
         /\ abandon' = [abandon EXCEPT ![b].todo = @ \ {f}]
         /\ DeleteUnclaimed(f)
    /\ UNCHANGED <<putVars, purge, sweep, ledger, fileAge, mesh, bounds>>

AbandonEnds(b) ==
    /\ \/ abandon[b].pc = "unlink" /\ abandon[b].todo = {} /\ UNCHANGED bounds
       \/ abandon[b].pc # "none" /\ Fault
    /\ abandon' = [abandon EXCEPT ![b] = Nothing]
    /\ Returned(b)
    /\ UNCHANGED <<task, done, abandoned, purge, sweep, ledger, disk, mesh>>

-----------------------------------------------------------------------------
(* The transaction that carries the rows *)

\* The caller of a put that returned submits its transaction
Submit(b) ==
    /\ fut[b] = "ok" /\ tx[b] = "none"
    /\ tx' = [tx EXCEPT ![b] = "submitted"]
    /\ UNCHANGED <<putVars, cleaners, ledger, disk, rows, bounds>>

Refuse(b) ==
    /\ tx[b] = "submitted"
    /\ tx' = [tx EXCEPT ![b] = "refused"]
    /\ UNCHANGED <<putVars, cleaners, ledger, disk, rows, bounds>>

\* What the two limits stand for: rows reach this node before its oldest hold
\* expires, and before its newest one is old enough to be purged
Timely(b) ==
    /\ \A f \in Of(b) : age[f] < Retention
    /\ \E f \in Of(b) : age[f] < PurgeMinAge

\* The rows reach this node's database, with a block or with a join
Land(b) ==
    /\ tx[b] \in {"submitted", "decided"} /\ Timely(b)
    /\ tx' = [tx EXCEPT ![b] = "decided"]
    /\ rows' = rows \cup Of(b)
    /\ UNCHANGED <<putVars, cleaners, ledger, disk, bounds>>

-----------------------------------------------------------------------------
(* The sweep's orphan step, and the operator's purge *)

\* scan_shard lists the files past the grace
SweepList ==
    /\ sweep.pc = "none"
    /\ sweep' = [pc |-> "listed", todo |-> {f \in files : fileAge[f] > Grace}]
    /\ UNCHANGED <<putVars, abandon, purge, ledger, disk, mesh, bounds>>

\* diff against the rows: what has none is an orphan
SweepDiff ==
    /\ sweep.pc = "listed"
    /\ \/ /\ sweep' = [pc |-> "diffed", todo |-> sweep.todo \ rows]
          /\ UNCHANGED bounds
       \/ Fault /\ sweep' = Nothing
    /\ UNCHANGED <<putVars, abandon, purge, ledger, disk, mesh>>

\* expire_local_uploads
Expired == {f \in holds : age[f] >= Retention}

\* A sweep that leaves the expiry to others
SweepSettleKeeping ==
    /\ sweep.pc = "diffed"
    /\ \/ sweep' = [pc |-> "unlink", todo |-> sweep.todo \ holds] /\ UNCHANGED bounds
       \/ Fault /\ sweep' = Nothing
    /\ UNCHANGED <<putVars, abandon, purge, ledger, disk, mesh>>

\* settle_ledger expires holds and reads the rest; split_orphans
SweepSettle ==
    /\ sweep.pc = "diffed"
    /\ \/ /\ holds' = holds \ Expired
          /\ sweep' = [pc |-> "unlink", todo |-> sweep.todo \ holds']
          /\ UNCHANGED bounds
       \/ Fault /\ sweep' = Nothing /\ UNCHANGED holds
    /\ UNCHANGED <<putVars, abandon, purge, age, disk, mesh>>

\* unlink_batch trusting the lists made earlier in the step
SweepUnlinkBlind ==
    /\ sweep.pc = "unlink"
    /\ \E f \in sweep.todo :
         /\ sweep' = [sweep EXCEPT !.todo = @ \ {f}]
         /\ files' = files \ {f}
    /\ UNCHANGED <<putVars, abandon, purge, ledger, fileAge, mesh, bounds>>

\* unlink_batch re-checks rows and holds under the write lock
SweepUnlink ==
    /\ sweep.pc = "unlink"
    /\ \E f \in sweep.todo :
         /\ sweep' = [sweep EXCEPT !.todo = @ \ {f}]
         /\ \/ DeleteUnclaimed(f) /\ UNCHANGED bounds
            \/ Fault /\ UNCHANGED files
    /\ UNCHANGED <<putVars, abandon, purge, ledger, fileAge, mesh>>

SweepEnds ==
    /\ sweep.pc = "unlink" /\ sweep.todo = {}
    /\ sweep' = Nothing
    /\ UNCHANGED <<putVars, abandon, purge, ledger, disk, mesh, bounds>>

\* purge_held_uploads takes an upload of the held listing that is not live
PurgeAsk(b) ==
    /\ purge[b].pc = "none" /\ ~Live(b) /\ holds \cap Of(b) # {}
    /\ purge' = [purge EXCEPT ![b].pc = "release"]
    /\ UNCHANGED <<putVars, abandon, sweep, ledger, disk, mesh, bounds>>

\* An upload whose newest hold is recent is skipped; of any other one the
\* holds are released and the files become candidates
PurgeRelease(b) ==
    /\ purge[b].pc = "release"
    /\ LET own == holds \cap Of(b)
       IN IF \E f \in own : age[f] < PurgeMinAge
          THEN purge' = [purge EXCEPT ![b] = Nothing] /\ UNCHANGED holds
          ELSE /\ purge' = [purge EXCEPT ![b] = [pc |-> "unlink", todo |-> own]]
               /\ holds' = holds \ own
    /\ UNCHANGED <<putVars, abandon, sweep, age, disk, mesh, bounds>>

PurgeUnlink(b) ==
    /\ purge[b].pc = "unlink"
    /\ \E f \in purge[b].todo :
         /\ purge' = [purge EXCEPT ![b].todo = @ \ {f}]
         /\ DeleteUnclaimed(f)
    /\ UNCHANGED <<putVars, abandon, sweep, ledger, fileAge, mesh, bounds>>

PurgeEnds(b) ==
    /\ \/ purge[b].pc = "unlink" /\ purge[b].todo = {} /\ UNCHANGED bounds
       \/ purge[b].pc # "none" /\ Fault
    /\ purge' = [purge EXCEPT ![b] = Nothing]
    /\ UNCHANGED <<putVars, abandon, sweep, ledger, disk, mesh>>

-----------------------------------------------------------------------------
(* Time and restarts *)

\* Time passes, up to the ages the limits can tell apart
Tick ==
    /\ age' = [f \in Files |-> IF age[f] < Retention THEN age[f] + 1 ELSE age[f]]
    /\ fileAge' = [f \in Files |-> IF fileAge[f] <= Grace THEN fileAge[f] + 1
                                                         ELSE fileAge[f]]
    /\ UNCHANGED <<putVars, cleaners, holds, files, mesh, bounds>>

\* The process restarts: its tasks are gone, its ledger and files are not, and
\* a submitted transaction may still be decided.  A staged join at boot
\* replaces the inventory by one that can lack the rows of uploads still held.
Restart ==
    /\ restarts < MaxRestarts /\ restarts' = restarts + 1
    /\ fut' = [b \in Uploads |-> IF tx[b] = "none" /\ fut[b] # "new" THEN "gone"
                                                                  ELSE fut[b]]
    /\ task' = [b \in Uploads |-> "idle"]
    /\ abandon' = [b \in Uploads |-> Nothing]
    /\ purge' = [b \in Uploads |-> Nothing]
    /\ sweep' = Nothing
    /\ \E B \in SUBSET Uploads :
         /\ \A b \in B : Of(b) \subseteq holds
         /\ rows' = {f \in rows : f[1] \notin B}
    /\ UNCHANGED <<done, abandoned, ledger, disk, tx, faults>>

-----------------------------------------------------------------------------
Put(b) == Begin(b) \/ Chunk(b) \/ ReadFails(b) \/ Disconnect(b) \/ PutOk(b)
ChunkTask(b) == HookRefuses(b) \/ HookAccepts(b) \/ Record(b) \/ RecordFails(b)
                \/ Recheck(b) \/ Write(b) \/ WriteFails(b)
Abandon(b) == AbandonRelease(b) \/ AbandonUnlink(b) \/ AbandonEnds(b)
Transaction(b) == Submit(b) \/ Refuse(b) \/ Land(b)
Purge(b) == PurgeAsk(b) \/ PurgeRelease(b) \/ PurgeUnlink(b) \/ PurgeEnds(b)
Sweep == SweepList \/ SweepDiff \/ SweepSettle \/ SweepUnlink \/ SweepEnds

Next ==
    \/ \E b \in Uploads : Put(b) \/ ChunkTask(b) \/ Abandon(b) \/ Transaction(b)
                          \/ Purge(b)
    \/ Sweep \/ Tick \/ Restart

\* The sweep rotates for ever, time passes, and spawned tasks run; no client,
\* operator or mesh is obliged to do anything.
Fairness ==
    /\ WF_vars(Sweep) /\ WF_vars(Tick)
    /\ \A b \in Uploads : WF_vars(ChunkTask(b)) /\ WF_vars(Abandon(b))

Spec == Init /\ [][Next]_vars
FairSpec == Spec /\ Fairness
-----------------------------------------------------------------------------
(* Properties *)

\* Type correctness of the uploads, their cleaners and the store.
UploadTypeOK ==
    /\ fut \in [Uploads -> {"new", "open", "err", "ok", "gone"}]
    /\ task \in [Uploads -> {"idle", "hook", "record", "recheck", "write"}]
    /\ done \in [Uploads -> 0 .. Batches]
    /\ abandoned \in [Uploads -> BOOLEAN]
    /\ abandon \in [Uploads -> [pc : {"none", "release", "unlink"},
                                todo : SUBSET Files]]
    /\ purge \in [Uploads -> [pc : {"none", "release", "unlink"},
                              todo : SUBSET Files]]
    /\ sweep \in [pc : {"none", "listed", "diffed", "unlink"}, todo : SUBSET Files]
    /\ holds \subseteq Files /\ age \in [Files -> 0 .. Retention]
    /\ files \subseteq Files /\ fileAge \in [Files -> 0 .. Grace + 1]
    /\ rows \subseteq Files
    /\ tx \in [Uploads -> {"none", "submitted", "refused", "decided"}]
    /\ faults \in 0 .. MaxFaults /\ restarts \in 0 .. MaxRestarts

\* A node never deletes its own upload: whatever the sweep, the purge, the
\* clean-ups and restarts do meanwhile, when the rows of an upload are in the
\* database its fragments are on disk (reap_orphans, delete_unclaimed_fragments;
\* the loss described in docs/consensus-bugs.md 20).
RowedIsStored == rows \subseteq files

\* An abandoned upload whose tasks have ended without a failed operation holds
\* nothing, and leaves on disk at most the batch its detached task was writing
\* and files whose hold had expired (upload_ledger_hook against
\* abandon_own_upload).
AbandonedHoldsNothing ==
    \A b \in Uploads :
        /\ abandoned[b] /\ task[b] = "idle"
        /\ abandon[b].pc = "none" /\ purge[b].pc = "none"
        /\ faults = 0 /\ restarts = 0
        => /\ holds \cap Of(b) = {}
           /\ \A f \in files \cap Of(b) : f \in LastBatch(b) \/ age[f] = Retention

\* Nothing leaks: while files lie about without their row, a time comes when
\* none does, be it by the clean-ups of their uploads or, once their holds have
\* expired, by the sweep.
RowlessReclaimed == ~(files \subseteq rows) ~> files \subseteq rows
=============================================================================
