----------------------------- MODULE EpochBoot ------------------------------
(***************************************************************************)
(* One node at an epoch boundary: the files beside its database and the    *)
(* boot transition that moves them (regenesis/boot.rs), the staging of an  *)
(* epoch join (regenesis/join.rs), the seal (regenesis/handlers.rs,        *)
(* seal.rs), the rollback an operator may request, and what main.rs and    *)
(* spawn_engine make of the outcome.  Every change of a file is a step of  *)
(* its own and the process may die before each of them.                    *)
(*                                                                         *)
(* A database is abstracted to its epoch and to what the boot reads: is it *)
(* sealed, did it dissent, are its stored_locally flags complete, which    *)
(* binary built it, has it decided a height past its genesis.  The peers   *)
(* are the epoch they run in.                                              *)
(***************************************************************************)
EXTENDS Integers

CONSTANTS
    MaxEpoch,      \* bound: last epoch of the mesh
    Version,       \* the version that each epoch requires
    None, Partial  \* no such file; a file that is not complete

Epochs == 1 .. MaxEpoch
Versions == {Version[e] : e \in Epochs}

\* What a database file and a staging's manifest hold, once they are complete
Complete == [epoch : Epochs, mark : BOOLEAN, phase : BOOLEAN, dissent : BOOLEAN,
             flags : {"whole", "new", "partial"}, by : Versions, decided : BOOLEAN]
Manifest == [from : Epochs, to : Epochs]

ASSUME EpochAssumption ==
    /\ MaxEpoch \in Nat /\ MaxEpoch >= 2
    /\ Version \in [Epochs -> Nat \ {0}]
    /\ None # Partial
    /\ {None, Partial} \cap (Complete \cup Manifest) = {}

VARIABLES
    db, next, old,  \* database.db, database.db.next, database.db.sealed
    staging,        \* join-staging: None, Partial or the manifest
    lineage,        \* epochs whose lineage record is on disk
    agreed,         \* the agreed-version marker, 0 for none
    pending,        \* the reconcile-pending marker
    rollback,       \* the rollback-epoch marker
    pc,             \* where the process is
    abandoned,      \* rollback_transition: the epoch it discards
    carried,        \* staged_join_transition: the build carried the flags
    parked,         \* ParkReason, "no" for none
    engine,         \* the consensus engine: "off", "on" or, at a seal, "halted"
    ver,            \* the version of the running or installed binary
    mesh,           \* the epoch the peers are in
    restored        \* history: a rollback has put a retained database back

files == <<db, next, old, staging, lineage, agreed, pending, rollback>>
process == <<pc, abandoned, carried, parked, engine>>
world == <<ver, mesh, restored>>
vars == <<files, process, world>>

-----------------------------------------------------------------------------
(* stored_locally flags: "whole"; "new", only fragments this node has never *)
(* seen are unflagged; "partial", any may be.                               *)

Database(e, flags, by) ==
    [epoch |-> e, mark |-> FALSE, phase |-> FALSE, dissent |-> FALSE, flags |-> flags,
     by |-> by, decided |-> FALSE]

\* transplant_preserving_local_flags
Carry(flags, trusted) == IF trusted /\ flags = "whole" THEN "new" ELSE "partial"

\* reconcile_fragment_store: one stat per unseen fragment, or a walk
Reconcile(flags, targeted) == IF targeted /\ flags = "partial" THEN "partial" ELSE "whole"

IsManifest(s) == s \notin {None, Partial}

\* Mutant: the meta key is taken for the truth.
SealedByMark(d) == d.mark

\* sealed_marker: the meta key, else the committed phase
Sealed(d) == d.mark \/ d.phase

Init ==
    /\ db = Database(1, "whole", Version[1])
    /\ next = None /\ old = None /\ staging = None /\ lineage = {}
    /\ agreed \in {0, Version[1]}
    /\ pending = FALSE /\ rollback = FALSE
    /\ pc = "off" /\ abandoned = 0 /\ carried = FALSE /\ parked = "no" /\ engine = "off"
    /\ ver = Version[1] /\ mesh = 1 /\ restored = FALSE

-----------------------------------------------------------------------------
(* The boot transition *)

Goto(from, to) == pc = from /\ pc' = to
Quiet == UNCHANGED <<abandoned, carried, parked, engine, world>>

Park(reason) == /\ pc' = "start" /\ parked' = reason
                /\ UNCHANGED <<abandoned, carried, engine>>

\* activate_or_park: the staged generation takes over, or the node parks
ActivateOrPark(required) ==
    /\ \/ /\ pc' = "off" /\ ver' = required
          /\ UNCHANGED <<abandoned, carried, parked, engine>>
       \/ Park("upgrade") /\ UNCHANGED ver
    /\ UNCHANGED <<files, mesh, restored>>

\* boot_transition_inner: a rollback request comes first
Boot ==
    /\ pc = "off"
    /\ pc' = IF ~rollback THEN "dispatch" ELSE IF old # None THEN "discard" ELSE "unseal"
    /\ Quiet /\ UNCHANGED files

\* Mutant: the request is dropped first.
DiscardAndDrop ==
    /\ Goto("discard", "restore")
    /\ abandoned' = IF db = None THEN 1 ELSE db.epoch
    /\ db' = None /\ rollback' = FALSE
    /\ UNCHANGED <<next, old, staging, lineage, agreed, pending>>
    /\ UNCHANGED <<carried, parked, engine, world>>

RollbackDiscard ==
    /\ Goto("discard", "restore")
    /\ abandoned' = IF db = None THEN 1 ELSE db.epoch
    /\ db' = None
    /\ UNCHANGED <<next, old, staging, lineage, agreed, pending, rollback>>
    /\ UNCHANGED <<carried, parked, engine, world>>

\* Mutant: the retained database is copied, not moved.
RestoreCopy ==
    /\ Goto("restore", "forget")
    /\ db' = old /\ restored' = TRUE
    /\ UNCHANGED <<next, old, staging, lineage, agreed, pending, rollback>>
    /\ UNCHANGED <<abandoned, carried, parked, engine, ver, mesh>>

RollbackRestore ==
    /\ Goto("restore", "forget")
    /\ db' = old /\ old' = None /\ restored' = TRUE
    /\ UNCHANGED <<next, staging, lineage, agreed, pending, rollback>>
    /\ UNCHANGED <<abandoned, carried, parked, engine, ver, mesh>>

RollbackForget ==
    /\ Goto("forget", "unseal")
    /\ lineage' = lineage \ {abandoned}
    /\ Quiet /\ UNCHANGED <<db, next, old, staging, agreed, pending, rollback>>

\* clear_seal_state deletes the key, then the phase
RollbackUnmark ==
    /\ Goto("unseal", "unphase")
    /\ Sealed(db) \/ old # None
    /\ db' = [db EXCEPT !.mark = FALSE]
    /\ Quiet /\ UNCHANGED <<next, old, staging, lineage, agreed, pending, rollback>>

RollbackUnphase ==
    /\ Goto("unphase", "unstage")
    /\ db' = [db EXCEPT !.phase = FALSE]
    /\ Quiet /\ UNCHANGED <<next, old, staging, lineage, agreed, pending, rollback>>

\* Case 3: nothing was sealed, nothing is retained
RollbackNothing ==
    /\ Goto("unseal", "dispatch")
    /\ ~Sealed(db) /\ old = None
    /\ rollback' = FALSE
    /\ Quiet /\ UNCHANGED <<db, next, old, staging, lineage, agreed, pending>>

RollbackUnstage ==
    /\ Goto("unstage", "unbuild")
    /\ staging' = None
    /\ Quiet /\ UNCHANGED <<db, next, old, lineage, agreed, pending, rollback>>

RollbackUnbuild ==
    /\ Goto("unbuild", "disagree")
    /\ next' = None
    /\ Quiet /\ UNCHANGED <<db, old, staging, lineage, agreed, pending, rollback>>

RollbackStamp ==
    /\ Goto("disagree", "rolledback")
    /\ agreed' = IF db.epoch \in lineage THEN Version[db.epoch] ELSE ver
    /\ Quiet /\ UNCHANGED <<db, next, old, staging, lineage, pending, rollback>>

RollbackDone ==
    /\ Goto("rolledback", "walk")
    /\ rollback' = FALSE
    /\ Quiet /\ UNCHANGED <<db, next, old, staging, lineage, agreed, pending>>

\* State C: the process died between the two renames.  State D, only the
\* retained database is left, is fatal.
FinishSwap ==
    /\ pc = "dispatch" /\ db = None
    /\ pc' = IF next = None THEN "fatal" ELSE "restamp"
    /\ db' = next /\ next' = None
    /\ Quiet /\ UNCHANGED <<old, staging, lineage, agreed, pending, rollback>>

Restamp ==
    /\ Goto("restamp", "walk")
    /\ agreed' = IF db.epoch \in lineage THEN Version[db.epoch] ELSE agreed
    /\ Quiet /\ UNCHANGED <<db, next, old, staging, lineage, pending, rollback>>

-----------------------------------------------------------------------------
(* staged_join_transition *)

NoManifest ==
    /\ Goto("dispatch", "gates")
    /\ db # None /\ ~IsManifest(staging)
    /\ Quiet /\ UNCHANGED files

Staged == pc = "dispatch" /\ db # None /\ IsManifest(staging)
Reached == db.epoch >= staging.to

\* A leftover of a join that has happened: its flags are not to be trusted
StagedReached ==
    /\ Staged /\ Reached /\ pc' = "unstaged"
    /\ pending' = TRUE
    /\ Quiet /\ UNCHANGED <<db, next, old, staging, lineage, agreed, rollback>>

\* The marker cannot be written: walk now, or hold the engine
StagedReachedUnmarked ==
    /\ Staged /\ Reached
    /\ \/ /\ db' = [db EXCEPT !.flags = "whole"] /\ pending' = FALSE
          /\ staging' = None /\ pc' = "gates"
          /\ UNCHANGED <<abandoned, carried, parked, engine>>
       \/ UNCHANGED <<db, staging, pending>> /\ Park("held")
    /\ UNCHANGED <<next, old, lineage, agreed, rollback, world>>

DropStaging ==
    /\ Goto("unstaged", "gates")
    /\ staging' = None
    /\ Quiet /\ UNCHANGED <<db, next, old, lineage, agreed, pending, rollback>>

StagedOtherVersion ==
    /\ Staged /\ ~Reached /\ ver # Version[staging.to]
    /\ ActivateOrPark(Version[staging.to])

\* Mutant: the staging is kept.
PoisonKept ==
    /\ Staged /\ ~Reached /\ ver = Version[staging.to] /\ staging.from # db.epoch
    /\ Park("gate")
    /\ UNCHANGED <<files, world>>

\* poison: the chain does not start at this node's own epoch
StagedPoisoned ==
    /\ Staged /\ ~Reached /\ ver = Version[staging.to] /\ staging.from # db.epoch
    /\ staging' = None
    /\ Park("gate")
    /\ UNCHANGED <<db, next, old, lineage, agreed, pending, rollback, world>>

Joinable == Staged /\ ~Reached /\ ver = Version[staging.to] /\ staging.from = db.epoch

\* build_artifact_db fails
ScratchFails ==
    /\ Joinable
    /\ Park("gate")
    /\ UNCHANGED <<files, world>>

JoinStart ==
    /\ Joinable
    /\ pc' = "joinbuild"
    /\ carried' = ~pending
    /\ next' = Partial
    /\ UNCHANGED <<db, old, staging, lineage, agreed, pending, rollback>>
    /\ UNCHANGED <<abandoned, parked, engine, world>>

JoinBuilt ==
    /\ Goto("joinbuild", "joinlineage")
    /\ next' = Database(staging.to, Carry(db.flags, carried), ver)
    /\ Quiet /\ UNCHANGED <<db, old, staging, lineage, agreed, pending, rollback>>

\* The staged records not yet on disk
Unwritten == (staging.from + 1) .. staging.to \ lineage

\* Mutant: only the record of the target is kept.
TargetLineage ==
    /\ pc = "joinlineage"
    /\ pc' = "joinmark"
    /\ lineage' = lineage \cup {staging.to}
    /\ Quiet /\ UNCHANGED <<db, next, old, staging, agreed, pending, rollback>>

\* One record after the other, the lowest epoch first
JoinLineage ==
    /\ pc = "joinlineage"
    /\ \/ Unwritten = {} /\ pc' = "joinmark" /\ UNCHANGED lineage
       \/ \E e \in Unwritten :
            /\ \A f \in Unwritten : e <= f
            /\ lineage' = lineage \cup {e}
            /\ UNCHANGED pc
    /\ Quiet /\ UNCHANGED <<db, next, old, staging, agreed, pending, rollback>>

\* Mutant: the join goes live unmarked.
JoinMarkLate ==
    /\ Goto("joinmark", "joinretain")
    /\ Quiet /\ UNCHANGED files

JoinMark ==
    /\ Goto("joinmark", "joinretain")
    /\ pending' = TRUE
    /\ Quiet /\ UNCHANGED <<db, next, old, staging, lineage, agreed, rollback>>

JoinClear ==
    /\ Goto("joinclear", "joinagree")
    /\ staging' = None
    /\ Quiet /\ UNCHANGED <<db, next, old, lineage, agreed, pending, rollback>>

JoinAgree ==
    /\ Goto("joinagree", "joinreconcile")
    /\ agreed' = Version[db.epoch]
    /\ Quiet /\ UNCHANGED <<db, next, old, staging, lineage, pending, rollback>>

\* targeted, unless the build was not to carry flags or found none to carry
JoinReconcile ==
    /\ Goto("joinreconcile", "walk")
    /\ \E targeted \in {carried, FALSE} : db' = [db EXCEPT !.flags = Reconcile(@, targeted)]
    /\ pending' = FALSE
    /\ Quiet /\ UNCHANGED <<next, old, staging, lineage, agreed, rollback>>

\* The wrapper walks the store instead
JoinReconcileFails ==
    /\ Goto("joinreconcile", "walk")
    /\ Quiet /\ UNCHANGED files

-----------------------------------------------------------------------------
(* checkpoint_and_swap, on both paths *)

Retain ==
    /\ \/ Goto("joinretain", "joininstall")
       \/ Goto("sealretain", "sealinstall")
    /\ old' = db /\ db' = None
    /\ Quiet /\ UNCHANGED <<next, staging, lineage, agreed, pending, rollback>>

\* SwapError::Refused
RetainRefused ==
    /\ pc \in {"joinretain", "sealretain"}
    /\ next' = None
    /\ pending' = (pending /\ ~(pc = "joinretain" /\ carried))
    /\ Park("gate")
    /\ UNCHANGED <<db, old, staging, lineage, agreed, rollback, world>>

Install ==
    /\ \/ Goto("joininstall", "joinclear")
       \/ Goto("sealinstall", "sealagree")
    /\ db' = next /\ next' = None
    /\ Quiet /\ UNCHANGED <<old, staging, lineage, agreed, pending, rollback>>

BuildFails ==
    /\ pc \in {"joinbuild", "joinlineage", "joinmark", "sealbuild", "seallineage"}
    /\ next' = None
    /\ Park("gate")
    /\ UNCHANGED <<db, old, staging, lineage, agreed, pending, rollback, world>>

-----------------------------------------------------------------------------
(* The gates of a database that is not sealed (state A) or is (state B) *)

OpenGate ==
    /\ pc = "gates" /\ ~Sealed(db)
    /\ next' = None
    /\ IF agreed # 0 /\ ver > agreed
         THEN Park("ahead")
         ELSE pc' = "walk" /\ UNCHANGED <<abandoned, carried, parked, engine>>
    /\ UNCHANGED <<db, old, staging, lineage, agreed, pending, rollback, world>>

DissentGate ==
    /\ pc = "gates" /\ Sealed(db)
    /\ db.dissent \/ ~db.phase
    /\ Park("gate")
    /\ UNCHANGED <<files, world>>

VersionGate ==
    /\ pc = "gates" /\ Sealed(db) /\ ~db.dissent /\ ver # Version[db.epoch + 1]
    /\ ActivateOrPark(Version[db.epoch + 1])

\* Mutant: the build runs whatever the version.
StartAnyVersion ==
    /\ Goto("gates", "sealbuild")
    /\ Sealed(db) /\ ~db.dissent
    /\ next' = Partial
    /\ Quiet /\ UNCHANGED <<db, old, staging, lineage, agreed, pending, rollback>>

SealStart ==
    /\ Goto("gates", "sealbuild")
    /\ Sealed(db) /\ ~db.dissent /\ ver = Version[db.epoch + 1]
    /\ next' = Partial
    /\ Quiet /\ UNCHANGED <<db, old, staging, lineage, agreed, pending, rollback>>

SealBuilt ==
    /\ Goto("sealbuild", "seallineage")
    /\ next' = Database(db.epoch + 1, db.flags, ver)
    /\ Quiet /\ UNCHANGED <<db, old, staging, lineage, agreed, pending, rollback>>

SealLineage ==
    /\ Goto("seallineage", "sealretain")
    /\ lineage' = lineage \cup {db.epoch + 1}
    /\ Quiet /\ UNCHANGED <<db, next, old, staging, agreed, pending, rollback>>

SealAgree ==
    /\ Goto("sealagree", "walk")
    /\ agreed' = Version[db.epoch]
    /\ Quiet /\ UNCHANGED <<db, next, old, staging, lineage, pending, rollback>>

-----------------------------------------------------------------------------
(* boot_transition_at's walk, and what main.rs makes of the outcome *)

NoWalk ==
    /\ Goto("walk", "start") /\ ~pending
    /\ Quiet /\ UNCHANGED files

Walk ==
    /\ Goto("walk", "start") /\ pending
    /\ db' = [db EXCEPT !.flags = "whole"]
    /\ pending' = FALSE
    /\ Quiet /\ UNCHANGED <<next, old, staging, lineage, agreed, rollback>>

\* hold_engine
WalkFails ==
    /\ pc = "walk" /\ pending
    /\ Park("held")
    /\ UNCHANGED <<files, world>>

\* backfill_agreed_version; spawn_engine, unless held
Start ==
    /\ Goto("start", "up")
    /\ agreed' = IF agreed = 0 /\ db.epoch \in lineage THEN Version[db.epoch] ELSE agreed
    /\ engine' = IF parked # "held" /\ ~Sealed(db) THEN "on" ELSE "off"
    /\ UNCHANGED <<db, next, old, staging, lineage, pending, rollback>>
    /\ UNCHANGED <<abandoned, carried, parked, world>>

-----------------------------------------------------------------------------
(* The running node *)

Up == pc = "up"

\* The first height of an epoch, with the peers in the same epoch
Decide ==
    /\ Up /\ engine = "on" /\ ~db.decided /\ db.epoch = mesh
    /\ db' = [db EXCEPT !.decided = TRUE]
    /\ UNCHANGED <<next, old, staging, lineage, agreed, pending, rollback, process, world>>

\* spawn_rollback_cleanup: the rollback window closes
CleanRetained ==
    /\ Up /\ engine = "on" /\ old # None /\ db.decided
    /\ old' = None
    /\ UNCHANGED <<db, next, staging, lineage, agreed, pending, rollback, process, world>>

\* regenesis_commit decides here, first or behind the peers; the engine halts
Seal(dissent) ==
    /\ Up /\ engine = "on" /\ db.epoch < MaxEpoch
    /\ mesh >= db.epoch
    /\ db' = [db EXCEPT !.mark = TRUE, !.phase = TRUE, !.dissent = @ \/ dissent, !.decided = TRUE]
    /\ engine' = "halted"
    /\ mesh' = IF mesh = db.epoch THEN mesh + 1 ELSE mesh
    /\ UNCHANGED <<next, old, staging, lineage, agreed, pending, rollback>>
    /\ UNCHANGED <<pc, abandoned, carried, parked, ver, restored>>

\* run_epoch_join: the download, then the manifest
StageBegin ==
    /\ Up /\ mesh > db.epoch /\ staging = None
    /\ staging' = Partial
    /\ UNCHANGED <<db, next, old, lineage, agreed, pending, rollback, process, world>>

StageManifest ==
    /\ Up /\ mesh > db.epoch /\ staging = Partial
    /\ staging' = [from |-> db.epoch, to |-> mesh]
    /\ UNCHANGED <<db, next, old, lineage, agreed, pending, rollback, process, world>>

\* post_regenesis_rollback, while rollback_available
RequestRollback ==
    /\ Up /\ ~rollback
    /\ old # None \/ Sealed(db)
    /\ rollback' = TRUE
    /\ UNCHANGED <<db, next, old, staging, lineage, agreed, pending, process, world>>

\* Mutant: the rollback route leaves the restart to the operator.
RestartWithoutRollback ==
    \/ IsManifest(staging) /\ ver = Version[staging.to]
    \/ engine = "halted" /\ ver = Version[db.epoch + 1]
    \/ parked = "held"

\* The restart signal of the join, of the seal work and of the held engine
RestartWanted ==
    \/ IsManifest(staging) /\ ver = Version[staging.to]
    \/ engine = "halted" /\ ver = Version[db.epoch + 1]
    \/ parked = "held"
    \/ rollback

Off ==
    /\ pc' = "off" /\ abandoned' = 0 /\ carried' = FALSE /\ parked' = "no" /\ engine' = "off"
    /\ UNCHANGED files

Restart == Up /\ RestartWanted /\ Off /\ UNCHANGED world

\* run_seal_work activates the staged generation and restarts into it
SealActivates ==
    /\ Up /\ engine = "halted" /\ ver # Version[db.epoch + 1]
    /\ ver' = Version[db.epoch + 1]
    /\ Off /\ UNCHANGED <<mesh, restored>>

Crash == pc \notin {"off", "fatal"} /\ ~(Up /\ RestartWanted) /\ Off /\ UNCHANGED world

-----------------------------------------------------------------------------
(* The operator's binary and the peers *)

Upgrade ==
    /\ pc = "off"
    /\ ver' \in Versions \ {ver}
    /\ UNCHANGED <<files, process, mesh, restored>>

\* The peers cross a boundary, or roll one back
MeshMoves ==
    /\ \/ mesh < MaxEpoch /\ mesh' = mesh + 1
       \/ mesh > 1 /\ mesh' = mesh - 1
    /\ UNCHANGED <<files, process, ver, restored>>

Rollback ==
    \/ RollbackDiscard \/ RollbackRestore \/ RollbackForget \/ RollbackUnmark
    \/ RollbackUnphase \/ RollbackNothing \/ RollbackUnstage \/ RollbackUnbuild
    \/ RollbackStamp \/ RollbackDone

Join ==
    \/ NoManifest \/ StagedReached \/ DropStaging \/ StagedOtherVersion \/ StagedPoisoned
    \/ JoinStart \/ JoinBuilt \/ JoinLineage \/ JoinMark \/ JoinClear \/ JoinAgree
    \/ JoinReconcile

Cross ==
    \/ FinishSwap \/ Restamp \/ Retain \/ Install
    \/ OpenGate \/ DissentGate \/ VersionGate
    \/ SealStart \/ SealBuilt \/ SealLineage \/ SealAgree

Progress == Boot \/ Rollback \/ Join \/ Cross \/ NoWalk \/ Walk \/ Start

Fault ==
    \/ ScratchFails \/ StagedReachedUnmarked \/ JoinReconcileFails \/ BuildFails \/ RetainRefused
    \/ WalkFails \/ Crash

Running ==
    \/ Decide \/ CleanRetained \/ StageBegin \/ StageManifest \/ RequestRollback \/ Restart
    \/ SealActivates
    \/ \E dissent \in BOOLEAN : Seal(dissent)

Next == Progress \/ Fault \/ Running \/ Upgrade \/ MeshMoves

Spec == Init /\ [][Next]_vars

\* The boot runs on, a wanted restart comes, and a node that sees its peers in
\* a newer epoch keeps trying to join (spawn_tip_poll, spawn_parked_epoch_join)
JoinsAlone == engine = "on" \/ parked = "gate"

Fairness ==
    /\ WF_vars(Progress)
    /\ WF_vars(Restart)
    /\ WF_vars(JoinsAlone /\ StageBegin)
    /\ WF_vars(JoinsAlone /\ StageManifest)

FairSpec == Spec /\ Fairness

-----------------------------------------------------------------------------
(* Properties *)

\* The files hold databases, manifests and markers of the shapes the boot reads.
EpochTypeOK ==
    /\ db \in Complete \cup {None}
    /\ next \in Complete \cup {None, Partial}
    /\ old \in Complete \cup {None}
    /\ staging \in Manifest \cup {None, Partial}
    /\ lineage \subseteq Epochs
    /\ agreed \in Versions \cup {0}
    /\ pending \in BOOLEAN /\ rollback \in BOOLEAN
    /\ carried \in BOOLEAN /\ engine \in {"off", "on", "halted"}
    /\ abandoned \in Epochs \cup {0}
    /\ parked \in {"no", "upgrade", "gate", "ahead", "held"}
    /\ ver \in Versions /\ mesh \in Epochs /\ restored \in BOOLEAN

\* Wherever the process dies, a mesh member never loses its database: when
\* database.db is missing, the retained one is there and the next boot knows
\* which way to go, back on a rollback request or forward to a complete build.
\* The retained database is of an earlier epoch than the one that replaces it,
\* so that a rollback goes back and an interrupted swap goes forward.  This is
\* the crash-safety contract at the top of boot.rs.
DatabaseKept ==
    /\ db = None => /\ old # None
                    /\ rollback \/ next \in Complete
    /\ old # None /\ db # None => old.epoch < db.epoch
    /\ old # None /\ db = None /\ ~rollback => old.epoch < next.epoch

\* Short of a rollback, an engine started by a boot that did not park runs on
\* complete flags: no crash, failed reconcile or abandoned join lets the
\* self-check take flags that are not reconciled for a removal.
HealthyEngineWhole ==
    engine = "on" /\ parked = "no" /\ ~restored => db.flags = "whole"

\* The same of every engine, as the comments of boot_transition_at, of the
\* reconcile-pending marker and of main.rs say ("engine will not start").
EngineWhole == engine = "on" => db.flags = "whole"

\* Every database was built by the version its epoch requires, whatever binary
\* was installed, activated or rolled back in between.
BuiltByItsVersion == db # None => db.by = Version[db.epoch]

\* The engine never runs on a chain that is sealed, also when the process dies
\* between the two deletes of clear_seal_state.
NoRetiredEngine == engine = "on" => ~db.phase

\* A running node holds the lineage record of every epoch behind it: it can
\* derive its anchor and answer the next straggler, after any join or rollback.
LineageServes == pc = "up" => 2 .. db.epoch \subseteq lineage

Calm == <>[][~Fault]_vars

\* When nothing fails any more, a rollback request is carried out or dropped.
RollbackEnds == Calm => [](rollback => <>(~rollback))

\* The node is up and waits for a version other than its own: the one of the
\* epoch that its seal opens, or of the epoch that its staging leads or led to.
AwaitsVersion ==
    /\ Up
    /\ \/ Sealed(db) /\ ver # Version[db.epoch + 1]
       \/ IsManifest(staging) /\ ver # Version[staging.to]

\* When nothing fails any more, nobody asks for a rollback and the node runs the
\* version of its peers' epoch, it ends up in that epoch, whatever dissented or
\* was interrupted before.  The one exception is a node that sealed for, or
\* staged, an epoch with another version: it waits for that version (gate 1 of
\* boot_transition_inner, of staged_join_transition and of run_epoch_join_with).
StragglerCrosses ==
    Calm /\ <>[](mesh = MaxEpoch /\ ver = Version[MaxEpoch] /\ ~rollback)
      => <>[](db # None /\ db.epoch = MaxEpoch) \/ <>[]AwaitsVersion
=============================================================================
