-------------------------- MODULE EpochBootProofs ---------------------------
(***************************************************************************)
(* Wherever the process dies, for any number of epochs and any versions,   *)
(* the node keeps a database it can boot from, every database was built by *)
(* the version of its epoch, no engine runs on a sealed chain or, short of *)
(* a park or a rollback, on partial flags, and the lineage is complete.    *)
(***************************************************************************)
EXTENDS EpochBoot, TLAPS

-----------------------------------------------------------------------------
(* Where the process is tells what the files hold *)

Rolling == {"discard", "restore", "forget", "unseal", "unphase", "unstage",
            "unbuild", "disagree", "rolledback"}
Joining == {"joinbuild", "joinlineage", "joinmark", "joinretain"}
Joined == {"joinclear", "joinagree", "joinreconcile"}
Sealing == {"sealbuild", "seallineage", "sealretain"}
Deciding == {"dispatch", "restamp", "unstaged", "gates", "walk", "start", "sealagree",
             "joininstall", "sealinstall"}

Files == {db, next, old}

\* What a file that is a database promises
Sound(d) == /\ d.by = Version[d.epoch]
            /\ Sealed(d) => d.epoch < MaxEpoch

Types ==
    /\ EpochTypeOK
    /\ pc \in {"off", "up"} \cup Rolling \cup Joining \cup Joined \cup Sealing \cup Deciding
    /\ \A d \in Files : d \in Complete => Sound(d)

\* A rollback request is dealt with before anything else
Requested ==
    /\ pc \in Rolling => rollback
    /\ rollback => pc \in {"off", "up"} \cup Rolling
    /\ pc \in {"discard", "restore"} => old # None
    /\ pc \in Rolling \ {"discard", "restore"} => old = None

\* The database is away only during a swap or a restore
Away ==
    /\ pc \in {"restore", "joininstall", "sealinstall"} => db = None
    /\ db = None => pc \in {"off", "dispatch", "discard", "restore", "joininstall", "sealinstall"}

\* Before a process runs an engine it has none, and is not parked
Engines ==
    /\ pc \notin {"start", "up"} => parked = "no"
    /\ pc # "up" => engine = "off"
    /\ engine = "on" => ~Sealed(db)
    /\ engine = "halted" => Sealed(db)

\* The build in next, while this process works on it
Built ==
    /\ pc \in Joining => /\ staging \in Manifest
                         /\ staging.from = db.epoch /\ db.epoch < staging.to
                         /\ ver = Version[staging.to]
    /\ pc \in Joining \ {"joinbuild"} => next \in Complete /\ next.epoch = staging.to
    /\ pc \in Sealing => Sealed(db) /\ ver = Version[db.epoch + 1]
    /\ pc \in Sealing \ {"sealbuild"} => next \in Complete /\ next.epoch = db.epoch + 1

\* Lineage records reach up to every database that a boot may end with
Lineage ==
    /\ db # None => 2 .. db.epoch \subseteq lineage
    /\ old # None => 2 .. old.epoch \subseteq lineage
    /\ db = None /\ ~rollback => 2 .. next.epoch \subseteq lineage
    /\ pc \in {"joinmark", "joinretain", "sealretain"} => 2 .. next.epoch \subseteq lineage
    /\ pc = "restore" => abandoned = 1 \/ abandoned > old.epoch
    /\ pc = "forget" => abandoned = 1 \/ abandoned > db.epoch

\* Short of a rollback, flags that are not whole are announced by the marker
Whole(d) == d.flags = "whole" \/ pending
Flags ==
    ~restored =>
        /\ db # None => Whole(db)
        /\ db = None /\ ~rollback => Whole(next)
        /\ pc \in Sealing \ {"sealbuild"} => Whole(next)
        /\ pc \in {"joinretain", "joininstall"} \cup Joined => pending
        /\ pc \in Joining /\ carried => db.flags = "whole"
        /\ pc \in Joining \ {"joinbuild"} /\ carried => next.flags = "new"
        /\ pc = "joininstall" /\ carried => next.flags = "new"
        /\ pc \in Joined /\ carried => db.flags = "new"
        /\ pc \in {"start", "up"} /\ parked = "no" => db.flags = "whole"

IInv == /\ Types /\ Requested /\ Away /\ Engines /\ Built /\ Lineage /\ Flags
        /\ DatabaseKept

-----------------------------------------------------------------------------
(* What the operations on a database do to what the boot reads of it *)

\* e is d with its seal state and its flags set anew
Rewritten(d, e, mark, phase, flags) ==
    /\ e \in Complete
    /\ e.epoch = d.epoch /\ e.by = d.by
    /\ e.mark <=> mark
    /\ e.phase <=> phase
    /\ e.flags = flags

\* clear_seal_state's first delete.
LEMMA Unmarked ==
  ASSUME NEW d \in Complete
  PROVE  Rewritten(d, [d EXCEPT !.mark = FALSE], FALSE, d.phase, d.flags)
<1>1. [d EXCEPT !.mark = FALSE] \in Complete BY Zenon DEF Complete
<1> QED BY <1>1 DEF Complete, Rewritten

\* clear_seal_state's second delete.
LEMMA Unphased ==
  ASSUME NEW d \in Complete
  PROVE  Rewritten(d, [d EXCEPT !.phase = FALSE], d.mark, FALSE, d.flags)
<1>1. [d EXCEPT !.phase = FALSE] \in Complete BY Zenon DEF Complete
<1> QED BY <1>1 DEF Complete, Rewritten

\* A reconcile or a walk.
LEMMA Flagged ==
  ASSUME NEW d \in Complete, NEW f \in {"whole", "new", "partial"}
  PROVE  Rewritten(d, [d EXCEPT !.flags = f], d.mark, d.phase, f)
  BY DEF Complete, Rewritten

\* The first decided height.
LEMMA Decided ==
  ASSUME NEW d \in Complete
  PROVE  Rewritten(d, [d EXCEPT !.decided = TRUE], d.mark, d.phase, d.flags)
<1>1. [d EXCEPT !.decided = TRUE] \in Complete BY Zenon DEF Complete
<1> QED BY <1>1 DEF Complete, Rewritten

\* The seal's transaction.
LEMMA SealWritten ==
  ASSUME NEW d \in Complete, NEW b \in BOOLEAN
  PROVE  Rewritten(d, [d EXCEPT !.mark = TRUE, !.phase = TRUE, !.dissent = @ \/ b,
                               !.decided = TRUE], TRUE, TRUE, d.flags)
<1> DEFINE e == [d EXCEPT !.mark = TRUE, !.phase = TRUE, !.dissent = @ \/ b, !.decided = TRUE]
<1>1. e \in Complete BY Zenon DEF Complete
<1> QED BY <1>1 DEF Complete, Rewritten

\* What the boot reads of a complete database lies in the epochs and versions
\* of the mesh; a sealed one has an epoch after it.
LEMMA Reads ==
  ASSUME EpochAssumption, NEW d \in Complete
  PROVE /\ d # None /\ d # Partial
        /\ d.epoch \in Epochs /\ d.epoch \in Int /\ d.epoch >= 1 /\ d.epoch <= MaxEpoch
        /\ d.flags \in {"whole", "new", "partial"}
        /\ Version[d.epoch] \in Versions
        /\ d.epoch < MaxEpoch => d.epoch + 1 \in Epochs /\ Version[d.epoch + 1] \in Versions
  BY SMTT(30) DEF Complete, EpochAssumption, Epochs, Versions

\* A build is a complete database with no seal state.
LEMMA Builds ==
  ASSUME NEW e \in Epochs, NEW f \in {"whole", "new", "partial"}, NEW v \in Versions
  PROVE LET d == Database(e, f, v) IN
             /\ d \in Complete /\ d.epoch = e /\ d.by = v /\ d.flags = f
             /\ ~d.mark /\ ~d.phase
  BY SMTT(30) DEF Complete, Database

-----------------------------------------------------------------------------
(* Every step keeps the shapes *)

\* Every file change of the boot, and of the running node, leaves databases,
\* manifests and markers of the shapes that the boot reads.
LEMMA TypeStep ==
  ASSUME EpochAssumption, IInv, Next
  PROVE  EpochTypeOK'
<1>1. EpochTypeOK
  BY DEF IInv, Types
<1>2. pc \notin {"off", "dispatch", "discard", "restore", "joininstall", "sealinstall"}
        => db \in Complete
  BY SMTT(30) DEF IInv, Away, Types, EpochTypeOK
<1>3. db = None /\ ~(pc \in Rolling \cup {"off", "up"}) => next \in Complete
  BY DEF IInv, DatabaseKept, Requested
<1>4. pc \in {"joininstall", "sealinstall"} => db = None
  BY DEF IInv, Away
<1>5. Sealed(db) /\ db \in Complete => Version[db.epoch + 1] \in Versions /\ db.epoch + 1 \in Epochs
  BY Reads DEF IInv, Types, Sound, Files
<1>6. IsManifest(staging)
        => staging.from \in Epochs /\ staging.to \in Epochs /\ Version[staging.to] \in Versions
  BY <1>1 DEF EpochTypeOK, IsManifest, Manifest, Versions
<1>7. pc \in Joining => staging.from \in Epochs /\ staging.to \in Epochs
  BY DEF IInv, Built, Manifest
<1>8. pc \in Sealing => Sealed(db)
  BY DEF IInv, Built
<1> USE <1>1 DEF EpochTypeOK, Goto, Quiet, files, process, world, Park, Up, Off
<1>9. CASE Boot BY <1>9 DEF Boot
<1>10. CASE RollbackDiscard
  BY <1>10, Reads DEF RollbackDiscard, EpochAssumption, Epochs
<1>11. CASE RollbackRestore
  <2>1. restored' \in BOOLEAN BY <1>11, Zenon DEF RollbackRestore
  <2> QED BY <1>11, <2>1 DEF RollbackRestore
<1>12. CASE RollbackForget BY <1>12 DEF RollbackForget
<1>13. CASE RollbackUnmark BY <1>13, <1>2, Unmarked DEF RollbackUnmark, Rewritten
<1>14. CASE RollbackUnphase BY <1>14, <1>2, Unphased DEF RollbackUnphase, Rewritten
<1>15. CASE RollbackNothing \/ RollbackDone
  <2>1. rollback' \in BOOLEAN BY <1>15, Zenon DEF RollbackNothing, RollbackDone
  <2> QED BY <1>15, <2>1 DEF RollbackNothing, RollbackDone
<1>16. CASE RollbackUnstage \/ RollbackUnbuild
  BY <1>16 DEF RollbackUnstage, RollbackUnbuild
<1>17. CASE RollbackStamp BY <1>17, <1>2, Reads DEF RollbackStamp
<1>18. CASE NoManifest BY <1>18 DEF NoManifest
<1>19. CASE StagedReached
  <2>1. pending' \in BOOLEAN BY <1>19, Zenon DEF StagedReached
  <2> QED BY <1>19, <2>1 DEF StagedReached
<1>20. CASE DropStaging BY <1>20 DEF DropStaging
<1>21. CASE StagedOtherVersion
  BY <1>21, <1>6 DEF StagedOtherVersion, Staged, ActivateOrPark
<1>22. CASE StagedPoisoned BY <1>22 DEF StagedPoisoned
<1>23. CASE JoinStart
  <2>1. carried' \in BOOLEAN BY <1>23, Zenon DEF JoinStart
  <2> QED BY <1>23, <2>1 DEF JoinStart
<1>24. CASE JoinBuilt
  <2>1. Carry(db.flags, carried) \in {"whole", "new", "partial"} BY DEF Carry
  <2>2. next' \in Complete
    BY <1>24, <2>1, <1>7, Builds DEF JoinBuilt, Joining
  <2> QED BY <1>24, <2>2 DEF JoinBuilt
<1>25. CASE JoinLineage
  <2>1. Unwritten \subseteq Epochs
    BY <1>25, <1>7 DEF JoinLineage, Joining, Epochs, EpochAssumption, Unwritten
  <2> QED BY <1>25, <2>1 DEF JoinLineage
<1>26. CASE JoinMark
  <2>1. pending' \in BOOLEAN BY <1>26, Zenon DEF JoinMark
  <2> QED BY <1>26, <2>1 DEF JoinMark
<1>27. CASE JoinClear BY <1>27 DEF JoinClear
<1>28. CASE JoinAgree \/ SealAgree BY <1>28, <1>2, Reads DEF JoinAgree, SealAgree
<1>29. CASE JoinReconcile
  <2>1. pending' \in BOOLEAN BY <1>29, Zenon DEF JoinReconcile
  <2>2. \A t : Reconcile(db.flags, t) \in {"whole", "new", "partial"} BY DEF Reconcile
  <2>3. PICK t \in {carried, FALSE} : db' = [db EXCEPT !.flags = Reconcile(@, t)]
    BY <1>29, Zenon DEF JoinReconcile
  <2>4. db \in Complete BY <1>29, <1>2 DEF JoinReconcile
  <2>5. db' \in Complete BY <2>2, <2>3, <2>4, Flagged, Zenon DEF Rewritten
  <2> QED BY <1>29, <2>1, <2>5 DEF JoinReconcile
<1>30. CASE FinishSwap BY <1>30, <1>3 DEF FinishSwap, Rolling
<1>31. CASE Restamp BY <1>31, <1>2, Reads DEF Restamp
<1>32. CASE Retain BY <1>32 DEF Retain
<1>33. CASE Install BY <1>33, <1>3, <1>4 DEF Install, Rolling
<1>34. CASE OpenGate \/ DissentGate BY <1>34 DEF OpenGate, DissentGate
<1>35. CASE VersionGate BY <1>35, <1>2, <1>5 DEF VersionGate, ActivateOrPark
<1>36. CASE SealStart BY <1>36 DEF SealStart
<1>37. CASE SealBuilt
  <2>1. db \in Complete /\ db.epoch + 1 \in Epochs /\ db.flags \in {"whole", "new", "partial"}
    BY <1>37, <1>2, <1>5, <1>8, Reads DEF SealBuilt, Sealing
  <2>2. next' \in Complete BY <1>37, <2>1, Builds DEF SealBuilt
  <2> QED BY <1>37, <2>2 DEF SealBuilt
<1>38. CASE SealLineage
  BY <1>38, <1>2, <1>5, <1>8 DEF SealLineage, Sealing
<1>39. CASE NoWalk \/ WalkFails BY <1>39 DEF NoWalk, WalkFails
<1>40. CASE Walk
  <2>1. pending' \in BOOLEAN BY <1>40, Zenon DEF Walk
  <2>2. db' \in Complete BY <1>40, <1>2, Flagged, Zenon DEF Walk, Rewritten
  <2> QED BY <1>40, <2>1, <2>2 DEF Walk
<1>41. CASE Start BY <1>41, <1>2, Reads DEF Start
<1>42. CASE ScratchFails \/ JoinReconcileFails \/ BuildFails
  BY <1>42 DEF ScratchFails, JoinReconcileFails, BuildFails
<1>43. CASE StagedReachedUnmarked
  <2>1. db \in Complete BY <1>43 DEF StagedReachedUnmarked, Staged
  <2>2. [db EXCEPT !.flags = "whole"] \in Complete BY <2>1, Flagged, Zenon DEF Rewritten
  <2>3. pending' \in BOOLEAN BY <1>43, Zenon DEF StagedReachedUnmarked
  <2> QED BY <1>43, <2>2, <2>3 DEF StagedReachedUnmarked
<1>44. CASE RetainRefused
  <2>1. pending' \in BOOLEAN BY <1>44, Zenon DEF RetainRefused
  <2> QED BY <1>44, <2>1 DEF RetainRefused
<1>45. CASE Crash \/ Restart BY <1>45, Zenon DEF Crash, Restart
<1>46. CASE Decide
  <2>1. db' \in Complete BY <1>46, <1>2, Decided DEF Decide, Rewritten
  <2> QED BY <1>46, <2>1 DEF Decide
<1>47. CASE CleanRetained \/ StageBegin BY <1>47 DEF CleanRetained, StageBegin
<1>48. CASE StageManifest
  <2>1. staging' \in Manifest BY <1>48, <1>2, Reads DEF StageManifest, Manifest
  <2> QED BY <1>48, <2>1 DEF StageManifest
<1>49. CASE RequestRollback
  <2>1. rollback' \in BOOLEAN BY <1>49, Zenon DEF RequestRollback
  <2> QED BY <1>49, <2>1 DEF RequestRollback
<1>50. CASE SealActivates
  <2>1. carried' \in BOOLEAN BY <1>50, Zenon DEF SealActivates
  <2>2. Version[db.epoch + 1] \in Versions
    BY <1>50, <1>2, <1>5 DEF SealActivates, IInv, Engines
  <2> QED BY <1>50, <2>1, <2>2 DEF SealActivates
<1>51. ASSUME NEW dissent \in BOOLEAN, Seal(dissent) PROVE EpochTypeOK'
  <2>1. db' \in Complete BY <1>51, <1>2, SealWritten, Zenon DEF Seal, Rewritten
  <2>2. mesh' \in Epochs BY <1>51, <1>2, Reads DEF Seal
  <2> QED BY <1>51, <2>1, <2>2, SMTT(30) DEF Seal
<1>52. CASE Upgrade BY <1>52 DEF Upgrade
<1>53. CASE MeshMoves BY <1>53 DEF MeshMoves, Epochs, EpochAssumption
<1> QED
  BY <1>9, <1>10, <1>11, <1>12, <1>13, <1>14, <1>15, <1>16, <1>17, <1>18, <1>19,
     <1>20, <1>21, <1>22, <1>23, <1>24, <1>25, <1>26, <1>27, <1>28, <1>29, <1>30,
     <1>31, <1>32, <1>33, <1>34, <1>35, <1>36, <1>37, <1>38, <1>39, <1>40, <1>41,
     <1>42, <1>43, <1>44, <1>45, <1>46, <1>47, <1>48, <1>49, <1>50, <1>51, <1>52,
     <1>53, Zenon DEF Next, Progress, Rollback, Join, Cross, Fault, Running

-----------------------------------------------------------------------------
(* Every step keeps the invariant *)

\* The rollback: a request outlives every crash before its last step, and what
\* it restores is older than what it discards.
LEMMA RollbackStep ==
  ASSUME EpochAssumption, IInv, Boot \/ Rollback, EpochTypeOK'
  PROVE  IInv'
<1>1. pc \notin {"off", "dispatch", "discard", "restore", "joininstall", "sealinstall"}
        => db \in Complete
  BY SMTT(30) DEF IInv, Away, Types, EpochTypeOK
<1> USE DEF IInv, Types, EpochTypeOK, Requested, Away, Engines, Built, Lineage, Flags, DatabaseKept,
       Whole, Sound, Files, Sealed, Rolling, Joining, Joined, Sealing, Deciding,
       EpochAssumption
<1>2. CASE Boot
  BY <1>2, SMTT(60) DEF Boot, Quiet, files, world
<1>3. CASE RollbackDiscard
  BY <1>3, SMTT(60) DEF RollbackDiscard, Goto, world
<1>4. CASE RollbackRestore
  BY <1>4, SMTT(60) DEF RollbackRestore, Goto
<1>5. CASE RollbackForget
  BY <1>5, SMTT(60) DEF RollbackForget, Goto, Quiet, world, Complete, Epochs
<1>6. CASE RollbackUnmark
  <2>1. Rewritten(db, db', FALSE, db.phase, db.flags)
    BY <1>6, <1>1, Unmarked, Zenon DEF RollbackUnmark, Goto
  <2>2. /\ Goto("unseal", "unphase")
        /\ Quiet /\ UNCHANGED <<next, old, staging, lineage, agreed, pending, rollback>>
    BY <1>6, Zenon DEF RollbackUnmark
  <2> QED BY <2>1, <2>2, SMTT(60) DEF Rewritten, Goto, Quiet, world
<1>7. CASE RollbackUnphase
  <2>1. Rewritten(db, db', db.mark, FALSE, db.flags)
    BY <1>7, <1>1, Unphased, Zenon DEF RollbackUnphase, Goto
  <2>2. /\ Goto("unphase", "unstage")
        /\ Quiet /\ UNCHANGED <<next, old, staging, lineage, agreed, pending, rollback>>
    BY <1>7, Zenon DEF RollbackUnphase
  <2> QED BY <2>1, <2>2, SMTT(60) DEF Rewritten, Goto, Quiet, world
<1>8. CASE RollbackNothing
  BY <1>8, SMTT(60) DEF RollbackNothing, Goto, Quiet, world
<1>9. CASE RollbackUnstage
  BY <1>9, SMTT(60) DEF RollbackUnstage, Goto, Quiet, world
<1>10. CASE RollbackUnbuild
  BY <1>10, SMTT(60) DEF RollbackUnbuild, Goto, Quiet, world
<1>11. CASE RollbackStamp
  BY <1>11, SMTT(60) DEF RollbackStamp, Goto, Quiet, world
<1>12. CASE RollbackDone
  BY <1>12, SMTT(60) DEF RollbackDone, Goto, Quiet, world
<1> QED
  BY <1>2, <1>3, <1>4, <1>5, <1>6, <1>7, <1>8, <1>9, <1>10, <1>11, <1>12, Zenon DEF Rollback

\* The lineage records of a staged join, one after the other: the build goes
\* on when none is missing.
LEMMA LineageStep ==
  ASSUME EpochAssumption, IInv, JoinLineage, EpochTypeOK'
  PROVE  IInv'
<1>1. /\ pc = "joinlineage" /\ pc' \in {"joinlineage", "joinmark"} /\ lineage \subseteq lineage'
      /\ UNCHANGED <<db, next, old, staging, agreed, pending, rollback>>
      /\ UNCHANGED <<abandoned, carried, parked, engine, ver, mesh, restored>>
  BY Zenon DEF JoinLineage, Quiet, world
<1>2. db \in Complete /\ next \in Complete /\ staging \in Manifest
  BY <1>1, SMTT(30) DEF IInv, Built, Joining, Away, Types, EpochTypeOK
<1>3. pc' = "joinmark" => 2 .. next.epoch \subseteq lineage'
  <2> SUFFICES ASSUME pc' = "joinmark" PROVE 2 .. next.epoch \subseteq lineage'
    BY Zenon
  <2>1. Unwritten = {} /\ lineage' = lineage
    BY <1>1, Zenon DEF JoinLineage
  <2>2. /\ 2 .. db.epoch \subseteq lineage
        /\ staging.from = db.epoch /\ next.epoch = staging.to
    BY <1>1, <1>2, Reads, Zenon DEF IInv, Lineage, Built, Joining
  <2>3. db.epoch \in Int /\ staging.to \in Int
    BY <1>2 DEF Complete, Manifest, Epochs
  <2> QED BY <2>1, <2>2, <2>3 DEF Unwritten
<1>4. Types'
  BY <1>1, SMTT(30) DEF IInv, Types, Joining, Files, Sound, Sealed
<1>5. Requested' /\ Away' /\ Engines' /\ DatabaseKept'
  BY <1>1, SMTT(30) DEF IInv, Requested, Away, Engines, DatabaseKept, Rolling, Sealed
<1>6. Built'
  BY <1>1, SMTT(30) DEF IInv, Built, Joining, Sealing, Sealed
<1>7. Lineage'
  BY <1>1, <1>3, Zenon DEF IInv, Lineage
<1>8. Flags'
  BY <1>1, SMTT(30) DEF IInv, Flags, Whole, Joining, Joined, Sealing
<1> QED BY <1>4, <1>5, <1>6, <1>7, <1>8, Zenon DEF IInv

\* The staged join: the build is complete, of the manifest's target and of this
\* binary's version before anything is moved, and announced before it is live.
LEMMA JoinStep ==
  ASSUME EpochAssumption, IInv, Join, EpochTypeOK'
  PROVE  IInv'
<1>1. pc \notin {"off", "dispatch", "discard", "restore", "joininstall", "sealinstall"}
        => db \in Complete
  BY SMTT(30) DEF IInv, Away, Types, EpochTypeOK
<1>2. ASSUME JoinReconcile
      PROVE  \E t \in {carried, FALSE} :
               Rewritten(db, db', db.mark, db.phase, Reconcile(db.flags, t))
  <2>1. PICK t \in {carried, FALSE} : db' = [db EXCEPT !.flags = Reconcile(@, t)]
    BY <1>2, Zenon DEF JoinReconcile
  <2>2. db \in Complete
    BY <1>1, <1>2 DEF JoinReconcile, Goto
  <2>3. Reconcile(db.flags, t) \in {"whole", "new", "partial"}
    BY DEF Reconcile
  <2> QED BY <2>1, <2>2, <2>3, Flagged, Zenon
<1> USE DEF IInv, Types, EpochTypeOK, Requested, Away, Engines, Built, Lineage, Flags, DatabaseKept,
       Whole, Sound, Files, Sealed, Rolling, Joining, Joined, Sealing, Deciding,
       EpochAssumption
<1>3. CASE NoManifest
  BY <1>3, SMTT(60) DEF NoManifest, IsManifest, Goto, Quiet, files, world
<1>4. CASE StagedReached
  BY <1>4, SMTT(60) DEF StagedReached, Staged, Reached, Quiet, IsManifest, world
<1>5. CASE DropStaging
  BY <1>5, SMTT(60) DEF DropStaging, Goto, Quiet, world
<1>6. CASE StagedOtherVersion
  BY <1>6, SMTT(60) DEF StagedOtherVersion, Staged, Reached, ActivateOrPark, Park, IsManifest,
     files, Complete, Epochs
<1>7. CASE StagedPoisoned
  BY <1>7, SMTT(60) DEF StagedPoisoned, Staged, Reached, Park, IsManifest, world
<1>8. CASE JoinStart
  BY <1>8, SMTT(60) DEF JoinStart, Joinable, Staged, Reached, IsManifest, world, Manifest,
     Complete, Epochs
<1>9. CASE JoinBuilt
  BY <1>9, SMTT(60) DEF JoinBuilt, Database, Carry, Goto, Quiet, world, Manifest, Complete,
     Epochs
<1>10. CASE JoinLineage
  BY <1>10, LineageStep, Zenon
<1>11. CASE JoinMark
  BY <1>11, SMTT(60) DEF JoinMark, Goto, Quiet, world, Complete, Epochs
<1>12. CASE JoinClear
  BY <1>12, SMTT(60) DEF JoinClear, Goto, Quiet, world
<1>13. CASE JoinAgree
  BY <1>13, SMTT(60) DEF JoinAgree, Goto, Quiet, world
<1>14. CASE JoinReconcile
  <2>1. PICK t \in {carried, FALSE} :
          Rewritten(db, db', db.mark, db.phase, Reconcile(db.flags, t))
    BY <1>2, <1>14, Zenon
  <2>2. /\ Goto("joinreconcile", "walk") /\ ~pending'
        /\ Quiet /\ UNCHANGED <<next, old, staging, lineage, agreed, rollback>>
    BY <1>14, Zenon DEF JoinReconcile
  <2>3. ~restored => Reconcile(db.flags, t) = "whole"
    <3>1. CASE t
      <4>1. carried BY <2>1, <3>1, Zenon
      <4> QED BY <2>2, <4>1 DEF Goto, Reconcile
    <3>2. CASE ~t BY <3>2 DEF Reconcile
    <3> QED BY <3>1, <3>2, Zenon
  <2> QED BY <2>1, <2>2, <2>3, SMTT(60) DEF Rewritten, Goto, Quiet, world
<1> QED
  BY <1>3, <1>4, <1>5, <1>6, <1>7, <1>8, <1>9, <1>10, <1>11, <1>12, <1>13, <1>14, Zenon DEF Join

\* The first rename of a swap: the build that waits is complete and newer.
LEMMA RetainStep ==
  ASSUME EpochAssumption, IInv, Retain, EpochTypeOK'
  PROVE  IInv'
<1>1. /\ \/ pc = "joinretain" /\ pc' = "joininstall"
         \/ pc = "sealretain" /\ pc' = "sealinstall"
      /\ old' = db /\ db' = None
      /\ UNCHANGED <<next, staging, lineage, agreed, pending, rollback>>
      /\ UNCHANGED <<abandoned, carried, parked, engine, ver, mesh, restored>>
  BY Zenon DEF Retain, Goto, Quiet, world
<1>2. /\ db \in Complete /\ next \in Complete /\ db # None
      /\ ~rollback /\ db.epoch < next.epoch
  <2>1. db \in Complete /\ next \in Complete
    BY <1>1, SMTT(30) DEF IInv, Built, Joining, Sealing, Away, Types, EpochTypeOK
  <2>2. ~rollback
    BY <1>1, SMTT(30) DEF IInv, Requested, Rolling
  <2>3. db.epoch < next.epoch
    BY <1>1, <2>1, Reads, SMTT(30) DEF IInv, Built, Joining, Sealing
  <2> QED BY <2>1, <2>2, <2>3, Reads, Zenon
<1>3. None \notin Complete
  BY DEF EpochAssumption
<1>4. Types'
  BY <1>1, <1>2, <1>3, SMTT(30) DEF IInv, Types, Rolling, Joining, Joined, Sealing, Deciding,
     Files, Sound, Sealed
<1>5. Requested' /\ Away' /\ Engines'
  BY <1>1, <1>2, <1>3, SMTT(30) DEF IInv, Requested, Away, Engines, Rolling, Joining, Sealing,
     Sealed
<1>6. Built'
  BY <1>1, <1>2, <1>3, SMTT(30) DEF IInv, Built, Joining, Sealing, Sealed
<1>7. Lineage'
  BY <1>1, <1>2, <1>3, SMTT(30) DEF IInv, Lineage, Requested, Rolling, Joining, Sealing
<1>8. Flags'
  BY <1>1, <1>2, <1>3, SMTT(30) DEF IInv, Flags, Whole, Joining, Joined, Sealing
<1>9. DatabaseKept'
  BY <1>1, <1>2, <1>3, SMTT(30) DEF IInv, DatabaseKept, Requested, Built, Away, Rolling,
     Joining, Sealing
<1> QED BY <1>4, <1>5, <1>6, <1>7, <1>8, <1>9, Zenon DEF IInv

\* The second rename of a swap.
LEMMA InstallStep ==
  ASSUME EpochAssumption, IInv, Install, EpochTypeOK'
  PROVE  IInv'
<1>1. /\ \/ pc = "joininstall" /\ pc' = "joinclear"
         \/ pc = "sealinstall" /\ pc' = "sealagree"
      /\ db' = next /\ next' = None
      /\ UNCHANGED <<old, staging, lineage, agreed, pending, rollback>>
      /\ UNCHANGED <<abandoned, carried, parked, engine, ver, mesh, restored>>
  BY Zenon DEF Install, Goto, Quiet, world
<1>2. /\ db = None /\ old # None /\ next \in Complete /\ next # None
      /\ ~rollback /\ old.epoch < next.epoch
  <2>1. db = None
    BY <1>1, SMTT(30) DEF IInv, Away
  <2>2. ~rollback
    BY <1>1, SMTT(30) DEF IInv, Requested, Rolling
  <2>3. old # None /\ next \in Complete /\ old.epoch < next.epoch
    BY <2>1, <2>2, Zenon DEF IInv, DatabaseKept
  <2> QED BY <2>1, <2>2, <2>3, Reads, Zenon
<1>3. None \notin Complete
  BY DEF EpochAssumption
<1>4. Types'
  BY <1>1, <1>2, <1>3, SMTT(30) DEF IInv, Types, Rolling, Joining, Joined, Sealing, Deciding,
     Files, Sound, Sealed
<1>5. Requested' /\ Away' /\ Engines'
  BY <1>1, <1>2, <1>3, SMTT(30) DEF IInv, Requested, Away, Engines, Rolling, Joining, Sealing,
     Sealed
<1>6. Built'
  BY <1>1, <1>2, <1>3, SMTT(30) DEF IInv, Built, Joining, Sealing, Sealed
<1>7. Lineage'
  BY <1>1, <1>2, <1>3, SMTT(30) DEF IInv, Lineage, Requested, Rolling, Joining, Sealing
<1>8. Flags'
  BY <1>1, <1>2, <1>3, SMTT(30) DEF IInv, Flags, Whole, Joining, Joined, Sealing
<1>9. DatabaseKept'
  BY <1>1, <1>2, <1>3, SMTT(30) DEF IInv, DatabaseKept, Requested, Built, Away, Rolling,
     Joining, Sealing
<1> QED BY <1>4, <1>5, <1>6, <1>7, <1>8, <1>9, Zenon DEF IInv

\* The swap, the gates and the walk: the database is away only between the two
\* renames, when the complete build waits in next.
LEMMA CrossStep ==
  ASSUME EpochAssumption, IInv, Cross \/ NoWalk \/ Walk \/ Start, EpochTypeOK'
  PROVE  IInv'
<1>1. pc \notin {"off", "dispatch", "discard", "restore", "joininstall", "sealinstall"}
        => db \in Complete
  BY SMTT(30) DEF IInv, Away, Types, EpochTypeOK
<1> USE DEF IInv, Types, EpochTypeOK, Requested, Away, Engines, Built, Lineage, Flags, DatabaseKept,
       Whole, Sound, Files, Sealed, Rolling, Joining, Joined, Sealing, Deciding,
       EpochAssumption
<1>2. CASE FinishSwap
  BY <1>2, SMTT(60) DEF FinishSwap, Quiet, world, Complete, Epochs
<1>3. CASE Restamp
  BY <1>3, SMTT(60) DEF Restamp, Goto, Quiet, world
<1>4. CASE Retain
  BY <1>4, RetainStep, Zenon
<1>5. CASE Install
  BY <1>5, InstallStep, Zenon
<1>6. CASE OpenGate
  BY <1>6, SMTT(60) DEF OpenGate, Park, world
<1>7. CASE DissentGate
  BY <1>7, SMTT(60) DEF DissentGate, Park, files, world
<1>8. CASE VersionGate
  BY <1>8, SMTT(60) DEF VersionGate, ActivateOrPark, Park, files, Complete, Epochs
<1>9. CASE SealStart
  BY <1>9, SMTT(60) DEF SealStart, Goto, Quiet, world, Complete, Epochs
<1>10. CASE SealBuilt
  BY <1>10, SMTT(60) DEF SealBuilt, Database, Goto, Quiet, world, Complete, Epochs
<1>11. CASE SealLineage
  BY <1>11, SMTT(60) DEF SealLineage, Goto, Quiet, world, Complete, Epochs
<1>12. CASE SealAgree
  BY <1>12, SMTT(60) DEF SealAgree, Goto, Quiet, world
<1>13. CASE NoWalk
  BY <1>13, SMTT(60) DEF NoWalk, Goto, Quiet, files, world
<1>14. CASE Walk
  <2>1. Rewritten(db, db', db.mark, db.phase, "whole")
    BY <1>14, <1>1, Flagged, Zenon DEF Walk, Goto
  <2>2. /\ Goto("walk", "start") /\ ~pending'
        /\ Quiet /\ UNCHANGED <<next, old, staging, lineage, agreed, rollback>>
    BY <1>14, Zenon DEF Walk
  <2> QED BY <2>1, <2>2, SMTT(60) DEF Rewritten, Goto, Quiet, world
<1>15. CASE Start
  BY <1>15, SMTT(60) DEF Start, Goto, world
<1> QED
  BY <1>2, <1>3, <1>4, <1>5, <1>6, <1>7, <1>8, <1>9, <1>10, <1>11, <1>12, <1>13, <1>14, <1>15,
     Zenon DEF Cross

\* Failures and crashes: whatever is left behind, the next boot finds its way.
LEMMA FaultStep ==
  ASSUME EpochAssumption, IInv, Fault, EpochTypeOK'
  PROVE  IInv'
<1>1. pc \notin {"off", "dispatch", "discard", "restore", "joininstall", "sealinstall"}
        => db \in Complete
  BY SMTT(30) DEF IInv, Away, Types, EpochTypeOK
<1> USE DEF IInv, Types, EpochTypeOK, Requested, Away, Engines, Built, Lineage, Flags, DatabaseKept,
       Whole, Sound, Files, Sealed, Rolling, Joining, Joined, Sealing, Deciding,
       EpochAssumption
<1>2. CASE ScratchFails
  BY <1>2, SMTT(60) DEF ScratchFails, Joinable, Park, Staged, Reached, IsManifest, files, world
<1>3. CASE StagedReachedUnmarked
  <2>1. CASE pc' = "gates"
    <3>1. Rewritten(db, db', db.mark, db.phase, "whole")
      <4>1. db \in Complete /\ db' = [db EXCEPT !.flags = "whole"]
        BY <1>3, <2>1 DEF StagedReachedUnmarked, Park, Staged
      <4> QED BY <4>1, Flagged, Zenon
    <3>2. /\ pc = "dispatch" /\ db # None /\ staging' = None /\ ~pending'
          /\ UNCHANGED <<next, old, lineage, agreed, rollback>>
          /\ UNCHANGED <<abandoned, carried, parked, engine, ver, mesh, restored>>
      BY <1>3, <2>1 DEF StagedReachedUnmarked, Park, Staged, world
    <3> QED BY <2>1, <3>1, <3>2, SMTT(60) DEF Rewritten
  <2>2. CASE pc' = "start"
    BY <1>3, <2>2, SMTT(60) DEF StagedReachedUnmarked, Park, Staged, world
  <2> QED BY <1>3, <2>1, <2>2, Zenon DEF StagedReachedUnmarked, Park
<1>4. CASE JoinReconcileFails
  BY <1>4, SMTT(60) DEF JoinReconcileFails, Goto, Quiet, files, world
<1>5. CASE BuildFails
  BY <1>5, SMTT(60) DEF BuildFails, Park, world
<1>6. CASE RetainRefused
  BY <1>6, SMTT(60) DEF RetainRefused, Park, world
<1>7. CASE WalkFails
  BY <1>7, SMTT(60) DEF WalkFails, Park, files, world
<1>8. CASE Crash
  BY <1>8, SMTT(60) DEF Crash, Up, Off, files, world
<1> QED
  BY <1>2, <1>3, <1>4, <1>5, <1>6, <1>7, <1>8, Zenon DEF Fault

\* The running node: decisions, the seal, staging, the request and restarts.
LEMMA RunningStep ==
  ASSUME EpochAssumption, IInv, Running, EpochTypeOK'
  PROVE  IInv'
<1>1. pc \notin {"off", "dispatch", "discard", "restore", "joininstall", "sealinstall"}
        => db \in Complete
  BY SMTT(30) DEF IInv, Away, Types, EpochTypeOK
<1> USE DEF IInv, Types, EpochTypeOK, Requested, Away, Engines, Built, Lineage, Flags, DatabaseKept,
       Whole, Sound, Files, Sealed, Rolling, Joining, Joined, Sealing, Deciding,
       EpochAssumption
<1>2. CASE Decide
  <2>1. Rewritten(db, db', db.mark, db.phase, db.flags)
    BY <1>2, <1>1, Decided, Zenon DEF Decide, Up
  <2>2. Up /\ UNCHANGED <<next, old, staging, lineage, agreed, pending, rollback, process, world>>
    BY <1>2, Zenon DEF Decide
  <2> QED BY <2>1, <2>2, SMTT(60) DEF Rewritten, Up, process, world
<1>3. CASE CleanRetained
  BY <1>3, SMTT(60) DEF CleanRetained, Up, process, world
<1>4. CASE StageBegin
  BY <1>4, SMTT(60) DEF StageBegin, Up, process, world
<1>5. CASE StageManifest
  BY <1>5, SMTT(60) DEF StageManifest, Up, process, world, Manifest, Complete, Epochs
<1>6. CASE RequestRollback
  BY <1>6, SMTT(60) DEF RequestRollback, Up, process, world
<1>7. CASE Restart
  BY <1>7, SMTT(60) DEF Restart, Up, Off, files, world
<1>8. CASE SealActivates
  BY <1>8, SMTT(60) DEF SealActivates, Up, Off, files, Complete, Epochs
<1>9. ASSUME NEW dissent \in BOOLEAN, Seal(dissent) PROVE IInv'
  <2>1. Rewritten(db, db', TRUE, TRUE, db.flags)
    BY <1>9, <1>1, SealWritten, Zenon DEF Seal, Up
  <2>2. /\ Up /\ db.epoch < MaxEpoch /\ engine' = "halted"
        /\ UNCHANGED <<next, old, staging, lineage, agreed, pending, rollback>>
        /\ UNCHANGED <<pc, abandoned, carried, parked, ver, restored>>
    BY <1>9, Zenon DEF Seal
  <2> QED BY <2>1, <2>2, SMTT(60) DEF Rewritten, Up
<1> QED
  BY <1>2, <1>3, <1>4, <1>5, <1>6, <1>7, <1>8, <1>9, Zenon DEF Running

\* The operator's binary and the peers change nothing that the files promise.
LEMMA IInvStep ==
  ASSUME EpochAssumption, IInv, [Next]_vars
  PROVE  IInv'
<1>1. CASE Next
  <2>1. EpochTypeOK' BY <1>1, TypeStep, Zenon
  <2>2. CASE Upgrade
    BY <2>1, <2>2, SMTT(60) DEF Upgrade, files, process, IInv, Types, EpochTypeOK,
       Requested, Away,
       Engines, Built, Lineage, Flags, DatabaseKept, Whole, Sound, Files, Sealed, Rolling, Joining,
       Joined, Sealing, Deciding
  <2>3. CASE MeshMoves
    BY <2>1, <2>3, SMTT(60) DEF MeshMoves, files, process, IInv, Types, EpochTypeOK, Requested,
       Away,
       Engines, Built, Lineage, Flags, DatabaseKept, Whole, Sound, Files, Sealed
  <2> QED
    BY <1>1, <2>1, <2>2, <2>3, RollbackStep, JoinStep, CrossStep, FaultStep, RunningStep, Zenon
       DEF Next, Progress
<1>2. CASE UNCHANGED vars
  BY <1>2, SMTT(60) DEF vars, files, process, world, IInv, Types, EpochTypeOK, Requested, Away,
     Engines,
     Built, Lineage, Flags, DatabaseKept, Whole, Sound, Files, Sealed
<1> QED BY <1>1, <1>2

-----------------------------------------------------------------------------
(* Theorems *)

\* A fresh node of the first epoch.
LEMMA IInvInit ==
  ASSUME EpochAssumption, Init
  PROVE  IInv
<1>1. 1 \in Epochs /\ Version[1] \in Versions
  BY DEF EpochAssumption, Epochs, Versions
<1>2. /\ db \in Complete /\ db.epoch = 1 /\ db.by = Version[1] /\ db.flags = "whole"
      /\ ~db.mark /\ ~db.phase
  BY <1>1, Builds DEF Init
<1>3. pending \in BOOLEAN /\ rollback \in BOOLEAN /\ carried \in BOOLEAN /\ restored \in BOOLEAN
  BY Zenon DEF Init
<1>4. /\ next = None /\ old = None /\ staging = None /\ lineage = {}
      /\ agreed \in {0, Version[1]} /\ ~pending /\ ~rollback /\ pc = "off" /\ abandoned = 0
      /\ ~carried /\ parked = "no" /\ engine = "off" /\ ver = Version[1] /\ mesh = 1 /\ ~restored
  BY Zenon DEF Init
<1>5. EpochTypeOK
  BY <1>1, <1>2, <1>3, <1>4 DEF EpochTypeOK
<1>6. db # None /\ None \notin Complete
  BY <1>2 DEF EpochAssumption
<1> QED
  BY <1>2, <1>4, <1>5, <1>6, SMTT(60) DEF IInv, Types, Requested, Away, Engines, Built, Lineage,
     Flags, DatabaseKept, Whole, Sound, Files, Sealed, Rolling, Joining, Joined, Sealing, Deciding

\* The inductive invariant holds at every boot, crash and restart.
LEMMA Invariance == Spec => []IInv
<1>1. Init => IInv
  BY IInvInit, EpochAssumption
<1>2. IInv /\ [Next]_vars => IInv'
  BY IInvStep, EpochAssumption
<1> QED BY <1>1, <1>2, PTL DEF Spec

\* The shapes of the files, for any number of epochs and any versions.
THEOREM EpochTypesHold == Spec => []EpochTypeOK
<1>1. IInv => EpochTypeOK
  BY DEF IInv, Types
<1> QED BY <1>1, Invariance, PTL

\* The crash-safety contract of boot.rs: wherever the process dies, in a swap or
\* in a rollback, the node keeps a database and the next boot knows which way to
\* go, and a retained database is older than the one that replaces it.
THEOREM DatabaseNeverLost == Spec => []DatabaseKept
<1>1. IInv => DatabaseKept
  BY DEF IInv
<1> QED BY <1>1, Invariance, PTL

\* Short of a rollback, an engine that a boot starts without a park runs on
\* complete stored_locally flags, whatever reconcile failed or crashed before.
THEOREM EngineStartsWhole == Spec => []HealthyEngineWhole
<1>1. IInv => HealthyEngineWhole
  BY DEF IInv, HealthyEngineWhole, Engines, Flags
<1> QED BY <1>1, Invariance, PTL

\* Only the binary of an epoch ever builds that epoch's database.
THEOREM EveryBuildByItsVersion == Spec => []BuiltByItsVersion
<1>1. IInv => BuiltByItsVersion
  BY DEF IInv, BuiltByItsVersion, Types, EpochTypeOK, Sound, Files
<1> QED BY <1>1, Invariance, PTL

\* No engine runs on a sealed chain, also when clear_seal_state was interrupted.
THEOREM RetiredEngineNeverRuns == Spec => []NoRetiredEngine
<1>1. IInv => NoRetiredEngine
  BY DEF IInv, NoRetiredEngine, Engines, Sealed
<1> QED BY <1>1, Invariance, PTL

\* A running node has the lineage record of every epoch behind it, although a
\* rollback forgets records and a join adds several at once.
THEOREM LineageComplete == Spec => []LineageServes
<1>1. IInv => LineageServes
  BY DEF IInv, LineageServes, Lineage, Away
<1> QED BY <1>1, Invariance, PTL
=============================================================================
