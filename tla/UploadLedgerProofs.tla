------------------------- MODULE UploadLedgerProofs -------------------------
(***************************************************************************)
(* For any number of uploads and batches and any limits, a node never      *)
(* deletes its own upload (RowedIsStored of UploadLedger), and an          *)
(* abandoned upload holds nothing once its tasks are over                  *)
(* (AbandonedHoldsNothing).  For any number of renders, events and         *)
(* failures, a photo whose queues have nothing left to say is in the mesh  *)
(* as the daemon has it, and no only copy is evicted (SettledIsAgreed,     *)
(* EvictedIsHeld of PhotoPublish).                                         *)
(***************************************************************************)
EXTENDS UploadLedger, PhotoPublish, TLAPS

\* Where an upload, its chunk task and its cleaners can be at the same time
Phases ==
    \A b \in Uploads :
        /\ task[b] # "idle" => fut[b] \in {"open", "err", "gone"} /\ done[b] < Batches
        /\ fut[b] = "new" => done[b] = 0 /\ holds \cap Of(b) = {}
        /\ fut[b] = "ok" => done[b] = Batches
        /\ tx[b] # "none" => fut[b] = "ok"
        /\ abandoned[b] => fut[b] \in {"err", "gone"}
        /\ abandon[b].pc # "none" => fut[b] \in {"err", "gone"}
        /\ purge[b].pc # "none" => fut[b] \in {"ok", "gone"}

\* The rows of an upload arrive and go together
WholeRows ==
    \A b \in Uploads :
        \/ rows \cap Of(b) = {}
        \/ Of(b) \subseteq rows /\ tx[b] = "decided"

\* Too late for the rows of an upload: a hold has expired, or may be purged
Late(b) ==
    \/ \E f \in Of(b) : age[f] = Retention
    \/ \A f \in Of(b) : age[f] >= PurgeMinAge

\* Until it is too late, what an upload has written is on disk and claimed
KeptOf(b) ==
    /\ fut[b] = "open" =>
         /\ \A f \in Of(b) : f[2] <= done[b] => (f \in files /\ f \in holds) \/ age[f] = Retention
         /\ task[b] \in {"recheck", "write"} =>
                Coming(b) \in holds \/ age[Coming(b)] = Retention
    /\ fut[b] = "ok" =>
         Late(b) \/ \A f \in Of(b) : f \in files /\ (f \in holds \/ f \in rows)
Kept == \A b \in Uploads : KeptOf(b)

UploadInv == UploadTypeOK /\ Phases /\ WholeRows /\ Kept /\ RowedIsStored
-----------------------------------------------------------------------------
(* The files of an upload *)

\* The files of different uploads are different files.
LEMMA OfFiles ==
    ASSUME NEW b \in Uploads
    PROVE  /\ Of(b) \subseteq Files /\ LastBatch(b) \subseteq Of(b)
           /\ \A c \in Uploads : c # b => Of(b) \cap Of(c) = {}
BY Zenon DEF Of, Files, LastBatch

\* The batch a chunk task is at comes after all that are written.
LEMMA ComingOf ==
    ASSUME UploadTypeOK, NEW b \in Uploads, done[b] < Batches
    PROVE  /\ Coming(b) \in Of(b) /\ Coming(b) \in Files /\ Coming(b)[2] = done[b] + 1
           /\ \A f \in Of(b) : f # Coming(b) => f[2] # done[b] + 1
BY UploadAssumption DEF Of, Files, Coming, UploadTypeOK

\* A chunk has two batches: its task goes on only to a batch that exists.
LEMMA SecondBatch ==
    ASSUME NEW d \in 0 .. Batches, d < Batches, d % 2 = 0
    PROVE  d + 1 < Batches
BY UploadAssumption

\* A hold that the sweep expires is as old as a hold gets.
LEMMA ExpiredAge ==
    ASSUME UploadTypeOK
    PROVE  \A f \in Expired : age[f] = Retention
<1>1. \A f \in Files : age[f] \in 0 .. Retention
    BY Zenon DEF UploadTypeOK
<1>2. holds \subseteq Files
    BY Zenon DEF UploadTypeOK
<1> QED BY <1>1, <1>2, UploadAssumption DEF Expired

-----------------------------------------------------------------------------
(* Types *)

\* A purge that releases holds takes over the files they kept.
LEMMA PurgeReleaseFacts ==
    ASSUME UploadTypeOK, NEW b \in Uploads, PurgeRelease(b)
    PROVE  /\ purge' \in [Uploads -> [pc : {"none", "release", "unlink"}, todo : SUBSET Files]]
           /\ \A c \in Uploads : c # b => purge'[c] = purge[c]
           /\ holds' \subseteq holds /\ (holds \cap Of(b)) \ holds' \subseteq purge'[b].todo
           /\ UNCHANGED <<putVars, abandon, sweep, age, disk, mesh, bounds>>
<1> DEFINE own == holds \cap Of(b)
<1>1. /\ purge \in [Uploads -> [pc : {"none", "release", "unlink"}, todo : SUBSET Files]]
      /\ own \in SUBSET Files
    BY Zenon DEF UploadTypeOK
<1>2. UNCHANGED <<putVars, abandon, sweep, age, disk, mesh, bounds>>
    BY Zenon DEF PurgeRelease
<1>3. CASE \E f \in own : age[f] < PurgeMinAge
  <2>1. purge' = [purge EXCEPT ![b] = Nothing] /\ holds' = holds
      BY <1>3, Zenon DEF PurgeRelease
  <2>2. Nothing \in [pc : {"none", "release", "unlink"}, todo : SUBSET Files]
      BY DEF Nothing
  <2> QED BY <1>1, <1>2, <2>1, <2>2, Zenon
<1>4. CASE ~\E f \in own : age[f] < PurgeMinAge
  <2> DEFINE taken == [pc |-> "unlink", todo |-> own]
  <2>1. purge' = [purge EXCEPT ![b] = taken] /\ holds' = holds \ own
      BY <1>4, Zenon DEF PurgeRelease
  <2> HIDE DEF own
  <2>2. taken \in [pc : {"none", "release", "unlink"}, todo : SUBSET Files] /\ taken.todo = own
      BY <1>1
  <2> HIDE DEF taken
  <2>3. purge'[b] = taken
      BY <1>1, <2>1, Zenon
  <2> QED BY <1>1, <1>2, <2>1, <2>2, <2>3, Zenon DEF own
<1> QED BY <1>3, <1>4, Zenon

\* What the future does when its put fails.
LEMMA PutFailsFacts ==
    ASSUME UploadTypeOK, NEW b \in Uploads, PutFails(b)
    PROVE  /\ fut' \in [Uploads -> {"new", "open", "err", "ok", "gone"}]
           /\ abandoned' \in [Uploads -> BOOLEAN]
           /\ abandon' \in [Uploads -> [pc : {"none", "release", "unlink"},
                                       todo : SUBSET Files]]
           /\ \A c \in Uploads : fut'[c] = IF c = b /\ fut[b] = "open" THEN "err" ELSE fut[c]
           /\ \A c \in Uploads :
                  \/ c = b /\ fut[b] = "open" /\ abandoned'[b] /\ abandon'[b].pc = "release"
                  \/ abandoned'[c] = abandoned[c] /\ abandon'[c] = abandon[c]
<1>1. CASE fut[b] = "open"
  <2>1. /\ fut' = [fut EXCEPT ![b] = "err"] /\ abandoned' = [abandoned EXCEPT ![b] = TRUE]
        /\ abandon' = [abandon EXCEPT ![b].pc = "release"]
      BY <1>1, Zenon DEF PutFails
  <2> QED BY <1>1, <2>1, ZenonT(60) DEF UploadTypeOK
<1>2. CASE fut[b] # "open"
    BY <1>2, Zenon DEF PutFails, UploadTypeOK
<1> QED BY <1>1, <1>2, Zenon

\* UploadTypeOK is preserved by every step.
LEMMA TypeStep == UploadTypeOK /\ Phases /\ [Next]_vars => UploadTypeOK'
<1> SUFFICES ASSUME UploadTypeOK, Phases, [Next]_vars PROVE UploadTypeOK'
    BY Zenon
<1> USE UploadAssumption
<1>1. ASSUME NEW b \in Uploads, Put(b) PROVE UploadTypeOK'
  <2> USE DEF UploadTypeOK, cleaners, ledger, disk, mesh, bounds
  <2>1. CASE Begin(b) \/ Chunk(b) \/ PutOk(b)
      BY <2>1, ZenonT(60) DEF Begin, Chunk, PutOk
  <2>2. CASE ReadFails(b)
      BY <2>2, PutFailsFacts, Zenon DEF ReadFails
  <2>3. CASE Disconnect(b)
      BY <2>3, Zenon DEF Disconnect
  <2> QED BY <1>1, <2>1, <2>2, <2>3, Zenon DEF Put
<1>2. ASSUME NEW b \in Uploads, ChunkTask(b) PROVE UploadTypeOK'
  <2> USE DEF UploadTypeOK, putVars, cleaners, ledger, disk, mesh, bounds
  <2>0. task[b] # "idle" => Coming(b) \in Files /\ done[b] < Batches
      BY <1>2, ComingOf, Zenon DEF Phases
  <2>1. CASE HookRefuses(b)
      BY <2>1 DEF HookRefuses, Fault
  <2>2. CASE HookAccepts(b)
      BY <2>2, Zenon DEF HookAccepts
  <2>3. CASE Record(b)
      BY <2>0, <2>3 DEF Record
  <2>4. CASE RecordFails(b)
      BY <2>4, PutFailsFacts DEF RecordFails, Fault
  <2>5. CASE Recheck(b)
      BY <2>5, SMTT(30) DEF Recheck, Fault
  <2>6. CASE Write(b)
      BY <2>0, <2>6 DEF Write
  <2>7. CASE WriteFails(b)
    <3>1. /\ task' \in [Uploads -> {"idle", "hook", "record", "recheck", "write"}]
          /\ done' = done /\ UNCHANGED <<purge, sweep, ledger, mesh>>
        BY <2>7, Zenon DEF WriteFails
    <3>2. files' \subseteq Files
      <4>1. files' = files \/ files' = files \cup {Coming(b)}
          BY <2>7, Zenon DEF WriteFails
      <4>2. files \subseteq Files /\ Coming(b) \in Files
          BY <2>0, <2>7, Zenon DEF WriteFails
      <4> HIDE DEF UploadTypeOK
      <4> QED BY <4>1, <4>2, Zenon
    <3>3. fileAge' \in [Files -> 0 .. Grace + 1]
      <4>1. 0 \in 0 .. Grace + 1
          OBVIOUS
      <4> QED BY <2>7, <4>1, Zenon DEF WriteFails
    <3>4. /\ fut' \in [Uploads -> {"new", "open", "err", "ok", "gone"}]
          /\ abandoned' \in [Uploads -> BOOLEAN]
          /\ abandon' \in [Uploads -> [pc : {"none", "release", "unlink"}, todo : SUBSET Files]]
        BY <2>7, PutFailsFacts, Zenon DEF WriteFails
    <3>5. faults' \in 0 .. MaxFaults /\ restarts' = restarts
        BY <2>7 DEF WriteFails, Fault
    <3> QED BY <3>1, <3>2, <3>3, <3>4, <3>5, Zenon
  <2> QED BY <1>2, <2>1, <2>2, <2>3, <2>4, <2>5, <2>6, <2>7, Zenon DEF ChunkTask
<1>3. ASSUME NEW b \in Uploads, Abandon(b) PROVE UploadTypeOK'
  <2> USE DEF UploadTypeOK, putVars, cleaners, ledger, disk, mesh, bounds
  <2>1. CASE AbandonRelease(b)
      BY <2>1, Zenon DEF AbandonRelease
  <2>2. CASE AbandonUnlink(b)
      BY <2>2 DEF AbandonUnlink, DeleteUnclaimed
  <2>3. CASE AbandonEnds(b)
      BY <2>3 DEF AbandonEnds, Returned, Fault, Nothing
  <2> QED BY <1>3, <2>1, <2>2, <2>3, Zenon DEF Abandon
<1>4. ASSUME NEW b \in Uploads, Transaction(b) PROVE UploadTypeOK'
    BY <1>4, OfFiles, ZenonT(60) DEF Transaction, Submit, Refuse, Land, UploadTypeOK, putVars,
        cleaners, ledger, disk, bounds
<1>5. ASSUME NEW b \in Uploads, Purge(b) PROVE UploadTypeOK'
  <2> USE DEF UploadTypeOK, putVars, ledger, disk, mesh, bounds
  <2>1. CASE PurgeAsk(b)
      BY <2>1, ZenonT(60) DEF PurgeAsk
  <2>2. CASE PurgeRelease(b)
      BY <2>2, PurgeReleaseFacts, ZenonT(60)
  <2>3. CASE PurgeUnlink(b)
      BY <2>3 DEF PurgeUnlink, DeleteUnclaimed
  <2>4. CASE PurgeEnds(b)
      BY <2>4 DEF PurgeEnds, Fault, Nothing
  <2> QED BY <1>5, <2>1, <2>2, <2>3, <2>4, Zenon DEF Purge
<1>6. CASE Sweep
  <2> USE DEF UploadTypeOK, putVars, ledger, disk, mesh, bounds
  <2>1. CASE SweepList \/ SweepDiff \/ SweepEnds
      BY <2>1, SMTT(60) DEF SweepList, SweepDiff, SweepEnds, Fault, Nothing
  <2>2. CASE SweepSettle
      BY <2>2, SMTT(60) DEF SweepSettle, Fault, Nothing
  <2>3. CASE SweepUnlink
      BY <2>3, SMTT(60) DEF SweepUnlink, Fault, DeleteUnclaimed
  <2> QED BY <1>6, <2>1, <2>2, <2>3, Zenon DEF Sweep
<1>7. CASE Tick
    BY <1>7 DEF Tick, UploadTypeOK, putVars, cleaners, mesh, bounds
<1>8. CASE Restart
    BY <1>8 DEF Restart, Nothing, UploadTypeOK, ledger, disk
<1>9. CASE UNCHANGED vars
    BY <1>9, Zenon DEF vars, UploadTypeOK, putVars, cleaners, ledger, disk, mesh, bounds
<1> QED BY <1>1, <1>2, <1>3, <1>4, <1>5, <1>6, <1>7, <1>8, <1>9, Zenon DEF Next
-----------------------------------------------------------------------------
(* Phases *)

\* Phases is preserved by every step.
LEMMA PhasesStep == UploadTypeOK /\ Phases /\ [Next]_vars => Phases'
<1> SUFFICES ASSUME UploadTypeOK, Phases, [Next]_vars PROVE Phases'
    BY Zenon
<1> USE UploadAssumption
<1>1. ASSUME NEW b \in Uploads, Put(b) PROVE Phases'
  <2> USE DEF UploadTypeOK, Phases, cleaners, ledger, disk, mesh, bounds
  <2>1. CASE Begin(b) \/ Chunk(b) \/ PutOk(b)
      BY <2>1, SMTT(30) DEF Begin, Chunk, PutOk, Of
  <2>2. CASE ReadFails(b)
      BY <2>2, PutFailsFacts DEF ReadFails, Of
  <2>3. CASE Disconnect(b)
      BY <2>3 DEF Disconnect, Live, Of
  <2> QED BY <1>1, <2>1, <2>2, <2>3, Zenon DEF Put
<1>2. ASSUME NEW b \in Uploads, ChunkTask(b) PROVE Phases'
  <2> USE DEF UploadTypeOK, putVars, cleaners, ledger, disk, mesh, bounds
  <2>0. task[b] # "idle" => Coming(b) \in Of(b) /\ done[b] < Batches
      BY <1>2, ComingOf, Zenon DEF Phases
  <2>1. CASE HookRefuses(b)
    <3>1. holds' \subseteq holds
        BY <2>1, Zenon DEF HookRefuses
    <3> QED BY <2>1, <3>1 DEF HookRefuses, Phases, Of
  <2>2. CASE HookAccepts(b)
      BY <2>2 DEF HookAccepts, Phases, Of
  <2>3. CASE Record(b)
    <3>1. \A c \in Uploads : c # b => holds' \cap Of(c) = holds \cap Of(c)
        BY <2>0, <2>3, OfFiles DEF Record
    <3>2. fut[b] # "new"
        BY <2>3, Zenon DEF Record, Phases
    <3> QED BY <2>3, <3>1, <3>2 DEF Record, Phases
  <2>4. CASE RecordFails(b)
      BY <2>4, PutFailsFacts DEF RecordFails, Phases, Of
  <2>5. CASE Recheck(b)
    <3>1. holds' \subseteq holds /\ task' \in [Uploads -> {"idle", "hook", "record", "recheck", "write"}]
          /\ \A c \in Uploads : task'[c] # "idle" => task[c] # "idle"
        BY <2>5, ZenonT(60) DEF Recheck
    <3>2. UNCHANGED <<fut, done, abandoned, abandon, purge, tx>>
        BY <2>5, Zenon DEF Recheck
    <3> QED BY <3>1, <3>2 DEF Phases, Of
  <2>6. CASE Write(b)
    <3>1. done[b] % 2 = 0 => done[b] + 1 < Batches
        BY <2>0, <2>6, SecondBatch, ZenonT(60) DEF Write
    <3> QED BY <2>0, <2>6, <3>1 DEF Write, Phases, Of
  <2>7. CASE WriteFails(b)
      BY <2>7, PutFailsFacts DEF WriteFails, Phases, Of
  <2> QED BY <1>2, <2>1, <2>2, <2>3, <2>4, <2>5, <2>6, <2>7, Zenon DEF ChunkTask
<1>3. ASSUME NEW b \in Uploads, Abandon(b) PROVE Phases'
  <2> USE DEF UploadTypeOK, Phases, putVars, cleaners, ledger, disk, mesh, bounds
  <2>1. CASE AbandonRelease(b)
      BY <2>1 DEF AbandonRelease, Of
  <2>2. CASE AbandonUnlink(b)
      BY <2>2 DEF AbandonUnlink, Of
  <2>3. CASE AbandonEnds(b)
      BY <2>3, SMTT(30) DEF AbandonEnds, Returned, Nothing, Of
  <2> QED BY <1>3, <2>1, <2>2, <2>3, Zenon DEF Abandon
<1>4. ASSUME NEW b \in Uploads, Transaction(b) PROVE Phases'
    BY <1>4, SMTT(60) DEF Transaction, Submit, Refuse, Land, UploadTypeOK, Phases, putVars,
        cleaners, ledger, disk, bounds, Of
<1>5. ASSUME NEW b \in Uploads, Purge(b) PROVE Phases'
  <2> USE DEF UploadTypeOK, Phases, putVars, ledger, disk, mesh, bounds
  <2>1. CASE PurgeAsk(b)
      BY <2>1 DEF PurgeAsk, Live, Of
  <2>2. CASE PurgeRelease(b)
    <3>1. /\ holds' \subseteq holds /\ UNCHANGED <<putVars, abandon, tx>>
          /\ \A c \in Uploads : c # b => purge'[c] = purge[c]
        BY <2>2, PurgeReleaseFacts, ZenonT(60)
    <3>2. fut[b] \in {"ok", "gone"}
        BY <2>2, Zenon DEF PurgeRelease
    <3>3. ASSUME NEW c \in Uploads PROVE purge'[c].pc # "none" => fut[c] \in {"ok", "gone"}
      <4>1. CASE c = b
          BY <3>2, <4>1, Zenon
      <4>2. CASE c # b
          BY <3>1, <4>2, Zenon
      <4> QED BY <4>1, <4>2
    <3> QED BY <3>1, <3>3, ZenonT(60) DEF Of
  <2>3. CASE PurgeUnlink(b)
      BY <2>3 DEF PurgeUnlink, Of
  <2>4. CASE PurgeEnds(b)
      BY <2>4 DEF PurgeEnds, Nothing, Of
  <2> QED BY <1>5, <2>1, <2>2, <2>3, <2>4, Zenon DEF Purge
<1>6. CASE Sweep
  <2>1. holds' \subseteq holds /\ UNCHANGED <<putVars, abandon, purge, tx>>
      BY <1>6, Zenon DEF Sweep, SweepList, SweepDiff, SweepSettle, SweepUnlink, SweepEnds, ledger, mesh
  <2> QED BY <2>1, Zenon DEF Phases, putVars, Of
<1>7. CASE Tick
    BY <1>7, Zenon DEF Tick, Phases, putVars, cleaners, mesh, Of
<1>8. CASE Restart
    BY <1>8, Zenon DEF Restart, Nothing, UploadTypeOK, Phases, ledger, Of
<1>9. CASE UNCHANGED vars
    BY <1>9, Zenon DEF vars, Phases, putVars, cleaners, ledger, mesh, Of
<1> QED BY <1>1, <1>2, <1>3, <1>4, <1>5, <1>6, <1>7, <1>8, <1>9, Zenon DEF Next
-----------------------------------------------------------------------------
(* What is written is kept *)

\* A step that leaves an upload where it is, and takes from it no file that is
\* claimed and no claim that has not expired, keeps what it has written.
LEMMA KeptFrame ==
    ASSUME UploadTypeOK, Phases, NEW c \in Uploads, KeptOf(c),
           fut'[c] \in {"open", "ok"} => fut'[c] = fut[c],
           fut'[c] = "open" => /\ done'[c] = done[c]
                               /\ task'[c] \in {"recheck", "write"} => task[c] \in {"recheck", "write"},
           \A f \in Of(c) : age'[f] = age[f],
           fut'[c] \in {"open", "ok"} =>
               \A f \in Of(c) : /\ f \in files /\ (f \in holds \/ f \in rows) => f \in files'
                                /\ f \in holds => f \in holds' \/ age[f] = Retention
                                /\ f \in rows => f \in rows' \/ f \in holds'
    PROVE  KeptOf(c)'
<1>1. ASSUME fut'[c] = "open"
      PROVE  /\ \A f \in Of(c) : f[2] <= done'[c] => (f \in files' /\ f \in holds') \/ age'[f] = Retention
             /\ task'[c] \in {"recheck", "write"} =>
                    Coming(c)' \in holds' \/ age'[Coming(c)'] = Retention
  <2>1. fut[c] = "open" /\ done'[c] = done[c] /\ Coming(c)' = Coming(c)
      BY <1>1, Zenon DEF Coming
  <2>2. task[c] \in {"recheck", "write"} => Coming(c) \in Of(c)
      BY ComingOf, Zenon DEF Phases
  <2>3. \A f \in Of(c) : /\ f \in files /\ f \in holds => f \in files'
                         /\ f \in holds => f \in holds' \/ age[f] = Retention
                         /\ age'[f] = age[f]
      BY <1>1, Zenon
  <2>4. /\ \A f \in Of(c) : f[2] <= done[c] => (f \in files /\ f \in holds) \/ age[f] = Retention
        /\ task[c] \in {"recheck", "write"} => Coming(c) \in holds \/ age[Coming(c)] = Retention
      BY <2>1, Zenon DEF KeptOf
  <2>5. task'[c] \in {"recheck", "write"} => task[c] \in {"recheck", "write"}
      BY <1>1, Zenon
  <2> QED BY <2>1, <2>2, <2>3, <2>4, <2>5, Zenon
<1>2. ASSUME fut'[c] = "ok"
      PROVE  Late(c)' \/ \A f \in Of(c) : f \in files' /\ (f \in holds' \/ f \in rows')
  <2>1. Late(c) => Late(c)'
      BY Zenon DEF Late, Of
  <2>2. (\E f \in Of(c) : age[f] = Retention) => Late(c)
      BY Zenon DEF Late
  <2>3. Late(c) \/ \A f \in Of(c) : f \in files /\ (f \in holds \/ f \in rows)
      BY <1>2, Zenon DEF KeptOf
  <2>4. \A f \in Of(c) : /\ f \in files /\ (f \in holds \/ f \in rows) => f \in files'
                         /\ f \in holds => f \in holds' \/ age[f] = Retention
                         /\ f \in rows => f \in rows' \/ f \in holds'
      BY <1>2, Zenon
  <2> QED BY <2>1, <2>2, <2>3, <2>4, Zenon
<1> QED BY <1>1, <1>2, Zenon DEF KeptOf, Of
\* Kept is preserved by every step.
LEMMA KeptStep ==
    UploadTypeOK /\ Phases /\ WholeRows /\ Kept /\ UploadTypeOK' /\ [Next]_vars => Kept'
<1> SUFFICES ASSUME UploadTypeOK, Phases, WholeRows, Kept, UploadTypeOK', [Next]_vars,
                    NEW c \in Uploads
             PROVE  KeptOf(c)'
    BY Zenon DEF Kept
<1> USE UploadAssumption
<1>0. KeptOf(c) /\ Of(c) \subseteq Files
    BY OfFiles, Zenon DEF Kept
<1>1. ASSUME NEW b \in Uploads, Put(b) PROVE KeptOf(c)'
  <2> USE DEF UploadTypeOK, cleaners, ledger, disk, mesh, bounds
  <2>1. CASE Begin(b)
    <3>1. CASE c = b
      <4>1. fut[c] = "new" /\ fut' = [fut EXCEPT ![c] = "open"] /\ done' = done /\ task' = task
          BY <2>1, <3>1, Zenon DEF Begin
      <4>2. fut'[c] = "open" /\ done'[c] = 0 /\ ~(task'[c] \in {"recheck", "write"})
        <5>1. fut'[c] = "open"
            BY <4>1, ZenonT(60)
        <5>2. done[c] = 0 /\ (task[c] # "idle" => "new" \in {"open", "err", "gone"})
            BY <4>1, Zenon DEF Phases
        <5>3. task[c] = "idle"
            BY <5>2
        <5> QED BY <4>1, <5>1, <5>2, <5>3
      <4>3. \A f \in Of(c) : ~(f[2] <= 0)
          BY DEF Of
      <4>4. fut'[c] # "ok"
          BY <4>2
      <4> QED BY <4>2, <4>3, <4>4, Zenon DEF KeptOf, Of
    <3>2. CASE c # b
        BY <1>0, <2>1, <3>2, KeptFrame, ZenonT(60) DEF Begin
    <3> QED BY <3>1, <3>2, Zenon
  <2>2. CASE Chunk(b)
      BY <1>0, <2>2, KeptFrame, ZenonT(60) DEF Chunk
  <2>3. CASE ReadFails(b)
    <3>1. fut'[c] \in {"open", "ok"} => fut'[c] = fut[c]
        BY <2>3, PutFailsFacts, Zenon DEF ReadFails
    <3> QED BY <1>0, <2>3, <3>1, KeptFrame, Zenon DEF ReadFails
  <2>4. CASE Disconnect(b)
      BY <1>0, <2>4, KeptFrame, ZenonT(60) DEF Disconnect
  <2>5. CASE PutOk(b)
    <3>1. CASE c = b
        BY <1>0, <2>5, <3>1, SMTT(60) DEF PutOk, KeptOf, Late, Of
    <3>2. CASE c # b
        BY <1>0, <2>5, <3>2, KeptFrame, ZenonT(60) DEF PutOk
    <3> QED BY <3>1, <3>2, Zenon
  <2> QED BY <1>1, <2>1, <2>2, <2>3, <2>4, <2>5, Zenon DEF Put
<1>2. ASSUME NEW b \in Uploads, ChunkTask(b) PROVE KeptOf(c)'
  <2> USE DEF UploadTypeOK, cleaners, ledger, disk, mesh, bounds
  <2>0. task[b] # "idle" => Coming(b) \in Of(b) /\ done[b] < Batches
      BY <1>2, ComingOf, Zenon DEF Phases
  <2>1. CASE HookRefuses(b)
    <3>1. fut[b] \notin {"open", "ok"} /\ UNCHANGED <<fut, done, age, rows>>
        BY <2>1, Zenon DEF HookRefuses, Phases
    <3>2. c # b => \A f \in Of(c) : (f \in files => f \in files') /\ (f \in holds => f \in holds')
        BY <2>1, OfFiles, SMTT(30) DEF HookRefuses
    <3>3. task'[c] \in {"recheck", "write"} => task[c] \in {"recheck", "write"}
        BY <2>1 DEF HookRefuses
    <3> QED BY <1>0, <3>1, <3>2, <3>3, KeptFrame, ZenonT(60)
  <2>2. CASE HookAccepts(b)
      BY <1>0, <2>2, KeptFrame, ZenonT(60) DEF HookAccepts
  <2>3. CASE Record(b)
    <3>1. CASE c = b
      <4>1. /\ task[b] = "record" /\ Coming(b)' = Coming(b) /\ Coming(b) \in Files
            /\ UNCHANGED <<fut, done, files, rows>>
            /\ holds' = holds \cup {Coming(b)} /\ age' = [age EXCEPT ![Coming(b)] = 0]
          BY <2>3, ComingOf, Zenon DEF Record, Phases, Coming
      <4>2. fut[b] # "ok"
          BY <4>1, Zenon DEF Phases
      <4>3. Coming(b)[2] = done[b] + 1 /\ done[b] \in Nat
          BY <4>1, ComingOf, SMTT(30) DEF Phases
      <4>4. fut[b] = "open" =>
                \A f \in Of(b) : f[2] <= done[b] => (f \in files' /\ f \in holds') \/ age'[f] = Retention
          BY <1>0, <3>1, <4>1, <4>3, SMTT(60) DEF KeptOf
      <4> QED BY <3>1, <4>1, <4>2, <4>4, Zenon DEF KeptOf, Of
    <3>2. CASE c # b
      <4>1. \A f \in Of(c) : age'[f] = age[f]
          BY <2>0, <2>3, <3>2, OfFiles, SMTT(60) DEF Record
      <4> QED BY <1>0, <2>3, <3>2, <4>1, KeptFrame, ZenonT(60) DEF Record
    <3> QED BY <3>1, <3>2, Zenon
  <2>4. CASE RecordFails(b)
    <3>1. fut'[c] \in {"open", "ok"} => fut'[c] = fut[c]
        BY <2>4, PutFailsFacts, Zenon DEF RecordFails
    <3> QED BY <1>0, <2>4, <3>1, KeptFrame, Zenon DEF RecordFails
  <2>5. CASE Recheck(b)
    <3>1. UNCHANGED <<fut, done, age, files, rows>>
          /\ (task'[c] \in {"recheck", "write"} => task[c] \in {"recheck", "write"})
        BY <2>5 DEF Recheck
    <3>2. fut[c] \in {"open", "ok"} => \A f \in Of(c) : f \in holds => f \in holds'
      <4>1. CASE abandoned[b]
        <5>1. fut[b] \notin {"open", "ok"} /\ Coming(b) \in Of(b) /\ holds \ {Coming(b)} \subseteq holds'
            BY <2>0, <2>5, <4>1 DEF Recheck, Phases
        <5>2. c # b => Coming(b) \notin Of(c)
            BY <5>1, OfFiles, Zenon
        <5> QED BY <5>1, <5>2, ZenonT(60)
      <4>2. CASE ~abandoned[b]
          BY <2>5, <4>2, ZenonT(60) DEF Recheck
      <4> QED BY <4>1, <4>2, Zenon
    <3> QED BY <1>0, <3>1, <3>2, KeptFrame, Zenon
  <2>6. CASE Write(b)
    <3>1. CASE c = b
      <4>1. /\ task[b] = "write" /\ UNCHANGED <<fut, holds, age, rows>>
            /\ files' = files \cup {Coming(b)} /\ done'[b] = done[b] + 1
            /\ task'[b] \notin {"recheck", "write"}
          BY <2>6 DEF Write
      <4>2. fut[b] # "ok"
          BY <4>1, Zenon DEF Phases
      <4>3. fut[b] = "open" =>
                \A f \in Of(b) : f[2] <= done[b] => (f \in files' /\ f \in holds') \/ age'[f] = Retention
          BY <1>0, <3>1, <4>1, Zenon DEF KeptOf
      <4>4. fut[b] = "open" => (Coming(b) \in files' /\ Coming(b) \in holds') \/ age'[Coming(b)] = Retention
          BY <1>0, <3>1, <4>1, Zenon DEF KeptOf
      <4>5. \A f \in Of(b) : f[2] <= done'[b] => f = Coming(b) \/ f[2] <= done[b]
        <5>1. \A f \in Of(b) : f # Coming(b) => f[2] # done[b] + 1
            BY <2>0, <4>1, ComingOf, Zenon
        <5>2. done[b] \in Nat /\ \A f \in Of(b) : f[2] \in Nat
            BY DEF Of
        <5>3. \A d, n \in Nat : n <= d + 1 /\ n # d + 1 => n <= d
            OBVIOUS
        <5>4. done'[b] = done[b] + 1
            BY <4>1, Zenon
        <5> HIDE DEF UploadTypeOK
        <5> QED BY <5>1, <5>2, <5>3, <5>4, ZenonT(60)
      <4> QED BY <3>1, <4>1, <4>2, <4>3, <4>4, <4>5, ZenonT(60) DEF KeptOf, Of
    <3>2. CASE c # b
        BY <1>0, <2>6, <3>2, KeptFrame, SMTT(60) DEF Write
    <3> QED BY <3>1, <3>2, Zenon
  <2>7. CASE WriteFails(b)
    <3>1. fut'[c] \in {"open", "ok"} => fut'[c] = fut[c]
        BY <2>7, PutFailsFacts, Zenon DEF WriteFails
    <3> QED BY <1>0, <2>7, <3>1, KeptFrame, ZenonT(60) DEF WriteFails
  <2> QED BY <1>2, <2>1, <2>2, <2>3, <2>4, <2>5, <2>6, <2>7, Zenon DEF ChunkTask
<1>3. ASSUME NEW b \in Uploads, Abandon(b) PROVE KeptOf(c)'
  <2> USE DEF UploadTypeOK, putVars, cleaners, ledger, disk, mesh, bounds
  <2>1. CASE AbandonRelease(b)
    <3>1. fut[c] \in {"open", "ok"} => c # b
        BY <2>1, Zenon DEF AbandonRelease, Phases
    <3>2. c # b => \A f \in Of(c) : f \in holds => f \in holds'
        BY <2>1, OfFiles, Zenon DEF AbandonRelease
    <3> QED BY <1>0, <2>1, <3>1, <3>2, KeptFrame, Zenon DEF AbandonRelease
  <2>2. CASE AbandonUnlink(b)
      BY <1>0, <2>2, KeptFrame DEF AbandonUnlink, DeleteUnclaimed, Unclaimed
  <2>3. CASE AbandonEnds(b)
      BY <1>0, <2>3, KeptFrame, ZenonT(60) DEF AbandonEnds, Returned
  <2> QED BY <1>3, <2>1, <2>2, <2>3, Zenon DEF Abandon
<1>4. ASSUME NEW b \in Uploads, Transaction(b) PROVE KeptOf(c)'
    BY <1>0, <1>4, KeptFrame, Zenon DEF Transaction, Submit, Refuse, Land, putVars,
        cleaners, ledger, disk, bounds
<1>5. ASSUME NEW b \in Uploads, Purge(b) PROVE KeptOf(c)'
  <2> USE DEF UploadTypeOK, putVars, ledger, disk, mesh, bounds
  <2>1. CASE PurgeAsk(b) \/ PurgeEnds(b)
      BY <1>0, <2>1, KeptFrame, ZenonT(60) DEF PurgeAsk, PurgeEnds
  <2>2. CASE PurgeRelease(b)
    <3>1. UNCHANGED <<putVars, age, files, rows>>
        BY <2>2, Zenon DEF PurgeRelease
    <3>2. CASE c # b \/ fut[b] # "ok" \/ holds' = holds
      <4>1. fut[c] \in {"open", "ok"} => \A f \in Of(c) : f \in holds => f \in holds'
        <5>1. fut[b] \in {"ok", "gone"} /\ \A f \in holds : f \in holds' \/ f \in Of(b)
            BY <2>2 DEF PurgeRelease, Phases
        <5>2. c # b => \A f \in Of(c) : f \notin Of(b)
            BY OfFiles, Zenon
        <5> QED BY <3>2, <5>1, <5>2, ZenonT(60)
      <4> QED BY <1>0, <3>1, <4>1, KeptFrame, Zenon
    <3>3. CASE c = b /\ fut[b] = "ok" /\ holds' # holds
      <4>1. \A f \in holds \cap Of(b) : age[f] >= PurgeMinAge
          BY <2>2, <3>3, <1>0 DEF PurgeRelease
      <4>2. Late(b) \/ Of(b) \subseteq rows \/ Of(b) \subseteq holds
          BY <1>0, <3>3, ZenonT(60) DEF KeptOf, WholeRows
      <4>3. Late(b) \/ Of(b) \subseteq rows
          BY <4>1, <4>2, Zenon DEF Late
      <4>4. Late(b) => Late(b)'
          BY <3>1, Zenon DEF Late, Of
      <4>5. Of(b) \subseteq rows => Late(b) \/ \A f \in Of(b) : f \in files' /\ f \in rows'
          BY <1>0, <3>1, <3>3, Zenon DEF KeptOf
      <4> QED BY <3>1, <3>3, <4>3, <4>4, <4>5, Zenon DEF KeptOf, Of
    <3> QED BY <3>2, <3>3, Zenon
  <2>3. CASE PurgeUnlink(b)
      BY <1>0, <2>3, KeptFrame, SMTT(60) DEF PurgeUnlink, DeleteUnclaimed, Unclaimed
  <2> QED BY <1>5, <2>1, <2>2, <2>3, Zenon DEF Purge
<1>6. CASE Sweep
  <2>1. UNCHANGED <<fut, task, done, age, rows>>
      BY <1>6, Zenon DEF Sweep, SweepList, SweepDiff, SweepSettle, SweepUnlink, SweepEnds, putVars,
          ledger, mesh
  <2>2. \A f \in Of(c) : f \in files /\ (f \in holds \/ f \in rows) => f \in files'
      BY <1>6, Zenon DEF Sweep, SweepList, SweepDiff, SweepSettle, SweepUnlink, SweepEnds, disk,
          DeleteUnclaimed, Unclaimed
  <2>3. \A f \in Of(c) : f \in holds => f \in holds' \/ age[f] = Retention
    <3>1. \A f \in Expired : age[f] = Retention
        BY ExpiredAge, Zenon
    <3>2. holds \ Expired \subseteq holds'
        BY <1>6, Zenon DEF Sweep, SweepList, SweepDiff, SweepSettle, SweepUnlink, SweepEnds, ledger
    <3> QED BY <3>1, <3>2, Zenon
  <2> QED BY <1>0, <2>1, <2>2, <2>3, KeptFrame, Zenon
<1>7. CASE Tick
  <2>1. \A f \in Of(c) : (age[f] = Retention => age'[f] = Retention) /\ age'[f] >= age[f]
      BY <1>0, <1>7, SMTT(60) DEF Tick, UploadTypeOK
  <2>2. Late(c) => Late(c)'
      BY <1>0, <2>1 DEF Late, UploadTypeOK, Of
  <2>3. UNCHANGED <<fut, task, done, files, holds, rows>> /\ Coming(c)' = Coming(c)
      BY <1>7, Zenon DEF Tick, putVars, mesh, Coming
  <2>4. task[c] \in {"recheck", "write"} => Coming(c) \in Of(c)
      BY ComingOf, Zenon DEF Phases
  <2> QED BY <1>0, <2>1, <2>2, <2>3, <2>4, Zenon DEF KeptOf, Of
<1>8. CASE Restart
  <2>1. /\ fut'[c] \in {"open", "ok"} => fut'[c] = fut[c]
        /\ UNCHANGED <<done, age, files, holds>> /\ task'[c] = "idle"
      BY <1>8, Zenon DEF Restart, ledger, disk
  <2>2. \A f \in Of(c) : f \in rows => f \in rows' \/ f \in holds'
      BY <1>8, <2>1, Zenon DEF Restart, Of
  <2> QED BY <1>0, <2>1, <2>2, KeptFrame, Zenon
<1>9. CASE UNCHANGED vars
    BY <1>0, <1>9, KeptFrame, Zenon DEF vars, putVars, ledger, disk, mesh
<1> QED BY <1>1, <1>2, <1>3, <1>4, <1>5, <1>6, <1>7, <1>8, <1>9, Zenon DEF Next
-----------------------------------------------------------------------------
(* Rows *)

\* WholeRows and RowedIsStored are preserved: rows come only with Land, which
\* is in time, and no cleaner deletes a file that has its row.
LEMMA RowsStep == UploadInv /\ [Next]_vars => WholeRows' /\ RowedIsStored'
<1> SUFFICES ASSUME UploadInv, [Next]_vars PROVE WholeRows' /\ RowedIsStored'
    BY Zenon
<1>0. UploadTypeOK /\ Phases /\ WholeRows /\ Kept /\ rows \subseteq files
    BY Zenon DEF UploadInv, RowedIsStored
<1>1. ASSUME rows' = rows, \A f \in rows : f \in files => f \in files',
             \A b \in Uploads : tx[b] = "decided" => tx'[b] = "decided"
      PROVE  WholeRows' /\ RowedIsStored'
    BY <1>0, <1>1, Zenon DEF WholeRows, RowedIsStored, Of
<1>2. ASSUME NEW b \in Uploads, Put(b) PROVE WholeRows' /\ RowedIsStored'
    BY <1>1, <1>2, Zenon DEF Put, Begin, Chunk, ReadFails, Disconnect, PutOk, mesh, disk
<1>3. ASSUME NEW b \in Uploads, ChunkTask(b) PROVE WholeRows' /\ RowedIsStored'
  <2>1. UNCHANGED mesh /\ \A f \in rows : f \in files => f \in files'
      BY <1>3, Zenon DEF ChunkTask, HookRefuses, HookAccepts, Record, RecordFails, Recheck, Write,
          WriteFails, disk
  <2> QED BY <1>1, <2>1, Zenon DEF mesh
<1>4. ASSUME NEW b \in Uploads, Abandon(b) PROVE WholeRows' /\ RowedIsStored'
  <2>1. UNCHANGED mesh /\ \A f \in rows : f \in files => f \in files'
      BY <1>4, Zenon DEF Abandon, AbandonRelease, AbandonUnlink, AbandonEnds, DeleteUnclaimed,
          Unclaimed, disk
  <2> QED BY <1>1, <2>1, Zenon DEF mesh
<1>5. ASSUME NEW b \in Uploads, Transaction(b) PROVE WholeRows' /\ RowedIsStored'
  <2>1. CASE Submit(b) \/ Refuse(b)
      BY <1>0, <1>1, <2>1, Zenon DEF Submit, Refuse, disk, UploadTypeOK
  <2>2. CASE Land(b)
    <3>1. /\ rows' = rows \cup Of(b) /\ files' = files
          /\ \A c \in Uploads : tx'[c] = IF c = b THEN "decided" ELSE tx[c]
        BY <1>0, <2>2, Zenon DEF Land, disk, UploadTypeOK
    <3>2. fut[b] = "ok" /\ KeptOf(b)
        BY <1>0, <2>2, Zenon DEF Land, Phases, Kept
    <3>3. ~Late(b)
      <4>1. \A f \in Of(b) : age[f] \in 0 .. Retention
          BY <1>0, OfFiles, Zenon DEF UploadTypeOK
      <4> QED BY <2>2, <4>1, UploadAssumption DEF Land, Timely, Late
    <3>4. Of(b) \subseteq files
        BY <3>2, <3>3, Zenon DEF KeptOf
    <3>5. RowedIsStored'
        BY <1>0, <3>1, <3>4, Zenon DEF RowedIsStored
    <3>6. ASSUME NEW c \in Uploads
          PROVE  rows' \cap Of(c) = {} \/ (Of(c) \subseteq rows' /\ tx'[c] = "decided")
        BY <1>0, <3>1, OfFiles, Zenon DEF WholeRows
    <3> QED BY <3>5, <3>6, Zenon DEF WholeRows, Of
  <2> QED BY <1>5, <2>1, <2>2, Zenon DEF Transaction
<1>6. ASSUME NEW b \in Uploads, Purge(b) PROVE WholeRows' /\ RowedIsStored'
  <2>1. UNCHANGED mesh /\ \A f \in rows : f \in files => f \in files'
      BY <1>6, Zenon DEF Purge, PurgeAsk, PurgeRelease, PurgeUnlink, PurgeEnds, DeleteUnclaimed,
          Unclaimed, disk
  <2> QED BY <1>1, <2>1, Zenon DEF mesh
<1>7. CASE Sweep
  <2>1. UNCHANGED mesh /\ \A f \in rows : f \in files => f \in files'
      BY <1>7, Zenon DEF Sweep, SweepList, SweepDiff, SweepSettle, SweepUnlink, SweepEnds,
          DeleteUnclaimed, Unclaimed, disk
  <2> QED BY <1>1, <2>1, Zenon DEF mesh
<1>8. CASE Tick
    BY <1>1, <1>8, Zenon DEF Tick, mesh
<1>9. CASE Restart
  <2>1. PICK B \in SUBSET Uploads : rows' = {f \in rows : f[1] \notin B}
      BY <1>9, Zenon DEF Restart
  <2>2. files' = files /\ tx' = tx
      BY <1>9, Zenon DEF Restart, disk
  <2>3. RowedIsStored'
      BY <1>0, <2>1, <2>2, Zenon DEF RowedIsStored
  <2>4. ASSUME NEW c \in Uploads
        PROVE  rows' \cap Of(c) = {} \/ (Of(c) \subseteq rows' /\ tx'[c] = "decided")
    <3>1. CASE c \in B \/ rows \cap Of(c) = {}
        BY <2>1, <3>1, Zenon DEF Of
    <3>2. CASE c \notin B /\ rows \cap Of(c) # {}
        BY <1>0, <2>1, <2>2, <3>2, Zenon DEF WholeRows, Of
    <3> QED BY <3>1, <3>2, Zenon
  <2> QED BY <2>3, <2>4, Zenon DEF WholeRows, Of
<1>10. CASE UNCHANGED vars
    BY <1>1, <1>10, Zenon DEF vars, mesh, disk
<1> QED BY <1>2, <1>3, <1>4, <1>5, <1>6, <1>7, <1>8, <1>9, <1>10, Zenon DEF Next

-----------------------------------------------------------------------------
\* The invariant holds in the initial state and is preserved.
LEMMA UploadInvariant == Spec => []UploadInv
<1>1. Init => UploadInv
  <2> SUFFICES ASSUME Init PROVE UploadInv
      BY Zenon
  <2>1. UploadTypeOK
      BY UploadAssumption, SMTT(60) DEF Init, UploadTypeOK, Nothing
  <2>2. Phases /\ WholeRows /\ Kept /\ RowedIsStored
      BY Zenon DEF Init, Phases, WholeRows, Kept, KeptOf, RowedIsStored, Nothing
  <2> QED BY <2>1, <2>2, Zenon DEF UploadInv
<1>2. UploadInv /\ [Next]_vars => UploadInv'
    BY TypeStep, PhasesStep, KeptStep, RowsStep, Zenon DEF UploadInv
<1> QED BY <1>1, <1>2, PTL DEF Spec

\* A node never deletes its own upload, for any number of uploads and batches,
\* any grace, purge age and retention, any failures and restarts: rows in the
\* database have their fragments on disk (reap_orphans, purge_held_uploads,
\* abandon_own_upload).
THEOREM OwnUploadsKept == Spec => []RowedIsStored
<1>1. UploadInv => RowedIsStored
    BY Zenon DEF UploadInv
<1> QED BY <1>1, UploadInvariant, PTL

-----------------------------------------------------------------------------
(* Abandoned uploads *)

\* What is on disk was written, where no write has failed
Written == \A b \in Uploads : \A f \in files \cap Of(b) : f[2] <= done[b]

\* A cleaner has work only while it runs
Tidy ==
    \A b \in Uploads :
        /\ fut[b] = "err" => abandoned[b]
        /\ abandon[b].pc = "none" => abandon[b].todo = {}
        /\ purge[b].pc # "unlink" => purge[b].todo = {}

\* After its clean-up has released an abandoned upload's holds, the only new
\* one is that of a batch whose hook has yet to look at the flag again
Released(b) ==
    abandon[b].pc # "release" =>
        holds \cap Of(b) \subseteq (IF task[b] = "recheck" THEN {Coming(b)} ELSE {})

\* Somebody still has to see to each file of an abandoned upload, except for
\* the batch its chunk task wrote last
SeenTo(b) ==
    \A f \in files \cap Of(b) :
        \/ f \in holds \/ age[f] = Retention
        \/ f \in abandon[b].todo \/ f \in purge[b].todo
        \/ f \in LastBatch(b) /\ task[b] \in {"hook", "idle"}

AbandonInv ==
    /\ Tidy
    /\ faults = 0 /\ restarts = 0 =>
           Written /\ \A b \in Uploads : abandoned[b] => Released(b) /\ SeenTo(b)
\* A failing put leaves its future and its clean-up tidy.
LEMMA PutFailsTidy ==
    ASSUME UploadTypeOK, Tidy, NEW b \in Uploads, PutFails(b), NEW c \in Uploads
    PROVE  /\ fut'[c] = "err" => abandoned'[c]
           /\ abandon'[c].pc = "none" => abandon'[c].todo = {}
<1>1. fut'[c] = "err" => (c = b /\ fut[b] = "open") \/ fut[c] = "err"
    BY PutFailsFacts, Zenon
<1>2. (c = b /\ fut[b] = "open") => abandoned'[c] /\ abandon'[c].pc = "release"
  <2>1. CASE c = b /\ fut[b] = "open"
    <3>1. abandoned' = [abandoned EXCEPT ![b] = TRUE] /\ abandon' = [abandon EXCEPT ![b].pc = "release"]
        BY <2>1, Zenon DEF PutFails
    <3> QED BY <2>1, <3>1, Zenon DEF UploadTypeOK
  <2> QED BY <2>1, Zenon
<1>3. ~(c = b /\ fut[b] = "open") => abandoned'[c] = abandoned[c] /\ abandon'[c] = abandon[c]
    BY PutFailsFacts, Zenon
<1>4. (fut[c] = "err" => abandoned[c]) /\ (abandon[c].pc = "none" => abandon[c].todo = {})
    BY Zenon DEF Tidy
<1>5. "release" # "none"
    BY Zenon
<1> QED BY <1>1, <1>2, <1>3, <1>4, <1>5, Zenon

\* Only a write adds a file, where none fails.
LEMMA WrittenStep ==
    ASSUME UploadTypeOK, Phases, Written, [Next]_vars, ~Fault
    PROVE  Written'
<1>0. \A b \in Uploads : Of(b)' = Of(b)
    BY Zenon DEF Of
<1>1. ASSUME files' \subseteq files, done' = done PROVE Written'
    BY <1>0, <1>1, Zenon DEF Written
<1>2. ASSUME NEW b \in Uploads, Write(b) PROVE Written'
  <2>1. /\ files' = files \cup {Coming(b)} /\ task[b] = "write"
        /\ \A c \in Uploads : done'[c] = IF c = b THEN done[b] + 1 ELSE done[c]
      BY <1>2, Zenon DEF Write, UploadTypeOK
  <2>2. Coming(b) \in Of(b) /\ Coming(b)[2] = done'[b]
      BY <2>1, ComingOf, Zenon DEF Phases
  <2>3. \A c \in Uploads : c # b => Coming(b) \notin Of(c)
      BY <2>2, OfFiles, Zenon
  <2>4. \A c \in Uploads : done[c] \in Nat /\ done'[c] \in Nat /\ done[c] <= done'[c]
      BY <2>1, UploadAssumption DEF UploadTypeOK
  <2> SUFFICES ASSUME NEW c \in Uploads, NEW f \in files' \cap Of(c) PROVE f[2] <= done'[c]
      BY <1>0, Zenon DEF Written
  <2>5. CASE f = Coming(b)
    <3>1. c = b
        BY <2>3, <2>5, Zenon
    <3> QED BY <2>2, <2>4, <2>5, <3>1
  <2>6. CASE f # Coming(b)
    <3>1. f[2] <= done[c] /\ f[2] \in Nat
        BY <2>1, <2>6, OfFiles DEF Written, Of
    <3> QED BY <2>4, <3>1
  <2> QED BY <2>5, <2>6, Zenon
<1>3. ASSUME NEW b \in Uploads, Put(b) PROVE Written'
    BY <1>1, <1>3, Zenon DEF Put, Begin, Chunk, ReadFails, Disconnect, PutOk, disk
<1>4. ASSUME NEW b \in Uploads, ChunkTask(b) PROVE Written'
    BY <1>1, <1>2, <1>4, Zenon DEF ChunkTask, HookRefuses, HookAccepts, Record, RecordFails,
        Recheck, WriteFails, disk
<1>5. ASSUME NEW b \in Uploads, Abandon(b) \/ Transaction(b) \/ Purge(b) PROVE Written'
    BY <1>1, <1>5, Zenon DEF Abandon, AbandonRelease, AbandonUnlink, AbandonEnds, Transaction,
        Submit, Refuse, Land, Purge, PurgeAsk, PurgeRelease, PurgeUnlink, PurgeEnds,
        DeleteUnclaimed, putVars, disk
<1>6. CASE Sweep \/ Tick \/ Restart \/ UNCHANGED vars
    BY <1>1, <1>6, Zenon DEF Sweep, SweepList, SweepDiff, SweepSettle, SweepUnlink, SweepEnds,
        Tick, Restart, DeleteUnclaimed, putVars, disk, vars
<1> QED BY <1>3, <1>4, <1>5, <1>6, Zenon DEF Next

\* Tidy is preserved by every step.
LEMMA TidyStep == UploadTypeOK /\ Phases /\ Tidy /\ UploadTypeOK' /\ [Next]_vars => Tidy'
<1> SUFFICES ASSUME UploadTypeOK, Phases, Tidy, UploadTypeOK', [Next]_vars PROVE Tidy'
    BY Zenon
<1> USE UploadAssumption
<1>1. ASSUME NEW b \in Uploads, Put(b) PROVE Tidy'
  <2> USE DEF UploadTypeOK, Tidy, cleaners, ledger, disk, mesh, bounds
  <2>1. CASE Begin(b) \/ Chunk(b) \/ PutOk(b)
      BY <2>1 DEF Begin, Chunk, PutOk, Of
  <2>2. CASE ReadFails(b)
    <3>1. UNCHANGED <<done, purge, files>>
        BY <2>2, Zenon DEF ReadFails
    <3>2. PutFails(b)
        BY <2>2, Zenon DEF ReadFails
    <3> HIDE DEF UploadTypeOK
    <3> QED BY <3>1, <3>2, PutFailsTidy, Zenon DEF Of
  <2>3. CASE Disconnect(b)
      BY <2>3 DEF Disconnect, Live, Of
  <2> QED BY <1>1, <2>1, <2>2, <2>3, Zenon DEF Put
<1>2. ASSUME NEW b \in Uploads, ChunkTask(b) PROVE Tidy'
  <2> USE DEF UploadTypeOK, cleaners, ledger, disk, mesh, bounds
  <2>0. task[b] # "idle" => Coming(b) \in Of(b) /\ done[b] < Batches /\ Coming(b)[2] = done[b] + 1
      BY <1>2, ComingOf, Zenon DEF Phases
  <2>1. CASE HookRefuses(b)
      BY <2>1, Zenon DEF HookRefuses, Tidy, Of
  <2>2. CASE HookAccepts(b) \/ Record(b)
      BY <2>2 DEF HookAccepts, Record, Tidy, Of
  <2>3. CASE RecordFails(b) \/ WriteFails(b)
    <3>1. PutFails(b) /\ UNCHANGED purge
        BY <2>3, Zenon DEF RecordFails, WriteFails
    <3> HIDE DEF UploadTypeOK
    <3> QED BY <3>1, PutFailsTidy, Zenon DEF Tidy, Of
  <2>4. CASE Recheck(b)
      BY <2>4, Zenon DEF Recheck, Tidy, Of
  <2>5. CASE Write(b)
      BY <2>5, Zenon DEF Write, Tidy
  <2> QED BY <1>2, <2>1, <2>2, <2>3, <2>4, <2>5, Zenon DEF ChunkTask
<1>3. ASSUME NEW b \in Uploads, Abandon(b) PROVE Tidy'
  <2> USE DEF UploadTypeOK, Tidy, putVars, cleaners, ledger, disk, mesh, bounds
  <2>1. CASE AbandonRelease(b)
      BY <2>1 DEF AbandonRelease, Of
  <2>2. CASE AbandonUnlink(b)
      BY <2>2, SMTT(30) DEF AbandonUnlink, DeleteUnclaimed, Of
  <2>3. CASE AbandonEnds(b)
      BY <2>3 DEF AbandonEnds, Returned, Nothing, Of
  <2> QED BY <1>3, <2>1, <2>2, <2>3, Zenon DEF Abandon
<1>4. ASSUME NEW b \in Uploads, Transaction(b) PROVE Tidy'
    BY <1>4, Zenon DEF Transaction, Submit, Refuse, Land, Tidy, putVars, cleaners, disk, Of
<1>5. ASSUME NEW b \in Uploads, Purge(b) PROVE Tidy'
  <2> USE DEF UploadTypeOK, Tidy, putVars, ledger, disk, mesh, bounds
  <2>1. CASE PurgeAsk(b)
      BY <2>1 DEF PurgeAsk, Of
  <2>2. CASE PurgeRelease(b)
    <3>1. /\ UNCHANGED <<putVars, abandon, files>>
          /\ \A c \in Uploads : c # b => purge'[c] = purge[c]
          /\ purge'[b].pc # "unlink" => purge'[b].todo = {}
        BY <2>2 DEF PurgeRelease, Nothing
    <3> QED BY <3>1, ZenonT(60) DEF Of
  <2>3. CASE PurgeUnlink(b)
      BY <2>3 DEF PurgeUnlink, DeleteUnclaimed, Of
  <2>4. CASE PurgeEnds(b)
      BY <2>4 DEF PurgeEnds, Nothing, Of
  <2> QED BY <1>5, <2>1, <2>2, <2>3, <2>4, Zenon DEF Purge
<1>6. CASE Sweep
  <2>1. files' \subseteq files /\ UNCHANGED <<putVars, abandon, purge>>
      BY <1>6, Zenon DEF Sweep, SweepList, SweepDiff, SweepSettle, SweepUnlink, SweepEnds, disk,
          DeleteUnclaimed
  <2> QED BY <2>1, Zenon DEF Tidy, putVars, Of
<1>7. CASE Tick
    BY <1>7, Zenon DEF Tick, Tidy, putVars, cleaners, Of
<1>8. CASE Restart
    BY <1>8, Zenon DEF Restart, Nothing, UploadTypeOK, Tidy, disk, Of
<1>9. CASE UNCHANGED vars
    BY <1>9, Zenon DEF vars, Tidy, putVars, cleaners, disk, Of
<1> QED BY <1>1, <1>2, <1>3, <1>4, <1>5, <1>6, <1>7, <1>8, <1>9, Zenon DEF Next
\* A step that leaves an upload and its cleaners where they are, gives it no
\* file and no hold, and takes no hold that has not expired.
LEMMA AbandonFrame ==
    ASSUME NEW c \in Uploads, Released(c), SeenTo(c),
           done'[c] = done[c], task'[c] = task[c],
           abandon'[c] = abandon[c], purge'[c] = purge[c],
           \A f \in Of(c) : f \in files' => f \in files,
           \A f \in Of(c) : f \in holds' => f \in holds,
           \A f \in Of(c) : f \in holds => f \in holds' \/ age'[f] = Retention,
           \A f \in Of(c) : age[f] = Retention => age'[f] = Retention
    PROVE  Released(c)' /\ SeenTo(c)'
<1>1. Of(c)' = Of(c) /\ LastBatch(c)' = LastBatch(c) /\ Coming(c)' = Coming(c)
    BY Zenon DEF Of, LastBatch, Coming
<1>2. Released(c)'
    BY <1>1, Zenon DEF Released
<1>3. SeenTo(c)'
    BY <1>1, Zenon DEF SeenTo
<1> QED BY <1>2, <1>3, Zenon

\* A step after which no operation has failed is not one that fails.
LEMMA Faultless ==
    ASSUME UploadTypeOK, [Next]_vars, faults' = 0, restarts' = 0
    PROVE  faults = 0 /\ restarts = 0 /\ ~Fault /\ ~Restart
<1>1. ~Fault /\ ~Restart
    BY UploadAssumption DEF Fault, Restart, UploadTypeOK
<1>2. UNCHANGED bounds
  <2>1. ASSUME NEW b \in Uploads, Put(b) \/ ChunkTask(b) PROVE UNCHANGED bounds
      BY <1>1, <2>1, Zenon DEF Put, Begin, Chunk, ReadFails, Disconnect, PutOk, ChunkTask, HookRefuses,
          HookAccepts, Record, RecordFails, Recheck, Write, WriteFails
  <2>2. ASSUME NEW b \in Uploads, Abandon(b) \/ Transaction(b) \/ Purge(b) PROVE UNCHANGED bounds
      BY <1>1, <2>2, Zenon DEF Abandon, AbandonRelease, AbandonUnlink, AbandonEnds, Transaction, Submit,
          Refuse, Land, Purge, PurgeAsk, PurgeRelease, PurgeUnlink, PurgeEnds
  <2>3. CASE Sweep \/ Tick
      BY <1>1, <2>3, Zenon DEF Sweep, SweepList, SweepDiff, SweepSettle, SweepUnlink, SweepEnds, Tick
  <2>4. CASE UNCHANGED vars
      BY <2>4, Zenon DEF vars
  <2> QED BY <1>1, <2>1, <2>2, <2>3, <2>4, Zenon DEF Next
<1> QED BY <1>1, <1>2, Zenon DEF bounds

\* The steps of other uploads and of the sweep do not disturb an abandoned
\* upload.
LEMMA OthersAbandon ==
    ASSUME UploadInv, NEW c \in Uploads, Released(c), SeenTo(c), ~Fault, ~Restart,
           \/ \E b \in Uploads \ {c} : Put(b) \/ ChunkTask(b) \/ Abandon(b) \/ Purge(b)
           \/ \E b \in Uploads : Transaction(b)
           \/ Sweep \/ Tick \/ UNCHANGED vars
    PROVE  Released(c)' /\ SeenTo(c)'
<1>0. UploadTypeOK /\ Phases /\ Of(c) \subseteq Files
    BY OfFiles, Zenon DEF UploadInv
<1> USE <1>0, AbandonFrame
<1>1. ASSUME NEW b \in Uploads \ {c}, Put(b) PROVE Released(c)' /\ SeenTo(c)'
  <2> USE DEF UploadTypeOK, cleaners, ledger, disk
  <2>1. CASE Begin(b) \/ Chunk(b) \/ PutOk(b) \/ Disconnect(b)
      BY <2>1, ZenonT(60) DEF Begin, Chunk, PutOk, Disconnect
  <2>2. CASE ReadFails(b)
      BY <2>2, PutFailsFacts, SMTT(60) DEF ReadFails
  <2> QED BY <1>1, <2>1, <2>2, Zenon DEF Put
<1>2. ASSUME NEW b \in Uploads \ {c}, ChunkTask(b) PROVE Released(c)' /\ SeenTo(c)'
  <2>1. task[b] # "idle" /\ Coming(b) \in Of(b)
      BY <1>2, ComingOf, ZenonT(60) DEF ChunkTask, HookRefuses, HookAccepts, Record, RecordFails, Recheck,
          Write, WriteFails, Phases
  <2>2. Coming(b) \notin Of(c) /\ \A f \in Of(c) : f \notin LastBatch(b)
      BY <2>1, OfFiles, ZenonT(60)
  <2> USE DEF UploadTypeOK, cleaners, ledger, disk
  <2>3. CASE HookRefuses(b)
      BY <2>2, <2>3, Zenon DEF HookRefuses
  <2>4. CASE HookAccepts(b)
      BY <2>4, Zenon DEF HookAccepts
  <2>5. CASE Record(b)
      BY <2>2, <2>5, ZenonT(60) DEF Record
  <2>6. CASE Recheck(b)
      BY <2>2, <2>6, Zenon DEF Recheck
  <2>7. CASE Write(b)
      BY <2>2, <2>7, Zenon DEF Write
  <2> QED BY <1>2, <2>3, <2>4, <2>5, <2>6, <2>7, Zenon DEF ChunkTask, RecordFails, WriteFails
<1>3. ASSUME NEW b \in Uploads \ {c}, Abandon(b) PROVE Released(c)' /\ SeenTo(c)'
  <2>1. \A f \in Of(c) : f \notin Of(b)
      BY OfFiles, Zenon
  <2>2. UNCHANGED <<task, done, purge, age>> /\ abandon'[c] = abandon[c] /\ files' \subseteq files
      BY <1>3, Zenon DEF Abandon, AbandonRelease, AbandonUnlink, AbandonEnds, DeleteUnclaimed,
          putVars, ledger, disk, UploadTypeOK
  <2>3. \A f \in Of(c) : f \in holds' <=> f \in holds
      BY <1>3, <2>1, Zenon DEF Abandon, AbandonRelease, AbandonUnlink, AbandonEnds, ledger
  <2> QED BY <2>2, <2>3, Zenon
<1>4. ASSUME NEW b \in Uploads \ {c}, Purge(b) PROVE Released(c)' /\ SeenTo(c)'
  <2>1. \A f \in Of(c) : f \notin Of(b)
      BY OfFiles, Zenon
  <2>2. UNCHANGED <<task, done, abandon, age>> /\ purge'[c] = purge[c] /\ files' \subseteq files
      BY <1>4, Zenon DEF Purge, PurgeAsk, PurgeRelease, PurgeUnlink, PurgeEnds, DeleteUnclaimed,
          putVars, ledger, disk, UploadTypeOK
  <2>3. \A f \in Of(c) : f \in holds' <=> f \in holds
      BY <1>4, <2>1, Zenon DEF Purge, PurgeAsk, PurgeRelease, PurgeUnlink, PurgeEnds, ledger
  <2> QED BY <2>2, <2>3, Zenon
<1>5. ASSUME NEW b \in Uploads, Transaction(b) PROVE Released(c)' /\ SeenTo(c)'
    BY <1>5, Zenon DEF Transaction, Submit, Refuse, Land, putVars, cleaners, ledger, disk
<1>6. CASE Sweep
  <2>1. UNCHANGED <<task, done, abandon, purge, age>> /\ files' \subseteq files
      BY <1>6, Zenon DEF Sweep, SweepList, SweepDiff, SweepSettle, SweepUnlink, SweepEnds,
          DeleteUnclaimed, putVars, ledger, disk
  <2>2. holds' \subseteq holds /\ holds \ Expired \subseteq holds'
      BY <1>6, Zenon DEF Sweep, SweepList, SweepDiff, SweepSettle, SweepUnlink, SweepEnds, ledger
  <2>3. \A f \in Expired : age[f] = Retention
      BY ExpiredAge, Zenon
  <2> QED BY <2>1, <2>2, <2>3, Zenon
<1>7. CASE Tick
  <2>1. \A f \in Of(c) : age[f] = Retention => age'[f] = Retention
      BY <1>7, UploadAssumption, SMTT(60) DEF Tick, UploadTypeOK
  <2> QED BY <1>7, <2>1, ZenonT(60) DEF Tick, putVars, cleaners
<1>8. CASE UNCHANGED vars
    BY <1>8, ZenonT(60) DEF vars, putVars, cleaners, ledger, disk
<1> QED BY <1>1, <1>2, <1>3, <1>4, <1>5, <1>6, <1>7, <1>8, Zenon
\* When an upload is abandoned, everything it has written is held or expired.
LEMMA NewlyAbandoned ==
    ASSUME UploadInv, Written, NEW c \in Uploads, fut[c] = "open", abandon'[c].pc = "release",
           UNCHANGED <<files, holds, age>>
    PROVE  Released(c)' /\ SeenTo(c)'
<1>1. \A f \in files \cap Of(c) : f \in holds \/ age[f] = Retention
    BY Zenon DEF UploadInv, Kept, KeptOf, Written
<1> QED BY <1>1, Zenon DEF Released, SeenTo, Of

\* The upload's own put and chunk task.
LEMMA OwnPutAbandon ==
    ASSUME UploadInv, Tidy, Written, NEW c \in Uploads, ~Fault, Put(c) \/ ChunkTask(c), abandoned'[c],
           abandoned[c] => Released(c) /\ SeenTo(c)
    PROVE  Released(c)' /\ SeenTo(c)'
<1>0. UploadTypeOK /\ Phases /\ Of(c)' = Of(c)
    BY Zenon DEF UploadInv, Of
<1>1. CASE Begin(c) \/ Chunk(c) \/ PutOk(c) \/ HookAccepts(c)
    BY <1>0, <1>1, Zenon DEF Begin, Chunk, PutOk, HookAccepts, Phases
<1>2. CASE ReadFails(c)
  <2>1. fut[c] = "open" /\ PutFails(c) /\ UNCHANGED <<files, holds, age>>
      BY <1>2, Zenon DEF ReadFails, disk, ledger
  <2>2. abandon' = [abandon EXCEPT ![c].pc = "release"]
      BY <2>1, Zenon DEF PutFails
  <2> QED BY <1>0, <2>1, <2>2, NewlyAbandoned, Zenon DEF UploadTypeOK
<1>3. CASE Disconnect(c)
  <2>1. /\ abandon'[c].pc = "release" /\ abandon'[c].todo = abandon[c].todo
        /\ UNCHANGED <<files, holds, age, task, done, purge>>
      BY <1>0, <1>3, Zenon DEF Disconnect, disk, ledger, UploadTypeOK
  <2>2. CASE fut[c] = "open"
      BY <2>1, <2>2, NewlyAbandoned, Zenon
  <2>3. CASE fut[c] = "err"
    <3>1. SeenTo(c)
        BY <2>3, Zenon DEF Tidy
    <3> QED BY <1>0, <2>1, <3>1, Zenon DEF Released, SeenTo, LastBatch
  <2> QED BY <1>3, <2>2, <2>3, Zenon DEF Disconnect, Live
<1>4. CASE HookRefuses(c)
  <2>1. Released(c) /\ SeenTo(c)
      BY <1>4, Zenon DEF HookRefuses
  <2>2. /\ task[c] = "hook" /\ task'[c] = "idle" /\ UNCHANGED <<done, abandon, purge, age>>
        /\ holds' = holds \ LastBatch(c) /\ files' \subseteq files
      BY <1>0, <1>4, Zenon DEF HookRefuses, cleaners, UploadTypeOK
  <2>3. LastBatch(c)' = LastBatch(c)
      BY <2>2, Zenon DEF LastBatch, Of
  <2>4. Released(c)'
      BY <1>0, <2>1, <2>2, Zenon DEF Released
  <2>5. SeenTo(c)'
      BY <1>0, <2>1, <2>2, <2>3, Zenon DEF SeenTo
  <2> QED BY <2>4, <2>5, Zenon
<1>5. CASE Record(c)
  <2>1. /\ task[c] = "record" /\ task'[c] = "recheck" /\ holds' = holds \cup {Coming(c)}
        /\ age' = [age EXCEPT ![Coming(c)] = 0] /\ Coming(c)' = Coming(c)
        /\ UNCHANGED <<done, abandoned, abandon, purge, files>>
      BY <1>0, <1>5, Zenon DEF Record, cleaners, disk, UploadTypeOK, Coming
  <2>2. Released(c) /\ SeenTo(c)
      BY <2>1, ZenonT(60)
  <2>3. \A f \in files \cap Of(c) : f # Coming(c) /\ f \in Files
    <3>1. Coming(c)[2] = done[c] + 1 /\ done[c] \in Nat
        BY <1>0, <2>1, ComingOf, SMTT(60) DEF Phases, UploadTypeOK
    <3> QED BY <3>1, OfFiles, SMTT(30) DEF Written
  <2>4. Released(c)'
      BY <1>0, <2>1, <2>2, ZenonT(60) DEF Released
  <2>5. \A f \in files \cap Of(c) : age'[f] = age[f]
      BY <1>0, <2>1, <2>3, Zenon DEF UploadTypeOK
  <2>6. SeenTo(c)'
      BY <1>0, <2>1, <2>2, <2>5, ZenonT(60) DEF SeenTo
  <2> QED BY <2>4, <2>6, Zenon
<1>6. CASE Recheck(c)
  <2>1. /\ task[c] = "recheck" /\ task'[c] = "idle" /\ holds' = holds \ {Coming(c)}
        /\ UNCHANGED <<done, abandoned, abandon, purge, age, files>>
      BY <1>0, <1>6, Zenon DEF Recheck, cleaners, disk, UploadTypeOK
  <2>2. Released(c) /\ SeenTo(c)
      BY <2>1, ZenonT(60)
  <2>3. \A f \in files \cap Of(c) : f # Coming(c)
    <3>1. Coming(c)[2] = done[c] + 1 /\ done[c] \in Nat
        BY <1>0, <2>1, ComingOf, SMTT(60) DEF Phases, UploadTypeOK
    <3> QED BY <3>1, SMTT(30) DEF Written
  <2>4. Released(c)'
      BY <1>0, <2>1, <2>2, Zenon DEF Released
  <2>5. SeenTo(c)'
      BY <1>0, <2>1, <2>2, <2>3, Zenon DEF SeenTo
  <2> QED BY <2>4, <2>5, Zenon
<1>7. CASE Write(c)
  <2>1. /\ task[c] = "write" /\ task'[c] \in {"hook", "idle"} /\ done'[c] = done[c] + 1
        /\ files' = files \cup {Coming(c)}
        /\ UNCHANGED <<abandoned, abandon, purge, age, holds>>
      BY <1>0, <1>7, Zenon DEF Write, cleaners, ledger, UploadTypeOK
  <2>2. Released(c) /\ SeenTo(c)
      BY <2>1, Zenon
  <2>3. Coming(c) \in LastBatch(c)'
      BY <1>0, <2>1, ComingOf, Zenon DEF Phases, LastBatch, Of
  <2>4. Released(c)'
      BY <1>0, <2>1, <2>2, Zenon DEF Released
  <2>5. SeenTo(c)'
      BY <1>0, <2>1, <2>2, <2>3, Zenon DEF SeenTo
  <2> QED BY <2>4, <2>5, Zenon
<1> QED BY <1>1, <1>2, <1>3, <1>4, <1>5, <1>6, <1>7, Zenon DEF Put, ChunkTask, RecordFails, WriteFails

\* The upload's own clean-up and its purge.
LEMMA OwnCleanAbandon ==
    ASSUME UploadInv, Tidy, NEW c \in Uploads, ~Fault, Abandon(c) \/ Purge(c),
           abandoned[c], Released(c), SeenTo(c)
    PROVE  Released(c)' /\ SeenTo(c)'
<1>0. UploadTypeOK /\ Phases /\ Of(c)' = Of(c)
    BY Zenon DEF UploadInv, Of
<1>1. UNCHANGED <<task, done, age>> /\ Coming(c)' = Coming(c) /\ LastBatch(c)' = LastBatch(c)
  <2>1. UNCHANGED <<task, done, age>>
      BY Zenon DEF Abandon, AbandonRelease, AbandonUnlink, AbandonEnds, Purge, PurgeAsk, PurgeRelease,
          PurgeUnlink, PurgeEnds, putVars, ledger
  <2> QED BY <2>1, Zenon DEF Coming, LastBatch, Of
<1>2. CASE AbandonRelease(c)
  <2>1. /\ abandon'[c].todo = abandon[c].todo \cup (holds \cap Of(c))
        /\ holds' = holds \ Of(c) /\ UNCHANGED <<purge, files>>
      BY <1>0, <1>2, Zenon DEF AbandonRelease, disk, UploadTypeOK
  <2> QED BY <1>0, <1>1, <2>1, Zenon DEF Released, SeenTo
<1>3. ASSUME NEW f \in Files, DeleteUnclaimed(f), holds' = holds,
             abandon'[c].pc = abandon[c].pc,
             abandon[c].todo \ {f} \subseteq abandon'[c].todo,
             purge[c].todo \ {f} \subseteq purge'[c].todo
      PROVE  Released(c)' /\ SeenTo(c)'
  <2>1. f \in files' => f \in holds \/ f \notin Of(c)
      BY <1>3, <1>0, Zenon DEF DeleteUnclaimed, Unclaimed, UploadInv, WholeRows, Phases
  <2>2. files' \subseteq files
      BY <1>3, Zenon DEF DeleteUnclaimed
  <2>3. Released(c)'
      BY <1>0, <1>1, <1>3, Zenon DEF Released
  <2>4. SeenTo(c)'
      BY <1>0, <1>1, <1>3, <2>1, <2>2, Zenon DEF SeenTo
  <2> QED BY <2>3, <2>4, Zenon
<1>4. CASE AbandonUnlink(c)
  <2>1. PICK f \in abandon[c].todo :
             abandon' = [abandon EXCEPT ![c].todo = @ \ {f}] /\ DeleteUnclaimed(f)
      BY <1>4, ZenonT(60) DEF AbandonUnlink
  <2>2. /\ abandon'[c].pc = abandon[c].pc /\ abandon'[c].todo = abandon[c].todo \ {f}
        /\ UNCHANGED <<holds, purge>> /\ f \in Files
      BY <1>0, <1>4, <2>1, ZenonT(60) DEF AbandonUnlink, ledger, UploadTypeOK
  <2> QED BY <1>3, <2>1, <2>2, Zenon
<1>5. CASE PurgeUnlink(c)
  <2>1. PICK f \in purge[c].todo :
             purge' = [purge EXCEPT ![c].todo = @ \ {f}] /\ DeleteUnclaimed(f)
      BY <1>5, ZenonT(60) DEF PurgeUnlink
  <2>2. /\ purge'[c].todo = purge[c].todo \ {f}
        /\ UNCHANGED <<holds, abandon>> /\ f \in Files
      BY <1>0, <1>5, <2>1, ZenonT(60) DEF PurgeUnlink, ledger, UploadTypeOK
  <2> QED BY <1>3, <2>1, <2>2, Zenon
<1>6. CASE AbandonEnds(c)
  <2>1. /\ abandon[c].pc = "unlink" /\ abandon[c].todo = {} /\ UNCHANGED <<files, holds, purge>>
      BY <1>6, Zenon DEF AbandonEnds, disk, ledger
  <2> QED BY <1>0, <1>1, <2>1, Zenon DEF Released, SeenTo
<1>7. CASE PurgeEnds(c) \/ PurgeAsk(c)
  <2>1. purge[c].todo = {} /\ UNCHANGED <<abandon, files, holds>>
      BY <1>7, Zenon DEF PurgeEnds, PurgeAsk, disk, ledger, Tidy
  <2> QED BY <1>0, <1>1, <2>1, Zenon DEF Released, SeenTo
<1>8. CASE PurgeRelease(c)
  <2>1. /\ UNCHANGED <<abandon, files>> /\ holds' \subseteq holds
        /\ (holds \cap Of(c)) \ holds' \subseteq purge'[c].todo
      BY <1>0, <1>8, PurgeReleaseFacts, Zenon DEF disk
  <2>2. purge[c].todo = {}
      BY <1>8, Zenon DEF PurgeRelease, Tidy
  <2> QED BY <1>0, <1>1, <2>1, <2>2, Zenon DEF Released, SeenTo
<1> QED BY <1>2, <1>4, <1>5, <1>6, <1>7, <1>8, Zenon DEF Abandon, Purge
\* AbandonInv is preserved by every step.
LEMMA AbandonStep == UploadInv /\ AbandonInv /\ UploadInv' /\ [Next]_vars => AbandonInv'
<1> SUFFICES ASSUME UploadInv, AbandonInv, UploadInv', [Next]_vars PROVE AbandonInv'
    BY Zenon
<1>1. Tidy /\ Tidy'
    BY TidyStep, Zenon DEF AbandonInv, UploadInv
<1>2. ASSUME faults' = 0, restarts' = 0, NEW c \in Uploads, abandoned'[c]
      PROVE  Released(c)' /\ SeenTo(c)'
  <2>1. faults = 0 /\ restarts = 0 /\ ~Fault /\ ~Restart
      BY <1>2, Faultless, Zenon DEF UploadInv
  <2>2. abandoned[c] => Released(c) /\ SeenTo(c)
      BY <2>1, Zenon DEF AbandonInv
  <2>3. CASE Put(c) \/ ChunkTask(c)
      BY <1>1, <1>2, <2>1, <2>2, <2>3, OwnPutAbandon, Zenon DEF AbandonInv
  <2>4. CASE ~(Put(c) \/ ChunkTask(c))
    <3>1. abandoned'[c] = abandoned[c]
      <4>1. ASSUME NEW b \in Uploads \ {c}, Put(b) \/ ChunkTask(b) PROVE abandoned'[c] = abandoned[c]
        <5>1. CASE ReadFails(b) \/ RecordFails(b) \/ WriteFails(b)
            BY <5>1, PutFailsFacts, Zenon DEF ReadFails, RecordFails, WriteFails, UploadInv
        <5>2. CASE Disconnect(b)
            BY <5>2, ZenonT(60) DEF Disconnect, UploadInv, UploadTypeOK
        <5> QED BY <4>1, <5>1, <5>2, Zenon DEF Put, ChunkTask, Begin, Chunk, PutOk, HookRefuses,
                    HookAccepts, Record, Recheck, Write
      <4>2. ASSUME NEW b \in Uploads, Abandon(b) \/ Transaction(b) \/ Purge(b)
            PROVE  abandoned' = abandoned
          BY <4>2, Zenon DEF Abandon, AbandonRelease, AbandonUnlink, AbandonEnds, Transaction, Submit,
              Refuse, Land, Purge, PurgeAsk, PurgeRelease, PurgeUnlink, PurgeEnds, putVars
      <4>3. Sweep \/ Tick \/ UNCHANGED vars => abandoned' = abandoned
          BY Zenon DEF Sweep, SweepList, SweepDiff, SweepSettle, SweepUnlink, SweepEnds, Tick,
              vars, putVars
      <4> QED BY <2>1, <2>4, <4>1, <4>2, <4>3, Zenon DEF Next
    <3>2. abandoned[c] /\ Released(c) /\ SeenTo(c)
        BY <1>2, <2>2, <3>1, Zenon
    <3>3. CASE Abandon(c) \/ Purge(c)
        BY <1>1, <2>1, <3>2, <3>3, OwnCleanAbandon, Zenon
    <3>4. CASE ~(Abandon(c) \/ Purge(c))
        BY <2>1, <2>4, <3>2, <3>4, OthersAbandon, Zenon DEF Next
    <3> QED BY <3>3, <3>4, Zenon
  <2> QED BY <2>3, <2>4, Zenon
<1>3. ASSUME faults' = 0, restarts' = 0 PROVE Written'
  <2>1. faults = 0 /\ restarts = 0 /\ ~Fault
      BY <1>3, Faultless, Zenon DEF UploadInv
  <2> QED BY <2>1, WrittenStep, Zenon DEF AbandonInv, UploadInv
<1> QED BY <1>1, <1>2, <1>3, Zenon DEF AbandonInv

\* An abandoned upload whose tasks ended without a failed operation holds
\* nothing and leaves on disk at most the batch its detached task was writing,
\* whenever the client goes away between the hook's two looks at the flag
\* (upload_ledger_hook, abandon_own_upload).
THEOREM AbandonedUploadsReleased == Spec => []AbandonedHoldsNothing
<1>1. Init => AbandonInv
    BY DEF Init, AbandonInv, Tidy, Written, Nothing
<1>2. UploadInv /\ AbandonInv /\ UploadInv' /\ [Next]_vars => AbandonInv'
    BY AbandonStep, Zenon
<1>3. AbandonInv => AbandonedHoldsNothing
    BY Zenon DEF AbandonInv, AbandonedHoldsNothing, Tidy, Released, SeenTo
<1> QED BY <1>1, <1>2, <1>3, UploadInvariant, PTL DEF Spec

-----------------------------------------------------------------------------
(* The publish queue of a photo (PhotoPublish) *)

PhotoRow == [kept : BOOLEAN, deleted : BOOLEAN, materialized : BOOLEAN,
             published : BOOLEAN, tombstone : BOOLEAN]
ResourceRow == [state : {"none", "live", "marker"}, content : Int,
                written : BOOLEAN, told : Int]

PhotoTypes ==
    /\ render \in Nat
    /\ photo \in PhotoRow
    /\ res \in [Kinds -> ResourceRow]
    /\ remote.added \in BOOLEAN /\ remote.deleted \in BOOLEAN
    /\ doubt \subseteq Ledgers /\ overtaken \in BOOLEAN
    /\ pass = [at |-> pass.at, todo |-> pass.todo, tx |-> pass.tx, sent |-> pass.sent,
               answer |-> pass.answer]
    /\ pass.at \in {"idle", "resolve", "run"} /\ pass.todo \subseteq Ops /\ pass.tx \in Nat
    /\ \A t \in undecided : t.id \in Nat \ {0} /\ t.op \in Ops

\* What the rows say fits together, and the mesh has had what is published
RowsFit ==
    /\ \A k \in Kinds : /\ res[k].state = "none" => res[k] = NoRow
                        /\ res[k].state = "marker" => res[k].content = None
    /\ photo.materialized => Complete(res)
    /\ ~photo.kept => /\ photo.deleted /\ pass.at = "idle"
                      /\ photo.published => photo.tombstone
                      /\ \A k \in Kinds : res[k].state = "none"
    /\ ~photo.published =>
        /\ ~photo.tombstone
        /\ \A k \in Kinds : res[k].told = None /\ res[k].state # "marker"
    /\ photo.published => remote.added
    /\ remote.deleted => remote.added

\* Current bytes that are not in the spool have been told
Spooled ==
    \A k \in Kinds :
        res[k].state = "live" /\ res[k].written /\ <<k, res[k].content>> \notin spool
            => photo.published /\ res[k].told = res[k].content

\* The rows still ask for what a pass is about to do
PassFits ==
    /\ pass.at = "idle" => pass.todo = {}
    /\ pass.at = "resolve" => pass.tx = 0
    /\ pass.todo = {} => pass.tx = 0
    /\ pass.tx = 0 => pass.answer = "none"
    /\ "publish" \in pass.todo => pass.todo = {"publish"} /\ ~photo.published
    /\ pass.todo \cap {"restore", "edit", "delete"} # {} => photo.published
    /\ pass.todo \cap {"publish", "edit"} # {} => photo.materialized
    /\ "delete" \in pass.todo => pass.todo = {"delete"} /\ photo.deleted

\* The submission of the pass is the one it waits for, and the rows are as sent
Awaited ==
    /\ \A t, u \in undecided : t.id = u.id => t = u
    /\ \A t \in undecided : t.id = pass.tx =>
           t.op = Op /\ t.bytes = pass.sent /\ pass.answer = "none"
    /\ pass.tx # 0 => pass.sent = Bytes(Op)
    /\ pass.answer = "ok" /\ Op = "publish" => remote.added

\* What each kind of submission presupposes
Founded ==
    /\ \A t \in undecided :
        /\ t.op = "publish" => DOMAIN t.bytes = Kinds
        /\ t.op = "edit" => DOMAIN t.bytes \subseteq Kinds
        /\ t.op \in {"edit", "restore"} => photo.published
    /\ doubt \cap {"edit", "tombstone"} # {} => photo.published
    /\ "publish" \in doubt => ~photo.published

\* Submissions that nobody waits for
Stale == {t \in undecided : t.id # pass.tx}

\* The bytes that may still be decided are those the rows have now
Current ==
    \A t \in undecided : t.op \in {"publish", "edit"} =>
        /\ photo.materialized
        /\ \A k \in DOMAIN t.bytes : t.bytes[k] = res[k].content

\* What is in doubt is what the rows still say, and a deletion leaves no doubt behind
Doubtful ==
    /\ doubt \cap {"publish", "edit"} # {} => photo.materialized /\ ~photo.deleted
    /\ pass.todo \ {"delete"} # {} /\ photo.deleted => doubt = {} /\ Stale = {}

\* A stale submission says what the rows say; where no answer is in doubt, the
\* mesh was told the same
Lapsed ==
    \A t \in Stale :
        /\ t.op = "delete" <=> photo.deleted
        /\ t.op = "publish" /\ ~photo.published => "publish" \in doubt
        /\ t.op = "edit" /\ "edit" \notin doubt =>
            \A k \in DOMAIN t.bytes : res[k].told = t.bytes[k]
        /\ t.op \in {"restore", "delete"} /\ "tombstone" \notin doubt =>
            (photo.tombstone <=> t.op = "delete")

\* The mesh has what it was told, or what an answer in doubt or unread may say
Ok(op) == pass.answer = "ok" /\ Op = op
TruthOfAdd ==
    ~photo.published /\ remote.added =>
        /\ "publish" \in doubt \/ Ok("publish")
        /\ ~remote.deleted
        /\ \A k \in Kinds : remote.holds[k] = res[k].content
TruthOfTombstone ==
    /\ Ok("restore") => ~remote.deleted
    /\ Ok("delete") => remote.deleted
    /\ photo.published =>
        \/ remote.deleted <=> photo.tombstone
        \/ "tombstone" \in doubt /\ (remote.deleted <=> photo.deleted)
        \/ Ok("restore") \/ Ok("delete")
TruthOfBytes ==
    /\ Ok("edit") => \A k \in DOMAIN pass.sent : remote.holds[k] = pass.sent[k]
    /\ photo.published /\ photo.kept => \A k \in Kinds :
        \/ remote.holds[k] = res[k].told
        \/ "edit" \in doubt /\ remote.holds[k] = res[k].content
        \/ Ok("edit") /\ k \in DOMAIN pass.sent

Local == PhotoTypes /\ RowsFit /\ Spooled /\ PassFits /\ Awaited /\ Founded
Submissions == Current /\ Doubtful /\ Lapsed
Truth == TruthOfAdd /\ TruthOfTombstone /\ TruthOfBytes
PhotoInv == Local /\ (~overtaken => Submissions /\ Truth)

-----------------------------------------------------------------------------
(* Plans, passes and rows *)

\* The operation whose turn it is, is one of those left.
LEMMA TurnOf ==
    ASSUME PhotoTypes, pass.todo # {}
    PROVE  Op \in pass.todo /\ Op \in Ops
BY Zenon DEF PhotoTypes, Op, Ops

\* What the daemon claims, and what the rows say then.
LEMMA ClaimedFacts ==
    ASSUME PhotoTypes, Claimed # {}
    PROVE  /\ Claimed \subseteq Ops /\ photo.kept
           /\ "publish" \in Claimed => Claimed = {"publish"} /\ ~photo.published
           /\ Claimed \cap {"restore", "edit", "delete"} # {} => photo.published
           /\ Claimed \cap {"publish", "edit"} # {} => photo.materialized
           /\ "delete" \in Claimed => Claimed = {"delete"}
           /\ photo.deleted <=> "delete" \in Claimed
<1>1. /\ "publish" \in Claimed =>
            photo.kept /\ ~photo.published /\ photo.materialized /\ ~photo.deleted
      /\ "restore" \in Claimed => photo.kept /\ photo.published /\ ~photo.deleted
      /\ "edit" \in Claimed =>
            photo.kept /\ photo.published /\ photo.materialized /\ ~photo.deleted
      /\ "delete" \in Claimed => photo.kept /\ photo.published /\ photo.deleted
  BY Zenon DEF Claimed, Owed, Publishable, Propagatable, Editable
<1>2. Claimed \subseteq Ops
  BY Zenon DEF Claimed
<1> QED
  BY <1>1, <1>2, Zenon DEF Ops

\* The rows that come and go.
LEMMA EmptyRows ==
    /\ NoRow \in ResourceRow /\ NoRow.state = "none" /\ NoRow.content = None
    /\ NoRow.told = None /\ NoRow.written = FALSE
    /\ PendingRow \in ResourceRow /\ PendingRow.state = "live"
    /\ PendingRow.written = FALSE /\ PendingRow.told = None
<1>1. /\ NoRow \in ResourceRow /\ NoRow.state = "none" /\ NoRow.content = None
      /\ NoRow.told = None /\ NoRow.written = FALSE
  BY DEF NoRow, ResourceRow, None
<1>2. PendingRow = [NoRow EXCEPT !.state = "live"]
  BY DEF PendingRow
<1> QED
  BY <1>1, <1>2, Zenon DEF ResourceRow

\* A row that is written keeps its place and what the mesh was told of it.
LEMMA WrittenRows ==
    ASSUME NEW k \in Kinds, res[k] \in ResourceRow, render \in Int,
           res'[k] = [res[k] EXCEPT !.content = render, !.written = TRUE]
    PROVE  /\ res'[k] \in ResourceRow /\ res'[k].state = res[k].state
           /\ res'[k].content = render /\ res'[k].written = TRUE
           /\ res'[k].told = res[k].told
BY Zenon DEF ResourceRow

\* A row that is not written stays as it is when it is marked unwritten.
LEMMA UnwrittenRows ==
    ASSUME NEW r \in ResourceRow, NEW b, r.written = FALSE
    PROVE  [r EXCEPT !.written = @ /\ b] = r
BY DEF ResourceRow

\* What an edit sends.
LEMMA EditSent ==
    ASSUME PhotoInv, pass.tx # 0, Op = "edit"
    PROVE  /\ DOMAIN pass.sent = Diverged /\ Diverged \subseteq Kinds
           /\ \A k \in Diverged : pass.sent[k] = res[k].content
<1>1. pass.sent = Bytes("edit")
  BY Zenon DEF PhotoInv, Local, Awaited
<1>2. Bytes("edit") = [k \in Diverged |-> res[k].content]
  BY Zenon DEF Bytes
<1>3. Diverged \subseteq Kinds
  BY Zenon DEF Diverged
<1> QED
  BY <1>1, <1>2, <1>3, Zenon

\* Eviction takes only bytes that have been told.
LEMMA Evicts ==
    ASSUME Spooled, spool' = spool \ Evictable, UNCHANGED <<photo, res>>
    PROVE  Spooled'
<1> SUFFICES ASSUME NEW k \in Kinds, res[k].state = "live", res[k].written,
                    <<k, res[k].content>> \notin spool'
             PROVE  photo.published /\ res[k].told = res[k].content
  BY Zenon DEF Spooled
<1>1. CASE <<k, res[k].content>> \notin spool
  BY <1>1, Zenon DEF Spooled
<1>2. CASE <<k, res[k].content>> \in Evictable
  BY <1>2, Zenon DEF Evictable
<1> QED
  BY <1>1, <1>2, Zenon

-----------------------------------------------------------------------------
(* Steps of a pass *)

\* A pass goes on, or ends, with no submission out.
LEMMA PassMoves ==
    ASSUME PhotoInv, Spooled', photo.kept,
           UNCHANGED <<render, photo, res, remote, undecided, doubt, overtaken>>,
           pass.tx = 0 \/ pass.answer = "refused",
           NEW at \in {"idle", "resolve", "run"}, NEW todo \in SUBSET pass.todo,
           at = "idle" => todo = {},
           pass' = PassAt(at, todo)
    PROVE  PhotoInv'
<1> USE DEF PhotoInv, Local
<1>1. pass'.todo = todo /\ pass'.tx = 0 /\ pass'.answer = "none" /\ pass'.at = at
  BY Zenon DEF PassAt
<1>2. PhotoTypes'
  BY <1>1, Zenon DEF PhotoTypes, PassAt
<1>3. RowsFit'
  BY <1>1, ZenonT(60) DEF RowsFit, Complete
<1>4. PassFits'
  BY <1>1, ZenonT(60) DEF PassFits
<1>5. /\ \A t \in undecided : t.id # 0
      /\ \A t \in undecided : t.id # pass.tx
  BY Zenon DEF PhotoTypes, Awaited
<1>6. Awaited' /\ Founded'
  BY <1>1, <1>5, Zenon DEF Awaited, Founded
<1>7. Stale' = Stale
  BY <1>1, <1>5, Zenon DEF Stale
<1>8. ~overtaken => Submissions'
  BY <1>1, <1>7, ZenonT(60) DEF Submissions, Current, Doubtful, Lapsed
<1>9. ~overtaken => Truth'
  BY <1>1, Zenon DEF Truth, TruthOfAdd, TruthOfTombstone, TruthOfBytes, Ok, PassFits
<1> QED
  BY <1>2, <1>3, <1>4, <1>6, <1>8, <1>9, ZenonT(60)

\* A pass starts with what the queues owe.
LEMMA Claims ==
    ASSUME PhotoInv, Claim
    PROVE  PhotoInv'
<1> USE DEF PhotoInv, Local
<1>1. /\ pass'.todo = Claimed /\ pass'.tx = 0 /\ pass'.answer = "none"
      /\ pass'.at = "resolve"
  BY DEF Claim, PassAt
<1>2. pass.tx = 0 /\ pass.answer = "none"
  BY Zenon DEF Claim, PassFits
<1>3. PhotoTypes'
  BY <1>1, ClaimedFacts, Zenon DEF PhotoTypes, PassAt, Claim
<1>4. RowsFit'
  BY <1>1, ClaimedFacts, Zenon DEF RowsFit, Complete, Claim
<1>5. Spooled'
  BY Zenon DEF Spooled, Claim
<1>6. PassFits'
  BY <1>1, ClaimedFacts, Zenon DEF PassFits, Claim
<1>7. Awaited' /\ Founded'
  BY <1>1, <1>2, Zenon DEF Awaited, Founded, PhotoTypes, Claim
<1>8. Stale' = Stale
  BY <1>1, <1>2, Zenon DEF Stale, Claim
<1>9. ~overtaken => Submissions'
  BY <1>1, <1>8, ClaimedFacts, ZenonT(60) DEF Submissions, Current, Doubtful, Lapsed, Claim
<1>10. ~overtaken => Truth'
  BY <1>1, <1>2, Zenon DEF Truth, TruthOfAdd, TruthOfTombstone, TruthOfBytes, Ok, Claim
<1>11. overtaken' = overtaken
  BY Zenon DEF Claim
<1> QED
  BY <1>3, <1>4, <1>5, <1>6, <1>7, <1>9, <1>10, <1>11, Zenon

\* The steps that end, or go on with, a pass without a submission out.
LEMMA PassGoesOn ==
    ASSUME PhotoInv,
           \/ Resolve /\ pass' = PassAt("run", pass.todo) /\ UNCHANGED <<photo, res, doubt>>
           \/ ResolveFails \/ SendFails \/ TakeRefusal \/ EndPass
           \/ Crash /\ pass.tx = 0
    PROVE  PhotoInv'
<1> USE DEF PhotoInv, Local
<1>0. photo.kept
  BY Zenon DEF Resolve, ResolveFails, SendFails, TakeRefusal, EndPass, Crash, Running,
               RowsFit
<1> DEFINE Moves(at, todo) ==
             /\ UNCHANGED <<render, photo, res, remote, undecided, doubt, overtaken>>
             /\ pass.tx = 0 \/ pass.answer = "refused"
             /\ pass' = PassAt(at, todo)
<1>1. CASE Resolve /\ pass' = PassAt("run", pass.todo) /\ UNCHANGED <<photo, res, doubt>>
  <2>1. Moves("run", pass.todo) /\ Spooled'
    BY <1>1, Zenon DEF Resolve, PassFits, Spooled
  <2> QED
    BY <1>0, <2>1, PassMoves, Zenon
<1>2. CASE ResolveFails
  <2>1. Moves("run", {}) /\ Spooled'
    BY <1>2, Zenon DEF ResolveFails, PassFits, Spooled, Parked
  <2> QED
    BY <1>0, <2>1, PassMoves, Zenon
<1>3. CASE SendFails \/ TakeRefusal
  <2>1. (Moves("run", {}) \/ Moves("run", pass.todo \ {Op})) /\ Spooled'
    BY <1>3, Zenon DEF SendFails, TakeRefusal, Spooled, Parked, Done
  <2> QED
    BY <1>0, <2>1, PassMoves, Zenon
<1>4. CASE EndPass
  <2>1. Moves("idle", {}) /\ Spooled'
    BY <1>4, Evicts, Zenon DEF EndPass, PassFits, Idle
  <2> QED
    BY <1>0, <2>1, PassMoves, Zenon
<1>5. CASE Crash /\ pass.tx = 0
  <2>1. Moves("idle", {}) /\ Spooled'
    BY <1>5, Zenon DEF Crash, Spooled, Idle, Failure
  <2> QED
    BY <1>0, <2>1, PassMoves, Zenon
<1> QED
  BY <1>1, <1>2, <1>3, <1>4, <1>5, Zenon
\* Passes and their submissions are as before where only the spool and the
\* attempts change.
LEMMA Stands ==
    ASSUME PhotoInv, Spooled',
           UNCHANGED <<render, photo, res, remote, undecided, pass, doubt, overtaken>>
    PROVE  PhotoInv'
<1> USE DEF PhotoInv, Local
<1>1. PhotoTypes'
  BY Zenon DEF PhotoTypes
<1>6. RowsFit'
  BY Zenon DEF RowsFit, Complete
<1>7. PassFits'
  BY Zenon DEF PassFits
<1>2. Op' = Op /\ Diverged' = Diverged /\ Stale' = Stale
  BY Zenon DEF Op, Diverged, Stale
<1>3. Awaited' /\ Founded'
  BY <1>2, Zenon DEF Awaited, Founded, Bytes
<1>4. Submissions => Submissions'
  BY <1>2, Zenon DEF Submissions, Current, Doubtful, Lapsed
<1>5. Truth => Truth'
  BY <1>2, Zenon DEF Truth, TruthOfAdd, TruthOfTombstone, TruthOfBytes, Ok
<1> QED
  BY <1>1, <1>3, <1>4, <1>5, <1>6, <1>7, Zenon

\* A deletion in Photos.
LEMMA Deletes ==
    ASSUME PhotoInv, Delete
    PROVE  PhotoInv'
<1> USE DEF PhotoInv, Local
<1>1. /\ photo' \in PhotoRow /\ photo'.kept = photo.kept /\ photo'.deleted = TRUE
      /\ photo'.materialized = photo.materialized
      /\ photo'.published = photo.published /\ photo'.tombstone = photo.tombstone
  BY Zenon DEF Delete, PhotoTypes, PhotoRow
<1>2. /\ UNCHANGED <<render, res, spool, remote, undecided, pass, doubt>>
      /\ overtaken' = (overtaken \/ Unsure) /\ photo.kept /\ ~photo.deleted
  BY Zenon DEF Delete, Noted
<1>3. PhotoTypes'
  BY <1>1, <1>2, Zenon DEF PhotoTypes
<1>4. RowsFit' /\ Spooled'
  BY <1>1, <1>2, Zenon DEF RowsFit, Spooled, Complete
<1>5. PassFits'
  BY <1>1, <1>2, Zenon DEF PassFits
<1>6. Op' = Op /\ Diverged' = Diverged /\ Stale' = Stale
  BY <1>2, Zenon DEF Op, Diverged, Stale
<1>7. Awaited' /\ Founded'
  BY <1>1, <1>2, <1>6, Zenon DEF Awaited, Founded, Bytes
<1>8. ASSUME ~overtaken'
      PROVE  Submissions' /\ Truth'
  <2>1. ~overtaken /\ doubt = {} /\ Stale = {}
    BY <1>2, <1>8, Zenon DEF Unsure, Stale
  <2>2. Submissions'
    BY <1>1, <1>2, <1>6, <2>1, Zenon DEF Submissions, Current, Doubtful, Lapsed
  <2>3. TruthOfAdd' /\ TruthOfBytes'
    BY <1>1, <1>2, <1>6, <2>1, Zenon DEF Truth, TruthOfAdd, TruthOfBytes, Ok
  <2>4. TruthOfTombstone'
    BY <1>1, <1>2, <1>6, <2>1, Zenon DEF Truth, TruthOfTombstone, Ok
  <2> QED
    BY <2>2, <2>3, <2>4, Zenon DEF Truth
<1> QED
  BY <1>3, <1>4, <1>5, <1>7, <1>8, Zenon

\* A submission: the pass waits for it.
LEMMA Sends ==
    ASSUME PhotoInv, Send
    PROVE  PhotoInv'
<1> USE DEF PhotoInv, Local
<1> PICK id \in 1..MaxOpen :
        /\ \A t \in undecided : t.id # id
        /\ undecided' = undecided \cup {[id |-> id, op |-> Op, bytes |-> Bytes(Op)]}
        /\ pass' = [pass EXCEPT !.tx = id, !.sent = Bytes(Op)]
  BY Zenon DEF Send
<1> DEFINE new == [id |-> id, op |-> Op, bytes |-> Bytes(Op)]
<1>1. id \in Nat /\ id # 0
  BY PhotoAssumption
<1>2. new.id = id /\ new.op = Op /\ new.bytes = Bytes(Op)
  OBVIOUS
<1>3. /\ pass' = [at |-> pass.at, todo |-> pass.todo, tx |-> id, sent |-> Bytes(Op),
                  answer |-> pass.answer]
      /\ pass'.at = pass.at /\ pass'.todo = pass.todo /\ pass'.tx = id
      /\ pass'.sent = Bytes(Op) /\ pass'.answer = pass.answer
  BY Zenon DEF PhotoTypes
<1>4. /\ UNCHANGED <<render, photo, res, spool, remote, doubt, overtaken>>
      /\ pass.at = "run" /\ pass.todo # {} /\ pass.tx = 0 /\ pass.answer = "none"
  BY Zenon DEF Send, Running, PassFits
<1>5. Op \in pass.todo /\ Op \in Ops /\ Op' = Op /\ Diverged' = Diverged
  BY <1>3, <1>4, TurnOf, Zenon DEF Op, Diverged
<1>6. Bytes(Op)' = Bytes(Op)
  BY <1>4, <1>5, Zenon DEF Bytes
<1> HIDE DEF new
<1>7. undecided' = undecided \cup {new}
  BY Zenon DEF new
<1>8. PhotoTypes'
  BY <1>1, <1>2, <1>3, <1>4, <1>5, <1>7, Zenon DEF PhotoTypes
<1>9. RowsFit' /\ Spooled' /\ PassFits'
  BY <1>3, <1>4, Zenon DEF RowsFit, Spooled, PassFits, Complete
<1>10. /\ Op = "publish" => DOMAIN Bytes(Op) = Kinds
       /\ Op = "edit" => DOMAIN Bytes(Op) \subseteq Kinds
       /\ \A k \in DOMAIN Bytes(Op) : Bytes(Op)[k] = res[k].content
  BY Zenon DEF Bytes, Diverged
<1>11. \A t \in undecided' : (t \in undecided /\ t.id # id) \/ t = new
  BY <1>7, Zenon
<1>12. Awaited'
  <2>1. \A t \in undecided' : t.id = id => t = new
    BY <1>11, Zenon
  <2>2. \A t, u \in undecided' : t.id = u.id => t = u
    <3> SUFFICES ASSUME NEW t \in undecided', NEW u \in undecided', t.id = u.id
                 PROVE  t = u
      BY Zenon
    <3>1. CASE t = new \/ u = new
      BY <1>2, <2>1, <3>1, Zenon
    <3>2. CASE t \in undecided /\ u \in undecided
      BY <3>2, Zenon DEF Awaited
    <3> QED
      BY <1>11, <3>1, <3>2, Zenon
  <2>3. \A t \in undecided' : t.id = id => t.op = Op /\ t.bytes = Bytes(Op)
    BY <1>2, <2>1, Zenon
  <2> QED
    BY <1>3, <1>4, <1>5, <1>6, <2>2, <2>3, Zenon DEF Awaited
<1>13. Founded'
  <2>1. Op \in {"edit", "restore"} => photo.published
    BY <1>5, Zenon DEF PassFits
  <2> QED
    BY <1>2, <1>4, <1>10, <1>11, <2>1, Zenon DEF Founded
<1>14. Stale' = Stale
  BY <1>1, <1>2, <1>3, <1>4, <1>7, Zenon DEF Stale, PhotoTypes
<1>15. ~overtaken => Submissions'
  <2>1. Op \in {"publish", "edit"} => photo.materialized
    BY <1>5, Zenon DEF PassFits
  <2>2. Current => Current'
    <3> SUFFICES ASSUME Current, NEW t \in undecided', t.op \in {"publish", "edit"}
                 PROVE  /\ photo.materialized
                        /\ \A k \in DOMAIN t.bytes : t.bytes[k] = res[k].content
      BY <1>4, Zenon DEF Current
    <3>1. CASE t \in undecided
      BY <3>1, Zenon DEF Current
    <3>2. CASE t = new
      BY <1>2, <1>10, <2>1, <3>2, Zenon
    <3> QED
      BY <1>11, <3>1, <3>2, Zenon
  <2>3. Doubtful => Doubtful'
    BY <1>3, <1>4, <1>14, Zenon DEF Doubtful
  <2>4. Lapsed => Lapsed'
    BY <1>4, <1>14, Zenon DEF Lapsed
  <2> QED
    BY <2>2, <2>3, <2>4, Zenon DEF Submissions
<1>16. ~overtaken => Truth'
  BY <1>3, <1>4, Zenon DEF Truth, TruthOfAdd, TruthOfTombstone, TruthOfBytes, Ok
<1> QED
  BY <1>4, <1>8, <1>9, <1>12, <1>13, <1>15, <1>16, Zenon
-----------------------------------------------------------------------------
(* Decisions and answers *)

\* A decision: what nobody waits for repeats what the mesh was told, or what is
\* in doubt; what the pass waits for is answered.
LEMMA Decides ==
    ASSUME PhotoInv, NEW t \in undecided, Decide(t) \/ Drop(t)
    PROVE  PhotoInv'
<1> USE DEF PhotoInv, Local
<1> DEFINE own == t.id = pass.tx
           took == Decide(t) /\ Accepts(t)
<1>1. /\ UNCHANGED <<render, photo, res, spool, doubt, overtaken>>
      /\ undecided' = undecided \ {t}
      /\ took => remote' = Executed(t)
      /\ ~took => remote' = remote
  BY Zenon DEF Decide, Drop, Answered
<1>2. pass' = IF own THEN [pass EXCEPT !.answer = IF took THEN "ok" ELSE "refused"]
              ELSE pass
  BY Zenon DEF Decide, Drop, Answered
<1>3. ASSUME took
      PROVE  /\ remote'.added = (remote.added \/ t.op = "publish")
             /\ remote'.deleted = (IF t.op = "delete" THEN remote.added
                                   ELSE IF t.op = "restore" THEN FALSE ELSE remote.deleted)
             /\ \A k \in Kinds : remote'.holds[k] =
                   IF t.op \in {"publish", "edit"} /\ k \in DOMAIN t.bytes
                   THEN t.bytes[k] ELSE remote.holds[k]
  <2> remote' = Executed(t)
    BY <1>1, <1>3, Zenon
  <2>1. remote'.added = (remote.added \/ t.op = "publish")
    BY Zenon DEF Executed
  <2>2. remote'.deleted = (IF t.op = "delete" THEN remote.added
                           ELSE IF t.op = "restore" THEN FALSE ELSE remote.deleted)
    BY Zenon DEF Executed
  <2>3. remote'.holds = [k \in Kinds |->
            IF t.op \in {"publish", "edit"} /\ k \in DOMAIN t.bytes
            THEN t.bytes[k] ELSE remote.holds[k]]
    BY Zenon DEF Executed
  <2> QED
    BY <2>1, <2>2, <2>3, Zenon
<1>4. /\ pass' = [at |-> pass.at, todo |-> pass.todo, tx |-> pass.tx, sent |-> pass.sent,
                  answer |-> pass'.answer]
      /\ pass'.at = pass.at /\ pass'.todo = pass.todo /\ pass'.tx = pass.tx
      /\ pass'.sent = pass.sent
      /\ own => pass'.answer = IF took THEN "ok" ELSE "refused"
      /\ ~own => pass'.answer = pass.answer
  BY <1>2, Zenon DEF PhotoTypes
<1>16. took => Accepts(t)
  BY Zenon
<1> HIDE DEF own, took
<1>5. Op' = Op /\ Diverged' = Diverged /\ t.op \in Ops /\ t.id \in Nat /\ t.id # 0
  BY <1>1, <1>4, Zenon DEF Op, Diverged, PhotoTypes
<1>6. own => pass.tx # 0 /\ pass.todo # {} /\ t.op = Op /\ t.bytes = pass.sent
                /\ pass.answer = "none" /\ Op \in pass.todo
  BY <1>5, TurnOf, Zenon DEF own, Awaited, PassFits
<1>7. remote.added => remote'.added
  BY <1>1, <1>3, Zenon DEF PhotoTypes
<1>8. PhotoTypes'
  <2>1. remote'.added \in BOOLEAN /\ remote'.deleted \in BOOLEAN
    BY <1>1, <1>3, Zenon DEF PhotoTypes
  <2> QED
    BY <1>1, <1>4, <2>1, Zenon DEF PhotoTypes
<1>9. RowsFit' /\ Spooled'
  <2>1. remote'.deleted => remote'.added
    BY <1>1, <1>3, Zenon DEF PhotoTypes, RowsFit
  <2> QED
    BY <1>1, <1>4, <1>7, <2>1, Zenon DEF RowsFit, Spooled, Complete
<1>10. PassFits'
  BY <1>1, <1>4, <1>6, Zenon DEF PassFits
<1>11. Awaited'
  <2>1. pass'.answer = "ok" /\ Op = "publish" => remote'.added
    BY <1>1, <1>3, <1>4, <1>6, <1>7, Zenon DEF Awaited
  <2> QED
    BY <1>1, <1>4, <1>5, <2>1, ZenonT(60) DEF Awaited, Bytes, own
<1>12. Founded'
  BY <1>1, Zenon DEF Founded
<1>13. Stale' = Stale \ {t} /\ (own <=> t \notin Stale)
  BY <1>1, <1>4, Zenon DEF Stale, own
<1>14. Submissions => Submissions'
  BY <1>1, <1>4, <1>13, Zenon DEF Submissions, Current, Doubtful, Lapsed
<1>15. ASSUME Submissions, Truth
       PROVE  Truth'
  <2> USE <1>15 DEF Submissions, Truth
  <2>1. \A op : Ok(op)' <=> IF own THEN took /\ Op = op ELSE Ok(op)
    BY <1>4, <1>5, Zenon DEF Ok
  <2>2. \A op : Ok(op) => ~own /\ op \in pass.todo /\ pass.tx # 0
    BY <1>6, TurnOf, Zenon DEF Ok, PassFits
  <2>3. CASE ~took
    BY <1>1, <1>4, <2>1, <2>2, <2>3, Zenon DEF TruthOfAdd, TruthOfTombstone, TruthOfBytes
  <2>4. CASE took /\ t.op = "publish"
    <3>1. ~remote.added /\ ~photo.published /\ ~remote.deleted
      BY <1>16, <2>4, Zenon DEF Accepts, RowsFit
    <3>2. /\ remote'.added /\ ~remote'.deleted
          /\ \A k \in Kinds : remote'.holds[k] = res[k].content
      BY <1>3, <2>4, <3>1, Zenon DEF Founded, Current
    <3>3. own \/ "publish" \in doubt
      BY <1>13, <2>4, <3>1, Zenon DEF Lapsed
    <3>4. ~Ok("edit") /\ ~Ok("delete")
      BY <2>2, <3>1, Zenon DEF PassFits
    <3> QED
      BY <1>1, <1>6, <2>1, <2>4, <3>1, <3>2, <3>3, <3>4, Zenon
         DEF TruthOfAdd, TruthOfTombstone, TruthOfBytes
  <2>5. CASE took /\ t.op = "edit"
    <3>1. /\ photo.published /\ remote'.added = remote.added
          /\ remote'.deleted = remote.deleted
      BY <1>3, <2>5, Zenon DEF Founded, PhotoTypes
    <3>2. TruthOfAdd'
      BY <1>1, <1>7, <3>1, Zenon DEF TruthOfAdd, RowsFit
    <3>3. TruthOfTombstone'
      <4>1. /\ Ok("restore")' <=> Ok("restore")
            /\ Ok("delete")' <=> Ok("delete")
        BY <1>6, <2>1, <2>2, <2>5, Zenon
      <4> QED
        BY <1>1, <3>1, <4>1, Zenon DEF TruthOfTombstone
    <3>4. /\ DOMAIN t.bytes \subseteq Kinds
          /\ \A k \in DOMAIN t.bytes :
                remote'.holds[k] = t.bytes[k] /\ t.bytes[k] = res[k].content
          /\ \A k \in Kinds \ DOMAIN t.bytes : remote'.holds[k] = remote.holds[k]
      BY <1>3, <2>5, Zenon DEF Founded, Current
    <3>5. CASE own
      <4>1. Ok("edit")' /\ ~Ok("edit") /\ pass'.sent = t.bytes
        BY <1>4, <1>6, <2>1, <2>2, <2>5, <3>5, Zenon
      <4>2. photo.kept => \A k \in Kinds \ DOMAIN t.bytes :
                \/ remote'.holds[k] = res[k].told
                \/ "edit" \in doubt /\ remote'.holds[k] = res[k].content
        BY <3>1, <3>4, <4>1, Zenon DEF TruthOfBytes
      <4> QED
        BY <1>1, <3>2, <3>3, <3>4, <4>1, <4>2, Zenon DEF TruthOfBytes
    <3>6. CASE ~own
      <4>1. Ok("edit") => \A k \in DOMAIN pass.sent :
                              k \in Kinds /\ pass.sent[k] = res[k].content
        BY <2>2, EditSent, Zenon DEF Ok
      <4>2. Ok("edit") => \A k \in DOMAIN pass.sent : remote'.holds[k] = pass.sent[k]
        BY <3>4, <4>1, Zenon DEF TruthOfBytes
      <4>3. \A k \in DOMAIN t.bytes : "edit" \in doubt \/ res[k].told = t.bytes[k]
        BY <1>13, <2>5, <3>6, Zenon DEF Lapsed
      <4>4. Ok("edit")' <=> Ok("edit")
        BY <2>1, <3>6, Zenon
      <4>5. photo.kept => \A k \in Kinds :
                \/ remote'.holds[k] = res[k].told
                \/ "edit" \in doubt /\ remote'.holds[k] = res[k].content
                \/ Ok("edit") /\ k \in DOMAIN pass.sent
        BY <3>1, <3>4, <4>3, Zenon DEF TruthOfBytes
      <4> QED
        BY <1>1, <1>4, <3>2, <3>3, <4>2, <4>4, <4>5, Zenon DEF TruthOfBytes
    <3> QED
      BY <3>2, <3>3, <3>5, <3>6, Zenon
  <2>6. CASE took /\ t.op = "restore"
    <3>1. /\ photo.published /\ remote'.added = remote.added /\ ~remote'.deleted
          /\ \A k \in Kinds : remote'.holds[k] = remote.holds[k]
      BY <1>3, <2>6, Zenon DEF Founded, PhotoTypes
    <3>2. TruthOfAdd'
      BY <1>1, <1>7, <3>1, Zenon DEF TruthOfAdd, RowsFit
    <3>3. TruthOfBytes'
      <4>1. Ok("edit")' <=> Ok("edit")
        BY <1>6, <2>1, <2>2, <2>6, Zenon
      <4>2. Ok("edit") => DOMAIN pass.sent \subseteq Kinds
        BY <2>2, EditSent, Zenon DEF Ok
      <4> QED
        BY <1>1, <1>4, <3>1, <4>1, <4>2, Zenon DEF TruthOfBytes
    <3>4. TruthOfTombstone'
      <4>1. CASE own
        BY <1>1, <1>6, <2>1, <2>6, <3>1, <4>1, Zenon DEF TruthOfTombstone
      <4>2. CASE ~own
        <5>1. ~photo.deleted /\ ("tombstone" \in doubt \/ ~photo.tombstone)
          BY <1>13, <2>6, <4>2, Zenon DEF Lapsed
        <5>2. ~Ok("delete")
          BY <2>2, <5>1, Zenon DEF PassFits
        <5> QED
          BY <1>1, <2>1, <3>1, <4>2, <5>1, <5>2, Zenon DEF TruthOfTombstone
      <4> QED
        BY <4>1, <4>2, Zenon
    <3> QED
      BY <3>2, <3>3, <3>4, Zenon
  <2>7. CASE took /\ t.op = "delete"
    <3>1. /\ remote'.added = remote.added /\ remote'.deleted = remote.added
          /\ \A k \in Kinds : remote'.holds[k] = remote.holds[k]
      BY <1>3, <2>7, Zenon DEF PhotoTypes
    <3>2. TruthOfBytes'
      <4>1. Ok("edit")' <=> Ok("edit")
        BY <1>6, <2>1, <2>2, <2>7, Zenon
      <4>2. Ok("edit") => DOMAIN pass.sent \subseteq Kinds
        BY <2>2, EditSent, Zenon DEF Ok
      <4> QED
        BY <1>1, <1>4, <3>1, <4>1, <4>2, Zenon DEF TruthOfBytes
    <3>3. CASE own
      <4>1. photo.published
        BY <1>6, <2>7, <3>3, Zenon DEF PassFits
      <4> QED
        BY <1>1, <1>6, <2>1, <2>7, <3>1, <3>2, <3>3, <4>1, Zenon
           DEF TruthOfAdd, TruthOfTombstone, RowsFit
    <3>4. CASE ~own
      <4>1. photo.deleted /\ ("tombstone" \in doubt \/ photo.tombstone) /\ Stale # {}
        BY <1>13, <2>7, <3>4, Zenon DEF Lapsed
      <4>2. "publish" \notin doubt /\ ~Ok("publish") /\ ~Ok("restore")
        <5>1. "publish" \notin doubt
          BY <4>1, Zenon DEF Doubtful
        <5>2. pass.todo \ {"delete"} = {}
          BY <4>1, Zenon DEF Doubtful
        <5>3. "publish" \notin pass.todo /\ "restore" \notin pass.todo
          BY <5>2, SMTT(30)
        <5> QED
          BY <2>2, <5>1, <5>3, Zenon
      <4>3. TruthOfAdd'
        BY <1>1, <2>1, <3>1, <3>4, <4>2, Zenon DEF TruthOfAdd
      <4>4. TruthOfTombstone'
        BY <1>1, <2>1, <3>1, <3>4, <4>1, <4>2, Zenon DEF TruthOfTombstone, RowsFit
      <4> QED
        BY <3>2, <4>3, <4>4, Zenon
    <3> QED
      BY <3>3, <3>4, Zenon
  <2> QED
    BY <1>5, <2>3, <2>4, <2>5, <2>6, <2>7, Zenon DEF Ops
<1> QED
  BY <1>1, <1>8, <1>9, <1>10, <1>11, <1>12, <1>14, <1>15, Zenon
\* What an answered photo_add leaves, or one found by a probe or a resolve: the
\* rows say what the mesh has.
LEMMA Publishes ==
    ASSUME PhotoInv, Published, remote.added, "publish" \in pass.todo,
           UNCHANGED <<render, spool, remote, undecided, overtaken>>,
           pass.tx = 0 \/ pass.answer = "ok",
           pass' = PassAt("run", {})
    PROVE  PhotoInv'
<1> USE DEF PhotoInv, Local
<1>1. /\ photo' \in PhotoRow /\ photo'.kept = photo.kept /\ photo'.deleted = photo.deleted
      /\ photo'.materialized = photo.materialized
      /\ photo'.published = TRUE /\ photo'.tombstone = photo.tombstone
  BY Zenon DEF Published, PhotoTypes, PhotoRow
<1>2. /\ ~photo.published /\ photo.materialized /\ photo.kept
      /\ pass.at # "idle" /\ ~photo.tombstone
  BY Zenon DEF PassFits, RowsFit
<1>3. \A k \in Kinds :
        /\ res[k] \in ResourceRow /\ res[k].told = None /\ res[k].state # "marker"
        /\ res[k].state = "none" => res[k] = NoRow
        /\ res[k].state # "none" => res[k].state = "live" /\ res[k].written
  BY <1>2, Zenon DEF PhotoTypes, RowsFit, Complete, ResourceRow
<1>4. \A k \in Kinds : res'[k] = IF res[k].state = "live" /\ res[k].written
                                 THEN [res[k] EXCEPT !.told = res[k].content] ELSE res[k]
  BY <1>2, Zenon DEF Published
<1>5. \A k \in Kinds :
        /\ res'[k] \in ResourceRow /\ res'[k].state = res[k].state
        /\ res'[k].content = res[k].content /\ res'[k].written = res[k].written
        /\ res'[k].told = res[k].content
        /\ res'[k].state = "none" => res'[k] = NoRow
  <2> SUFFICES ASSUME NEW k \in Kinds
               PROVE  /\ res'[k] \in ResourceRow /\ res'[k].state = res[k].state
                      /\ res'[k].content = res[k].content
                      /\ res'[k].written = res[k].written
                      /\ res'[k].told = res[k].content
                      /\ res'[k].state = "none" => res'[k] = NoRow
    BY Zenon
  <2>1. CASE res[k].state = "none"
    <3>1. res'[k] = res[k] /\ res[k] = NoRow
      BY <1>3, <1>4, <2>1, Zenon
    <3>2. NoRow.content = None
      BY Zenon DEF NoRow
    <3> QED
      BY <1>3, <3>1, <3>2, Zenon
  <2>2. CASE res[k].state # "none"
    BY <1>3, <1>4, <2>2, ZenonT(60) DEF ResourceRow
  <2> QED
    BY <2>1, <2>2, Zenon
<1>6. /\ pass'.todo = {} /\ pass'.tx = 0 /\ pass'.answer = "none" /\ pass'.at = "run"
      /\ doubt' = doubt \ {"publish"}
  BY Zenon DEF PassAt, Published
<1>7. PhotoTypes'
  <2>1. res' \in [Kinds -> ResourceRow]
    BY <1>5, Zenon DEF Published
  <2> QED
    BY <1>1, <1>6, <2>1, Zenon DEF PhotoTypes, PassAt
<1>8. RowsFit'
  BY <1>1, <1>2, <1>3, <1>5, <1>6, ZenonT(60) DEF RowsFit, Complete
<1>9. Spooled'
  BY <1>1, <1>5, Zenon DEF Spooled
<1>10. PassFits'
  BY <1>6, Zenon DEF PassFits
<1>11. /\ \A t \in undecided : t.id # 0 /\ t.id # pass.tx
       /\ Stale' = Stale
  BY <1>6, Zenon DEF PhotoTypes, Awaited, Stale
<1>12. Awaited'
  BY <1>6, <1>11, Zenon DEF Awaited
<1>13. Founded'
  BY <1>1, <1>2, <1>6, Zenon DEF Founded
<1>14. ASSUME ~overtaken
       PROVE  Submissions' /\ Truth'
  <2>1. /\ ~remote.deleted
        /\ \A k \in Kinds : remote.holds[k] = res[k].content
    BY <1>2, <1>14, Zenon DEF Truth, TruthOfAdd
  <2>2. \A t \in undecided : t.op \notin {"edit", "restore"}
    BY <1>2, Zenon DEF Founded
  <2>3. \A t \in Stale : t.op # "delete"
    BY <1>14 DEF Submissions, Doubtful, Lapsed
  <2>4. Current'
    <3>1. \A t \in undecided : t.op = "publish" => DOMAIN t.bytes = Kinds
      BY Zenon DEF Founded
    <3> QED
      BY <1>1, <1>5, <1>14, <2>2, <3>1, ZenonT(60) DEF Submissions, Current
  <2>5. Doubtful' /\ Lapsed'
    BY <1>1, <1>2, <1>6, <1>11, <1>14, <2>2, <2>3, Zenon
       DEF Submissions, Doubtful, Lapsed, Stale
  <2>6. Truth'
    BY <1>1, <1>2, <1>5, <1>6, <2>1, ZenonT(60)
       DEF Truth, TruthOfAdd, TruthOfTombstone, TruthOfBytes, Ok
  <2> QED
    BY <2>4, <2>5, <2>6, Zenon DEF Submissions
<1> QED
  BY <1>7, <1>8, <1>9, <1>10, <1>12, <1>13, <1>14, Zenon

\* An answered restore or delete.
LEMMA Tombstones ==
    ASSUME PhotoInv, TakeOk, Op \in {"restore", "delete"}
    PROVE  PhotoInv'
<1> USE DEF PhotoInv, Local
<1>1. /\ Running /\ pass.answer = "ok" /\ Told(Op = "delete")
      /\ doubt' = doubt \ {"tombstone"} /\ pass' = PassAt("run", pass.todo \ {Op})
      /\ UNCHANGED <<render, spool, remote, undecided, overtaken>>
  BY Zenon DEF TakeOk, Done
<1>2. /\ photo' \in PhotoRow /\ photo'.kept = photo.kept /\ photo'.deleted = photo.deleted
      /\ photo'.materialized = photo.materialized /\ photo'.published = photo.published
      /\ photo'.tombstone = (Op = "delete") /\ res' = res
  BY <1>1, Zenon DEF Told, PhotoTypes, PhotoRow
<1>3. Op \in pass.todo /\ photo.published /\ photo.kept /\ pass.tx # 0
  BY <1>1, TurnOf, Zenon DEF Running, PassFits, RowsFit
<1>4. /\ pass'.todo = pass.todo \ {Op} /\ pass'.tx = 0 /\ pass'.answer = "none"
      /\ pass'.at = "run"
  BY <1>1, Zenon DEF PassAt
<1>5. PhotoTypes'
  BY <1>1, <1>2, <1>4, Zenon DEF PhotoTypes, PassAt
<1>6. RowsFit' /\ Spooled'
  BY <1>1, <1>2, <1>3, Zenon DEF RowsFit, Spooled, Complete
<1>7. PassFits'
  BY <1>2, <1>3, <1>4 DEF PassFits
<1>8. /\ \A t \in undecided : t.id # 0 /\ t.id # pass.tx
      /\ Stale' = Stale
  BY <1>1, <1>4, Zenon DEF PhotoTypes, Awaited, Stale
<1>9. Awaited' /\ Founded'
  BY <1>1, <1>2, <1>4, <1>8, Zenon DEF Awaited, Founded
<1>10. ASSUME ~overtaken
       PROVE  Submissions' /\ Truth'
  <2>1. Current' /\ Doubtful'
    BY <1>1, <1>2, <1>4, <1>8, <1>10, Zenon DEF Submissions, Current, Doubtful
  <2>2. \A t \in Stale : t.op = "delete" <=> Op = "delete"
    <3>1. CASE Op = "delete"
      BY <1>3, <1>10, <3>1, Zenon DEF Submissions, Lapsed, PassFits
    <3>2. CASE Op # "delete"
      BY <1>3, <1>10, <3>2 DEF Submissions, Lapsed, Doubtful
    <3> QED
      BY <3>1, <3>2, Zenon
  <2>3. Lapsed'
    BY <1>1, <1>2, <1>8, <1>10, <2>2, Zenon DEF Submissions, Lapsed
  <2>4. TruthOfTombstone'
    BY <1>1, <1>2, <1>4, <1>10, Zenon DEF Truth, TruthOfTombstone, Ok, PhotoTypes
  <2>5. TruthOfAdd' /\ TruthOfBytes'
    BY <1>1, <1>2, <1>3, <1>4, <1>10, Zenon DEF Truth, TruthOfAdd, TruthOfBytes, Ok
  <2> QED
    BY <2>1, <2>3, <2>4, <2>5, Zenon DEF Submissions, Truth
<1> QED
  BY <1>1, <1>5, <1>6, <1>7, <1>9, <1>10, Zenon
\* An answered edit: what was sent is told, and what was not sent had been told.
LEMMA Edits ==
    ASSUME PhotoInv, TakeOk, Op = "edit"
    PROVE  PhotoInv'
<1> USE DEF PhotoInv, Local
<1>1. /\ Running /\ pass.answer = "ok" /\ EditTold
      /\ doubt' = doubt \ {"edit"} /\ pass' = PassAt("run", pass.todo \ {Op})
      /\ UNCHANGED <<render, photo, spool, remote, undecided, overtaken>>
  BY Zenon DEF TakeOk, Done, EditTold
<1>2. /\ "edit" \in pass.todo /\ photo.published /\ photo.kept /\ pass.tx # 0
      /\ photo.materialized
  BY <1>1, TurnOf, Zenon DEF Running, PassFits, RowsFit
<1>3. /\ pass'.todo = pass.todo \ {"edit"} /\ pass'.tx = 0 /\ pass'.answer = "none"
      /\ pass'.at = "run"
  BY <1>1, Zenon DEF PassAt
<1>4. /\ DOMAIN pass.sent = Diverged
      /\ \A k \in Diverged : pass.sent[k] = res[k].content
  BY <1>2, EditSent, Zenon
<1>5. \A k \in Kinds :
        /\ k \in Diverged /\ res[k].state = "marker" => res'[k] = NoRow
        /\ k \in Diverged /\ res[k].state # "marker" =>
                res'[k] = [res[k] EXCEPT !.told = res[k].content]
        /\ k \notin Diverged => res'[k] = res[k]
  BY <1>1, <1>4, Zenon DEF EditTold
<1>6. /\ NoRow \in ResourceRow /\ NoRow.content = None /\ NoRow.told = None
      /\ NoRow.state = "none"
  BY EmptyRows, Zenon
<1>7. \A k \in Kinds :
        /\ res[k] \in ResourceRow
        /\ res[k].state = "none" => res[k] = NoRow
        /\ res[k].state = "marker" => res[k].content = None
        /\ res[k].state # "none" => res[k].written
  BY <1>2, Zenon DEF PhotoTypes, RowsFit, Complete
<1>8. \A k \in Kinds :
        /\ res'[k] \in ResourceRow /\ res'[k].content = res[k].content
        /\ res'[k].told = res[k].content
        /\ res'[k].state = "none" => res'[k] = NoRow
        /\ res'[k].state \in {"none", "live"}
        /\ res'[k].state = "live" => res[k].state = "live" /\ res'[k].written
  <2> SUFFICES ASSUME NEW k \in Kinds
               PROVE  /\ res'[k] \in ResourceRow /\ res'[k].content = res[k].content
                      /\ res'[k].told = res[k].content
                      /\ res'[k].state = "none" => res'[k] = NoRow
                      /\ res'[k].state \in {"none", "live"}
                      /\ res'[k].state = "live" => res[k].state = "live" /\ res'[k].written
    BY Zenon
  <2>1. CASE k \in Diverged /\ res[k].state = "marker"
    <3>1. res'[k] = NoRow /\ res[k].content = None
      BY <1>5, <1>7, <2>1, Zenon
    <3> QED
      BY <1>6, <3>1, Zenon
  <2>2. CASE k \in Diverged /\ res[k].state # "marker"
    <3>1. res[k].state = "live" /\ res[k].written
      BY <2>2, Zenon DEF Diverged
    <3>2. res'[k] = [res[k] EXCEPT !.told = res[k].content]
      BY <1>5, <2>2, Zenon
    <3>3. /\ res'[k] \in ResourceRow /\ res'[k].content = res[k].content
          /\ res'[k].told = res[k].content /\ res'[k].state = res[k].state
          /\ res'[k].written = res[k].written
      <4> res[k] \in ResourceRow
        BY <1>7, Zenon
      <4> QED
        BY <3>2, Zenon DEF ResourceRow
    <3> QED
      BY <3>1, <3>3, Zenon
  <2>3. CASE k \notin Diverged
    <3>1. res'[k] = res[k] /\ res[k].state # "marker"
      BY <1>5, <2>3, Zenon DEF Diverged
    <3>2. res[k].state \in {"none", "live"}
      BY <1>7, <3>1, Zenon DEF ResourceRow
    <3>3. res[k].told = res[k].content
      BY <1>6, <1>7, <2>3, <3>2, Zenon DEF Diverged
    <3> QED
      BY <1>7, <3>1, <3>2, <3>3, Zenon
  <2> QED
    BY <2>1, <2>2, <2>3, Zenon
<1>9. PhotoTypes'
  <2>1. res' \in [Kinds -> ResourceRow]
    BY <1>1, <1>8, Zenon DEF EditTold
  <2> QED
    BY <1>1, <1>3, <2>1, Zenon DEF PhotoTypes, PassAt
<1>10. RowsFit'
  BY <1>1, <1>2, <1>8, Zenon DEF RowsFit, Complete
<1>11. Spooled'
  BY <1>1, <1>2, <1>8, Zenon DEF Spooled
<1>12. PassFits'
  BY <1>1, <1>2, <1>3 DEF PassFits
<1>13. /\ \A t \in undecided : t.id # 0 /\ t.id # pass.tx
       /\ Stale' = Stale
  BY <1>1, <1>3, Zenon DEF PhotoTypes, Awaited, Stale
<1>14. Awaited' /\ Founded'
  BY <1>1, <1>3, <1>13, Zenon DEF Awaited, Founded
<1>15. ASSUME ~overtaken
       PROVE  Submissions' /\ Truth'
  <2>1. \A t \in undecided : t.op \in {"publish", "edit"} =>
            \A k \in DOMAIN t.bytes : k \in Kinds /\ t.bytes[k] = res[k].content
    BY <1>15, Zenon DEF Submissions, Current, Founded
  <2>2. Current'
    BY <1>1, <1>2, <1>8, <2>1, Zenon DEF Current
  <2>3. Doubtful'
    BY <1>1, <1>3, <1>13, <1>15, Zenon DEF Submissions, Doubtful
  <2>4. Lapsed'
    <3>1. \A t \in Stale : t.op = "edit" =>
            \A k \in DOMAIN t.bytes : res'[k].told = t.bytes[k]
      BY <1>8, <2>1, Zenon DEF Stale
    <3> QED
      BY <1>1, <1>13, <1>15, <3>1, Zenon DEF Submissions, Lapsed
  <2>5. \A k \in Kinds : remote.holds[k] = res'[k].told
    <3> SUFFICES ASSUME NEW k \in Kinds
                 PROVE  remote.holds[k] = res[k].content
      BY <1>8, Zenon
    <3>1. CASE k \in Diverged
      BY <1>1, <1>4, <1>15, <3>1, Zenon DEF Truth, TruthOfBytes, Ok
    <3>2. CASE k \notin Diverged
      <4>1. res[k].told = res[k].content
        BY <1>5, <1>8, <3>2, Zenon
      <4> QED
        BY <1>2, <1>4, <1>15, <3>2, <4>1, Zenon DEF Truth, TruthOfBytes
    <3> QED
      BY <3>1, <3>2, Zenon
  <2>6. Truth'
    BY <1>1, <1>2, <1>3, <1>15, <2>5, Zenon
       DEF Truth, TruthOfAdd, TruthOfTombstone, TruthOfBytes, Ok
  <2> QED
    BY <2>2, <2>3, <2>4, <2>6, Zenon DEF Submissions
<1> QED
  BY <1>1, <1>9, <1>10, <1>11, <1>12, <1>14, <1>15, Zenon

\* An answer that is lost: what it would have said is in doubt.
LEMMA Loses ==
    ASSUME PhotoInv, LoseAnswer \/ Crash, pass.tx # 0
    PROVE  PhotoInv'
<1> USE DEF PhotoInv, Local
<1>1. /\ Unanswered /\ UNCHANGED <<render, photo, res, spool, remote, undecided>>
      /\ pass.at # "idle"
      /\ pass' \in {PassAt("run", {}), PassAt("run", pass.todo \ {Op}), PassAt("idle", {})}
  BY Zenon DEF LoseAnswer, Crash, Parked, Done, Idle, Running
<1> PICK at \in {"run", "idle"}, todo \in SUBSET (pass.todo \ {Op}) :
        pass' = PassAt(at, todo) /\ (at = "idle" => todo = {})
  BY <1>1, Zenon
<1>2. pass'.at = at /\ pass'.todo = todo /\ pass'.tx = 0 /\ pass'.answer = "none"
  BY Zenon DEF PassAt
<1>3. /\ Op \in pass.todo /\ Op \in Ops /\ photo.kept
      /\ doubt' = doubt \cup {LedgerOf(Op)}
      /\ overtaken' = (overtaken \/ (photo.deleted /\ Op # "delete"))
  BY <1>1, TurnOf, Zenon DEF Unanswered, PassFits, RowsFit
<1>4. LedgerOf(Op) \in Ledgers
  BY <1>3, Zenon DEF LedgerOf, Ops, Ledgers
<1>5. PhotoTypes'
  <2>1. doubt' \subseteq Ledgers /\ overtaken' \in BOOLEAN
    BY <1>3, <1>4, Zenon DEF PhotoTypes
  <2>2. pass' = [at |-> pass'.at, todo |-> pass'.todo, tx |-> pass'.tx, sent |-> pass'.sent,
                 answer |-> pass'.answer]
    BY Zenon DEF PassAt
  <2>3. /\ pass'.at \in {"idle", "resolve", "run"} /\ pass'.todo \subseteq Ops
        /\ pass'.tx \in Nat
    BY <1>2 DEF PhotoTypes
  <2> QED
    BY <1>1, <2>1, <2>2, <2>3, Zenon DEF PhotoTypes
<1>6. RowsFit' /\ Spooled'
  BY <1>1, <1>3, Zenon DEF RowsFit, Spooled, Complete
<1>7. PassFits'
  BY <1>1, <1>2 DEF PassFits
<1>8. \A t \in undecided : t.id # 0
  BY Zenon DEF PhotoTypes
<1>9. Awaited'
  BY <1>1, <1>2, <1>8, Zenon DEF Awaited
<1>10. /\ Op = "publish" <=> ~photo.published
       /\ Op \in {"publish", "edit"} => photo.materialized
       /\ Op = "delete" => photo.deleted
  BY <1>3 DEF PassFits, Ops
<1>11. Founded'
  BY <1>1, <1>3, <1>10, Zenon DEF Founded, LedgerOf
<1>12. ASSUME ~overtaken'
       PROVE  Submissions' /\ Truth'
  <2>1. ~overtaken /\ (photo.deleted => Op = "delete")
    BY <1>3, <1>12, Zenon
  <2> USE <2>1 DEF Submissions, Truth
  <2>2. Current'
    BY <1>1, Zenon DEF Current
  <2>3. Doubtful'
    BY <1>1, <1>2, <1>3, <1>10, SMTT(30) DEF Doubtful, LedgerOf, PassFits
  <2>4. \A t \in Stale' : t \in Stale \/ (t.op = Op /\ t \in undecided)
    BY <1>1, Zenon DEF Stale, Awaited
  <2>5. Lapsed'
    <3> SUFFICES ASSUME NEW t \in Stale'
                 PROVE  /\ t.op = "delete" <=> photo.deleted
                        /\ t.op = "publish" /\ ~photo.published => "publish" \in doubt'
                        /\ t.op = "edit" /\ "edit" \notin doubt' =>
                            \A k \in DOMAIN t.bytes : res[k].told = t.bytes[k]
                        /\ t.op \in {"restore", "delete"} /\ "tombstone" \notin doubt' =>
                            (photo.tombstone <=> t.op = "delete")
      BY <1>1, Zenon DEF Lapsed
    <3>1. CASE t \in Stale
      BY <1>3, <3>1, Zenon DEF Lapsed
    <3>2. CASE t.op = Op
      BY <1>3, <1>10, <2>1, <3>2, Zenon DEF LedgerOf
    <3> QED
      BY <2>4, <3>1, <3>2, Zenon
  <2>6. ~Ok("publish")' /\ ~Ok("restore")' /\ ~Ok("delete")' /\ ~Ok("edit")'
    BY <1>2, Zenon DEF Ok
  <2>7. TruthOfAdd'
    BY <1>1, <1>3, <2>6, Zenon DEF TruthOfAdd, Ok, LedgerOf
  <2>8. TruthOfTombstone'
    BY <1>1, <1>3, <1>10, <2>1, <2>6, Zenon DEF TruthOfTombstone, Ok, LedgerOf, PhotoTypes
  <2>9. TruthOfBytes'
    <3>1. Ok("edit") => \A k \in DOMAIN pass.sent :
                            remote.holds[k] = res[k].content
      BY EditSent, Zenon DEF TruthOfBytes, Ok
    <3> QED
      BY <1>1, <1>3, <2>6, <3>1, Zenon DEF TruthOfBytes, Ok, LedgerOf
  <2> QED
    BY <2>2, <2>3, <2>5, <2>7, <2>8, <2>9, Zenon
<1> QED
  BY <1>5, <1>6, <1>7, <1>9, <1>11, <1>12, Zenon
-----------------------------------------------------------------------------
(* The rows change *)

\* With no pass running and nothing submitted or in doubt, the mesh has just
\* what it was told; the rows may say anything else.
LEMMA Revised ==
    ASSUME PhotoInv, PhotoTypes', RowsFit', Spooled', pass.at = "idle", photo.kept,
           UNCHANGED <<remote, undecided, pass, doubt>>,
           overtaken' = (overtaken \/ Unsure),
           photo'.kept = photo.kept, photo'.published = photo.published,
           photo'.tombstone = photo.tombstone,
           \A k \in Kinds : res'[k].told = res[k].told
    PROVE  PhotoInv'
<1> USE DEF PhotoInv, Local
<1>1. pass.todo = {} /\ pass.tx = 0 /\ pass.answer = "none"
  BY Zenon DEF PassFits
<1>2. PassFits'
  BY <1>1, Zenon DEF PassFits
<1>3. Op' = Op /\ \A t \in undecided : t.id # 0
  BY Zenon DEF Op, PhotoTypes
<1>4. Awaited' /\ Founded'
  BY <1>1, <1>3, Zenon DEF Awaited, Founded
<1>5. ASSUME ~overtaken'
      PROVE  Submissions' /\ Truth'
  <2>1. ~overtaken /\ doubt = {} /\ undecided = {}
    BY <1>1, <1>3, <1>5, Zenon DEF Unsure
  <2>2. Submissions'
    BY <1>1, <2>1, Zenon DEF Submissions, Current, Doubtful, Lapsed, Stale
  <2>3. Truth'
    BY <1>1, <2>1, Zenon DEF Truth, TruthOfAdd, TruthOfTombstone, TruthOfBytes, Ok
  <2> QED
    BY <2>2, <2>3, Zenon
<1> QED
  BY <1>2, <1>4, <1>5, Zenon

\* A revision of the rows for a new render.
LEMMA Revises ==
    ASSUME PhotoInv, Applying, render' \in Nat,
           \/ \E v \in Nat, resized \in BOOLEAN :
                ~(v > 0 /\ res["edited"].state = "marker") /\ Revise(v, resized)
           \/ photo' = [photo EXCEPT !.deleted = FALSE] /\ UNCHANGED <<res, spool>>
    PROVE  PhotoInv'
<1> USE DEF PhotoInv, Local
<1>1. /\ pass.at = "idle" /\ photo.kept /\ overtaken' = (overtaken \/ Unsure)
      /\ UNCHANGED <<remote, undecided, pass, doubt>>
  BY Zenon DEF Applying, Noted
<1>2. CASE photo' = [photo EXCEPT !.deleted = FALSE] /\ UNCHANGED <<res, spool>>
  <2>1. /\ photo' \in PhotoRow /\ photo'.kept = photo.kept /\ photo'.deleted = FALSE
        /\ photo'.materialized = photo.materialized
        /\ photo'.published = photo.published /\ photo'.tombstone = photo.tombstone
    BY <1>2, Zenon DEF PhotoTypes, PhotoRow
  <2>2. PhotoTypes'
    BY <1>1, <1>2, <2>1, Zenon DEF PhotoTypes
  <2>3. RowsFit' /\ Spooled'
    BY <1>1, <1>2, <2>1, Zenon DEF RowsFit, Spooled, Complete
  <2> QED
    BY <1>1, <1>2, <2>1, <2>2, <2>3, Revised, Zenon
<1>3. ASSUME NEW v \in Nat, NEW resized \in BOOLEAN, v > 0 => res["edited"].state # "marker",
             Revise(v, resized)
      PROVE  PhotoInv'
  <2> DEFINE e == res["edited"]
             add == v > 0 /\ e.state = "none"
             reopen == resized /\ v > 0 /\ e.state = "live" /\ e.written /\ e.content # v
             remove == v = 0 /\ e.state = "live"
             thumb == (add \/ reopen \/ remove) /\ res["thumb"].written
             e2 == IF add THEN PendingRow
                   ELSE IF reopen THEN [e EXCEPT !.written = FALSE]
                   ELSE IF remove THEN Retired(e) ELSE e
             t1 == res["thumb"]
             t2 == [t1 EXCEPT !.written = @ /\ ~thumb]
  <2>1. /\ res' = [res EXCEPT !["edited"] = e2, !["thumb"].written = @ /\ ~thumb]
        /\ spool' = IF remove THEN spool \ {<<"edited", e.content>>} ELSE spool
        /\ photo' = [photo EXCEPT !.deleted = FALSE,
              !.materialized = IF add \/ reopen \/ thumb THEN FALSE
                               ELSE @ \/ (remove /\ Complete(res'))]
    BY <1>3, Zenon DEF Revise
  <2>2. res'["edited"] = e2 /\ res'["thumb"] = t2 /\ DOMAIN res' = Kinds
    BY <2>1, Zenon DEF PhotoTypes, Kinds
  <2> HIDE DEF e2, t2, thumb, remove, reopen, add
  <2>3. e \in ResourceRow /\ t1 \in ResourceRow
    BY Zenon DEF PhotoTypes, Kinds
  <2>4. /\ e.state = "none" => e = NoRow
        /\ e.state = "marker" => e.content = None
        /\ ~photo.published => e.told = None /\ e.state # "marker"
        /\ photo.materialized /\ e.state # "none" => e.written
        /\ t1.state = "none" => t1 = NoRow
        /\ t1.state = "marker" => t1.content = None
        /\ ~photo.published => t1.told = None /\ t1.state # "marker"
        /\ photo.materialized /\ t1.state # "none" => t1.written
    BY Zenon DEF RowsFit, Kinds, Complete
  <2>5. /\ t2 \in ResourceRow /\ t2.state = t1.state /\ t2.content = t1.content
        /\ t2.told = t1.told /\ t2.written = (t1.written /\ ~thumb)
    BY <2>3, Zenon DEF t2, ResourceRow
  <2>6. t2.state = "none" => t2 = NoRow
    <3> SUFFICES ASSUME t1 = NoRow
                 PROVE  t2 = NoRow
      BY <2>4, <2>5, Zenon
    <3>1. t1.written = FALSE
      BY EmptyRows, Zenon
    <3> QED
      BY <2>3, <3>1, UnwrittenRows, Zenon DEF t2
  <2>7. /\ e2 \in ResourceRow /\ e2.told = e.told
        /\ e2.state = "none" => e2 = NoRow
        /\ e2.state = "marker" => e2.content = None
        /\ ~photo.published => e2.state # "marker"
        /\ e2.state = "live" /\ e2.written => e2 = e /\ ~remove
        /\ photo.materialized /\ ~add /\ ~reopen /\ e2.state # "none" => e2.written
    <3>1. CASE add
      <4>1. e2 = PendingRow /\ e = NoRow
        BY <2>4, <3>1, Zenon DEF e2, add
      <4> QED
        BY <3>1, <4>1, EmptyRows, Zenon
    <3>2. CASE ~add /\ reopen
      <4>1. e2 = [e EXCEPT !.written = FALSE] /\ e.state = "live"
        BY <3>2, Zenon DEF e2, reopen
      <4>2. /\ e2 \in ResourceRow /\ e2.state = e.state /\ e2.told = e.told
            /\ e2.written = FALSE
        BY <2>3, <4>1, Zenon DEF ResourceRow
      <4> QED
        BY <3>2, <4>1, <4>2, Zenon
    <3>3. CASE ~add /\ ~reopen /\ remove
      <4>1. e2 = Retired(e) /\ e.state = "live"
        BY <3>3, Zenon DEF e2, remove
      <4>2. CASE e.told = None
        <5>1. e2 = NoRow
          BY <4>1, <4>2, Zenon DEF Retired
        <5> QED
          BY <4>2, <5>1, EmptyRows, Zenon
      <4>3. CASE e.told # None
        <5>1. e2 = [e EXCEPT !.state = "marker", !.content = None]
          BY <4>1, <4>3, Zenon DEF Retired
        <5>2. None \in Int
          BY DEF None
        <5>3. /\ e2 \in ResourceRow /\ e2.state = "marker" /\ e2.content = None
              /\ e2.told = e.told /\ e2.written = e.written
          BY <2>3, <5>1, <5>2, Zenon DEF ResourceRow
        <5> QED
          BY <2>4, <4>1, <4>3, <5>3, Zenon
      <4> QED
        BY <4>2, <4>3, Zenon
    <3>4. CASE ~add /\ ~reopen /\ ~remove
      <4>1. e2 = e
        BY <3>4, Zenon DEF e2
      <4> QED
        BY <2>3, <2>4, <3>4, <4>1, Zenon
    <3> QED
      BY <3>1, <3>2, <3>3, <3>4, Zenon
  <2>8. /\ photo' \in PhotoRow /\ photo'.kept = photo.kept /\ photo'.deleted = FALSE
        /\ photo'.published = photo.published /\ photo'.tombstone = photo.tombstone
        /\ photo'.materialized = IF add \/ reopen \/ thumb THEN FALSE
                                 ELSE photo.materialized \/ (remove /\ Complete(res'))
    <3>1. photo \in PhotoRow
      BY DEF PhotoTypes
    <3> DEFINE m == IF add \/ reopen \/ thumb THEN FALSE
                    ELSE photo.materialized \/ (remove /\ Complete(res'))
    <3>2. m \in BOOLEAN
      BY <3>1, Zenon DEF PhotoRow
    <3>3. photo' = [photo EXCEPT !.deleted = FALSE, !.materialized = m]
      BY <2>1, Zenon
    <3> HIDE DEF m
    <3>4. /\ photo' \in PhotoRow /\ photo'.kept = photo.kept /\ photo'.deleted = FALSE
          /\ photo'.published = photo.published /\ photo'.tombstone = photo.tombstone
          /\ photo'.materialized = m
      BY <3>1, <3>2, <3>3, Zenon DEF PhotoRow
    <3> QED
      BY <3>4, Zenon DEF m
  <2>9. PhotoTypes'
    <3>1. res' \in [Kinds -> ResourceRow]
      BY <2>1, <2>2, <2>5, <2>7, Zenon DEF PhotoTypes, Kinds
    <3>2. overtaken' \in BOOLEAN
      BY <1>1, Zenon
    <3> QED
      BY <1>1, <2>8, <3>1, <3>2, Zenon DEF PhotoTypes
  <2>10. photo'.materialized => Complete(res')
    <3> SUFFICES ASSUME photo.materialized, ~add, ~reopen, ~thumb
                 PROVE  Complete(res')
      BY <2>8, Zenon
    <3>1. e2.state # "none" => e2.written
      BY <2>7, Zenon
    <3>2. t2.state # "none" => t2.written
      BY <2>4, <2>5, Zenon
    <3> QED
      BY <2>2, <3>1, <3>2, Zenon DEF Complete, Kinds
  <2>11. RowsFit'
    BY <1>1, <2>2, <2>4, <2>5, <2>6, <2>7, <2>8, <2>10, ZenonT(60) DEF RowsFit, Kinds
  <2>12. Spooled'
    <3> SUFFICES ASSUME NEW k \in Kinds, res'[k].state = "live", res'[k].written,
                        <<k, res'[k].content>> \notin spool'
                 PROVE  photo'.published /\ res'[k].told = res'[k].content
      BY Zenon DEF Spooled
    <3>1. CASE k = "edited"
      <4>1. res'[k] = res[k] /\ ~remove
        BY <2>2, <2>7, <3>1, Zenon
      <4>2. <<k, res[k].content>> \notin spool
        <5>1. spool' = spool
          BY <2>1, <4>1, Zenon
        <5> QED
          BY <4>1, <5>1
      <4> QED
        BY <2>8, <4>1, <4>2, Zenon DEF Spooled
    <3>2. CASE k = "thumb"
      <4>1. /\ res'[k].content = res[k].content /\ res'[k].told = res[k].told
            /\ res[k].state = "live" /\ res[k].written
        BY <2>2, <2>3, <2>5, <3>2, Zenon DEF ResourceRow
      <4>2. <<k, res[k].content>> # <<"edited", e.content>>
        BY <3>2
      <4>3. <<k, res[k].content>> \notin spool
        <5>1. <<k, res[k].content>> \notin spool'
          BY <4>1
        <5> QED
          BY <2>1, <4>2, <5>1, Zenon
      <4> QED
        BY <2>8, <4>1, <4>3, Zenon DEF Spooled
    <3> QED
      BY <3>1, <3>2, Zenon DEF Kinds
  <2>13. \A k \in Kinds : res'[k].told = res[k].told
    BY <2>2, <2>5, <2>7, Zenon DEF Kinds
  <2> QED
    BY <1>1, <2>8, <2>9, <2>11, <2>12, <2>13, Revised, Zenon
<1> QED
  BY <1>2, <1>3, Zenon

\* A fetch: the bytes of what was submitted do not change, as nothing that
\* carries bytes is out while a row waits for them.
LEMMA Fetches ==
    ASSUME PhotoInv, NEW j \in Kinds, Fetch(j)
    PROVE  PhotoInv'
<1> USE DEF PhotoInv, Local
<1>1. /\ pass.at = "idle" /\ ~photo.materialized /\ ~photo.deleted
      /\ res[j].state = "live"
      /\ res' = [res EXCEPT ![j].content = render, ![j].written = TRUE]
      /\ spool' = (spool \ {<<j, res[j].content>>}) \cup {<<j, render>>}
      /\ photo' = [photo EXCEPT !.materialized = Complete(res')]
      /\ UNCHANGED <<render, remote, undecided, pass, doubt, overtaken>>
  BY Zenon DEF Fetch
<1>2. pass.todo = {} /\ pass.tx = 0 /\ pass.answer = "none"
  BY <1>1, Zenon DEF PassFits
<1>3. res'[j] = [res[j] EXCEPT !.content = render, !.written = TRUE]
  BY <1>1, Zenon DEF PhotoTypes
<1>4. \A k \in Kinds : k # j => res'[k] = res[k]
  BY <1>1, Zenon DEF PhotoTypes
<1>5. /\ res'[j] \in ResourceRow /\ res'[j].state = "live" /\ res'[j].content = render
      /\ res'[j].written = TRUE /\ res'[j].told = res[j].told
  <2>1. res[j] \in ResourceRow /\ render \in Int
    BY DEF PhotoTypes
  <2> QED
    <3>1. /\ res'[j] \in ResourceRow /\ res'[j].state = res[j].state
          /\ res'[j].content = render /\ res'[j].written = TRUE
          /\ res'[j].told = res[j].told
      BY <1>3, <2>1, WrittenRows, Zenon
    <3> QED
      BY <1>1, <3>1, Zenon
<1>6. /\ photo' \in PhotoRow /\ photo'.kept = photo.kept /\ photo'.deleted = photo.deleted
      /\ photo'.published = photo.published /\ photo'.tombstone = photo.tombstone
      /\ photo'.materialized = Complete(res')
  <2>1. photo \in PhotoRow /\ Complete(res') \in BOOLEAN
    BY Zenon DEF PhotoTypes, Complete
  <2> QED
    BY <1>1, <2>1, Zenon DEF PhotoRow
<1>7. PhotoTypes'
  <2>1. res' \in [Kinds -> ResourceRow]
    BY <1>1, <1>4, <1>5, Zenon DEF PhotoTypes
  <2> QED
    BY <1>1, <1>6, <2>1, Zenon DEF PhotoTypes
<1>8. RowsFit'
  <2>1. \A k \in Kinds : /\ res'[k].state = "none" => res'[k] = NoRow
                         /\ res'[k].state = "marker" => res'[k].content = None
                         /\ res'[k].told = res[k].told
                         /\ res'[k].state = "marker" => res[k].state = "marker"
    BY <1>4, <1>5, Zenon DEF RowsFit
  <2> QED
    BY <1>1, <1>6, <2>1, ZenonT(60) DEF RowsFit
<1>9. Spooled'
  <2> SUFFICES ASSUME NEW k \in Kinds, res'[k].state = "live", res'[k].written,
                      <<k, res'[k].content>> \notin spool'
               PROVE  photo'.published /\ res'[k].told = res'[k].content
    BY Zenon DEF Spooled
  <2>1. <<j, res'[j].content>> \in spool'
    <3>1. <<j, render>> \in spool'
      BY <1>1, Zenon
    <3> QED
      BY <1>5, <3>1
  <2>2. k # j
    BY <2>1, Zenon
  <2>3. <<k, res[k].content>> # <<j, res[j].content>>
    BY <2>2
  <2>4. res'[k] = res[k]
    BY <1>4, <2>2, Zenon
  <2>5. <<k, res[k].content>> \notin spool'
    BY <2>4
  <2>6. <<k, res[k].content>> \notin spool
    BY <1>1, <2>3, <2>5, Zenon
  <2> QED
    BY <1>6, <2>4, <2>6, Zenon DEF Spooled
<1>10. PassFits'
  BY <1>1, <1>2, Zenon DEF PassFits
<1>11. /\ Op' = Op /\ Stale' = Stale /\ \A t \in undecided : t.id # 0
  BY <1>1, Zenon DEF Op, Stale, PhotoTypes
<1>12. Awaited' /\ Founded'
  BY <1>1, <1>2, <1>6, <1>11, Zenon DEF Awaited, Founded
<1>13. ASSUME ~overtaken
       PROVE  Submissions' /\ Truth'
  <2>1. /\ \A t \in undecided : t.op \notin {"publish", "edit"}
        /\ "publish" \notin doubt /\ "edit" \notin doubt
    BY <1>1, <1>13, Zenon DEF Submissions, Current, Doubtful
  <2>2. Current' /\ Doubtful'
    BY <1>1, <1>2, <2>1, Zenon DEF Current, Doubtful
  <2>3. Lapsed'
    BY <1>1, <1>6, <1>11, <1>13, <2>1, Zenon DEF Submissions, Lapsed, Stale
  <2>4. \A k \in Kinds : res'[k].told = res[k].told
    BY <1>4, <1>5, Zenon
  <2>5. Truth'
    BY <1>1, <1>2, <1>6, <1>13, <2>1, <2>4, Zenon
       DEF Truth, TruthOfAdd, TruthOfTombstone, TruthOfBytes, Ok
  <2> QED
    BY <2>2, <2>3, <2>5, Zenon DEF Submissions
<1> QED
  BY <1>1, <1>7, <1>8, <1>9, <1>10, <1>12, <1>13, Zenon

\* A hard delete: the mesh has the deletion, or never had the photo.
LEMMA HardDeletes ==
    ASSUME PhotoInv, HardDelete
    PROVE  PhotoInv'
<1> USE DEF PhotoInv, Local
<1>1. /\ pass.at = "idle" /\ photo.kept /\ photo.deleted
      /\ ~photo.published \/ photo.tombstone
      /\ photo' = [photo EXCEPT !.kept = FALSE]
      /\ res' = [k \in Kinds |-> NoRow] /\ spool' = {}
      /\ UNCHANGED <<render, remote, undecided, pass, doubt, overtaken>>
  BY Zenon DEF HardDelete
<1>2. pass.todo = {} /\ pass.tx = 0 /\ pass.answer = "none"
  BY <1>1, Zenon DEF PassFits
<1>3. /\ photo' \in PhotoRow /\ photo'.kept = FALSE /\ photo'.deleted = photo.deleted
      /\ photo'.published = photo.published /\ photo'.tombstone = photo.tombstone
      /\ photo'.materialized = photo.materialized
  BY <1>1, Zenon DEF PhotoTypes, PhotoRow
<1>4. /\ NoRow \in ResourceRow /\ NoRow.state = "none" /\ NoRow.told = None
  BY EmptyRows, Zenon
<1>5. PhotoTypes'
  BY <1>1, <1>3, <1>4, Zenon DEF PhotoTypes
<1>6. \A k \in Kinds : res'[k] = NoRow
  BY <1>1, Zenon
<1>7. RowsFit' /\ Spooled'
  BY <1>1, <1>3, <1>4, <1>6, Zenon DEF RowsFit, Spooled, Complete
<1>8. PassFits'
  BY <1>1, <1>2, Zenon DEF PassFits
<1>9. /\ Op' = Op /\ Stale' = Stale /\ Stale = undecided /\ \A t \in undecided : t.id # 0
  BY <1>1, <1>2, Zenon DEF Op, Stale, PhotoTypes
<1>10. Awaited' /\ Founded'
  BY <1>1, <1>2, <1>3, <1>9, Zenon DEF Awaited, Founded
<1>11. ASSUME ~overtaken
       PROVE  Submissions' /\ Truth'
  <2>1. /\ \A t \in undecided : t.op = "delete"
        /\ "publish" \notin doubt /\ "edit" \notin doubt
    BY <1>1, <1>9, <1>11, Zenon DEF Submissions, Lapsed, Doubtful
  <2>2. Current' /\ Doubtful'
    BY <1>1, <1>2, <2>1, Zenon DEF Current, Doubtful
  <2>3. Lapsed'
    BY <1>1, <1>3, <1>9, <1>11, <2>1, Zenon DEF Submissions, Lapsed
  <2>4. Truth'
    BY <1>1, <1>2, <1>3, <1>11, <2>1, Zenon
       DEF Truth, TruthOfAdd, TruthOfTombstone, TruthOfBytes, Ok
  <2> QED
    BY <2>2, <2>3, <2>4, Zenon DEF Submissions
<1> QED
  BY <1>1, <1>5, <1>7, <1>8, <1>10, <1>11, Zenon
-----------------------------------------------------------------------------
(* The invariant *)

\* The photo is new to the daemon, or agrees with the mesh.
LEMMA PhotoStarts == PhotoInit => PhotoInv
<1> SUFFICES ASSUME PhotoInit
             PROVE  PhotoInv
  OBVIOUS
<1> PICK told \in BOOLEAN, gone \in BOOLEAN :
        /\ gone => told
        /\ photo = [kept |-> TRUE, deleted |-> gone, materialized |-> told,
                    published |-> told, tombstone |-> gone]
        /\ res = [k \in Kinds |->
                    IF k = "edited" /\ render = 0 THEN NoRow
                    ELSE IF told THEN [PendingRow EXCEPT !.content = render,
                                                         !.written = TRUE, !.told = render]
                    ELSE PendingRow]
        /\ remote = [added |-> told, deleted |-> gone,
                     holds |-> [k \in Kinds |-> res[k].content]]
  BY Zenon DEF PhotoInit
<1>1. /\ undecided = {} /\ pass = Idle /\ doubt = {} /\ overtaken = FALSE /\ render \in Nat
  BY PhotoAssumption DEF PhotoInit
<1>2. /\ photo \in PhotoRow /\ photo.kept = TRUE /\ photo.deleted = gone
      /\ photo.materialized = told /\ photo.published = told /\ photo.tombstone = gone
  BY Zenon DEF PhotoRow
<1>3. /\ remote.added = told /\ remote.deleted = gone
      /\ \A k \in Kinds : remote.holds[k] = res[k].content
  BY Zenon
<1>4. /\ pass.at = "idle" /\ pass.todo = {} /\ pass.tx = 0 /\ pass.answer = "none"
      /\ pass = [at |-> pass.at, todo |-> pass.todo, tx |-> pass.tx, sent |-> pass.sent,
                 answer |-> pass.answer]
  BY <1>1, Zenon DEF Idle, PassAt
<1>5. \A k \in Kinds :
        /\ res[k] \in ResourceRow /\ res[k].state # "marker"
        /\ res[k].state = "none" => res[k] = NoRow
        /\ told => res[k].told = res[k].content /\ (res[k].state # "none" => res[k].written)
        /\ ~told => res[k].told = None /\ (res[k].state = "live" => ~res[k].written)
  <2> SUFFICES ASSUME NEW k \in Kinds
               PROVE  /\ res[k] \in ResourceRow /\ res[k].state # "marker"
                      /\ res[k].state = "none" => res[k] = NoRow
                      /\ told => /\ res[k].told = res[k].content
                                 /\ res[k].state # "none" => res[k].written
                      /\ ~told => /\ res[k].told = None
                                  /\ res[k].state = "live" => ~res[k].written
    BY Zenon
  <2>1. CASE res[k] = NoRow
    BY <2>1, EmptyRows, Zenon
  <2>2. CASE ~told /\ res[k] = PendingRow
    BY <2>2, EmptyRows, Zenon
  <2>3. CASE told /\ res[k] = [PendingRow EXCEPT !.content = render, !.written = TRUE,
                                                 !.told = render]
    <3>1. render \in Int
      BY <1>1
    <3>2. /\ res[k] \in ResourceRow /\ res[k].state = "live" /\ res[k].content = render
          /\ res[k].written = TRUE /\ res[k].told = render
      BY <2>3, <3>1, EmptyRows, Zenon DEF ResourceRow
    <3> QED
      BY <2>3, <3>2, Zenon
  <2> QED
    BY <2>1, <2>2, <2>3, Zenon
<1>6. PhotoTypes
  <2>1. res \in [Kinds -> ResourceRow]
    BY <1>5, Zenon
  <2>2. remote.added \in BOOLEAN /\ remote.deleted \in BOOLEAN
    BY <1>3, Zenon
  <2>3. /\ pass.at \in {"idle", "resolve", "run"} /\ pass.todo \subseteq Ops
        /\ doubt \subseteq Ledgers /\ overtaken \in BOOLEAN
    BY <1>1, <1>4, Zenon
  <2>4. pass.tx \in Nat
    <3>1. pass.tx = 0
      BY <1>4, Zenon
    <3> QED
      BY <3>1
  <2> QED
    BY <1>1, <1>2, <1>4, <2>1, <2>2, <2>3, <2>4, Zenon DEF PhotoTypes
<1>7. RowsFit /\ Spooled
  BY <1>2, <1>3, <1>4, <1>5, Zenon DEF RowsFit, Spooled, Complete
<1>8. PassFits /\ Awaited /\ Founded
  BY <1>1, <1>4, Zenon DEF PassFits, Awaited, Founded
<1>9. Submissions
  BY <1>1, <1>4, Zenon DEF Submissions, Current, Doubtful, Lapsed, Stale
<1>10. Truth
  BY <1>2, <1>3, <1>4, <1>5, Zenon DEF Truth, TruthOfAdd, TruthOfTombstone, TruthOfBytes, Ok
<1> QED
  BY <1>6, <1>7, <1>8, <1>9, <1>10, Zenon DEF PhotoInv, Local

\* Every step keeps the invariant.
LEMMA PhotoStep == PhotoInv /\ [PhotoNext]_photoVars => PhotoInv'
<1> SUFFICES ASSUME PhotoInv, [PhotoNext]_photoVars
             PROVE  PhotoInv'
  OBVIOUS
<1>1. ASSUME NEW v \in 0..Renders, Change(v)
      PROVE  PhotoInv'
  <2>1. v \in Nat
    BY PhotoAssumption
  <2>2. Applying /\ render' = v
    BY <1>1, Zenon DEF Change, ApplyChange
  <2>3. \/ \E resized \in BOOLEAN :
             ~(v > 0 /\ res["edited"].state = "marker") /\ Revise(v, resized)
        \/ photo' = [photo EXCEPT !.deleted = FALSE] /\ UNCHANGED <<res, spool>>
    BY <1>1, Zenon DEF Change, ApplyChange
  <2> QED
    BY <2>1, <2>2, <2>3, Revises, Zenon
<1>2. CASE Rescan
  <2>1. render \in Nat
    BY Zenon DEF PhotoInv, Local, PhotoTypes
  <2>2. Applying /\ render' = render /\ Revise(render, FALSE) /\ res["edited"].state # "marker"
    BY <1>2, Zenon DEF Rescan
  <2> QED
    BY <2>1, <2>2, Revises, Zenon
<1>3. CASE ScanFinish \/ CleanupEvict \/ UNCHANGED photoVars
  <2>1. UNCHANGED <<render, photo, res, remote, undecided, pass, doubt, overtaken>>
    BY <1>3, Zenon DEF ScanFinish, CleanupEvict, photoVars
  <2>2. spool' = spool \/ spool' = spool \ Evictable
    BY <1>3, Zenon DEF ScanFinish, CleanupEvict, photoVars
  <2>3. Spooled'
    BY <2>1, <2>2, Evicts, Zenon DEF Spooled, PhotoInv, Local
  <2> QED
    BY <2>1, <2>3, Stands, Zenon
<1>4. CASE Resolve
  <2>1. CASE pass' = PassAt("run", pass.todo) /\ UNCHANGED <<photo, res, doubt>>
    BY <1>4, <2>1, PassGoesOn, Zenon
  <2>2. CASE pass.todo = {"publish"} /\ remote.added /\ Published /\ pass' = Parked
    BY <1>4, <2>2, Publishes, Zenon DEF Resolve, Parked, PhotoInv, Local, PassFits
  <2> QED
    BY <1>4, <2>1, <2>2, Zenon DEF Resolve
<1>5. CASE ProbeFinds
  <2>1. "publish" \in pass.todo /\ pass.todo \ {Op} = {}
    BY <1>5, TurnOf DEF ProbeFinds, Running, PhotoInv, Local, PassFits
  <2> QED
    BY <1>5, <2>1, Publishes, Zenon DEF ProbeFinds, Done
<1>6. CASE TakeOk
  <2>1. CASE Op = "publish"
    <3>1. "publish" \in pass.todo /\ pass.todo \ {Op} = {}
      BY <1>6, <2>1, TurnOf DEF TakeOk, Running, PhotoInv, Local, PassFits
    <3>2. remote.added
      BY <1>6, <2>1, Zenon DEF TakeOk, PhotoInv, Local, Awaited
    <3> QED
      BY <1>6, <2>1, <3>1, <3>2, Publishes, Zenon DEF TakeOk, Done
  <2> QED
    BY <1>6, <2>1, Edits, Tombstones, Zenon DEF TakeOk
<1>7. CASE LoseAnswer \/ Crash
  BY <1>7, Loses, PassGoesOn, Zenon DEF LoseAnswer
<1>8. CASE Delete \/ HardDelete \/ Claim \/ Send
  BY <1>8, Deletes, HardDeletes, Claims, Sends, Zenon
<1>9. CASE ResolveFails \/ SendFails \/ TakeRefusal \/ EndPass
  BY <1>9, PassGoesOn, Zenon
<1> QED
  BY <1>1, <1>2, <1>3, <1>4, <1>5, <1>6, <1>7, <1>8, <1>9, Fetches, Decides, Zenon
     DEF PhotoNext, Pass, Faulty

\* The invariant holds throughout.
LEMMA PhotoInvariant == PhotoSpec => []PhotoInv
BY PhotoStarts, PhotoStep, PTL DEF PhotoSpec

\* Where the daemon's queues have nothing left to say and no pass runs, the mesh
\* has the photo as the daemon has it, byte for byte, or has its deletion,
\* whatever failed, was lost or was decided late on the way (SettledIsAgreed);
\* for any number of renders, submissions, events and failures.  Excepted is a
\* photo the user changed while an unanswered submission was in doubt.
THEOREM SettledQueuesAgree == PhotoSpec => []SettledIsAgreed
<1>1. PhotoInv => SettledIsAgreed
  <2> SUFFICES ASSUME PhotoInv, Quiet, ~overtaken
               PROVE  Agreed
    BY Zenon DEF SettledIsAgreed
  <2> USE DEF PhotoInv, Local, Submissions, Truth
  <2>1. pass.at = "idle" /\ ~Ok("publish") /\ ~Ok("restore") /\ ~Ok("delete") /\ ~Ok("edit")
    BY Zenon DEF Quiet, PassFits, Ok
  <2>2. CASE photo.deleted
    <3>1. photo.published => photo.tombstone
      BY <2>2, Zenon DEF Quiet, RowsFit, PhotoTypes, PhotoRow
    <3>2. remote.added => photo.published
      BY <2>1, <2>2, Zenon DEF TruthOfAdd, Doubtful
    <3> QED
      BY <2>1, <2>2, <3>1, <3>2, Zenon DEF Agreed, TruthOfTombstone
  <2>3. CASE ~photo.deleted
    <3>1. /\ photo.kept /\ photo.published /\ photo.materialized /\ Diverged = {}
          /\ photo.deleted = photo.tombstone /\ remote.added
      BY <2>3, Zenon DEF Quiet, RowsFit
    <3>2. ~remote.deleted
      BY <2>1, <2>3, <3>1, Zenon DEF TruthOfTombstone
    <3>3. \A k \in Kinds : res[k].told = res[k].content
      <4> SUFFICES ASSUME NEW k \in Kinds
                   PROVE  res[k].told = res[k].content
        BY Zenon
      <4>1. k \notin Diverged /\ res[k] \in ResourceRow
        BY <3>1, Zenon DEF PhotoTypes
      <4>2. CASE res[k].state = "none"
        BY <4>2, EmptyRows, Zenon DEF RowsFit
      <4>3. CASE res[k].state = "live"
        BY <3>1, <4>1, <4>3, Zenon DEF RowsFit, Complete, Diverged
      <4> QED
        BY <4>1, <4>2, <4>3, Zenon DEF ResourceRow, Diverged
    <3> QED
      BY <2>1, <2>3, <3>1, <3>2, <3>3, Zenon DEF Agreed, TruthOfBytes
  <2> QED
    BY <2>2, <2>3, Zenon
<1> QED
  BY <1>1, PhotoInvariant, PTL

\* Bytes that a queue has yet to send are in the spool, and current bytes leave it
\* only once the mesh serves them (EvictedIsHeld), for any number of renders,
\* submissions, events and failures; the second half with the same exception.
THEOREM EvictedBytesHeld == PhotoSpec => []EvictedIsHeld
<1>1. PhotoInv => EvictedIsHeld
  <2> SUFFICES ASSUME PhotoInv, NEW k \in Kinds, res[k].state = "live", res[k].written,
                      <<k, res[k].content>> \notin spool
               PROVE  /\ photo.published /\ k \notin Diverged
                      /\ overtaken \/ remote.holds[k] = res[k].content
    BY Zenon DEF EvictedIsHeld
  <2>1. photo.published /\ res[k].told = res[k].content /\ k \notin Diverged
    BY Zenon DEF PhotoInv, Local, Spooled, Diverged
  <2>2. photo.kept
    BY Zenon DEF PhotoInv, Local, RowsFit
  <2>3. ~overtaken => remote.holds[k] = res[k].content
    <3>1. Ok("edit") => \A i \in DOMAIN pass.sent : pass.sent[i] = res[i].content
      BY EditSent, Zenon DEF PhotoInv, Local, PassFits, Ok
    <3> QED
      BY <2>1, <2>2, <3>1, Zenon DEF PhotoInv, Truth, TruthOfBytes
  <2> QED
    BY <2>1, <2>3, Zenon
<1> QED
  BY <1>1, PhotoInvariant, PTL
=============================================================================
