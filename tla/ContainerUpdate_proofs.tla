----------------------- MODULE ContainerUpdate_proofs -----------------------
(***************************************************************************)
(* Proofs about ContainerUpdate, and about MenuTools, which composes it    *)
(* with the menu, for any containers and any versions.                     *)
(*                                                                         *)
(* TypeCorrect and BackupsAreOriginal hold whatever fails. The others      *)
(* assume that the faults which no backup and no journal can mask do not   *)
(* happen.                                                                 *)
(***************************************************************************)
EXTENDS MenuTools, TLAPS

-----------------------------------------------------------------------------
(***************************************************************************)
(* Type correctness.                                                       *)
(***************************************************************************)

\* A console that has never run the plugin starts with everything of its type.
LEMMA TypeCorrectInit == Init => TypeOK
BY DEF Init, StorageInit, TypeOK, RecoveryTypeOK, StorageTypeOK, Points, JobPoints

\* The types of the storage survive every operation on it.
LEMMA TypeCorrectNext == TypeOK /\ [Next]_vars => TypeOK'
<1> SUFFICES ASSUME TypeOK, [Next]_vars PROVE TypeOK'
  OBVIOUS
<1> USE StorageAssumption
     DEF TypeOK, RecoveryTypeOK, StorageTypeOK, Points, JobPoints, RecoveryPoints,
         ContainerPoints, Goto, BeginWrite, FinishWrite, ReachesFlash, FlushVolume
<1>1. CASE StartJob /\ UNCHANGED pipelineVars
  BY <1>1 DEF StartJob, pipelineVars, storageVars
<1>2. CASE Recover
  <2>1. CASE NothingToRecover
    BY <1>2, <2>1 DEF NothingToRecover, Recover, pipelineVars, storageVars
  <2>2. CASE DiscardJournal
    BY <1>2, <2>2 DEF DiscardJournal, Recover, pipelineVars, storageVars, CloseJournal
  <2>3. CASE CannotRecover
    BY <1>2, <2>3 DEF CannotRecover, Recover, pipelineVars, storageVars
  <2>4. CASE LoadRecovery
    BY <1>2, <2>4 DEF LoadRecovery, Recover, pipelineVars, storageVars, Loadable
  <2>5. CASE BeginRepair
    BY <1>2, <2>5 DEF BeginRepair, Recover, pipelineVars, storageVars
  <2>6. CASE FinishRepair
    BY <1>2, <2>6 DEF FinishRepair, Recover, pipelineVars, storageVars
  <2>7. CASE RepairFails
    BY <1>2, <2>7 DEF RepairFails, Recover, pipelineVars, storageVars
  <2>8. CASE ForgetRepaired
    BY <1>2, <2>8 DEF ForgetRepaired, Recover, pipelineVars, storageVars, CloseJournal
  <2>9. CASE UnmountRecovery
    BY <1>2, <2>9 DEF UnmountRecovery, Recover, pipelineVars, storageVars
  <2> QED
    BY <1>2, <2>1, <2>2, <2>3, <2>4, <2>5, <2>6, <2>7, <2>8, <2>9 DEF Recover, RecoverIfNeeded
<1>3. CASE StopBeforePipeline \/ StartPipeline \/ FinishPipeline \/ EndJob
  BY <1>3 DEF StopBeforePipeline, StartPipeline, FinishPipeline, EndJob, storageVars
<1>4. CASE \E f \in Files : NextContainer(f) \/ SkipUnreadable(f)
  BY <1>4 DEF NextContainer, SkipUnreadable, storageVars
<1>5. CASE UpdateContainer
  <2>1. CASE StartBackup
    BY <2>1 DEF StartBackup, storageVars, BeginSave
  <2>2. CASE FinishBackup
    BY <2>2 DEF FinishBackup, storageVars, FinishSave
  <2>3. CASE BackupFails
    BY <2>3 DEF BackupFails, storageVars
  <2>4. CASE BuildContainer
    BY <2>4 DEF BuildContainer, storageVars
  <2>5. CASE BuildFails
    BY <2>5 DEF BuildFails, storageVars
  <2>6. CASE StopBeforeWrite
    BY <2>6 DEF StopBeforeWrite, storageVars
  <2>7. CASE SkipUnchanged
    BY <2>7 DEF SkipUnchanged, storageVars
  <2>8. CASE DecideToWrite
    BY <2>8 DEF DecideToWrite, storageVars
  <2>9. CASE CreateJournal
    BY <2>9 DEF CreateJournal, storageVars, TruncateJournal
  <2>10. CASE JournalFails
    BY <2>10 DEF JournalFails, storageVars
  <2>11. CASE FillJournal
    BY <2>11 DEF FillJournal, storageVars, WriteJournal
  <2>12. CASE StartWrite
    BY <2>12 DEF StartWrite, storageVars
  <2>13. CASE CompleteWrite
    BY <2>13 DEF CompleteWrite, storageVars
  <2>14. CASE WriteFails
    BY <2>14 DEF WriteFails, storageVars
  <2>15. CASE FlushWrite
    BY <2>15 DEF FlushWrite, storageVars, TryToFlush
  <2>16. CASE VerifySucceeds
    BY <2>16 DEF VerifySucceeds, storageVars
  <2>17. CASE VerifyCannotRead
    BY <2>17 DEF VerifyCannotRead, storageVars
  <2>18. CASE VerifyMismatch
    BY <2>18 DEF VerifyMismatch, storageVars
  <2>19. CASE EndWrite
    BY <2>19 DEF EndWrite, storageVars, CloseJournal
  <2> QED
    BY <1>5, <2>1, <2>2, <2>3, <2>4, <2>5, <2>6, <2>7, <2>8, <2>9, <2>10, <2>11, <2>12, <2>13, <2>14, <2>15, <2>16, <2>17, <2>18, <2>19 DEF UpdateContainer
<1>6. CASE RestoreContainer
  <2>1. CASE LoadBackup
    BY <2>1 DEF LoadBackup, storageVars, Loadable
  <2>2. CASE StartRestore
    BY <2>2 DEF StartRestore, storageVars
  <2>3. CASE CompleteRestore
    BY <2>3 DEF CompleteRestore, storageVars
  <2>4. CASE FlushRestore
    BY <2>4 DEF FlushRestore, storageVars, TryToFlush, AfterRestore
  <2>5. CASE RestoreFails
    BY <2>5 DEF RestoreFails, storageVars, AfterRestore
  <2> QED
    BY <1>6, <2>1, <2>2, <2>3, <2>4, <2>5 DEF RestoreContainer
<1>7. CASE Outside /\ UNCHANGED pipelineVars
  <2>1. CASE RequestStop \/ ProcessEnds \/ Boot
    BY <1>7, <2>1 DEF RequestStop, ProcessEnds, Boot, pipelineVars, storageVars
  <2>2. CASE PowerLoss
    <3>1. \A f \in Files : AfterPowerLoss(f) \subseteq Content \cup {Torn}
      BY DEF AfterPowerLoss
    <3> QED
      BY <1>7, <2>2, <3>1 DEF PowerLoss, pipelineVars
  <2> QED
    BY <1>7, <2>1, <2>2 DEF Outside
<1>8. CASE \E f \in Files : ChannelWrites(f)
  BY <1>8 DEF ChannelWrites, pipelineVars
<1>9. CASE UNCHANGED vars
  BY <1>9 DEF vars, recoveryVars, storageVars, pipelineVars
<1> QED
  BY <1>1, <1>2, <1>3, <1>4, <1>5, <1>6, <1>7, <1>8, <1>9 DEF Next, JobStep

\* TypeOK: the variables keep their types, whatever fails; a backup that LoadFromSd
\* refuses never gets into the buffer.
THEOREM TypeCorrect == Spec => []TypeOK
BY TypeCorrectInit, TypeCorrectNext, PTL DEF Spec

-----------------------------------------------------------------------------
(***************************************************************************)
(* What RestoreContainer writes back. This needs no assumption on faults.  *)
(***************************************************************************)

\* No step of the pipeline parts the backup at hand from what was read.
LEMMA BackupNext == TypeOK /\ BackupIsOriginal /\ [Next]_vars => BackupIsOriginal'
<1> SUFFICES ASSUME TypeOK, BackupIsOriginal, [Next]_vars PROVE BackupIsOriginal'
  OBVIOUS
<1> USE DEF TypeOK, RecoveryTypeOK, StorageTypeOK, BackupIsOriginal, BackedUp,
         ContainerPoints, Goto
<1>1. CASE StartJob /\ UNCHANGED pipelineVars
  BY <1>1 DEF StartJob, pipelineVars, storageVars
<1>2. CASE Recover
  <2>1. CASE NothingToRecover
    BY <1>2, <2>1 DEF NothingToRecover, Recover, pipelineVars, storageVars
  <2>2. CASE DiscardJournal
    BY <1>2, <2>2 DEF DiscardJournal, Recover, pipelineVars, storageVars, CloseJournal
  <2>3. CASE CannotRecover
    BY <1>2, <2>3 DEF CannotRecover, Recover, pipelineVars, storageVars, Loadable
  <2>4. CASE LoadRecovery
    BY <1>2, <2>4 DEF LoadRecovery, Recover, pipelineVars, storageVars, Loadable
  <2>5. CASE BeginRepair
    BY <1>2, <2>5 DEF BeginRepair, Recover, pipelineVars, storageVars
  <2>6. CASE FinishRepair
    BY <1>2, <2>6 DEF FinishRepair, Recover, pipelineVars, storageVars
  <2>7. CASE RepairFails
    BY <1>2, <2>7 DEF RepairFails, Recover, pipelineVars, storageVars
  <2>8. CASE ForgetRepaired
    BY <1>2, <2>8 DEF ForgetRepaired, Recover, pipelineVars, storageVars, CloseJournal
  <2>9. CASE UnmountRecovery
    BY <1>2, <2>9 DEF UnmountRecovery, Recover, pipelineVars, storageVars
  <2> QED
    BY <1>2, <2>1, <2>2, <2>3, <2>4, <2>5, <2>6, <2>7, <2>8, <2>9 DEF Recover, RecoverIfNeeded
<1>3. CASE StopBeforePipeline \/ StartPipeline \/ FinishPipeline \/ EndJob
  BY <1>3 DEF StopBeforePipeline, StartPipeline, FinishPipeline, EndJob, storageVars
<1>4. CASE \E f \in Files : NextContainer(f) \/ SkipUnreadable(f)
  BY <1>4 DEF NextContainer, SkipUnreadable, storageVars
<1>5. CASE UpdateContainer
  <2>1. CASE StartBackup
    BY <2>1 DEF StartBackup, storageVars, BeginSave
  <2>2. CASE FinishBackup
    BY <2>2 DEF FinishBackup, storageVars, FinishSave
  <2>3. CASE BackupFails
    BY <2>3 DEF BackupFails, storageVars
  <2>4. CASE BuildContainer
    BY <2>4 DEF BuildContainer, storageVars
  <2>5. CASE BuildFails
    BY <2>5 DEF BuildFails, storageVars
  <2>6. CASE StopBeforeWrite
    BY <2>6 DEF StopBeforeWrite, storageVars
  <2>7. CASE SkipUnchanged
    BY <2>7 DEF SkipUnchanged, storageVars
  <2>8. CASE DecideToWrite
    BY <2>8 DEF DecideToWrite, storageVars
  <2>9. CASE CreateJournal
    BY <2>9 DEF CreateJournal, storageVars, TruncateJournal
  <2>10. CASE JournalFails
    BY <2>10 DEF JournalFails, storageVars
  <2>11. CASE FillJournal
    BY <2>11 DEF FillJournal, storageVars, WriteJournal
  <2>12. CASE StartWrite
    BY <2>12 DEF StartWrite, storageVars
  <2>13. CASE CompleteWrite
    BY <2>13 DEF CompleteWrite, storageVars
  <2>14. CASE WriteFails
    BY <2>14 DEF WriteFails, storageVars
  <2>15. CASE FlushWrite
    BY <2>15 DEF FlushWrite, storageVars, TryToFlush
  <2>16. CASE VerifySucceeds
    BY <2>16 DEF VerifySucceeds, storageVars
  <2>17. CASE VerifyCannotRead
    BY <2>17 DEF VerifyCannotRead, storageVars
  <2>18. CASE VerifyMismatch
    BY <2>18 DEF VerifyMismatch, storageVars
  <2>19. CASE EndWrite
    BY <2>19 DEF EndWrite, storageVars, CloseJournal
  <2> QED
    BY <1>5, <2>1, <2>2, <2>3, <2>4, <2>5, <2>6, <2>7, <2>8, <2>9, <2>10, <2>11, <2>12, <2>13, <2>14, <2>15, <2>16, <2>17, <2>18, <2>19 DEF UpdateContainer
<1>6. CASE RestoreContainer
  <2>1. CASE LoadBackup
    BY <2>1 DEF LoadBackup, storageVars, Loadable
  <2>2. CASE StartRestore
    BY <2>2 DEF StartRestore, storageVars
  <2>3. CASE CompleteRestore
    BY <2>3 DEF CompleteRestore, storageVars
  <2>4. CASE FlushRestore
    BY <2>4 DEF FlushRestore, storageVars, TryToFlush, AfterRestore
  <2>5. CASE RestoreFails
    BY <2>5 DEF RestoreFails, storageVars, AfterRestore, Loadable
  <2> QED
    BY <1>6, <2>1, <2>2, <2>3, <2>4, <2>5 DEF RestoreContainer
<1>7. CASE Outside /\ UNCHANGED pipelineVars
  <2>1. CASE RequestStop
    BY <1>7, <2>1 DEF RequestStop, pipelineVars, storageVars
  <2>2. CASE ProcessEnds \/ Boot
    BY <1>7, <2>2 DEF ProcessEnds, Boot, pipelineVars, storageVars
  <2>3. CASE PowerLoss
    BY <1>7, <2>3 DEF PowerLoss, pipelineVars
  <2> QED
    BY <1>7, <2>1, <2>2, <2>3 DEF Outside
<1>8. CASE \E f \in Files : ChannelWrites(f)
  BY <1>8 DEF ChannelWrites, pipelineVars
<1>9. CASE UNCHANGED vars
  BY <1>9 DEF vars, recoveryVars, storageVars, pipelineVars
<1> QED
  BY <1>1, <1>2, <1>3, <1>4, <1>5, <1>6, <1>7, <1>8, <1>9 DEF Next, JobStep

\* BackupIsOriginal: from the end of SaveToSd until the pipeline turns to the next
\* container, what RestoreContainer would write back is what the container held
\* when it was read, whatever fails, is cut off or is run again.
THEOREM BackupsAreOriginal == Spec => []BackupIsOriginal
<1>1. Init => BackupIsOriginal
  BY DEF Init, BackupIsOriginal, BackedUp
<1> QED
  BY <1>1, BackupNext, TypeCorrect, PTL DEF Spec

-----------------------------------------------------------------------------
(***************************************************************************)
(* The inductive invariant behind TornIsRecoverable, RepairedFirst and     *)
(* BackupIsOriginal.                                                       *)
(***************************************************************************)

\* No write of a backup fails, no backup is unreadable, the journal's lines get
\* written, it is removed when it is to be, and the volume does not hold back what
\* was written.
FaultsAreMasked ==
    Faults \cap {"restoreWrite", "sdLoad", "journalWrite", "journalRemove",
                 "writeBack"} = {}

\* Nothing written waits for a flush.
NothingCached == flash = nand

\* The journal always names a file with a whole backup, and a torn file is the
\* one it names.
JournalCoversTorn ==
    /\ journal \in Files => backup[journal] \in Content
    /\ \A f \in Files : nand[f] = Torn => journal = f

\* Where the job is when every container is whole.
WholePoints ==
    {"repaired", "unmount", "gate", "next", "save", "saving", "build", "check",
     "openJournal", "journalling", "write", "flush", "verify", "restoreFlush",
     "closeJournal", "done"}
WholeThere == pc \in WholePoints => \A f \in Files : nand[f] # Torn

\* RecoverIfNeeded writes the backup of the file the journal names.
RepairsTheTorn ==
    pc \in {"repair", "repairing", "repaired"} =>
        /\ journal = cur
        /\ buffer = backup[cur]
        /\ pc = "repaired" => nand[cur] = buffer

\* No journal is left when the pipeline starts; one that a failed verification
\* leaves names a container this run has dealt with and put back.
JournalIsDealtWith ==
    /\ pc \in {"unmount", "gate"} => journal = NoJournal
    /\ pc \in {"next"} \cup ContainerPoints => journal \notin todo
    /\ pc \in ContainerPoints => cur \notin todo
    /\ pc \in {"save", "saving", "build", "check", "openJournal", "journalling"} =>
           journal # cur
    /\ pc \in {"next", "save", "saving", "build", "check", "openJournal"} =>
           (journal \in Files => nand[journal] = backup[journal])
    /\ pc = "journalling" => journal = Unreadable

\* From the write on, the journal names the container being written.
WritePoints ==
    {"write", "writing", "flush", "verify", "restore", "restoreWrite",
     "restoring", "restoreFlush", "closeJournal"}
JournalNamesCurrent == pc \in WritePoints => journal = cur

\* The pipeline works on whole containers and restores what it read.
BuffersAreWhole ==
    /\ pc \in ContainerPoints => original \in Content
    /\ pc \in {"check", "openJournal", "journalling", "write", "writing",
               "flush", "verify"} => buffer \in Content
    /\ pc \in {"restoreWrite", "restoring"} => buffer = original
    /\ pc \in {"save", "saving", "build", "check", "openJournal", "journalling",
               "write", "restoreFlush"} => nand[cur] = original
    /\ pc \in {"flush", "verify"} => nand[cur] = buffer

Inv ==
    /\ TypeOK
    /\ NothingCached
    /\ JournalCoversTorn
    /\ WholeThere
    /\ RepairsTheTorn
    /\ JournalIsDealtWith
    /\ JournalNamesCurrent
    /\ BuffersAreWhole
    /\ BackupIsOriginal

\* With nothing cached, a power loss leaves every file as it is.
LEMMA PowerLossKeeps ==
    ASSUME TypeOK, NothingCached, PowerLoss
    PROVE  nand' = nand
BY DEF TypeOK, RecoveryTypeOK, StorageTypeOK, NothingCached, PowerLoss,
   AfterPowerLoss

\* With every container whole and no journal there is nothing to cover.
LEMMA InvInit == Init => Inv
<1> USE StorageAssumption
<1> SUFFICES ASSUME Init PROVE Inv
  OBVIOUS
<1>1. TypeOK
  BY TypeCorrectInit
<1> QED
  BY <1>1 DEF Inv, Init, StorageInit, TypeOK, RecoveryTypeOK, StorageTypeOK, NothingCached,
     JournalCoversTorn, WholeThere, WholePoints, RepairsTheTorn,
     JournalIsDealtWith, JournalNamesCurrent, WritePoints, BuffersAreWhole,
     BackupIsOriginal, BackedUp, ContainerPoints

\* While the masked faults are the only ones, every step of the job, of the
\* channels and of the console keeps the invariant.
LEMMA InvNext == FaultsAreMasked /\ Inv /\ [Next]_vars => Inv'
<1> SUFFICES ASSUME FaultsAreMasked, Inv, [Next]_vars PROVE Inv'
  OBVIOUS
<1>0. TypeOK'
  BY TypeCorrectNext DEF Inv
<1> USE <1>0, StorageAssumption
     DEF FaultsAreMasked, CanFail,
         Inv, TypeOK, RecoveryTypeOK, StorageTypeOK, NothingCached, JournalCoversTorn,
         WholeThere, WholePoints, RepairsTheTorn, JournalIsDealtWith,
         JournalNamesCurrent, WritePoints, BuffersAreWhole, BackupIsOriginal,
         BackedUp, ContainerPoints,
         Goto, BeginWrite, FinishWrite, ReachesFlash, FlushVolume
<1>1. CASE StartJob /\ UNCHANGED pipelineVars
  BY <1>1 DEF StartJob, pipelineVars, storageVars
<1>2. CASE Recover
  <2>1. CASE NothingToRecover
    BY <1>2, <2>1 DEF NothingToRecover, Recover, pipelineVars, storageVars
  <2>2. CASE DiscardJournal
    BY <1>2, <2>2 DEF DiscardJournal, Recover, pipelineVars, storageVars, CloseJournal
  <2>3. CASE CannotRecover
    BY <1>2, <2>3 DEF CannotRecover, Recover, pipelineVars, storageVars, Loadable
  <2>4. CASE LoadRecovery
    BY <1>2, <2>4 DEF LoadRecovery, Recover, pipelineVars, storageVars, Loadable
  <2>5. CASE BeginRepair
    BY <1>2, <2>5 DEF BeginRepair, Recover, pipelineVars, storageVars
  <2>6. CASE FinishRepair
    BY <1>2, <2>6 DEF FinishRepair, Recover, pipelineVars, storageVars
  <2>7. CASE RepairFails
    BY <2>7 DEF RepairFails
  <2>8. CASE ForgetRepaired
    BY <1>2, <2>8 DEF ForgetRepaired, Recover, pipelineVars, storageVars, CloseJournal
  <2>9. CASE UnmountRecovery
    BY <1>2, <2>9 DEF UnmountRecovery, Recover, pipelineVars, storageVars
  <2> QED
    BY <1>2, <2>1, <2>2, <2>3, <2>4, <2>5, <2>6, <2>7, <2>8, <2>9 DEF Recover, RecoverIfNeeded
<1>3. CASE StopBeforePipeline \/ StartPipeline \/ FinishPipeline \/ EndJob
  BY <1>3 DEF StopBeforePipeline, StartPipeline, FinishPipeline, EndJob, storageVars
<1>4. CASE \E f \in Files : NextContainer(f) \/ SkipUnreadable(f)
  BY <1>4 DEF NextContainer, SkipUnreadable, storageVars
<1>5. CASE UpdateContainer
  <2>1. CASE StartBackup
    BY <2>1 DEF StartBackup, storageVars, BeginSave
  <2>2. CASE FinishBackup
    BY <2>2 DEF FinishBackup, storageVars, FinishSave
  <2>3. CASE BackupFails
    BY <2>3 DEF BackupFails, storageVars
  <2>4. CASE BuildContainer
    BY <2>4 DEF BuildContainer, storageVars
  <2>5. CASE BuildFails
    BY <2>5 DEF BuildFails, storageVars
  <2>6. CASE StopBeforeWrite
    BY <2>6 DEF StopBeforeWrite, storageVars
  <2>7. CASE SkipUnchanged
    BY <2>7 DEF SkipUnchanged, storageVars
  <2>8. CASE DecideToWrite
    BY <2>8 DEF DecideToWrite, storageVars
  <2>9. CASE CreateJournal
    BY <2>9 DEF CreateJournal, storageVars, TruncateJournal
  <2>10. CASE JournalFails
    BY <2>10 DEF JournalFails, storageVars
  <2>11. CASE FillJournal
    BY <2>11 DEF FillJournal, storageVars, WriteJournal
  <2>12. CASE StartWrite
    BY <2>12 DEF StartWrite, storageVars
  <2>13. CASE CompleteWrite
    BY <2>13 DEF CompleteWrite, storageVars
  <2>14. CASE WriteFails
    BY <2>14 DEF WriteFails, storageVars
  <2>15. CASE FlushWrite
    BY <2>15 DEF FlushWrite, storageVars, TryToFlush
  <2>16. CASE VerifySucceeds
    BY <2>16 DEF VerifySucceeds, storageVars
  <2>17. CASE VerifyCannotRead
    BY <2>17 DEF VerifyCannotRead, storageVars
  <2>18. CASE VerifyMismatch
    BY <2>18 DEF VerifyMismatch, storageVars
  <2>19. CASE EndWrite
    BY <2>19 DEF EndWrite, storageVars, CloseJournal
  <2> QED
    BY <1>5, <2>1, <2>2, <2>3, <2>4, <2>5, <2>6, <2>7, <2>8, <2>9, <2>10, <2>11, <2>12, <2>13, <2>14, <2>15, <2>16, <2>17, <2>18, <2>19 DEF UpdateContainer
<1>6. CASE RestoreContainer
  <2>1. CASE LoadBackup
    BY <2>1 DEF LoadBackup, storageVars, Loadable
  <2>2. CASE StartRestore
    BY <2>2 DEF StartRestore, storageVars
  <2>3. CASE CompleteRestore
    BY <2>3 DEF CompleteRestore, storageVars
  <2>4. CASE FlushRestore
    BY <2>4 DEF FlushRestore, storageVars, TryToFlush, AfterRestore
  <2>5. CASE RestoreFails
    BY <2>5 DEF RestoreFails, storageVars, AfterRestore, Loadable
  <2> QED
    BY <1>6, <2>1, <2>2, <2>3, <2>4, <2>5 DEF RestoreContainer
<1>7. CASE Outside /\ UNCHANGED pipelineVars
  <2>1. CASE RequestStop
    BY <1>7, <2>1 DEF RequestStop, pipelineVars, storageVars
  <2>2. CASE ProcessEnds \/ Boot
    BY <1>7, <2>2 DEF ProcessEnds, Boot, pipelineVars, storageVars
  <2>3. CASE PowerLoss
    BY <1>7, <2>3, PowerLossKeeps DEF PowerLoss, pipelineVars
  <2> QED
    BY <1>7, <2>1, <2>2, <2>3 DEF Outside
<1>8. CASE \E f \in Files : ChannelWrites(f)
  BY <1>8 DEF ChannelWrites, pipelineVars
<1>9. CASE UNCHANGED vars
  BY <1>9 DEF vars, recoveryVars, storageVars, pipelineVars
<1> QED
  BY <1>1, <1>2, <1>3, <1>4, <1>5, <1>6, <1>7, <1>8, <1>9 DEF Next, JobStep

\* The inductive invariant holds throughout: the theorems below read off it.
THEOREM InvHolds == ASSUME FaultsAreMasked PROVE Spec => []Inv
BY InvInit, InvNext, PTL DEF Spec

\* With nothing cached, only a torn container is at risk.
LEMMA AtRiskIsTorn ==
    ASSUME Inv, NEW f \in Files
    PROVE  AtRisk(f) <=> nand[f] = Torn
BY DEF Inv, NothingCached, AtRisk, AfterPowerLoss

\* TornIsRecoverable: a container that holds, or could come out of a power loss
\* holding, part of each version is named by the journal and has a whole backup,
\* for any number of containers, cuts and masked faults.
THEOREM TornContainersAreRecoverable ==
    ASSUME FaultsAreMasked
    PROVE  Spec => []TornIsRecoverable
<1>1. Inv => TornIsRecoverable
  BY AtRiskIsTorn DEF Inv, TypeOK, RecoveryTypeOK, StorageTypeOK, TornIsRecoverable, JournalCoversTorn
<1> QED
  BY <1>1, InvHolds, PTL

\* RepairedFirst: RecoverIfNeeded leaves no container torn for the rest of the job
\* to come across.
THEOREM RecoveryComesFirst ==
    ASSUME FaultsAreMasked
    PROVE  Spec => []RepairedFirst
<1>1. Inv => RepairedFirst
  BY AtRiskIsTorn DEF Inv, RepairedFirst, WholeThere, WholePoints
<1> QED
  BY <1>1, InvHolds, PTL

-----------------------------------------------------------------------------
(***************************************************************************)
(* The update of a container is atomic: ContainerUpdate implements         *)
(* AtomicContainers.                                                       *)
(***************************************************************************)

\* Initially no journal stands for a container's bytes.
LEMMA AtomicInit == Init => Abstract!Init
BY StorageAssumption DEF Init, StorageInit, Abstract!Init, Settled

\* What one container settles to.
SettledAt(f) == IF journal = f THEN backup[f] ELSE nand[f]

\* Settled stays what it is if it does at every container.
LEMMA SettledPointwise ==
    ASSUME \A f \in Files : SettledAt(f)' = SettledAt(f)
    PROVE  Settled' = Settled
BY DEF Settled, SettledAt

\* An update of the container at hand is a step of AtomicContainers.
LEMMA UpdateIsNext ==
    ASSUME TypeOK, Abstract!Update(cur)
    PROVE  Abstract!Next
BY DEF Abstract!Next, TypeOK, RecoveryTypeOK

\* Every step leaves what the containers settle to alone, or replaces one whole
\* version by another.
LEMMA AtomicNext ==
    ASSUME FaultsAreMasked, Inv, Inv', [Next]_vars
    PROVE  [Abstract!Next]_(Abstract!vars)
<1> USE StorageAssumption
     DEF FaultsAreMasked, CanFail,
         Inv, TypeOK, RecoveryTypeOK, StorageTypeOK, NothingCached, JournalCoversTorn,
         WholeThere, WholePoints, RepairsTheTorn, JournalIsDealtWith,
         JournalNamesCurrent, WritePoints, BuffersAreWhole, BackupIsOriginal,
         BackedUp, ContainerPoints, Settled,
         Goto, BeginWrite, FinishWrite, ReachesFlash, FlushVolume
<1> DEFINE Unseen == Settled' = Settled /\ (pc # "off")' = (pc # "off")
<1>a. Unseen => [Abstract!Next]_(Abstract!vars)
  BY DEF Abstract!vars
<1> HIDE DEF Unseen
<1>1. CASE StartJob /\ UNCHANGED pipelineVars
  BY <1>1, <1>a DEF StartJob, pipelineVars, storageVars, Unseen
<1>2. CASE Recover
  <2>1. CASE NothingToRecover
    BY <1>2, <2>1, <1>a DEF NothingToRecover, Recover, pipelineVars, storageVars, Unseen
  <2>2. CASE DiscardJournal
    BY <1>2, <2>2, <1>a DEF DiscardJournal, Recover, pipelineVars, storageVars, CloseJournal, Unseen
  <2>3. CASE CannotRecover
    BY <1>2, <2>3, <1>a DEF CannotRecover, Recover, pipelineVars, storageVars, Loadable, Unseen
  <2>4. CASE LoadRecovery
    BY <1>2, <2>4, <1>a DEF LoadRecovery, Recover, pipelineVars, storageVars, Loadable, Unseen
  <2>5. CASE BeginRepair
    BY <1>2, <2>5, <1>a DEF BeginRepair, Recover, pipelineVars, storageVars, Unseen
  <2>6. CASE FinishRepair
    BY <1>2, <2>6, <1>a DEF FinishRepair, Recover, pipelineVars, storageVars, Unseen
  <2>7. CASE RepairFails
    BY <1>2, <2>7, <1>a DEF RepairFails, Recover, pipelineVars, storageVars, Unseen
  <2>8. CASE ForgetRepaired
    <3>1. nand' = nand /\ backup' = backup /\ pc # "off" /\ pc' # "off"
      BY <2>8 DEF ForgetRepaired
    <3>2. \A f \in Files : SettledAt(f)' = SettledAt(f)
      BY <2>8, <3>1 DEF ForgetRepaired, CloseJournal, SettledAt
    <3> QED
      BY <3>1, <3>2, <1>a, SettledPointwise DEF Unseen
  <2>9. CASE UnmountRecovery
    BY <1>2, <2>9, <1>a DEF UnmountRecovery, Recover, pipelineVars, storageVars, Unseen
  <2> QED
    BY <1>2, <2>1, <2>2, <2>3, <2>4, <2>5, <2>6, <2>7, <2>8, <2>9 DEF Recover, RecoverIfNeeded
<1>3. CASE StopBeforePipeline \/ StartPipeline \/ FinishPipeline \/ EndJob
  BY <1>3, <1>a DEF StopBeforePipeline, StartPipeline, FinishPipeline, EndJob,
     storageVars, Unseen
<1>4. CASE \E f \in Files : NextContainer(f) \/ SkipUnreadable(f)
  BY <1>4, <1>a DEF NextContainer, SkipUnreadable, storageVars, Unseen
<1>5. CASE UpdateContainer
  <2>1. CASE StartBackup
    BY <2>1, <1>a DEF StartBackup, storageVars, BeginSave, Unseen
  <2>2. CASE FinishBackup
    BY <2>2, <1>a DEF FinishBackup, storageVars, FinishSave, Unseen
  <2>3. CASE BackupFails
    BY <2>3, <1>a DEF BackupFails, storageVars, Unseen
  <2>4. CASE BuildContainer
    BY <2>4, <1>a DEF BuildContainer, storageVars, Unseen
  <2>5. CASE BuildFails
    BY <2>5, <1>a DEF BuildFails, storageVars, Unseen
  <2>6. CASE StopBeforeWrite
    BY <2>6, <1>a DEF StopBeforeWrite, storageVars, Unseen
  <2>7. CASE SkipUnchanged
    BY <2>7, <1>a DEF SkipUnchanged, storageVars, Unseen
  <2>8. CASE DecideToWrite
    BY <2>8, <1>a DEF DecideToWrite, storageVars, Unseen
  <2>9. CASE CreateJournal
    <3>1. nand' = nand /\ backup' = backup /\ pc # "off" /\ pc' # "off"
      BY <2>9 DEF CreateJournal
    <3>2. \A f \in Files : SettledAt(f)' = SettledAt(f)
      BY <2>9, <3>1 DEF CreateJournal, TruncateJournal, SettledAt
    <3> QED
      BY <3>1, <3>2, <1>a, SettledPointwise DEF Unseen
  <2>10. CASE JournalFails
    BY <2>10, <1>a DEF JournalFails, storageVars, Unseen
  <2>11. CASE FillJournal
    <3>1. nand' = nand /\ backup' = backup /\ pc # "off" /\ pc' # "off"
      BY <2>11 DEF FillJournal
    <3>2. \A f \in Files : SettledAt(f)' = SettledAt(f)
      BY <2>11, <3>1 DEF FillJournal, WriteJournal, SettledAt
    <3> QED
      BY <3>1, <3>2, <1>a, SettledPointwise DEF Unseen
  <2>12. CASE StartWrite
    BY <2>12, <1>a DEF StartWrite, storageVars, Unseen
  <2>13. CASE CompleteWrite
    BY <2>13, <1>a DEF CompleteWrite, storageVars, Unseen
  <2>14. CASE WriteFails
    BY <2>14, <1>a DEF WriteFails, storageVars, Unseen
  <2>15. CASE FlushWrite
    BY <2>15, <1>a DEF FlushWrite, storageVars, TryToFlush, Unseen
  <2>16. CASE VerifySucceeds
    BY <2>16, <1>a DEF VerifySucceeds, storageVars, Unseen
  <2>17. CASE VerifyCannotRead
    BY <2>17, <1>a DEF VerifyCannotRead, storageVars, Unseen
  <2>18. CASE VerifyMismatch
    BY <2>18, <1>a DEF VerifyMismatch, storageVars, Unseen
  <2>19. CASE EndWrite
    <3>1. Settled' = [Settled EXCEPT ![cur] = nand[cur]]
      BY <2>19 DEF EndWrite, CloseJournal
    <3>2. nand[cur] \in Content
      BY <2>19 DEF EndWrite
    <3>3. Abstract!Update(cur)
      BY <2>19, <3>1, <3>2 DEF EndWrite, Abstract!Update, Abstract!Replace
    <3> QED
      BY <3>3, UpdateIsNext
  <2> QED
    BY <1>5, <2>1, <2>2, <2>3, <2>4, <2>5, <2>6, <2>7, <2>8, <2>9, <2>10, <2>11, <2>12, <2>13, <2>14, <2>15, <2>16, <2>17, <2>18, <2>19 DEF UpdateContainer
<1>6. CASE RestoreContainer
  <2>1. CASE LoadBackup
    BY <2>1, <1>a DEF LoadBackup, storageVars, Loadable, Unseen
  <2>2. CASE StartRestore
    BY <2>2, <1>a DEF StartRestore, storageVars, Unseen
  <2>3. CASE CompleteRestore
    BY <2>3, <1>a DEF CompleteRestore, storageVars, Unseen
  <2>4. CASE FlushRestore
    BY <2>4, <1>a DEF FlushRestore, storageVars, TryToFlush, AfterRestore, Unseen
  <2>5. CASE RestoreFails
    BY <2>5, <1>a DEF RestoreFails, storageVars, AfterRestore, Loadable, Unseen
  <2> QED
    BY <1>6, <2>1, <2>2, <2>3, <2>4, <2>5 DEF RestoreContainer
<1>7. CASE Outside /\ UNCHANGED pipelineVars
  <2>1. CASE RequestStop
    BY <1>7, <2>1, <1>a DEF RequestStop, pipelineVars, storageVars, Unseen
  <2>2. CASE ProcessEnds \/ Boot
    BY <1>7, <2>2 DEF ProcessEnds, Boot, storageVars, Abstract!Next, Abstract!StartOrCut
  <2>3. CASE PowerLoss
    BY <1>7, <2>3, PowerLossKeeps DEF PowerLoss, Abstract!Next, Abstract!StartOrCut
  <2> QED
    BY <1>7, <2>1, <2>2, <2>3 DEF Outside
<1>8. ASSUME NEW f \in Files, ChannelWrites(f)
      PROVE  [Abstract!Next]_(Abstract!vars)
  <2>1. CASE journal = f
    BY <1>8, <2>1, <1>a DEF ChannelWrites, pipelineVars, Unseen
  <2>2. CASE journal # f
    <3>1. PICK content \in Content : nand' = [nand EXCEPT ![f] = content]
      BY <1>8 DEF ChannelWrites
    <3>2. Settled' = [Settled EXCEPT ![f] = content]
      <4>1. journal' = journal /\ backup' = backup
        BY <1>8 DEF ChannelWrites
      <4>2. \A g \in Files : nand'[g] = IF g = f THEN content ELSE nand[g]
        BY <3>1
      <4> QED
        BY <2>2, <4>1, <4>2
    <3>3. (pc # "off")' = (pc # "off") /\ ~(pc # "off")
      BY <1>8 DEF ChannelWrites
    <3>4. Abstract!ChannelWrites(f)
      BY <3>2, <3>3 DEF Abstract!ChannelWrites, Abstract!Replace
    <3> QED
      BY <3>4 DEF Abstract!Next
  <2> QED
    BY <2>1, <2>2
<1>9. CASE UNCHANGED vars
  BY <1>9, <1>a DEF vars, recoveryVars, storageVars, pipelineVars, Unseen
<1> QED
  BY <1>1, <1>2, <1>3, <1>4, <1>5, <1>6, <1>7, <1>8, <1>9 DEF Next, JobStep

\* AtomicUpdate: with the masked faults, cuts included, the update of a container
\* is one step from a whole version to a whole version.
THEOREM UpdatesAreAtomic ==
    ASSUME FaultsAreMasked
    PROVE  Spec => AtomicUpdate
BY InvHolds, AtomicInit, AtomicNext, PTL DEF Spec, AtomicUpdate, Abstract!Spec

-----------------------------------------------------------------------------
(***************************************************************************)
(* The menu's tools beside the job.                                        *)
(***************************************************************************)

\* RunRestore has loaded a backup, whole or cut short, of the container it is at.
MenuTypes ==
    /\ TypeOK
    /\ tool \in {"none", "reading"} \cup Restoring
    /\ tool # "none" => pc # "off"
    /\ target \in Files
    /\ tool \in {"restoreBegin", "restoreWriting"} => bytes \in Content \cup {Torn}

\* What a container that nothing has spoiled can count on. It is torn only while
\* RunRestore writes it, or where the job has it in hand under a journal.
MenuHas(f) == ToolWrites /\ target = f

PuttingIn == {"writing", "restore", "restoreWrite", "restoring"}

TornIsInHand(f) ==
    nand[f] = Torn =>
        \/ MenuHas(f)
        \/ /\ journal = f
           /\ \/ pc \in {"idle", "off", "recover", "repair", "repairing"}
              \/ cur = f /\ pc \in PuttingIn

\* The journal names it only with a whole backup, and no backup is begun while it does.
JournalIsSound(f) ==
    /\ journal = f =>
           /\ backup[f] \in Content
           /\ pc \notin {"unmount", "gate"}
           /\ pc \in {"next"} \cup ContainerPoints => f \notin todo
    /\ cur = f /\ pc \in {"save", "saving", "build", "check", "openJournal", "journalling"} =>
           journal # f

\* The job works on whole versions of it.
AtHandIsSound(f) ==
    cur = f =>
        /\ pc \in ContainerPoints => original \in Content
        /\ pc \in BackedUp => backup[f] = original
        /\ pc \in {"check", "openJournal", "journalling", "write", "writing", "flush", "verify"} =>
               buffer \in Content
        /\ pc \in {"restoreWrite", "restoring"} => buffer = original
        /\ pc \in WritePoints => journal = f

RestoreIsSound(f) == MenuHas(f) => bytes \in Content

Sound(f) == TornIsInHand(f) /\ JournalIsSound(f) /\ AtHandIsSound(f) /\ RestoreIsSound(f)

\* What holds of the job whatever has been spoiled.
JobIsOrderly ==
    /\ NothingCached
    /\ mixed \subseteq spoiled
    /\ pc \in {"repair", "repairing", "repaired"} => journal = cur /\ buffer = backup[cur]
    /\ pc \in ContainerPoints => cur \notin todo

MenuInv ==
    /\ MenuTypes
    /\ JobIsOrderly
    /\ \A f \in Files : f \notin spoiled => Sound(f)

\* Nothing goes on yet.
LEMMA MenuInvInit == MenuInit => MenuInv
<1> SUFFICES ASSUME MenuInit PROVE MenuInv
  OBVIOUS
<1>1. TypeOK
  BY TypeCorrectInit DEF MenuInit
<1>2. MenuTypes
  BY <1>1 DEF MenuInit, Init, MenuTypes
<1>3. JobIsOrderly
  BY DEF MenuInit, Init, StorageInit, JobIsOrderly, NothingCached, ContainerPoints
<1>4. ASSUME NEW f \in Files PROVE Sound(f)
  BY <1>4, StorageAssumption
     DEF MenuInit, Init, StorageInit, Sound, TornIsInHand, JournalIsSound, AtHandIsSound,
         RestoreIsSound, MenuHas, ToolWrites, ContainerPoints, BackedUp, WritePoints
<1> QED
  BY <1>2, <1>3, <1>4 DEF MenuInv

\* Beside the tools the job does what it does without them, except where RunRestore's
\* chunks get among its own.
LEMMA JobBesideMenu == TheJob => MixesIn \/ JobStep
BY DEF TheJob, OnVolume, NoVolume, OffVolume, JobUnmounts, JobStep, Recover, RecoverIfNeeded,
       UpdateContainer, RestoreContainer

LEMMA OutsideBesideMenu == TheOutside => Next
BY DEF TheOutside, Next, Outside

\* The tools leave the job's variables alone, but for what RunRestore writes.
LEMMA MenuBesideJob ==
    TheMenu => \/ UNCHANGED vars
               \/ RestoreBegins
               \/ RestoreWrites
               \/ CloseTool
BY DEF TheMenu, RunScan, RunMailConfig, RunMailCheck, RunDumpMail, OnlyRead, RunRestore,
       SkipWithoutBackup, LoadForRestore, RestoreMisses

LEMMA MenuTypesNext == MenuTypes /\ [MenuNext]_menuVars => MenuTypes'
<1> SUFFICES ASSUME MenuTypes, [MenuNext]_menuVars PROVE MenuTypes'
  OBVIOUS
<1>1. TypeOK
  BY DEF MenuTypes
<1>2. ASSUME [Next]_vars PROVE TypeOK'
  BY <1>1, <1>2, TypeCorrectNext
<1>3. CASE TheJob
  <2>1. CASE JobStep
    <3>1. TypeOK'
      BY <1>2, <2>1 DEF Next
    <3>2. UNCHANGED toolVars /\ pc # "off" /\ pc' # "off"
      BY <1>3, <2>1
         DEF TheJob, JobStep, Recover, RecoverIfNeeded, UpdateContainer, RestoreContainer, Goto,
             NothingToRecover, DiscardJournal, CannotRecover, LoadRecovery, BeginRepair,
             FinishRepair, RepairFails, ForgetRepaired, UnmountRecovery,
             StopBeforePipeline, StartPipeline, NextContainer, SkipUnreadable, FinishPipeline,
             StartBackup, FinishBackup, BackupFails, BuildContainer, BuildFails,
             StopBeforeWrite, SkipUnchanged, DecideToWrite, CreateJournal, JournalFails,
             FillJournal, StartWrite, CompleteWrite, WriteFails, FlushWrite, VerifySucceeds,
             VerifyCannotRead, VerifyMismatch, EndWrite, LoadBackup, StartRestore,
             CompleteRestore, FlushRestore, RestoreFails, AfterRestore, EndJob
    <3> QED
      BY <3>1, <3>2 DEF MenuTypes, toolVars
  <2>2. CASE MixesIn
    BY <1>1, <1>3, <2>2
       DEF TheJob, MixesIn, MenuTypes, TypeOK, RecoveryTypeOK, StorageTypeOK, FinishWrite,
           ReachesFlash, Goto, Points, JobPoints, ContainerPoints, RecoveryPoints,
           pipelineVars, toolVars
  <2> QED
    BY <1>3, <2>1, <2>2, JobBesideMenu
<1>4. CASE TheMenu
  <2>1. CASE UNCHANGED vars
    <3>1. TypeOK'
      BY <1>2, <2>1
    <3> QED
      BY <1>1, <1>4, <2>1, <3>1
         DEF TheMenu, RunScan, RunMailConfig, RunMailCheck, RunDumpMail, OnlyRead, Open, RunRestore,
             SkipWithoutBackup, LoadForRestore, Loadable, RestoreBegins, RestoreWrites, RestoreMisses,
             CloseTool, MenuTypes, Restoring, vars, recoveryVars, storageVars,
             TypeOK, RecoveryTypeOK, StorageTypeOK
  <2>2. CASE RestoreBegins
    BY <1>1, <2>2
       DEF RestoreBegins, BeginWrite, ReachesFlash, MenuTypes, Restoring, TypeOK,
           RecoveryTypeOK, StorageTypeOK, pipelineVars
  <2>3. CASE RestoreWrites
    BY <1>1, <2>3
       DEF RestoreWrites, FinishWrite, ReachesFlash, MenuTypes, Restoring, TypeOK,
           RecoveryTypeOK, StorageTypeOK, pipelineVars
  <2>4. CASE CloseTool
    BY <1>1, <2>4
       DEF CloseTool, Unmount, FlushVolume, MenuTypes, Restoring, TypeOK,
           RecoveryTypeOK, StorageTypeOK, pipelineVars
  <2> QED
    BY <1>4, <2>1, <2>2, <2>3, <2>4, MenuBesideJob
<1>5. CASE TheOutside
  <2>1. TypeOK'
    BY <1>2, <1>5, OutsideBesideMenu
  <2> QED
    BY <1>5, <2>1
       DEF TheOutside, StartJob, RequestStop, ProcessEnds, PowerLoss, Boot, Goto, MenuTypes,
           Restoring, toolVars
<1>6. CASE UNCHANGED menuVars
  <2>1. TypeOK'
    BY <1>2, <1>6 DEF menuVars
  <2> QED
    BY <1>6, <2>1 DEF menuVars, toolVars, vars, recoveryVars, MenuTypes
<1> QED
  BY <1>3, <1>4, <1>5, <1>6 DEF MenuNext

\* The journal is written, read and removed when it is to be, and nothing is cached.
\* A write of a backup may fail.
JournalIsReliable ==
    Faults \cap {"sdLoad", "journalWrite", "journalRemove", "writeBack"} = {}

\* No step of the job, whatever has been spoiled, leaves anything cached, loses track of
\* what it is repairing or comes to a container twice.
LEMMA JobStaysOrderly ==
    ASSUME JournalIsReliable, TypeOK, JobIsOrderly, JobStep
    PROVE  /\ NothingCached'
           /\ (pc \in {"repair", "repairing", "repaired"} => journal = cur /\ buffer = backup[cur])'
           /\ (pc \in ContainerPoints => cur \notin todo)'
<1> USE StorageAssumption
     DEF JournalIsReliable, CanFail, TypeOK, RecoveryTypeOK, StorageTypeOK, JobIsOrderly,
         NothingCached, ContainerPoints, Goto, BeginWrite, FinishWrite, ReachesFlash, FlushVolume
<1>1. CASE Recover
  <2>1. CASE NothingToRecover
    BY <1>1, <2>1 DEF NothingToRecover, storageVars, Recover, pipelineVars
  <2>2. CASE DiscardJournal
    BY <1>1, <2>2 DEF DiscardJournal, storageVars, CloseJournal, Recover, pipelineVars
  <2>3. CASE CannotRecover
    BY <1>1, <2>3 DEF CannotRecover, storageVars, Loadable, Recover, pipelineVars
  <2>4. CASE LoadRecovery
    BY <1>1, <2>4 DEF LoadRecovery, storageVars, Loadable, Recover, pipelineVars
  <2>5. CASE BeginRepair
    BY <1>1, <2>5 DEF BeginRepair, storageVars, Recover, pipelineVars
  <2>6. CASE FinishRepair
    BY <1>1, <2>6 DEF FinishRepair, storageVars, Recover, pipelineVars
  <2>7. CASE RepairFails
    BY <1>1, <2>7 DEF RepairFails, storageVars, PutBackFails, Recover, pipelineVars
  <2>8. CASE ForgetRepaired
    BY <1>1, <2>8 DEF ForgetRepaired, storageVars, CloseJournal, Recover, pipelineVars
  <2>9. CASE UnmountRecovery
    BY <1>1, <2>9 DEF UnmountRecovery, storageVars, Recover, pipelineVars
  <2> QED
    BY <1>1, <2>1, <2>2, <2>3, <2>4, <2>5, <2>6, <2>7, <2>8, <2>9 DEF Recover, RecoverIfNeeded
<1>2. CASE StopBeforePipeline \/ StartPipeline \/ FinishPipeline \/ EndJob
  BY <1>2 DEF StopBeforePipeline, StartPipeline, FinishPipeline, EndJob, storageVars
<1>3. CASE \E g \in Files : NextContainer(g) \/ SkipUnreadable(g)
  BY <1>3 DEF NextContainer, SkipUnreadable, ReadsTorn, storageVars
<1>4. CASE UpdateContainer
  <2>1. CASE StartBackup
    BY <1>4, <2>1 DEF StartBackup, storageVars, BeginSave
  <2>2. CASE FinishBackup
    BY <1>4, <2>2 DEF FinishBackup, storageVars, FinishSave
  <2>3. CASE BackupFails
    BY <1>4, <2>3 DEF BackupFails, storageVars
  <2>4. CASE BuildContainer
    BY <1>4, <2>4 DEF BuildContainer, storageVars
  <2>5. CASE BuildFails
    BY <1>4, <2>5 DEF BuildFails, storageVars
  <2>6. CASE StopBeforeWrite
    BY <1>4, <2>6 DEF StopBeforeWrite, storageVars
  <2>7. CASE SkipUnchanged
    BY <1>4, <2>7 DEF SkipUnchanged, storageVars
  <2>8. CASE DecideToWrite
    BY <1>4, <2>8 DEF DecideToWrite, storageVars
  <2>9. CASE CreateJournal
    BY <1>4, <2>9 DEF CreateJournal, storageVars, TruncateJournal
  <2>10. CASE JournalFails
    BY <1>4, <2>10 DEF JournalFails, storageVars
  <2>11. CASE FillJournal
    BY <1>4, <2>11 DEF FillJournal, storageVars, WriteJournal
  <2>12. CASE StartWrite
    BY <1>4, <2>12 DEF StartWrite, storageVars
  <2>13. CASE CompleteWrite
    BY <1>4, <2>13 DEF CompleteWrite, storageVars
  <2>14. CASE WriteFails
    BY <1>4, <2>14 DEF WriteFails, storageVars
  <2>15. CASE FlushWrite
    BY <1>4, <2>15 DEF FlushWrite, storageVars, TryToFlush
  <2>16. CASE VerifySucceeds
    BY <1>4, <2>16 DEF VerifySucceeds, storageVars
  <2>17. CASE VerifyCannotRead
    BY <1>4, <2>17 DEF VerifyCannotRead, storageVars
  <2>18. CASE VerifyMismatch
    BY <1>4, <2>18 DEF VerifyMismatch, storageVars
  <2>19. CASE EndWrite
    BY <1>4, <2>19 DEF EndWrite, storageVars, CloseJournal
  <2> QED
    BY <1>4, <2>1, <2>2, <2>3, <2>4, <2>5, <2>6, <2>7, <2>8, <2>9, <2>10, <2>11, <2>12, <2>13, <2>14, <2>15, <2>16, <2>17, <2>18, <2>19 DEF UpdateContainer
<1>5. CASE RestoreContainer
  <2>1. CASE LoadBackup
    BY <1>5, <2>1 DEF LoadBackup, storageVars, Loadable
  <2>2. CASE StartRestore
    BY <1>5, <2>2 DEF StartRestore, storageVars
  <2>3. CASE CompleteRestore
    BY <1>5, <2>3 DEF CompleteRestore, storageVars
  <2>4. CASE FlushRestore
    BY <1>5, <2>4 DEF FlushRestore, storageVars, TryToFlush, AfterRestore
  <2>5. CASE RestoreFails
    BY <1>5, <2>5 DEF RestoreFails, storageVars, AfterRestore, Loadable, PutBackFails
  <2> QED
    BY <1>5, <2>1, <2>2, <2>3, <2>4, <2>5 DEF RestoreContainer
<1> QED
  BY <1>1, <1>2, <1>3, <1>4, <1>5 DEF JobStep

\* A step of the job keeps a container sound unless it reads it torn or fails to put
\* its backup back.
LEMMA JobKeepsSound ==
    ASSUME JournalIsReliable, TypeOK, TypeOK', JobIsOrderly, JobStep, UNCHANGED toolVars,
           NEW f \in Files, Sound(f), ~ReadsTorn(f), ~(cur = f /\ PutBackFails)
    PROVE  Sound(f)'
<1> USE StorageAssumption
     DEF JournalIsReliable, CanFail, TypeOK, RecoveryTypeOK, StorageTypeOK, JobIsOrderly,
         Sound, TornIsInHand, JournalIsSound, AtHandIsSound, RestoreIsSound, MenuHas, ToolWrites,
         toolVars, PuttingIn, BackedUp, WritePoints,
         NothingCached, ContainerPoints, Goto, BeginWrite, FinishWrite, ReachesFlash, FlushVolume
<1>1. CASE Recover
  <2>1. CASE NothingToRecover
    BY <1>1, <2>1 DEF NothingToRecover, storageVars, Recover, pipelineVars
  <2>2. CASE DiscardJournal
    BY <1>1, <2>2 DEF DiscardJournal, storageVars, CloseJournal, Recover, pipelineVars
  <2>3. CASE CannotRecover
    BY <1>1, <2>3 DEF CannotRecover, storageVars, Loadable, Recover, pipelineVars
  <2>4. CASE LoadRecovery
    BY <1>1, <2>4 DEF LoadRecovery, storageVars, Loadable, Recover, pipelineVars
  <2>5. CASE BeginRepair
    BY <1>1, <2>5 DEF BeginRepair, storageVars, Recover, pipelineVars
  <2>6. CASE FinishRepair
    BY <1>1, <2>6 DEF FinishRepair, storageVars, Recover, pipelineVars
  <2>7. CASE RepairFails
    BY <1>1, <2>7 DEF RepairFails, storageVars, PutBackFails, Recover, pipelineVars
  <2>8. CASE ForgetRepaired
    BY <1>1, <2>8 DEF ForgetRepaired, storageVars, CloseJournal, Recover, pipelineVars
  <2>9. CASE UnmountRecovery
    BY <1>1, <2>9 DEF UnmountRecovery, storageVars, Recover, pipelineVars
  <2> QED
    BY <1>1, <2>1, <2>2, <2>3, <2>4, <2>5, <2>6, <2>7, <2>8, <2>9 DEF Recover, RecoverIfNeeded
<1>2. CASE StopBeforePipeline \/ StartPipeline \/ FinishPipeline \/ EndJob
  BY <1>2 DEF StopBeforePipeline, StartPipeline, FinishPipeline, EndJob, storageVars
<1>3. CASE \E g \in Files : NextContainer(g) \/ SkipUnreadable(g)
  BY <1>3 DEF NextContainer, SkipUnreadable, ReadsTorn, storageVars
<1>4. CASE UpdateContainer
  <2>1. CASE StartBackup
    BY <1>4, <2>1 DEF StartBackup, storageVars, BeginSave
  <2>2. CASE FinishBackup
    BY <1>4, <2>2 DEF FinishBackup, storageVars, FinishSave
  <2>3. CASE BackupFails
    BY <1>4, <2>3 DEF BackupFails, storageVars
  <2>4. CASE BuildContainer
    BY <1>4, <2>4 DEF BuildContainer, storageVars
  <2>5. CASE BuildFails
    BY <1>4, <2>5 DEF BuildFails, storageVars
  <2>6. CASE StopBeforeWrite
    BY <1>4, <2>6 DEF StopBeforeWrite, storageVars
  <2>7. CASE SkipUnchanged
    BY <1>4, <2>7 DEF SkipUnchanged, storageVars
  <2>8. CASE DecideToWrite
    BY <1>4, <2>8 DEF DecideToWrite, storageVars
  <2>9. CASE CreateJournal
    BY <1>4, <2>9 DEF CreateJournal, storageVars, TruncateJournal
  <2>10. CASE JournalFails
    BY <1>4, <2>10 DEF JournalFails, storageVars
  <2>11. CASE FillJournal
    BY <1>4, <2>11 DEF FillJournal, storageVars, WriteJournal
  <2>12. CASE StartWrite
    BY <1>4, <2>12 DEF StartWrite, storageVars
  <2>13. CASE CompleteWrite
    BY <1>4, <2>13 DEF CompleteWrite, storageVars
  <2>14. CASE WriteFails
    BY <1>4, <2>14 DEF WriteFails, storageVars
  <2>15. CASE FlushWrite
    BY <1>4, <2>15 DEF FlushWrite, storageVars, TryToFlush
  <2>16. CASE VerifySucceeds
    BY <1>4, <2>16 DEF VerifySucceeds, storageVars
  <2>17. CASE VerifyCannotRead
    BY <1>4, <2>17 DEF VerifyCannotRead, storageVars
  <2>18. CASE VerifyMismatch
    BY <1>4, <2>18 DEF VerifyMismatch, storageVars
  <2>19. CASE EndWrite
    BY <1>4, <2>19 DEF EndWrite, storageVars, CloseJournal
  <2> QED
    BY <1>4, <2>1, <2>2, <2>3, <2>4, <2>5, <2>6, <2>7, <2>8, <2>9, <2>10, <2>11, <2>12, <2>13, <2>14, <2>15, <2>16, <2>17, <2>18, <2>19 DEF UpdateContainer
<1>5. CASE RestoreContainer
  <2>1. CASE LoadBackup
    BY <1>5, <2>1 DEF LoadBackup, storageVars, Loadable
  <2>2. CASE StartRestore
    BY <1>5, <2>2 DEF StartRestore, storageVars
  <2>3. CASE CompleteRestore
    BY <1>5, <2>3 DEF CompleteRestore, storageVars
  <2>4. CASE FlushRestore
    BY <1>5, <2>4 DEF FlushRestore, storageVars, TryToFlush, AfterRestore
  <2>5. CASE RestoreFails
    BY <1>5, <2>5 DEF RestoreFails, storageVars, AfterRestore, Loadable, PutBackFails
  <2> QED
    BY <1>5, <2>1, <2>2, <2>3, <2>4, <2>5 DEF RestoreContainer
<1> QED
  BY <1>1, <1>2, <1>3, <1>4, <1>5 DEF JobStep

\* Where the chunks of both get into a container it counts as spoiled; no other is touched.
LEMMA MixingKeepsSound ==
    ASSUME JournalIsReliable, TypeOK, JobIsOrderly, MixesIn, UNCHANGED toolVars,
           NEW f \in Files, f \notin spoiled, Sound(f)
    PROVE  Sound(f)'
<1>1. cur # f
  BY DEF MixesIn, JobIsOrderly
<1> QED
  BY <1>1
     DEF MixesIn, JobIsOrderly, FinishWrite, Goto, TypeOK, RecoveryTypeOK, StorageTypeOK, toolVars,
         pipelineVars,
         Sound, TornIsInHand, JournalIsSound, AtHandIsSound, RestoreIsSound, MenuHas, ToolWrites,
         PuttingIn, ContainerPoints

\* What the tools do keeps a container sound unless it leaves it torn.
LEMMA MenuKeepsSound ==
    ASSUME JournalIsReliable, MenuTypes, JobIsOrderly, TheMenu,
           NEW f \in Files, Sound(f), ~(target = f /\ (RestoreIsCut \/ RestoresTorn)), f \notin mixed
    PROVE  Sound(f)'
<1> USE DEF Sound, MenuHas, ToolWrites
<1>1. CASE RestoreBegins
  <2>1. target = f => bytes \in Content
    BY <1>1 DEF RestoresTorn, RestoreBegins, MenuTypes
  <2> QED
    BY <1>1, <2>1
       DEF RestoreBegins, BeginWrite, pipelineVars, MenuTypes, TypeOK, RecoveryTypeOK,
           StorageTypeOK, TornIsInHand, JournalIsSound, AtHandIsSound, RestoreIsSound
<1>2. CASE RestoreWrites
  <2>1. target = f => nand'[f] \in Content
    BY <1>2
       DEF RestoreWrites, FinishWrite, MenuTypes, TypeOK, RecoveryTypeOK, StorageTypeOK,
           RestoreIsSound
  <2>2. target # f => nand'[f] = nand[f]
    BY <1>2 DEF RestoreWrites, FinishWrite, MenuTypes, TypeOK, RecoveryTypeOK, StorageTypeOK
  <2> QED
    BY <1>2, <2>1, <2>2, StorageAssumption
       DEF RestoreWrites, pipelineVars, TornIsInHand, JournalIsSound, AtHandIsSound, RestoreIsSound
<1>3. CASE CloseTool
  BY <1>3
     DEF CloseTool, pipelineVars, TornIsInHand, JournalIsSound, AtHandIsSound, RestoreIsSound
<1>4. CASE UNCHANGED vars /\ ~RestoreBegins /\ ~RestoreWrites /\ ~CloseTool
  <2>1. /\ MenuHas(f)' => MenuHas(f)
        /\ MenuHas(f) /\ ~MenuHas(f)' => RestoreIsCut /\ target = f
        /\ MenuHas(f)' => bytes' = bytes
    BY <1>4
       DEF TheMenu, RunScan, RunMailConfig, RunMailCheck, RunDumpMail, OnlyRead, Open, RunRestore,
           SkipWithoutBackup, LoadForRestore, RestoreMisses, RestoreIsCut
  <2> QED
    BY <1>4, <2>1
       DEF vars, recoveryVars, storageVars, pipelineVars, TornIsInHand, JournalIsSound,
           AtHandIsSound, RestoreIsSound
<1> QED
  BY <1>1, <1>2, <1>3, <1>4, MenuBesideJob

\* A cut, a start and a stop request keep it sound unless RunRestore is cut off in it.
LEMMA OutsideKeepsSound ==
    ASSUME TypeOK, JobIsOrderly, TheOutside,
           NEW f \in Files, Sound(f), ~(target = f /\ RestoreIsCut)
    PROVE  Sound(f)'
<1> USE DEF Sound, MenuHas, ToolWrites, TornIsInHand, JournalIsSound, AtHandIsSound, RestoreIsSound,
            Goto, ContainerPoints, BackedUp, WritePoints, PuttingIn, pipelineVars, storageVars, toolVars
<1>1. CASE StartJob
  BY <1>1 DEF TheOutside, StartJob, RequestStop, ProcessEnds, PowerLoss, Boot
<1>2. CASE RequestStop
  BY <1>2 DEF TheOutside, StartJob, RequestStop, ProcessEnds, PowerLoss, Boot
<1>3. CASE ProcessEnds \/ PowerLoss
  <2>1. nand' = nand /\ pc' = "off" /\ UNCHANGED <<backup, journal, cur, todo, original, buffer, target>>
    BY <1>3, PowerLossKeeps DEF TheOutside, ProcessEnds, PowerLoss, StartJob, RequestStop, Boot, JobIsOrderly
  <2>2. tool' = "none"
    BY <1>3 DEF TheOutside, ProcessEnds, PowerLoss, StartJob, RequestStop, Boot
  <2> QED
    BY <2>1, <2>2 DEF RestoreIsCut
<1>4. CASE Boot
  BY <1>4 DEF TheOutside, StartJob, RequestStop, ProcessEnds, PowerLoss, Boot
<1> QED
  BY <1>1, <1>2, <1>3, <1>4 DEF TheOutside

\* The job's order of things under the steps of the others.
LEMMA OthersKeepOrder ==
    ASSUME JournalIsReliable, MenuTypes, JobIsOrderly, TheMenu \/ TheOutside \/ MixesIn
    PROVE  /\ NothingCached'
           /\ (pc \in {"repair", "repairing", "repaired"} => journal = cur /\ buffer = backup[cur])'
           /\ (pc \in ContainerPoints => cur \notin todo)'
<1> USE DEF JobIsOrderly, NothingCached, ContainerPoints, Goto
<1>1. CASE TheMenu
  <2>1. UNCHANGED <<pc, journal, cur, buffer, backup, todo>>
    BY <1>1, MenuBesideJob
       DEF vars, recoveryVars, storageVars, pipelineVars, RestoreBegins, RestoreWrites, CloseTool
  <2>2. NothingCached'
    BY <1>1, MenuBesideJob
       DEF vars, recoveryVars, storageVars, RestoreBegins, RestoreWrites, CloseTool, BeginWrite,
           FinishWrite, ReachesFlash, Unmount, FlushVolume, JournalIsReliable, CanFail
  <2> QED
    BY <2>1, <2>2
<1>2. CASE TheOutside
  BY <1>2 DEF TheOutside, StartJob, RequestStop, ProcessEnds, PowerLoss, Boot, storageVars, pipelineVars
<1>3. CASE MixesIn
  BY <1>3 DEF MixesIn, FinishWrite, ReachesFlash, JournalIsReliable, CanFail, pipelineVars
<1> QED
  BY <1>1, <1>2, <1>3

\* A container put back whole while the job is elsewhere can be counted on again.
LEMMA HealingMakesSound ==
    ASSUME MenuTypes, NEW f \in Files, Heals(f)
    PROVE  Sound(f)'
BY StorageAssumption
   DEF Heals, RestoreWrites, pipelineVars, MenuTypes, TypeOK, JobHolds, JobPoints, Points,
       Sound, TornIsInHand, JournalIsSound, AtHandIsSound, RestoreIsSound, MenuHas, ToolWrites,
       BackedUp, WritePoints, ContainerPoints, RecoveryPoints

LEMMA MenuInvNext == JournalIsReliable /\ MenuInv /\ [MenuNext]_menuVars => MenuInv'
<1> SUFFICES ASSUME JournalIsReliable, MenuInv, [MenuNext]_menuVars PROVE MenuInv'
  OBVIOUS
<1>1. MenuTypes'
  BY MenuTypesNext DEF MenuInv
<1>2. TypeOK /\ TypeOK' /\ MenuTypes /\ JobIsOrderly
  BY <1>1 DEF MenuInv, MenuTypes
<1>3. CASE MenuNext
  <2>1. Track
    BY <1>3 DEF MenuNext
  <2>2. mixed' \subseteq spoiled'
    BY <2>1 DEF Track, Spoils
  <2>3. JobIsOrderly'
    BY <1>2, <1>3, <2>2, JobBesideMenu, JobStaysOrderly, OthersKeepOrder DEF MenuNext, JobIsOrderly
  <2>4. ASSUME NEW f \in Files, f \notin spoiled' PROVE Sound(f)'
    <3>1. ~Spoils(f) /\ (f \notin spoiled \/ Heals(f))
      BY <2>1, <2>4 DEF Track
    <3>2. CASE Heals(f)
      BY <1>2, <3>2, HealingMakesSound
    <3>3. CASE f \notin spoiled
      <4>1. Sound(f) /\ f \notin mixed
        BY <3>3, <1>2 DEF MenuInv, JobIsOrderly
      <4>2. CASE TheJob
        <5>1. UNCHANGED toolVars
          BY <4>2 DEF TheJob
        <5>2. ~ReadsTorn(f) /\ ~(cur = f /\ PutBackFails)
          BY <3>1 DEF Spoils
        <5> QED
          BY <1>2, <3>3, <4>1, <4>2, <5>1, <5>2, JobBesideMenu, JobKeepsSound, MixingKeepsSound
      <4>3. CASE TheMenu
        <5>1. ~(target = f /\ (RestoreIsCut \/ RestoresTorn))
          BY <3>1 DEF Spoils
        <5> QED
          BY <1>2, <4>1, <4>3, <5>1, MenuKeepsSound
      <4>4. CASE TheOutside
        <5>1. ~(target = f /\ RestoreIsCut)
          BY <3>1 DEF Spoils
        <5> QED
          BY <1>2, <4>1, <4>4, <5>1, OutsideKeepsSound
      <4> QED
        BY <1>3, <4>2, <4>3, <4>4 DEF MenuNext
    <3> QED
      BY <3>1, <3>2, <3>3
  <2> QED
    BY <1>1, <2>3, <2>4 DEF MenuInv
<1>4. CASE UNCHANGED menuVars
  BY <1>1, <1>4
     DEF menuVars, toolVars, vars, recoveryVars, storageVars, pipelineVars, MenuInv, JobIsOrderly,
         NothingCached, Sound, TornIsInHand, JournalIsSound, AtHandIsSound, RestoreIsSound,
         MenuHas, ToolWrites
<1> QED
  BY <1>3, <1>4

\* OnlySpoiledIsLost: with the job and the tools running beside each other, and any call
\* of the job failing for want of the volume, a container is torn only while RunRestore
\* writes it or under a journal with a whole backup, unless one of the four things of
\* Spoils happened to it. The journal is written, read and removed when it is to be.
THEOREM OnlySpoiledContainersAreLost ==
    ASSUME JournalIsReliable
    PROVE  MenuSpec => []OnlySpoiledIsLost
<1>1. MenuInv => OnlySpoiledIsLost
  <2> SUFFICES ASSUME MenuInv, NEW f \in Files, f \notin spoiled, AtRisk(f)
               PROVE  \/ journal = f /\ backup[f] \in Content
                      \/ ToolWrites /\ target = f /\ bytes \in Content
    BY DEF OnlySpoiledIsLost
  <2>1. nand[f] = Torn
    BY DEF MenuInv, JobIsOrderly, NothingCached, AtRisk, AfterPowerLoss
  <2>2. Sound(f)
    BY DEF MenuInv
  <2> QED
    BY <2>1, <2>2 DEF Sound, TornIsInHand, JournalIsSound, RestoreIsSound, MenuHas
<1> QED
  BY <1>1, MenuInvInit, MenuInvNext, PTL DEF MenuSpec
=============================================================================
