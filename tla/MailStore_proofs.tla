-------------------------- MODULE MailStore_proofs --------------------------
(***************************************************************************)
(* What Inbox and Outbox rest on: the part of their inductive invariants   *)
(* that is about the two files, their backups and the journal, and that    *)
(* the steps they share keep it. The modules that EXTEND this one add what *)
(* their own steps keep, and their theorems.                               *)
(***************************************************************************)
EXTENDS MailStore, TLAPS

\* A whole version of one of the two files.
Version(f) == IF f = Mbx THEN Mailboxes ELSE Indexes

\* The points at which a job is making one of its two writes.
WritePoints ==
    {"openJournal", "journalling", "write", "writing", "flush", "closeJournal"}

\* Each file holds its own kind of version, and so do its backup and, where it is
\* going to be written somewhere, the buffer.
BoxTypes ==
    /\ \A f \in Files :
          /\ nand[f] \in Version(f) \cup {Torn}
          /\ flash[f] \in Version(f) \cup {Torn}
          /\ backup[f] \in Version(f) \cup {Torn, NoFile}
    /\ pc \in WritePoints \cup {"saving", "repair", "repairing"}
          => buffer \in Version(cur) \cup {Torn}

\* A version is neither of the marks, and the marks of the journal are no files.
LEMMA Marks ==
    /\ Files = {Mbx, Ctl} /\ Mbx # Ctl
    /\ NoJournal \notin Files /\ Unreadable \notin Files /\ Unreadable # NoJournal
    /\ NoFile # Torn
    /\ \A f \in Files : Torn \notin Version(f) /\ NoFile \notin Version(f) /\ Version(f) \subseteq Content
BY StorageAssumption, MailStoreAssumption DEF Version

-----------------------------------------------------------------------------
(***************************************************************************)
(* Types, whatever fails.                                                  *)
(***************************************************************************)

\* An empty box is whole, and with no backup there is nothing to recover.
LEMMA MailTypesInit == MailStoreInit => MailStoreTypeOK /\ BoxTypes
<1> SUFFICES ASSUME MailStoreInit PROVE MailStoreTypeOK /\ BoxTypes
  OBVIOUS
<1>1. [holds |-> [s \in Slots |-> NoMessage]] \in Mailboxes
  BY DEF Mailboxes
<1>2. [used |-> {}, next |-> 0] \in Indexes
  BY MailStoreAssumption DEF Indexes
<1>3. \A f \in Files : nand[f] \in Version(f)
  BY <1>1, <1>2, Marks DEF MailStoreInit, EmptyBox, Version
<1>4. nand = [f \in Files |-> nand[f]]
  BY DEF MailStoreInit, EmptyBox
<1>5. nand[Ctl] \in Indexes
  BY <1>3, Marks DEF Version
<1> QED
  BY <1>3, <1>4, <1>5, Marks
     DEF MailStoreInit, MailStoreTypeOK, RecoveryTypeOK, StorageTypeOK, BoxTypes, WritePoints

\* No step they share puts one file's bytes into the other.
LEMMA MailTypesNext ==
    ASSUME MailStoreTypeOK, BoxTypes, MailStep \/ MailOutside
    PROVE  MailStoreTypeOK' /\ BoxTypes'
<1> USE Marks
     DEF MailStoreTypeOK, RecoveryTypeOK, StorageTypeOK, BoxTypes, WritePoints, Goto,
         BeginWrite, FinishWrite, ReachesFlash, FlushVolume, mailVars, storageVars
<1>1. CASE NothingToRecover /\ UNCHANGED mailVars
  BY <1>1 DEF NothingToRecover
<1>2. CASE DiscardJournal /\ UNCHANGED mailVars
  BY <1>2 DEF DiscardJournal, CloseJournal
<1>3. CASE CannotRecover /\ UNCHANGED mailVars
  BY <1>3 DEF CannotRecover
<1>4. CASE LoadRecovery /\ UNCHANGED mailVars
  BY <1>4 DEF LoadRecovery, Loadable
<1>5. CASE BeginRepair /\ UNCHANGED mailVars
  BY <1>5 DEF BeginRepair
<1>6. CASE FinishRepair /\ UNCHANGED mailVars
  BY <1>6 DEF FinishRepair
<1>7. CASE RepairFails /\ UNCHANGED mailVars
  BY <1>7 DEF RepairFails
<1>8. CASE ForgetRepaired /\ UNCHANGED mailVars
  BY <1>8 DEF ForgetRepaired, CloseJournal
<1>9. CASE UnmountRecovery /\ UNCHANGED mailVars
  BY <1>9 DEF UnmountRecovery
<1>10. CASE StartBackup
  BY <1>10 DEF StartBackup, BeginSave
<1>11. CASE FinishBackup
  BY <1>11 DEF FinishBackup, FinishSave
<1>12. CASE BackupFails
  BY <1>12 DEF BackupFails
<1>13. CASE CreateJournal
  BY <1>13 DEF CreateJournal, TruncateJournal
<1>14. CASE JournalFails
  BY <1>14 DEF JournalFails
<1>15. CASE FillJournal
  BY <1>15 DEF FillJournal, WriteJournal
<1>16. CASE StartWrite
  BY <1>16 DEF StartWrite
<1>17. CASE CompleteWrite
  BY <1>17 DEF CompleteWrite
<1>18. CASE WriteFails
  BY <1>18 DEF WriteFails
<1>19. CASE FlushWrite
  BY <1>19 DEF FlushWrite, TryToFlush
<1>20. CASE EndWrite
  BY <1>20 DEF EndWrite, CloseJournal, Version
<1>21. CASE Leave \/ EndJob
  BY <1>21 DEF Leave, EndJob
<1>22. CASE (StartJob \/ RequestStop \/ ProcessEnds \/ Boot) /\ UNCHANGED mailVars
  BY <1>22 DEF StartJob, RequestStop, ProcessEnds, Boot
<1>23. CASE PowerLoss /\ UNCHANGED mailVars
  <2>1. \A f \in Files : AfterPowerLoss(f) \subseteq Version(f) \cup {Torn}
    BY DEF AfterPowerLoss
  <2>2. /\ nand' \in [Files -> UNION {AfterPowerLoss(f) : f \in Files}]
        /\ \A f \in Files : nand'[f] \in AfterPowerLoss(f)
    BY <1>23 DEF PowerLoss
  <2>3. nand' \in [Files -> Content \cup {Torn}]
    BY <2>1, <2>2
  <2> QED
    BY <1>23, <2>1, <2>2, <2>3 DEF PowerLoss
<1> QED
  BY <1>1, <1>2, <1>3, <1>4, <1>5, <1>6, <1>7, <1>8, <1>9, <1>10, <1>11, <1>12, <1>13,
     <1>14, <1>15, <1>16, <1>17, <1>18, <1>19, <1>20, <1>21, <1>22, <1>23
     DEF MailStep, MailOutside, RecoverIfNeeded, BackUpBox, WriteBox, Outside

\* A change is made up by the fetch or by the sending, never by the steps they share.
LEMMA WritePointsNext ==
    ASSUME MailStep \/ MailOutside, pc' \in WritePoints \cup {"stored"}
    PROVE  pc \in WritePoints \cup {"stored"}
BY DEF MailStep, MailOutside, WritePoints, Goto,
       RecoverIfNeeded, NothingToRecover, DiscardJournal, CannotRecover, LoadRecovery,
       BeginRepair, FinishRepair, RepairFails, ForgetRepaired, UnmountRecovery,
       BackUpBox, StartBackup, FinishBackup, BackupFails,
       WriteBox, CreateJournal, JournalFails, FillJournal, StartWrite, CompleteWrite,
       WriteFails, FlushWrite, EndWrite, Leave, EndJob,
       StartJob, Outside, RequestStop, ProcessEnds, PowerLoss, Boot

LEMMA MailPointsNext ==
    ASSUME MailStep \/ MailOutside, pc' \notin MailPoints
    PROVE  UNCHANGED <<storageVars, pc>>
BY DEF MailStep, MailOutside, MailPoints, RecoveryPoints, Goto,
       RecoverIfNeeded, NothingToRecover, DiscardJournal, CannotRecover, LoadRecovery,
       BeginRepair, FinishRepair, RepairFails, ForgetRepaired, UnmountRecovery,
       BackUpBox, StartBackup, FinishBackup, BackupFails,
       WriteBox, CreateJournal, JournalFails, FillJournal, StartWrite, CompleteWrite,
       WriteFails, FlushWrite, EndWrite, Leave, EndJob,
       StartJob, Outside, RequestStop, ProcessEnds, PowerLoss, Boot

\* The steps they share copy mailboxes about and make up none: if all that are about are
\* in some set, they stay in it.
MailboxesIn(set) ==
    /\ nand[Mbx] \in set \cup {Torn}
    /\ flash[Mbx] \in set \cup {Torn}
    /\ backup[Mbx] \in set \cup {Torn, NoFile}
    /\ pc \in WritePoints \cup {"saving", "repair", "repairing"} /\ cur = Mbx
          => buffer \in set \cup {Torn}

LEMMA MailboxesInNext ==
    ASSUME NEW set, MailStoreTypeOK, MailboxesIn(set), MailStep \/ MailOutside
    PROVE  MailboxesIn(set)'
<1> USE Marks
     DEF MailStoreTypeOK, RecoveryTypeOK, StorageTypeOK, MailboxesIn, WritePoints, Goto,
         BeginWrite, FinishWrite, ReachesFlash, FlushVolume, mailVars, storageVars
<1>1. CASE NothingToRecover /\ UNCHANGED mailVars
  BY <1>1 DEF NothingToRecover
<1>2. CASE DiscardJournal /\ UNCHANGED mailVars
  BY <1>2 DEF DiscardJournal, CloseJournal
<1>3. CASE CannotRecover /\ UNCHANGED mailVars
  BY <1>3 DEF CannotRecover
<1>4. CASE LoadRecovery /\ UNCHANGED mailVars
  BY <1>4 DEF LoadRecovery, Loadable
<1>5. CASE BeginRepair /\ UNCHANGED mailVars
  BY <1>5 DEF BeginRepair
<1>6. CASE FinishRepair /\ UNCHANGED mailVars
  BY <1>6 DEF FinishRepair
<1>7. CASE RepairFails /\ UNCHANGED mailVars
  BY <1>7 DEF RepairFails
<1>8. CASE ForgetRepaired /\ UNCHANGED mailVars
  BY <1>8 DEF ForgetRepaired, CloseJournal
<1>9. CASE UnmountRecovery /\ UNCHANGED mailVars
  BY <1>9 DEF UnmountRecovery
<1>10. CASE StartBackup
  BY <1>10 DEF StartBackup, BeginSave
<1>11. CASE FinishBackup
  BY <1>11 DEF FinishBackup, FinishSave
<1>12. CASE BackupFails
  BY <1>12 DEF BackupFails
<1>13. CASE CreateJournal
  BY <1>13 DEF CreateJournal, TruncateJournal
<1>14. CASE JournalFails
  BY <1>14 DEF JournalFails
<1>15. CASE FillJournal
  BY <1>15 DEF FillJournal, WriteJournal
<1>16. CASE StartWrite
  BY <1>16 DEF StartWrite
<1>17. CASE CompleteWrite
  BY <1>17 DEF CompleteWrite
<1>18. CASE WriteFails
  BY <1>18 DEF WriteFails
<1>19. CASE FlushWrite
  BY <1>19 DEF FlushWrite, TryToFlush
<1>20. CASE EndWrite
  BY <1>20 DEF EndWrite, CloseJournal
<1>21. CASE Leave \/ EndJob
  BY <1>21 DEF Leave, EndJob
<1>22. CASE (StartJob \/ RequestStop \/ ProcessEnds \/ Boot) /\ UNCHANGED mailVars
  BY <1>22 DEF StartJob, RequestStop, ProcessEnds, Boot
<1>23. CASE PowerLoss /\ UNCHANGED mailVars
  BY <1>23 DEF PowerLoss, AfterPowerLoss
<1> HIDE DEF MailboxesIn
<1> QED
  BY <1>1, <1>2, <1>3, <1>4, <1>5, <1>6, <1>7, <1>8, <1>9, <1>10, <1>11, <1>12, <1>13,
     <1>14, <1>15, <1>16, <1>17, <1>18, <1>19, <1>20, <1>21, <1>22, <1>23
     DEF MailStep, MailOutside, RecoverIfNeeded, BackUpBox, WriteBox, Outside

\* While the box is backed up it stays as it was read.
LEMMA BackupPointsNext ==
    ASSUME MailStep \/ MailOutside, pc' \in {"save", "saving", "transfer"}
    PROVE  pc \in {"save", "saving", "transfer"} /\ nand' = nand
BY DEF storageVars, MailStep, MailOutside, Goto,
       RecoverIfNeeded, NothingToRecover, DiscardJournal, CannotRecover, LoadRecovery,
       BeginRepair, FinishRepair, RepairFails, ForgetRepaired, UnmountRecovery,
       BackUpBox, StartBackup, FinishBackup, BackupFails,
       WriteBox, CreateJournal, JournalFails, FillJournal, StartWrite, CompleteWrite,
       WriteFails, FlushWrite, EndWrite, Leave, EndJob,
       StartJob, Outside, RequestStop, ProcessEnds, PowerLoss, Boot

-----------------------------------------------------------------------------
(***************************************************************************)
(* What the journal and the backups are good for. The faults they cannot   *)
(* mask are excluded: the runs beside these show the first of them, a      *)
(* failing write, to be harmful.                                           *)
(***************************************************************************)

\* No write of the box or of a backup fails, no backup is unreadable, the journal's
\* lines get written, and the volume does not hold back what was written.
FaultsAreMasked ==
    Faults \cap {"nandWrite", "restoreWrite", "sdLoad", "journalWrite", "journalRemove",
                 "writeBack"} = {}

\* Where the job may be with a journal on the card: none is left past the recovery
\* but the one of the write at hand.
JournalAtPoint ==
    /\ pc \in {"repair", "repairing", "repaired", "write", "writing", "flush", "closeJournal"}
          => journal = cur
    /\ pc = "journalling" => journal = Unreadable
    /\ pc \notin {"off", "idle", "recover", "repair", "repairing", "repaired", "journalling",
                  "write", "writing", "flush", "closeJournal"}
          => journal = NoJournal

\* A journal never names a file without a whole backup.
JournalIsBacked == \A f \in Files : journal = f => backup[f] \in Version(f)

\* A torn file is the one that is being written, or was when the job was cut off.
TornIsNamed ==
    \A f \in Files : nand[f] = Torn =>
        journal = f /\ pc \in {"off", "idle", "recover", "repair", "repairing", "writing"}

\* A recovery has the backup in its buffer, and on the NAND once it has finished.
RepairsFromBackup ==
    /\ pc \in {"repair", "repairing", "repaired"} => buffer = backup[cur]
    /\ pc = "repaired" => nand[cur] = buffer

\* A file is backed up as it is, index first, and both are before any is written.
CopiedPoints == WritePoints \cup {"transfer", "copy", "deliver", "clear", "stored"}

BackedUpFirst ==
    /\ pc = "saving" => buffer = nand[cur]
    /\ pc \in {"save", "saving"} /\ cur = Mbx => backup[Ctl] \in Version(Ctl)
    /\ pc \in CopiedPoints => \A f \in Files : backup[f] \in Version(f)

\* Whole versions only are written.
WritesVersions ==
    /\ pc \in {"openJournal", "journalling", "write", "writing"} => buffer \in Version(cur)
    /\ pc \in WritePoints => newIndex \in Indexes

Recoverable ==
    /\ flash = nand
    /\ JournalAtPoint
    /\ JournalIsBacked
    /\ TornIsNamed
    /\ RepairsFromBackup
    /\ BackedUpFirst
    /\ WritesVersions

\* An empty box with no journal is not at risk.
LEMMA RecoverableInit == MailStoreInit => Recoverable
<1> SUFFICES ASSUME MailStoreInit PROVE Recoverable
  OBVIOUS
<1>1. \A f \in Files : nand[f] # Torn
  <2>1. [holds |-> [s \in Slots |-> NoMessage]] \in Mailboxes
    BY DEF Mailboxes
  <2>2. [used |-> {}, next |-> 0] \in Indexes
    BY MailStoreAssumption DEF Indexes
  <2>3. \A f \in Files : nand[f] \in Version(f)
    BY <2>1, <2>2, Marks DEF MailStoreInit, EmptyBox, Version
  <2> QED
    BY <2>3, Marks
<1> QED
  BY <1>1, Marks
     DEF MailStoreInit, Recoverable, JournalAtPoint, JournalIsBacked, TornIsNamed,
         RepairsFromBackup, BackedUpFirst, CopiedPoints, WritesVersions, WritePoints

\* A cut leaves a torn file only if the journal names it, and no later step takes the
\* journal or the backup away before the file is whole again.
LEMMA RecoverableNext ==
    ASSUME FaultsAreMasked, MailStoreTypeOK, BoxTypes, Recoverable, MailStep \/ MailOutside
    PROVE  Recoverable'
<1> USE Marks
     DEF MailStoreTypeOK, RecoveryTypeOK, StorageTypeOK, BoxTypes, WritePoints,
         FaultsAreMasked, CanFail, Recoverable, JournalAtPoint, JournalIsBacked, TornIsNamed,
         RepairsFromBackup, BackedUpFirst, CopiedPoints, WritesVersions, Goto,
         BeginWrite, FinishWrite, ReachesFlash, FlushVolume, mailVars, storageVars
<1>1. CASE NothingToRecover /\ UNCHANGED mailVars
  BY <1>1 DEF NothingToRecover
<1>2. CASE DiscardJournal /\ UNCHANGED mailVars
  BY <1>2 DEF DiscardJournal, CloseJournal
<1>3. CASE CannotRecover /\ UNCHANGED mailVars
  BY <1>3 DEF CannotRecover, Loadable
<1>4. CASE LoadRecovery /\ UNCHANGED mailVars
  BY <1>4 DEF LoadRecovery, Loadable
<1>5. CASE BeginRepair /\ UNCHANGED mailVars
  BY <1>5 DEF BeginRepair
<1>6. CASE FinishRepair /\ UNCHANGED mailVars
  BY <1>6 DEF FinishRepair
<1>7. CASE RepairFails /\ UNCHANGED mailVars
  BY <1>7 DEF RepairFails
<1>8. CASE ForgetRepaired /\ UNCHANGED mailVars
  BY <1>8 DEF ForgetRepaired, CloseJournal
<1>9. CASE UnmountRecovery /\ UNCHANGED mailVars
  BY <1>9 DEF UnmountRecovery
<1>10. CASE StartBackup
  BY <1>10 DEF StartBackup, BeginSave
<1>11. CASE FinishBackup
  BY <1>11 DEF FinishBackup, FinishSave
<1>12. CASE BackupFails
  BY <1>12 DEF BackupFails
<1>13. CASE CreateJournal
  BY <1>13 DEF CreateJournal, TruncateJournal
<1>14. CASE JournalFails
  BY <1>14 DEF JournalFails
<1>15. CASE FillJournal
  BY <1>15 DEF FillJournal, WriteJournal
<1>16. CASE StartWrite
  BY <1>16 DEF StartWrite
<1>17. CASE CompleteWrite
  BY <1>17 DEF CompleteWrite
<1>18. CASE WriteFails
  BY <1>18 DEF WriteFails
<1>19. CASE FlushWrite
  BY <1>19 DEF FlushWrite, TryToFlush
<1>20. CASE EndWrite
  BY <1>20 DEF EndWrite, CloseJournal, Version
<1>21. CASE Leave \/ EndJob
  BY <1>21 DEF Leave, EndJob
<1>22. CASE (StartJob \/ RequestStop \/ ProcessEnds \/ Boot) /\ UNCHANGED mailVars
  BY <1>22 DEF StartJob, RequestStop, ProcessEnds, Boot
<1>23. CASE PowerLoss /\ UNCHANGED mailVars
  <2>1. nand' = nand
    BY <1>23 DEF PowerLoss, AfterPowerLoss
  <2> QED
    BY <1>23, <2>1 DEF PowerLoss
<1> HIDE DEF Recoverable
<1> QED
  BY <1>1, <1>2, <1>3, <1>4, <1>5, <1>6, <1>7, <1>8, <1>9, <1>10, <1>11, <1>12, <1>13,
     <1>14, <1>15, <1>16, <1>17, <1>18, <1>19, <1>20, <1>21, <1>22, <1>23
     DEF MailStep, MailOutside, RecoverIfNeeded, BackUpBox, WriteBox, Outside

-----------------------------------------------------------------------------
(***************************************************************************)
(* One change to the box in a job: both files were backed up just before   *)
(* it, so until a write is over its file settles to what it was.           *)
(***************************************************************************)

\* The mailbox as the change leaves it; newIndex is the index.
NewMailbox == IF cur = Mbx THEN buffer ELSE nand[Mbx]

OneChange ==
    /\ pc \in {"save", "saving"} /\ cur = Mbx => backup[Ctl] = nand[Ctl]
    /\ pc = "transfer" => backup = nand
    /\ pc \in WritePoints =>
         /\ cur = Ctl => buffer = newIndex
         /\ cur = Mbx => nand[Ctl] = backup[Ctl]
         /\ pc \in {"openJournal", "journalling", "write"} => nand[cur] = backup[cur]
         /\ pc = "writing" => nand[cur] = Torn
         /\ pc \in {"flush", "closeJournal"} => nand[cur] = buffer
    /\ pc \in {"flush", "closeJournal"} => written

\* The box goes from its backup to the new mailbox when the first journal is closed,
\* and from there to the new index when the second one is.
MailboxSettles ==
    /\ pc = "closeJournal" /\ cur = Mbx
    /\ pc' = "openJournal" /\ cur' = Ctl
    /\ Settled = backup
    /\ Settled' = [Settled EXCEPT ![Mbx] = NewMailbox]

IndexSettles ==
    /\ pc = "closeJournal" /\ cur = Ctl
    /\ pc' = "stored"
    /\ Settled[Mbx] = NewMailbox /\ Settled[Ctl] = backup[Ctl]
    /\ Settled' = [Settled EXCEPT ![Ctl] = newIndex]

\* What a change is made of stays the same until both files are written.
ChangeStays ==
    pc' \in WritePoints =>
        /\ pc \in WritePoints
        /\ backup' = backup /\ newIndex' = newIndex /\ NewMailbox' = NewMailbox

\* Nothing is torn once the next recovery is over.
LEMMA SettledIsWhole ==
    ASSUME MailStoreTypeOK, BoxTypes, Recoverable
    PROVE  \A f \in Files : Settled[f] \in Version(f)
BY Marks DEF BoxTypes, Recoverable, JournalIsBacked, TornIsNamed, Settled

\* Without a write at hand the box is what it settles to.
LEMMA SettledIsNand ==
    ASSUME MailStoreTypeOK, journal \in {NoJournal, Unreadable}
    PROVE  Settled = nand
BY Marks DEF MailStoreTypeOK, RecoveryTypeOK, StorageTypeOK, Settled

LEMMA SettledNext ==
    ASSUME FaultsAreMasked, MailStoreTypeOK, BoxTypes, Recoverable, OneChange,
           MailStep \/ MailOutside
    PROVE  /\ OneChange'
           /\ ChangeStays
           /\ \/ Settled' = Settled
              \/ MailboxSettles
              \/ IndexSettles
<1> DEFINE Goal ==
        /\ OneChange' /\ ChangeStays
        /\ Settled' = Settled \/ MailboxSettles \/ IndexSettles
<1> SUFFICES Goal
  OBVIOUS
<1> USE Marks
     DEF MailStoreTypeOK, RecoveryTypeOK, StorageTypeOK, BoxTypes, WritePoints,
         FaultsAreMasked, CanFail, Recoverable, JournalAtPoint, JournalIsBacked, TornIsNamed,
         RepairsFromBackup, BackedUpFirst, CopiedPoints, OneChange, ChangeStays, NewMailbox, Settled, Goto,
         BeginWrite, FinishWrite, ReachesFlash, FlushVolume, mailVars, storageVars
<1>1. CASE NothingToRecover /\ UNCHANGED mailVars
  BY <1>1 DEF NothingToRecover
<1>2. CASE DiscardJournal /\ UNCHANGED mailVars
  BY <1>2 DEF DiscardJournal, CloseJournal
<1>3. CASE CannotRecover /\ UNCHANGED mailVars
  BY <1>3 DEF CannotRecover
<1>4. CASE LoadRecovery /\ UNCHANGED mailVars
  BY <1>4 DEF LoadRecovery, Loadable
<1>5. CASE BeginRepair /\ UNCHANGED mailVars
  BY <1>5 DEF BeginRepair
<1>6. CASE FinishRepair /\ UNCHANGED mailVars
  BY <1>6 DEF FinishRepair
<1>7. CASE RepairFails /\ UNCHANGED mailVars
  BY <1>7 DEF RepairFails
<1>8. CASE ForgetRepaired /\ UNCHANGED mailVars
  BY <1>8 DEF ForgetRepaired, CloseJournal
<1>9. CASE UnmountRecovery /\ UNCHANGED mailVars
  BY <1>9 DEF UnmountRecovery
<1>10. CASE StartBackup
  BY <1>10 DEF StartBackup, BeginSave
<1>11. CASE FinishBackup
  BY <1>11 DEF FinishBackup, FinishSave
<1>12. CASE BackupFails
  BY <1>12 DEF BackupFails
<1>13. CASE CreateJournal
  BY <1>13 DEF CreateJournal, TruncateJournal
<1>14. CASE JournalFails
  BY <1>14 DEF JournalFails
<1>15. CASE FillJournal
  BY <1>15 DEF FillJournal, WriteJournal
<1>16. CASE StartWrite
  BY <1>16 DEF StartWrite
<1>17. CASE CompleteWrite
  BY <1>17 DEF CompleteWrite
<1>18. CASE WriteFails
  BY <1>18 DEF WriteFails
<1>19. CASE FlushWrite
  BY <1>19 DEF FlushWrite, TryToFlush
<1>20. CASE EndWrite
  <2>1. /\ pc = "closeJournal" /\ journal = cur /\ journal' = NoJournal
        /\ UNCHANGED <<nand, flash, backup, newIndex, written>>
    BY <1>20 DEF EndWrite, CloseJournal
  <2>2. CASE cur = Mbx
    <3>1. pc' = "openJournal" /\ cur' = Ctl /\ buffer' = newIndex
      BY <1>20, <2>2, <2>1 DEF EndWrite
    <3>2. MailboxSettles
      BY <2>1, <2>2, <3>1 DEF MailboxSettles
    <3> QED
      BY <2>1, <2>2, <3>1, <3>2
  <2>3. CASE cur = Ctl
    <3>1. pc' = "stored" /\ cur' = cur /\ buffer' = buffer
      BY <1>20, <2>3 DEF EndWrite
    <3>2. IndexSettles
      BY <2>1, <2>3, <3>1 DEF IndexSettles
    <3> QED
      BY <2>1, <2>3, <3>1, <3>2
  <2> QED
    BY <2>2, <2>3
<1>21. CASE Leave \/ EndJob
  BY <1>21 DEF Leave, EndJob
<1>22. CASE (StartJob \/ RequestStop \/ ProcessEnds \/ Boot) /\ UNCHANGED mailVars
  BY <1>22 DEF StartJob, RequestStop, ProcessEnds, Boot
<1>23. CASE PowerLoss /\ UNCHANGED mailVars
  <2>1. nand' = nand
    BY <1>23 DEF PowerLoss, AfterPowerLoss
  <2> QED
    BY <1>23, <2>1 DEF PowerLoss
<1> HIDE DEF Goal
<1> QED
  BY <1>1, <1>2, <1>3, <1>4, <1>5, <1>6, <1>7, <1>8, <1>9, <1>10, <1>11, <1>12, <1>13,
     <1>14, <1>15, <1>16, <1>17, <1>18, <1>19, <1>20, <1>21, <1>22, <1>23
     DEF MailStep, MailOutside, RecoverIfNeeded, BackUpBox, WriteBox, Outside

-----------------------------------------------------------------------------
(***************************************************************************)
(* What a change makes of a box.                                           *)
(***************************************************************************)

\* Of a whole box: a message more, in slot s, and the index has it.
LEMMA BoxWithMessage ==
    ASSUME NEW box, box[Mbx] \in Mailboxes, box[Ctl] \in Indexes,
           NEW s \in Slots, NEW m \in Messages
    PROVE  /\ BoxWith(box, s, m)[Mbx] \in Mailboxes
           /\ BoxWith(box, s, m)[Ctl] \in Indexes
           /\ BoxWith(box, s, m)[Mbx].holds
                = [t \in Slots |-> IF t = s THEN m ELSE box[Mbx].holds[t]]
           /\ BoxWith(box, s, m)[Ctl].used = box[Ctl].used \cup {s}
<1>1. box[Mbx] # Torn /\ box[Ctl] # Torn
  BY Marks DEF Version
<1>2. /\ BoxWith(box, s, m)[Mbx] = [box[Mbx] EXCEPT !.holds[s] = m]
      /\ BoxWith(box, s, m)[Ctl] = [used |-> box[Ctl].used \cup {s}, next |-> s + 1]
  BY <1>1, Marks DEF BoxWith
<1>3. s + 1 \in 0 .. Capacity
  BY MailStoreAssumption DEF Slots
<1> QED
  BY <1>2, <1>3 DEF Mailboxes, Indexes

\* And without the messages of some slots.
LEMMA BoxWithoutMessages ==
    ASSUME NEW box, box[Mbx] \in Mailboxes, box[Ctl] \in Indexes,
           NEW slots \in SUBSET Slots, NEW last \in Slots
    PROVE  /\ BoxWithout(box, slots, last)[Mbx] \in Mailboxes
           /\ BoxWithout(box, slots, last)[Ctl] \in Indexes
           /\ \A s \in Slots : BoxWithout(box, slots, last)[Mbx].holds[s]
                              = IF s \in slots THEN NoMessage ELSE box[Mbx].holds[s]
           /\ \A s : s \in BoxWithout(box, slots, last)[Ctl].used
                      <=> s \in box[Ctl].used /\ s \notin slots
<1>1. box[Mbx] # Torn /\ box[Ctl] # Torn
  BY Marks DEF Version
<1>2. /\ BoxWithout(box, slots, last)[Mbx]
           = [holds |-> [s \in Slots |-> IF s \in slots THEN NoMessage ELSE box[Mbx].holds[s]]]
      /\ BoxWithout(box, slots, last)[Ctl] = [used |-> box[Ctl].used \ slots, next |-> last]
  BY <1>1, Marks DEF BoxWithout
<1>3. last \in 0 .. Capacity
  BY MailStoreAssumption DEF Slots
<1> QED
  BY <1>2, <1>3 DEF Mailboxes, Indexes

LEMMA BoxWithoutOne ==
    ASSUME NEW box, box[Mbx] \in Mailboxes, box[Ctl] \in Indexes, NEW s \in Slots
    PROVE  /\ BoxWithout(box, {s}, s)[Mbx] \in Mailboxes
           /\ BoxWithout(box, {s}, s)[Ctl] \in Indexes
           /\ \A t \in Slots : BoxWithout(box, {s}, s)[Mbx].holds[t]
                              = IF t = s THEN NoMessage ELSE box[Mbx].holds[t]
           /\ \A t : t \in BoxWithout(box, {s}, s)[Ctl].used <=> t \in box[Ctl].used /\ t # s
<1> DEFINE slots == {s}
<1>1. slots \in SUBSET Slots /\ \A t : t \in slots <=> t = s
  OBVIOUS
<1> SUFFICES
        /\ BoxWithout(box, slots, s)[Mbx] \in Mailboxes
        /\ BoxWithout(box, slots, s)[Ctl] \in Indexes
        /\ \A t \in Slots : BoxWithout(box, slots, s)[Mbx].holds[t]
                           = IF t = s THEN NoMessage ELSE box[Mbx].holds[t]
        /\ \A t : t \in BoxWithout(box, slots, s)[Ctl].used <=> t \in box[Ctl].used /\ t # s
  OBVIOUS
<1> HIDE DEF slots
<1>2. /\ BoxWithout(box, slots, s)[Mbx] \in Mailboxes
      /\ BoxWithout(box, slots, s)[Ctl] \in Indexes
      /\ \A t \in Slots : BoxWithout(box, slots, s)[Mbx].holds[t]
                         = IF t \in slots THEN NoMessage ELSE box[Mbx].holds[t]
      /\ \A t : t \in BoxWithout(box, slots, s)[Ctl].used <=> t \in box[Ctl].used /\ t \notin slots
  BY <1>1, BoxWithoutMessages
<1> QED
  BY <1>1, <1>2

\* Of a file that is torn nothing whole is made, nor does it get into the other file.
LEMMA TornBoxWith ==
    ASSUME NEW box, \A f \in Files : box[f] \in Version(f) \cup {Torn},
           NEW s \in Slots, NEW m \in Messages
    PROVE  \A f \in Files : BoxWith(box, s, m)[f] \in Version(f) \cup {Torn}
<1>1. s + 1 \in 0 .. Capacity
  BY MailStoreAssumption DEF Slots
<1>2. box[Mbx] \in Mailboxes => [box[Mbx] EXCEPT !.holds[s] = m] \in Mailboxes
  BY DEF Mailboxes
<1>3. box[Ctl] \in Indexes => [used |-> box[Ctl].used \cup {s}, next |-> s + 1] \in Indexes
  BY <1>1 DEF Indexes
<1>4. BoxWith(box, s, m)[Mbx] \in Mailboxes \cup {Torn}
  BY <1>2, Marks DEF BoxWith, Version
<1>5. BoxWith(box, s, m)[Ctl] \in Indexes \cup {Torn}
  BY <1>3, Marks DEF BoxWith, Version
<1> QED
  BY <1>4, <1>5, Marks DEF Version

LEMMA TornBoxWithout ==
    ASSUME NEW box, \A f \in Files : box[f] \in Version(f) \cup {Torn},
           NEW slots \in SUBSET Slots, NEW last \in Slots
    PROVE  \A f \in Files : BoxWithout(box, slots, last)[f] \in Version(f) \cup {Torn}
<1>1. last \in 0 .. Capacity
  BY MailStoreAssumption DEF Slots
<1>2. box[Mbx] \in Mailboxes =>
        [holds |-> [s \in Slots |-> IF s \in slots THEN NoMessage ELSE box[Mbx].holds[s]]]
          \in Mailboxes
  BY DEF Mailboxes
<1>3. box[Ctl] \in Indexes => [used |-> box[Ctl].used \ slots, next |-> last] \in Indexes
  BY <1>1 DEF Indexes
<1>4. BoxWithout(box, slots, last)[Mbx] \in Mailboxes \cup {Torn}
  BY <1>2, Marks DEF BoxWithout, Version
<1>5. BoxWithout(box, slots, last)[Ctl] \in Indexes \cup {Torn}
  BY <1>3, Marks DEF BoxWithout, Version
<1> QED
  BY <1>4, <1>5, Marks DEF Version

\* A box that the console leaves behind is at no risk.
LEMMA ConsoleWritesTypes ==
    ASSUME MailStoreTypeOK, BoxTypes, NEW box \in [Files -> Content \cup {Torn}],
           \A f \in Files : box[f] \in Version(f) \cup {Torn}, ConsoleWrites(box)
    PROVE  MailStoreTypeOK' /\ BoxTypes'
BY DEF ConsoleWrites, MailStoreTypeOK, RecoveryTypeOK, StorageTypeOK, BoxTypes, WritePoints,
       mailVars

LEMMA ConsoleWritesRecoverable ==
    ASSUME Recoverable, NEW box, \A f \in Files : box[f] \in Version(f),
           ConsoleWrites(box)
    PROVE  Recoverable'
BY Marks DEF ConsoleWrites, Recoverable, JournalAtPoint, JournalIsBacked, TornIsNamed,
       RepairsFromBackup, BackedUpFirst, CopiedPoints, WritesVersions, WritePoints, mailVars

\* What TornIsRecoverable says of both boxes.
LEMMA RecoverableIsSafe ==
    ASSUME MailStoreTypeOK, BoxTypes, Recoverable
    PROVE  \A f \in Files : AtRisk(f) => journal = f /\ backup[f] \in Content
BY Marks DEF BoxTypes, Recoverable, TornIsNamed, JournalIsBacked, AtRisk, AfterPowerLoss
=============================================================================
