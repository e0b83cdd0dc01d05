---------------------------- MODULE Inbox_proofs ----------------------------
(***************************************************************************)
(* Proofs about Inbox for any messages, any number of slots and of         *)
(* messages in a batch: types whatever fails, and, under the faults the    *)
(* journal masks, recoverable boxes and deliveries that act as one step    *)
(* but for the messages a recovery takes back with it. And what the packed *)
(* fields of an index entry give back, and that they lead to the headers   *)
(* of the message (MailMessage); that a message which BuildMessage made    *)
(* parses back, and that the body is the part shown.                       *)
(***************************************************************************)
EXTENDS Inbox, MailMessage, MailStore_proofs, FiniteSetTheorems, WellFoundedInduction, SequenceTheorems

-----------------------------------------------------------------------------
(***************************************************************************)
(* Types, whatever fails.                                                  *)
(***************************************************************************)

\* A bounded sequence is a sequence that is not too long.
LEMMA BoundedSeqs ==
    ASSUME NEW S, NEW n \in Nat
    PROVE  \A s : s \in BoundedSeq(S, n) <=> s \in Seq(S) /\ Len(s) <= n
<1>1. ASSUME NEW s \in BoundedSeq(S, n) PROVE s \in Seq(S) /\ Len(s) <= n
  <2>1. PICK m \in 0 .. n : s \in [1 .. m -> S]
    BY DEF BoundedSeq, SeqOf
  <2> QED
    BY <2>1
<1>2. ASSUME NEW s \in Seq(S), Len(s) <= n PROVE s \in BoundedSeq(S, n)
  <2>1. Len(s) \in 0 .. n /\ s \in [1 .. Len(s) -> S]
    BY <1>2
  <2> QED
    BY <2>1 DEF BoundedSeq, SeqOf
<1> QED
  BY <1>1, <1>2

LEMMA Batches ==
    \A list : list \in BoundedSeq(Messages, MaxBatch)
                  <=> list \in Seq(Messages) /\ Len(list) <= MaxBatch
<1>1. MaxBatch \in Nat
  BY InboxAssumption
<1> QED
  BY <1>1, BoundedSeqs

LEMMA BatchTail ==
    ASSUME NEW list \in BoundedSeq(Messages, MaxBatch), list # <<>>
    PROVE  /\ Tail(list) \in BoundedSeq(Messages, MaxBatch)
           /\ Len(Tail(list)) = Len(list) - 1
           /\ Head(list) \in Messages
<1>1. list \in Seq(Messages) /\ Len(list) \in Nat /\ Len(list) <= MaxBatch
  BY Batches
<1>2. Tail(list) \in Seq(Messages) /\ Len(Tail(list)) = Len(list) - 1
  BY <1>1
<1>3. Len(Tail(list)) <= MaxBatch
  BY <1>1, <1>2, InboxAssumption
<1>4. Tail(list) \in BoundedSeq(Messages, MaxBatch)
  BY <1>2, <1>3, Batches, Zenon
<1> QED
  BY <1>1, <1>2, <1>4

\* While a message is written into the inbox, it is the first of those to deliver.
MessageAtHand == pc \in WritePoints \cup {"stored"} => taken # <<>>

TypeInv == TypeOK /\ BoxTypes /\ MessageAtHand

\* Nothing has been fetched yet.
LEMMA TypeInvInit == Init => TypeInv
<1> SUFFICES ASSUME Init PROVE TypeInv
  OBVIOUS
<1>1. MailStoreTypeOK /\ BoxTypes
  BY MailTypesInit DEF Init
<1>2. <<>> \in BoundedSeq(Messages, MaxBatch)
  <2>1. <<>> \in Seq(Messages) /\ Len(<<>>) <= MaxBatch
    BY InboxAssumption
  <2> QED
    BY <2>1, Batches, Zenon
<1>3. pc \in MailPoints /\ MessageAtHand
  BY DEF Init, MailStoreInit, MailPoints, MessageAtHand, WritePoints
<1> QED
  BY <1>1, <1>2, <1>3, InboxAssumption DEF Init, TypeInv, TypeOK, CopyNames

\* A step of the fetch puts no bytes where they do not belong.
LEMMA FetchTypes ==
    ASSUME TypeInv, FetchStep
    PROVE  TypeInv'
<1> USE InboxAssumption
     DEF TypeInv, MessageAtHand, TypeOK, MailStoreTypeOK, RecoveryTypeOK, StorageTypeOK, BoxTypes, WritePoints,
         MailPoints, RecoveryPoints, Goto, storageVars, mailVars, fetchVars, historyVars
<1>1. CASE NoFetch
  BY <1>1 DEF NoFetch
<1>2. CASE StartFetch
  BY <1>2, Marks DEF StartFetch, Dangling
<1>3. CASE Receive
  <2>1. taken' \in BoundedSeq(Messages, MaxBatch)
    BY <1>3, Batches, BoundedSeqs DEF Receive
  <2> QED
    BY <1>3, <2>1 DEF Receive
<1>4. CASE ReceiveFails
  BY <1>4 DEF ReceiveFails
<1>5. CASE KeepCopy
  <2>1. taken \in Seq(Messages) /\ Len(taken) <= MaxBatch
    BY Batches
  <2>2. copied + 1 \in 1 .. Len(taken) /\ copied + 1 \in 0 .. MaxBatch
    BY <1>5, <2>1 DEF KeepCopy
  <2>3. taken[copied + 1] \in Messages
    BY <2>1, <2>2
  <2>4. copies' \in [CopyNames -> Messages \cup {NoCopy}]
    BY <1>5, <2>3 DEF KeepCopy
  <2> QED
    BY <1>5, <2>2, <2>4 DEF KeepCopy
<1>6. CASE StartDelivery
  BY <1>6 DEF StartDelivery
<1>7. ASSUME NEW m \in Messages, NEW s \in Slots, Deliver(m, s) PROVE TypeInv'
  <2>1. \A f \in Files : BoxWith(nand, s, m)[f] \in Version(f) \cup {Torn}
    BY TornBoxWith
  <2>2. /\ buffer' \in Version(Mbx) \cup {Torn}
        /\ newIndex' \in Indexes \cup {Torn}
    BY <1>7, <2>1, Marks DEF Deliver, MailboxFirst, Version
  <2> QED
    BY <1>7, <2>2, Marks DEF Deliver, MailboxFirst, Exposes
<1>8. CASE CannotDeliver \/ EndDelivery
  <2>1. taken # <<>> /\ taken' = Tail(taken)
    BY <1>8 DEF CannotDeliver, EndDelivery
  <2>2. taken' \in BoundedSeq(Messages, MaxBatch)
    BY <2>1, BatchTail
  <2> QED
    BY <1>8, <2>2 DEF CannotDeliver, EndDelivery
<1>9. CASE EndFetch
  BY <1>9 DEF EndFetch
<1> QED
  BY <1>1, <1>2, <1>3, <1>4, <1>5, <1>6, <1>7, <1>8, <1>9 DEF FetchStep

\* The console puts a box back as it should be, and messages on its message board.
LEMMA ImportTypes ==
    ASSUME TypeInv, NEW s \in Slots, ConsoleImports(s)
    PROVE  TypeInv'
<1> DEFINE box == BoxWithout(nand, {s}, s)
<1>1. \A f \in Files : box[f] \in Version(f) \cup {Torn}
  BY TornBoxWithout DEF TypeInv, BoxTypes
<1>2. box \in [Files -> Content \cup {Torn}]
  <2>1. \A f \in Files : box[f] \in Content \cup {Torn}
    BY <1>1, Marks
  <2> QED
    BY <2>1 DEF BoxWithout
<1>3. MailStoreTypeOK' /\ BoxTypes'
  BY <1>1, <1>2, ConsoleWritesTypes DEF TypeInv, TypeOK, ConsoleImports
<1>4. nand[Mbx] \in Mailboxes
  BY Marks DEF ConsoleImports, Whole, TypeInv, BoxTypes, Version
<1>5. nand[Mbx].holds[s] \in Messages \cup {NoMessage}
  BY <1>4 DEF Mailboxes
<1> QED
  BY <1>3, <1>5
     DEF TypeInv, TypeOK, MessageAtHand, ConsoleImports, ConsoleWrites, WritePoints

LEMMA TypeInvNext == TypeInv /\ [Next]_vars => TypeInv'
<1> SUFFICES ASSUME TypeInv, [Next]_vars PROVE TypeInv'
  OBVIOUS
<1>1. CASE (MailStep \/ MailOutside) /\ UNCHANGED <<fetchVars, historyVars>>
  <2>1. MailStoreTypeOK' /\ BoxTypes'
    BY <1>1, MailTypesNext DEF TypeInv, TypeOK
  <2>2. MessageAtHand'
    BY <1>1, WritePointsNext DEF TypeInv, MessageAtHand, fetchVars
  <2>3. pc' \in MailPoints \cup {"copy", "deliver"}
    BY <1>1, MailPointsNext DEF TypeInv, TypeOK
  <2> QED
    BY <1>1, <2>1, <2>2, <2>3 DEF TypeInv, TypeOK, fetchVars, historyVars
<1>2. CASE FetchStep
  BY <1>2, FetchTypes
<1>3. CASE \E s \in Slots : ConsoleImports(s)
  BY <1>3, ImportTypes
<1>4. CASE UNCHANGED vars
  BY <1>4 DEF vars, recoveryVars, storageVars, mailVars, fetchVars, historyVars, TypeInv, TypeOK, MailStoreTypeOK,
     RecoveryTypeOK, StorageTypeOK, BoxTypes, MessageAtHand
<1> QED
  BY <1>1, <1>2, <1>3, <1>4 DEF Next

\* TypeOK; in particular no more messages are in the job's memory than one response
\* brings, and none but messages get onto the message board.
THEOREM InboxTypeCorrect == Spec => []TypeOK
<1>1. TypeInv => TypeOK
  BY DEF TypeInv
<1> QED
  BY <1>1, TypeInvInit, TypeInvNext, PTL DEF Spec

-----------------------------------------------------------------------------
(***************************************************************************)
(* Boxes that can be recovered, under the faults the journal masks and for *)
(* any number of messages to a batch.                                      *)
(***************************************************************************)

\* The job changes nothing but its memory until it has a change to write.
LEMMA FetchRecoverable ==
    ASSUME TypeInv, Recoverable, FetchStep
    PROVE  Recoverable'
<1> USE Marks
     DEF Recoverable, JournalAtPoint, JournalIsBacked, TornIsNamed, RepairsFromBackup,
         BackedUpFirst, CopiedPoints, WritesVersions, WritePoints, Goto, storageVars,
         mailVars, fetchVars
<1>1. CASE NoFetch \/ StartFetch
  BY <1>1 DEF NoFetch, StartFetch
<1>2. CASE Receive \/ ReceiveFails \/ KeepCopy \/ StartDelivery
  BY <1>2 DEF Receive, ReceiveFails, KeepCopy, StartDelivery
<1>3. ASSUME NEW m \in Messages, NEW s \in Slots, Deliver(m, s) PROVE Recoverable'
  <2>1. nand[Mbx] \in Mailboxes /\ nand[Ctl] \in Indexes
    BY <1>3 DEF Deliver, TypeInv, BoxTypes, Version
  <2>2. buffer' \in Version(Mbx) /\ newIndex' \in Indexes
    BY <1>3, <2>1, BoxWithMessage DEF Deliver, MailboxFirst, Version
  <2> QED
    BY <1>3, <2>2 DEF Deliver, MailboxFirst
<1>4. CASE CannotDeliver \/ EndDelivery \/ EndFetch
  BY <1>4 DEF CannotDeliver, EndDelivery, EndFetch
<1> HIDE DEF Recoverable
<1> QED
  BY <1>1, <1>2, <1>3, <1>4 DEF FetchStep

LEMMA ImportRecoverable ==
    ASSUME TypeInv, Recoverable, NEW s \in Slots, ConsoleImports(s)
    PROVE  Recoverable'
<1>1. nand[Mbx] \in Mailboxes /\ nand[Ctl] \in Indexes
  BY Marks DEF ConsoleImports, Whole, TypeInv, BoxTypes, Version
<1>2. \A f \in Files : BoxWithout(nand, {s}, s)[f] \in Version(f)
  BY <1>1, BoxWithoutOne, Marks DEF Version
<1> QED
  BY <1>2, ConsoleWritesRecoverable DEF ConsoleImports

LEMMA InboxRecoverable ==
    ASSUME FaultsAreMasked, TypeInv, Recoverable, [Next]_vars
    PROVE  Recoverable'
<1>1. CASE (MailStep \/ MailOutside) /\ UNCHANGED <<fetchVars, historyVars>>
  BY <1>1, RecoverableNext DEF TypeInv, TypeOK
<1>2. CASE FetchStep
  BY <1>2, FetchRecoverable
<1>3. CASE \E s \in Slots : ConsoleImports(s)
  BY <1>3, ImportRecoverable
<1>4. CASE UNCHANGED vars
  BY <1>4 DEF vars, recoveryVars, storageVars, mailVars, Recoverable, JournalAtPoint,
     JournalIsBacked, TornIsNamed, RepairsFromBackup, BackedUpFirst, WritesVersions
<1> QED
  BY <1>1, <1>2, <1>3, <1>4 DEF Next

\* TornIsRecoverable: when the job is cut off at any point, also while it recovers from
\* an earlier cut, a torn file of the inbox has a whole backup that the journal names.
THEOREM InboxIsRecoverable ==
    ASSUME FaultsAreMasked
    PROVE  Spec => []TornIsRecoverable
<1>1. Init => TypeInv /\ Recoverable
  BY TypeInvInit, RecoverableInit DEF Init
<1>2. TypeInv /\ Recoverable /\ [Next]_vars => (TypeInv /\ Recoverable)'
  BY TypeInvNext, InboxRecoverable
<1>3. TypeInv /\ Recoverable => TornIsRecoverable
  BY RecoverableIsSafe DEF TypeInv, TypeOK, TornIsRecoverable
<1> QED
  BY <1>1, <1>2, <1>3, PTL DEF Spec

-----------------------------------------------------------------------------
(***************************************************************************)
(* Which entries can lose their message. While a slot is written, what the *)
(* box settles to is, file by file, what was backed up before the fetch or *)
(* what the fetch has made of it since, and those differ at the slots of   *)
(* the batch only.                                                         *)
(***************************************************************************)

\* Two mailboxes, and two indexes, that agree but for these slots.
SameMessages(one, other, slots) ==
    \A t \in Slots \ slots : one.holds[t] = other.holds[t]
SameEntries(one, other, slots) ==
    \A t \in Slots \ slots : t \in one.used <=> t \in other.used

\* An entry without a message is exposed.
Covers(mailbox, index) ==
    \A t \in index.used : mailbox.holds[t] \notin Messages => t \in exposed

\* A box that this fetch has changed, without an entry in slot s.
OfThisBatch(mailbox, index, s) ==
    /\ SameMessages(mailbox, backup[Mbx], batch)
    /\ SameEntries(index, backup[Ctl], batch)
    /\ s \notin index.used

\* Slot s is being written: its message is made part of the box that was backed up, and
\* all the other slots of the batch are exposed.
NotYetWritten == {"openJournal", "journalling", "write"}

Writing(s) ==
    /\ s \in batch \ exposed
    /\ batch \subseteq exposed \cup {s}
    /\ NewMailbox.holds[s] = Head(taken)
    /\ \A t \in Slots \ {s} : NewMailbox.holds[t] # Head(taken)
    /\ SameMessages(NewMailbox, backup[Mbx], batch)
    /\ SameEntries(newIndex, backup[Ctl], batch)
    /\ s \in newIndex.used
    /\ cur = Ctl => buffer = newIndex
    /\ cur = Mbx \/ pc \in NotYetWritten
          => SameEntries(nand[Ctl], backup[Ctl], batch) /\ s \notin nand[Ctl].used
    /\ cur = Mbx /\ pc \in NotYetWritten
          => SameMessages(nand[Mbx], backup[Mbx], batch)
    /\ pc \in {"flush", "closeJournal"} => nand[cur] = buffer /\ written

\* The backups have no entry in a slot of the batch, and are no worse than the box.
BackupIsCovered ==
    /\ backup[Ctl].used \cap batch = {}
    /\ Covers(backup[Mbx], backup[Ctl])

\* The fetch from its backups to the last message.
BetweenMessages == {"copy", "deliver", "stored"}

FetchInv ==
    /\ pc \in {"save", "saving", "transfer"} => batch = {}
    /\ pc \in {"save", "saving"} /\ cur = Mbx => backup[Ctl] = nand[Ctl]
    /\ pc = "transfer" => \A f \in Files : backup[f] = nand[f]
    /\ pc \in BetweenMessages
          => /\ SameMessages(nand[Mbx], backup[Mbx], batch)
             /\ SameEntries(nand[Ctl], backup[Ctl], batch)
    /\ pc \in BetweenMessages \cup WritePoints => BackupIsCovered
    /\ pc \in WritePoints => \E s \in Slots : Writing(s)
    /\ Covers(Settled[Mbx], Settled[Ctl])

\* The messages that are not in any mailbox yet: the server's, and those still to be
\* delivered after the one at hand.
Pending ==
    IF pc \in {"copy", "deliver"} THEN ToSet(taken)
    ELSE IF pc \in WritePoints \cup {"stored"} THEN ToSet(Tail(taken))
    ELSE {}

Without(messages) == {box \in Mailboxes : \A t \in Slots : box.holds[t] \notin messages}

HandedOverOnce ==
    /\ IsInjective(taken)
    /\ Pending \cap server = {}
    /\ pc \in WritePoints \cup {"stored"} => Head(taken) \notin server
    /\ MailboxesIn(Without(server \cup Pending))

-----------------------------------------------------------------------------
(***************************************************************************)
(* What the box settles to, point by point.                                *)
(***************************************************************************)

LEMMA SettledIs ==
    /\ Settled[Mbx] = IF journal = Mbx THEN backup[Mbx] ELSE nand[Mbx]
    /\ Settled[Ctl] = IF journal = Ctl THEN backup[Ctl] ELSE nand[Ctl]
    /\ Settled'[Mbx] = IF journal' = Mbx THEN backup'[Mbx] ELSE nand'[Mbx]
    /\ Settled'[Ctl] = IF journal' = Ctl THEN backup'[Ctl] ELSE nand'[Ctl]
BY Marks DEF Settled

SettledTypes ==
    /\ Settled[Mbx] \in Mailboxes
    /\ Settled[Ctl] \in Indexes
    /\ Settled[Ctl].used \subseteq Slots

LEMMA SettledIsTyped == TypeInv /\ Recoverable => SettledTypes
<1> SUFFICES ASSUME TypeInv, Recoverable PROVE SettledTypes
  OBVIOUS
<1>1. \A f \in Files : Settled[f] \in Version(f)
  BY SettledIsWhole DEF TypeInv, TypeOK
<1> QED
  BY <1>1, Marks DEF SettledTypes, Version, Indexes

LEMMA BackupTypes ==
    ASSUME Recoverable, pc \in BetweenMessages \cup WritePoints
    PROVE  backup[Mbx] \in Mailboxes /\ backup[Ctl] \in Indexes
BY Marks DEF Recoverable, BackedUpFirst, CopiedPoints, BetweenMessages, Version

\* While slot s is written the box settles to one without it.
SettlesWithout ==
    \A s \in Slots :
        TypeInv /\ Recoverable /\ pc \in WritePoints /\ Writing(s) /\ BackupIsCovered
            => OfThisBatch(Settled[Mbx], Settled[Ctl], s)

LEMMA WritingSettles == SettlesWithout
<1> SUFFICES ASSUME NEW s \in Slots,
                    TypeInv, Recoverable, pc \in WritePoints, Writing(s), BackupIsCovered
             PROVE  OfThisBatch(Settled[Mbx], Settled[Ctl], s)
  BY DEF SettlesWithout
<1>1. SameMessages(backup[Mbx], backup[Mbx], batch) /\ SameEntries(backup[Ctl], backup[Ctl], batch)
  BY DEF SameMessages, SameEntries
<1>2. s \notin backup[Ctl].used
  BY DEF Writing, BackupIsCovered
<1>3. /\ pc \in {"write", "writing", "flush", "closeJournal"} => journal = cur
      /\ pc \in {"openJournal", "journalling"} => journal \notin Files
  BY Marks DEF Recoverable, JournalAtPoint
<1>4. cur = Ctl => nand[Mbx] = NewMailbox
  BY Marks DEF NewMailbox
<1>5. cur = Mbx \/ cur = Ctl
  BY Marks DEF TypeInv, TypeOK, MailStoreTypeOK, RecoveryTypeOK
<1>6. CASE pc \in {"openJournal", "journalling"}
  <2>1. Settled[Mbx] = nand[Mbx] /\ Settled[Ctl] = nand[Ctl]
    BY <1>3, <1>6, SettledIs, Marks
  <2>2. OfThisBatch(nand[Mbx], nand[Ctl], s)
    BY <1>4, <1>5, <1>6 DEF Writing, NotYetWritten, OfThisBatch
  <2> QED
    BY <2>1, <2>2
<1>7. CASE pc \in {"write", "writing", "flush", "closeJournal"} /\ cur = Mbx
  <2>1. Settled[Mbx] = backup[Mbx] /\ Settled[Ctl] = nand[Ctl]
    BY <1>3, <1>7, SettledIs, Marks
  <2> QED
    BY <1>1, <1>7, <2>1 DEF Writing, OfThisBatch
<1>8. CASE pc \in {"write", "writing", "flush", "closeJournal"} /\ cur = Ctl
  <2>1. Settled[Mbx] = NewMailbox /\ Settled[Ctl] = backup[Ctl]
    BY <1>3, <1>4, <1>8, SettledIs, Marks
  <2> QED
    BY <1>1, <1>2, <2>1 DEF Writing, OfThisBatch
<1> QED
  BY <1>5, <1>6, <1>7, <1>8 DEF WritePoints

\* What is made of a backup that is covered is covered too, if the entry of the slot that
\* is being written has its message.
LEMMA BatchIsCovered ==
    ASSUME NEW mailbox, NEW index, index.used \subseteq Slots, NEW s \in Slots,
           SameMessages(mailbox, backup[Mbx], batch), SameEntries(index, backup[Ctl], batch),
           s \in index.used => mailbox.holds[s] \in Messages,
           batch \subseteq exposed \cup {s}, BackupIsCovered
    PROVE  Covers(mailbox, index)
<1> SUFFICES ASSUME NEW t \in index.used, mailbox.holds[t] \notin Messages PROVE t \in exposed
  BY DEF Covers
<1>1. t \in Slots /\ t # s
  OBVIOUS
<1>2. CASE t \in batch
  BY <1>1, <1>2
<1>3. CASE t \notin batch
  <2>1. mailbox.holds[t] = backup[Mbx].holds[t] /\ t \in backup[Ctl].used
    BY <1>1, <1>3 DEF SameMessages, SameEntries
  <2> QED
    BY <2>1 DEF BackupIsCovered, Covers
<1> QED
  BY <1>2, <1>3

-----------------------------------------------------------------------------
(***************************************************************************)
(* The steps of the two writes.                                            *)
(***************************************************************************)

\* The index is written, and with it the slot is delivered.
IndexWritten ==
    /\ pc = "closeJournal" /\ cur = Ctl
    /\ pc' = "stored"
    /\ nand' = nand /\ journal' = NoJournal

\* Until then all else that can happen leaves the backups and the change alone.
LEMMA WritingNext ==
    ASSUME FaultsAreMasked, TypeInv, Recoverable, pc \in WritePoints,
           NEW s \in Slots, Writing(s),
           MailStep \/ MailOutside, UNCHANGED <<fetchVars, historyVars>>
    PROVE  /\ backup' = backup /\ newIndex' = newIndex
           /\ \/ pc' \in WritePoints /\ Writing(s)' /\ NewMailbox' = NewMailbox
              \/ pc' = "stored" /\ pc = "openJournal" /\ UNCHANGED <<nand, journal>>
              \/ pc' = "off" /\ UNCHANGED <<nand, journal>>
              \/ IndexWritten
<1> DEFINE Goal ==
           /\ backup' = backup /\ newIndex' = newIndex
           /\ \/ pc' \in WritePoints /\ Writing(s)' /\ NewMailbox' = NewMailbox
              \/ pc' = "stored" /\ pc = "openJournal" /\ UNCHANGED <<nand, journal>>
              \/ pc' = "off" /\ UNCHANGED <<nand, journal>>
              \/ IndexWritten
<1> SUFFICES Goal
  OBVIOUS
<1> USE Marks
     DEF TypeInv, TypeOK, MailStoreTypeOK, RecoveryTypeOK, StorageTypeOK, WritePoints,
         FaultsAreMasked, CanFail, NotYetWritten, Writing, NewMailbox, Goto,
         BeginWrite, FinishWrite, FlushVolume, mailVars, storageVars, fetchVars, historyVars
<1>1. CASE CreateJournal
  BY <1>1 DEF CreateJournal, TruncateJournal
<1>2. CASE JournalFails
  BY <1>2 DEF JournalFails
<1>3. CASE FillJournal
  BY <1>3 DEF FillJournal, WriteJournal
<1>4. CASE StartWrite
  BY <1>4 DEF StartWrite
<1>5. CASE CompleteWrite
  BY <1>5 DEF CompleteWrite
<1>6. CASE WriteFails
  BY <1>6 DEF WriteFails
<1>7. CASE FlushWrite
  BY <1>7 DEF FlushWrite, TryToFlush
<1>8. CASE EndWrite
  <2>1. /\ pc = "closeJournal" /\ journal' = NoJournal /\ written
        /\ UNCHANGED <<nand, flash, backup, newIndex, written>>
    BY <1>8 DEF EndWrite, CloseJournal
  <2>2. CASE cur = Mbx
    <3>1. pc' = "openJournal" /\ cur' = Ctl /\ buffer' = newIndex
      BY <1>8, <2>2, <2>1 DEF EndWrite
    <3> QED
      BY <2>1, <2>2, <3>1
  <2>3. CASE cur = Ctl
    <3>1. pc' = "stored"
      BY <1>8, <2>3 DEF EndWrite
    <3> QED
      BY <2>1, <2>3, <3>1 DEF IndexWritten
  <2> QED
    BY <2>2, <2>3
<1>9. CASE Leave \/ EndJob \/ BackUpBox \/ RecoverIfNeeded
  BY <1>9 DEF Leave, EndJob, BackUpBox, StartBackup, FinishBackup, BackupFails,
       RecoverIfNeeded, NothingToRecover, DiscardJournal, CannotRecover, LoadRecovery,
       BeginRepair, FinishRepair, RepairFails, ForgetRepaired, UnmountRecovery
<1>10. CASE (StartJob \/ RequestStop \/ ProcessEnds \/ Boot) /\ UNCHANGED mailVars
  BY <1>10 DEF StartJob, RequestStop, ProcessEnds, Boot
<1>11. CASE PowerLoss /\ UNCHANGED mailVars
  <2>1. nand' = nand
    BY <1>11 DEF PowerLoss, AfterPowerLoss, Recoverable
  <2> QED
    BY <1>11, <2>1 DEF PowerLoss
<1> HIDE DEF Goal
<1> QED
  BY <1>1, <1>2, <1>3, <1>4, <1>5, <1>6, <1>7, <1>8, <1>9, <1>10, <1>11
     DEF MailStep, MailOutside, WriteBox, Outside

\* In terms of what the box settles to: slot s stays out of it, or the message is in.
IsDelivered(s) ==
    /\ pc \in WritePoints /\ pc' = "stored"
    /\ OfThisBatch(Settled[Mbx], Settled[Ctl], s)
    /\ Settled'[Mbx] = NewMailbox /\ Settled'[Ctl] = newIndex

IsNotDelivered(s) ==
    /\ OfThisBatch(Settled[Mbx], Settled[Ctl], s)
    /\ OfThisBatch(Settled'[Mbx], Settled'[Ctl], s)

LEMMA WritingSettlesNext ==
    ASSUME FaultsAreMasked, TypeInv, Recoverable, pc \in WritePoints, BackupIsCovered,
           NEW s \in Slots, Writing(s),
           MailStep \/ MailOutside, UNCHANGED <<fetchVars, historyVars>>
    PROVE  /\ IsNotDelivered(s) \/ IsDelivered(s)
           /\ pc' = "off" => Settled' = Settled
<1>1. TypeInv' /\ Recoverable'
  BY TypeInvNext, InboxRecoverable DEF Next
<1>2. SettlesWithout /\ SettlesWithout'
  BY WritingSettles, PTL
<1>3. OfThisBatch(Settled[Mbx], Settled[Ctl], s)
  BY <1>2 DEF SettlesWithout
<1>4. UNCHANGED <<batch, exposed, backup>>
  BY WritingNext DEF historyVars
<1>5. CASE pc' \in WritePoints /\ Writing(s)'
  <2>1. BackupIsCovered'
    BY <1>4 DEF BackupIsCovered, Covers
  <2>2. OfThisBatch(Settled[Mbx], Settled[Ctl], s)'
    BY <1>1, <1>2, <1>5, <2>1 DEF SettlesWithout
  <2>3. OfThisBatch(Settled'[Mbx], Settled'[Ctl], s)
    BY <1>4, <2>2 DEF OfThisBatch, SameMessages, SameEntries
  <2> QED
    BY <1>3, <1>5, <2>3 DEF IsNotDelivered, WritePoints
<1>6. CASE UNCHANGED <<nand, journal>>
  <2>1. Settled' = Settled
    BY <1>4, <1>6 DEF Settled
  <2> QED
    BY <1>3, <2>1 DEF IsNotDelivered
<1>7. CASE IndexWritten
  <2>1. nand[Mbx] = NewMailbox /\ nand[Ctl] = newIndex
    BY <1>7, Marks DEF IndexWritten, Writing, NewMailbox
  <2>2. Settled'[Mbx] = nand[Mbx] /\ Settled'[Ctl] = nand[Ctl]
    BY <1>7, SettledIs, Marks DEF IndexWritten
  <2> QED
    BY <1>3, <1>7, <2>1, <2>2 DEF IsDelivered, IndexWritten, WritePoints
<1> QED
  BY <1>5, <1>6, <1>7, WritingNext

\* None of the other steps they share starts or goes on with a fetch, and none touches
\* what the box settles to.
LEMMA OtherPointsNext ==
    ASSUME MailStep \/ MailOutside, pc \notin WritePoints,
           pc' \in WritePoints \cup {"stored", "copy", "deliver"}
    PROVE  pc' = pc /\ UNCHANGED <<nand, backup, journal>>
BY DEF storageVars, MailStep, MailOutside, WritePoints, Goto,
       RecoverIfNeeded, NothingToRecover, DiscardJournal, CannotRecover, LoadRecovery,
       BeginRepair, FinishRepair, RepairFails, ForgetRepaired, UnmountRecovery,
       BackUpBox, StartBackup, FinishBackup, BackupFails,
       WriteBox, CreateJournal, JournalFails, FillJournal, StartWrite, CompleteWrite,
       WriteFails, FlushWrite, EndWrite, Leave, EndJob,
       StartJob, Outside, RequestStop, ProcessEnds, PowerLoss, Boot

LEMMA OtherSettles ==
    ASSUME FaultsAreMasked, TypeInv, Recoverable, FetchInv, pc \notin WritePoints,
           MailStep \/ MailOutside
    PROVE  /\ Settled' = Settled
           /\ pc' \in {"save", "saving"} /\ cur' = Mbx => backup'[Ctl] = nand'[Ctl]
           /\ pc' = "transfer" => \A f \in Files : backup'[f] = nand'[f]
<1>1. MailStoreTypeOK /\ BoxTypes
  BY DEF TypeInv, TypeOK
<1>2. OneChange
  <2>1. pc = "transfer" => backup = nand
    BY <1>1 DEF FetchInv, MailStoreTypeOK, RecoveryTypeOK, StorageTypeOK
  <2>2. pc \notin {"flush", "closeJournal"}
    BY DEF WritePoints
  <2> QED
    BY <2>1, <2>2 DEF OneChange, FetchInv
<1>3. OneChange' /\ Settled' = Settled
  <2>1. ~MailboxSettles /\ ~IndexSettles
    BY DEF MailboxSettles, IndexSettles, WritePoints
  <2> QED
    BY <1>1, <1>2, <2>1, SettledNext
<1> QED
  BY <1>3 DEF OneChange

-----------------------------------------------------------------------------
(***************************************************************************)
(* FetchInv is kept.                                                       *)
(***************************************************************************)

\* In an empty box there are no entries, and nothing is being delivered.
LEMMA FetchInvInit == Init => FetchInv
<1> SUFFICES ASSUME Init PROVE FetchInv
  OBVIOUS
<1>1. journal = NoJournal /\ nand = EmptyBox /\ pc = "idle"
  BY DEF Init, MailStoreInit
<1>2. Settled[Ctl].used = {}
  BY <1>1, Marks DEF Settled, EmptyBox
<1> QED
  BY <1>1, <1>2 DEF FetchInv, Covers, BetweenMessages, WritePoints

\* The two writes leave what they write as part of what the fetch made of the backups.
LEMMA FetchInvWriting ==
    ASSUME FaultsAreMasked, TypeInv, Recoverable, FetchInv, pc \in WritePoints,
           MailStep \/ MailOutside, UNCHANGED <<fetchVars, historyVars>>
    PROVE  FetchInv'
<1>1. PICK s \in Slots : Writing(s)
  BY DEF FetchInv
<1>2. BackupIsCovered
  BY DEF FetchInv
<1>3. TypeInv' /\ Recoverable'
  BY TypeInvNext, InboxRecoverable DEF Next
<1>4. UNCHANGED <<batch, exposed, backup, newIndex, taken>>
  BY <1>1, WritingNext DEF fetchVars, historyVars
<1>5. \/ pc' \in WritePoints /\ Writing(s)' /\ NewMailbox' = NewMailbox
      \/ pc' = "stored" /\ pc = "openJournal" /\ UNCHANGED <<nand, journal>>
      \/ pc' = "off" /\ UNCHANGED <<nand, journal>>
      \/ IndexWritten
  BY <1>1, WritingNext
<1>6. BackupIsCovered'
  BY <1>2, <1>4 DEF BackupIsCovered, Covers
<1>7. Covers(Settled[Mbx], Settled[Ctl])'
  <2>1. Settled'[Ctl].used \subseteq Slots
    <3>1. SettledTypes'
      BY <1>3, SettledIsTyped, PTL
    <3> QED
      BY <3>1 DEF SettledTypes
  <2>2. CASE IsNotDelivered(s)
    <3>1. OfThisBatch(Settled'[Mbx], Settled'[Ctl], s)
      BY <2>2 DEF IsNotDelivered
    <3> QED
      BY <1>1, <1>2, <1>4, <2>1, <3>1, BatchIsCovered DEF OfThisBatch, Writing, Covers
  <2>3. CASE IsDelivered(s)
    <3>1. Head(taken) \in Messages
      BY BatchTail DEF TypeInv, TypeOK, MessageAtHand
    <3>2. Settled'[Mbx] = NewMailbox /\ Settled'[Ctl] = newIndex
      BY <2>3 DEF IsDelivered
    <3> QED
      BY <1>1, <1>2, <1>4, <2>1, <3>1, <3>2, BatchIsCovered DEF Writing, Covers
  <2> QED
    BY <1>1, <1>2, <2>2, <2>3, WritingSettlesNext
<1>8. pc' = "stored" => SameMessages(nand[Mbx], backup[Mbx], batch)'
                        /\ SameEntries(nand[Ctl], backup[Ctl], batch)'
  <2>1. cur = Mbx \/ cur = Ctl
    BY Marks DEF TypeInv, TypeOK, MailStoreTypeOK, RecoveryTypeOK
  <2>2. ASSUME pc' = "stored"
        PROVE  /\ nand' = nand
               /\ SameMessages(nand[Mbx], backup[Mbx], batch)
               /\ SameEntries(nand[Ctl], backup[Ctl], batch)
    BY <1>1, <1>5, <2>1, <2>2, Marks DEF Writing, NotYetWritten, NewMailbox, IndexWritten, WritePoints
  <2> QED
    BY <1>4, <2>2 DEF SameMessages, SameEntries
<1> QED
  BY <1>4, <1>5, <1>6, <1>7, <1>8 DEF FetchInv, BetweenMessages, WritePoints, IndexWritten

\* The other steps that are shared with the sending of mail.
LEMMA FetchInvMail ==
    ASSUME FaultsAreMasked, TypeInv, Recoverable, FetchInv, pc \notin WritePoints,
           MailStep \/ MailOutside, UNCHANGED <<fetchVars, historyVars>>
    PROVE  FetchInv'
<1>1. UNCHANGED <<batch, exposed>>
  BY DEF historyVars
<1>2. Covers(Settled[Mbx], Settled[Ctl])'
  BY <1>1, OtherSettles DEF FetchInv, Covers
<1>3. pc' \in {"save", "saving", "transfer"} => batch' = {}
  BY <1>1, BackupPointsNext DEF FetchInv
<1>4. CASE pc' \in WritePoints \cup BetweenMessages
  <2>1. pc' = pc /\ UNCHANGED <<nand, backup>> /\ pc' \in BetweenMessages
    BY <1>4, OtherPointsNext DEF BetweenMessages
  <2> QED
    BY <1>1, <1>2, <1>4, <2>1
       DEF FetchInv, BetweenMessages, WritePoints, BackupIsCovered, Covers, SameMessages, SameEntries
<1>5. CASE pc' \notin WritePoints \cup BetweenMessages
  BY <1>2, <1>3, <1>5, OtherSettles DEF FetchInv
<1> QED
  BY <1>4, <1>5

\* A fetch starts on a box with nothing left to recover, and puts a free slot of it at a
\* time into the batch.
LEMMA FetchInvStart ==
    ASSUME TypeInv, Recoverable, FetchInv, StartFetch
    PROVE  FetchInv'
<1>1. pc = "gate" /\ pc' = "save" /\ batch' = {} /\ UNCHANGED <<nand, backup, journal>>
  BY DEF StartFetch, Goto, storageVars
<1>2. journal = NoJournal /\ cur' = Ctl
  BY <1>1, Marks DEF Recoverable, JournalAtPoint, StartFetch
<1>3. Settled' = nand /\ Settled = nand
  BY <1>1, <1>2, SettledIsNand, Marks
     DEF TypeInv, TypeOK, Settled, MailStoreTypeOK, RecoveryTypeOK, StorageTypeOK
<1>4. Covers(Settled[Mbx], Settled[Ctl])'
  <2> SUFFICES ASSUME NEW t \in nand[Ctl].used, nand[Mbx].holds[t] \notin Messages
               PROVE  t \in exposed'
    BY <1>3 DEF Covers
  <2>1. nand[Mbx] \in Mailboxes /\ t \in Slots
    BY <1>3, SettledIsTyped DEF SettledTypes
  <2>2. nand[Mbx].holds[t] = NoMessage
    BY <2>1 DEF Mailboxes
  <2>3. Whole(nand)
    BY <1>3, SettledIsTyped, Marks DEF SettledTypes, Whole, Version
  <2>4. t \in Dangling(nand)
    BY <2>1, <2>2, <2>3 DEF Dangling, Listed
  <2>5. t \in exposed
    BY <1>3 DEF FetchInv, Covers
  <2> QED
    BY <2>4, <2>5 DEF StartFetch
<1> QED
  BY <1>1, <1>2, <1>4, Marks DEF FetchInv, BetweenMessages, WritePoints

LEMMA FetchInvDeliver ==
    ASSUME TypeInv, Recoverable, FetchInv, HandedOverOnce,
           NEW m \in Messages, NEW s \in Slots, Deliver(m, s)
    PROVE  FetchInv' /\ Settled' = Settled
<1>1. /\ pc = "deliver" /\ pc' = "openJournal" /\ cur' = Mbx
      /\ taken # <<>> /\ m = Head(taken) /\ taken' = taken
      /\ UNCHANGED <<nand, backup, journal>>
      /\ batch' = batch \cup {s} /\ exposed' = (exposed \cup batch) \ {s}
      /\ buffer' = BoxWith(nand, s, m)[Mbx] /\ newIndex' = BoxWith(nand, s, m)[Ctl]
  BY DEF Deliver, MailboxFirst, Exposes, Goto, storageVars, fetchVars
<1>2. Settled = nand /\ Settled' = Settled
  BY <1>1, SettledIsNand, Marks
     DEF Recoverable, JournalAtPoint, TypeInv, TypeOK, Settled, MailStoreTypeOK, RecoveryTypeOK, StorageTypeOK
<1>3. nand[Mbx] \in Mailboxes /\ nand[Ctl] \in Indexes /\ nand[Ctl].used \subseteq Slots
  BY <1>2, SettledIsTyped DEF SettledTypes
<1>4. s \notin nand[Ctl].used
  BY <1>3, Marks DEF Deliver, FreeSlots, Version
<1>5. /\ buffer'.holds = [t \in Slots |-> IF t = s THEN m ELSE nand[Mbx].holds[t]]
      /\ newIndex'.used = nand[Ctl].used \cup {s}
  BY <1>1, <1>3, BoxWithMessage
<1>6. /\ SameMessages(nand[Mbx], backup[Mbx], batch)
      /\ SameEntries(nand[Ctl], backup[Ctl], batch)
      /\ BackupIsCovered
  BY <1>1 DEF FetchInv, BetweenMessages
<1>7. \A t \in Slots : nand[Mbx].holds[t] # m
  <2>1. m \in Pending
    <3>1. taken \in Seq(Messages) /\ Len(taken) \in Nat /\ Len(taken) # 0
      BY <1>1, Batches DEF TypeInv, TypeOK
    <3>2. m = taken[1] /\ 1 \in DOMAIN taken
      BY <1>1, <3>1
    <3> QED
      BY <1>1, <3>2 DEF Pending, ToSet
  <2>2. nand[Mbx] \in Without(server \cup Pending)
    BY <1>3, Marks DEF HandedOverOnce, MailboxesIn, Version
  <2> QED
    BY <2>1, <2>2 DEF Without
<1>8. s \notin backup[Ctl].used
  BY <1>4, <1>6 DEF SameEntries, BackupIsCovered
<1>9. BackupIsCovered'
  BY <1>1, <1>6, <1>8 DEF BackupIsCovered, Covers
<1>10. Covers(Settled[Mbx], Settled[Ctl])'
  BY <1>1, <1>2, <1>4 DEF FetchInv, Covers
<1>11. Writing(s)'
  <2>1. NewMailbox' = buffer'
    BY <1>1 DEF NewMailbox
  <2>2. SameMessages(buffer', backup[Mbx], batch') /\ SameMessages(nand[Mbx], backup[Mbx], batch')
    BY <1>1, <1>5, <1>6 DEF SameMessages
  <2>3. SameEntries(newIndex', backup[Ctl], batch') /\ SameEntries(nand[Ctl], backup[Ctl], batch')
    BY <1>1, <1>5, <1>6 DEF SameEntries
  <2>4. SameMessages(NewMailbox, backup[Mbx], batch)' /\ SameMessages(nand[Mbx], backup[Mbx], batch)'
    BY <1>1, <2>1, <2>2 DEF SameMessages
  <2>5. SameEntries(newIndex, backup[Ctl], batch)' /\ SameEntries(nand[Ctl], backup[Ctl], batch)'
    BY <1>1, <2>3 DEF SameEntries
  <2>6. buffer'.holds[s] = m /\ \A t \in Slots \ {s} : buffer'.holds[t] # m
    BY <1>5, <1>7
  <2> QED
    BY <1>1, <1>4, <1>5, <2>1, <2>4, <2>5, <2>6, Marks DEF Writing
<1> QED
  BY <1>1, <1>2, <1>9, <1>10, <1>11 DEF FetchInv, BetweenMessages, WritePoints

\* What the fetch does with its own memory, the copies and the server.
LEMMA FetchInvFetch ==
    ASSUME TypeInv, Recoverable, FetchInv, HandedOverOnce, FetchStep
    PROVE  FetchInv'
<1>1. CASE StartFetch
  BY <1>1, FetchInvStart
<1>2. ASSUME NEW m \in Messages, NEW s \in Slots, Deliver(m, s) PROVE FetchInv'
  BY <1>2, FetchInvDeliver
<1>3. CASE NoFetch \/ Receive \/ ReceiveFails \/ KeepCopy \/ StartDelivery
           \/ CannotDeliver \/ EndDelivery \/ EndFetch
  <2>1. /\ UNCHANGED <<nand, backup, journal, batch, exposed>>
        /\ pc' \in BetweenMessages \cup {"leave"}
        /\ pc' = "leave" \/ pc = "transfer" \/ pc \in BetweenMessages
    BY <1>3 DEF NoFetch, Receive, ReceiveFails, KeepCopy, StartDelivery, CannotDeliver,
         EndDelivery, EndFetch, Goto, storageVars, fetchVars, historyVars, BetweenMessages
  <2>2. Settled' = Settled
    BY <2>1 DEF Settled
  <2>3. Covers(Settled[Mbx], Settled[Ctl])'
    BY <2>1, <2>2 DEF FetchInv, Covers
  <2>4. CASE pc' = "leave"
    BY <2>3, <2>4 DEF FetchInv, BetweenMessages, WritePoints
  <2>5. CASE pc' \in BetweenMessages /\ pc \in BetweenMessages
    BY <2>1, <2>3, <2>5
       DEF FetchInv, BetweenMessages, WritePoints, BackupIsCovered, Covers, SameMessages, SameEntries
  <2>6. CASE pc' \in BetweenMessages /\ pc = "transfer"
    <3>1. batch = {} /\ backup[Mbx] = nand[Mbx] /\ backup[Ctl] = nand[Ctl]
      BY <2>6, Marks DEF FetchInv
    <3>2. SameMessages(nand[Mbx], backup[Mbx], batch)' /\ SameEntries(nand[Ctl], backup[Ctl], batch)'
      BY <2>1, <3>1 DEF SameMessages, SameEntries
    <3>3. Settled = nand
      BY <2>6, SettledIsNand, Marks DEF Recoverable, JournalAtPoint, TypeInv, TypeOK
    <3>4. BackupIsCovered'
      BY <2>1, <2>3, <2>2, <3>1, <3>3 DEF BackupIsCovered, Covers
    <3> QED
      BY <2>1, <2>3, <2>6, <3>2, <3>4 DEF FetchInv, BetweenMessages, WritePoints
  <2> QED
    BY <2>1, <2>4, <2>5, <2>6 DEF BetweenMessages
<1> QED
  BY <1>1, <1>2, <1>3 DEF FetchStep

\* The console retires an entry, of which a recovery may bring one half back.
ImportSettles(s) ==
    /\ s \in Settled[Ctl].used \/ journal = Ctl
    /\ \A t \in Slots \ {s} : Settled'[Mbx].holds[t] = Settled[Mbx].holds[t]
    /\ \A t : t \in Settled'[Ctl].used
                 <=> t \in Settled[Ctl].used /\ (t # s \/ journal = Ctl)

LEMMA ImportSettlesNext ==
    ASSUME TypeInv, Recoverable, NEW s \in Slots, ConsoleImports(s)
    PROVE  ImportSettles(s) /\ nand'[Mbx] \in Mailboxes
           /\ \A t \in Slots : nand'[Mbx].holds[t] = IF t = s THEN NoMessage ELSE nand[Mbx].holds[t]
<1>1. /\ nand' = BoxWithout(nand, {s}, s) /\ s \in nand[Ctl].used /\ Whole(nand)
      /\ UNCHANGED <<backup, journal>>
  BY DEF ConsoleImports, ConsoleWrites
<1>2. nand[Mbx] \in Mailboxes /\ nand[Ctl] \in Indexes
  BY <1>1, Marks DEF Whole, TypeInv, BoxTypes, Version
<1>3. /\ nand'[Mbx] \in Mailboxes
      /\ \A t \in Slots : nand'[Mbx].holds[t] = IF t = s THEN NoMessage ELSE nand[Mbx].holds[t]
      /\ \A t : t \in nand'[Ctl].used <=> t \in nand[Ctl].used /\ t # s
  BY <1>1, <1>2, BoxWithoutOne
<1> QED
  BY <1>1, <1>3, SettledIs, Marks DEF ImportSettles

LEMMA FetchInvImport ==
    ASSUME TypeInv, Recoverable, FetchInv, NEW s \in Slots, ConsoleImports(s)
    PROVE  FetchInv'
<1>1. pc = "off" /\ pc' = "off" /\ exposed' = IF journal = Ctl THEN exposed \cup {s} ELSE exposed \ {s}
  BY DEF ConsoleImports, ConsoleWrites
<1>2. ImportSettles(s)
  BY ImportSettlesNext
<1>3. Settled[Ctl].used \subseteq Slots
  BY SettledIsTyped DEF SettledTypes
<1>4. Covers(Settled[Mbx], Settled[Ctl])'
  <2> SUFFICES ASSUME NEW t \in Settled'[Ctl].used, Settled'[Mbx].holds[t] \notin Messages
               PROVE  t \in exposed'
    BY DEF Covers
  <2>1. t \in Settled[Ctl].used /\ t \in Slots /\ (t # s \/ journal = Ctl)
    BY <1>2, <1>3 DEF ImportSettles
  <2>2. CASE t = s
    BY <1>1, <2>1, <2>2
  <2>3. CASE t # s
    <3>1. Settled[Mbx].holds[t] \notin Messages
      BY <1>2, <2>1, <2>3 DEF ImportSettles
    <3> QED
      BY <1>1, <2>1, <2>3, <3>1 DEF FetchInv, Covers
  <2> QED
    BY <2>2, <2>3
<1> QED
  BY <1>1, <1>4 DEF FetchInv, BetweenMessages, WritePoints

-----------------------------------------------------------------------------
(***************************************************************************)
(* HandedOverOnce is kept.                                                 *)
(***************************************************************************)

LEMMA TakenTwice ==
    ASSUME NEW list \in Seq(Messages), list # <<>>, IsInjective(list)
    PROVE  /\ IsInjective(Tail(list))
           /\ ToSet(list) = {Head(list)} \cup ToSet(Tail(list))
           /\ Head(list) \notin ToSet(Tail(list))
<1>1. PICK n \in Nat : n = Len(list) /\ n # 0
  OBVIOUS
<1>2. /\ DOMAIN list = 1 .. n /\ DOMAIN Tail(list) = 1 .. n - 1
      /\ Head(list) = list[1]
      /\ \A i \in 1 .. n - 1 : Tail(list)[i] = list[i + 1]
  BY <1>1
<1>3. \A i, j \in 1 .. n : list[i] = list[j] => i = j
  BY <1>2 DEF IsInjective
<1>4. IsInjective(Tail(list))
  <2> SUFFICES ASSUME NEW i \in 1 .. n - 1, NEW j \in 1 .. n - 1, Tail(list)[i] = Tail(list)[j]
               PROVE  i = j
    BY <1>2 DEF IsInjective
  <2>1. i + 1 \in 1 .. n /\ j + 1 \in 1 .. n
    OBVIOUS
  <2>2. i + 1 = j + 1
    BY <1>2, <1>3, <2>1
  <2> QED
    BY <2>2
<1>5. ASSUME NEW m \in ToSet(list) PROVE m = Head(list) \/ m \in ToSet(Tail(list))
  <2>1. PICK i \in 1 .. n : m = list[i]
    BY <1>2 DEF ToSet
  <2>2. CASE i # 1
    <3>1. i - 1 \in 1 .. n - 1 /\ (i - 1) + 1 = i
      BY <2>2
    <3>2. m = Tail(list)[i - 1]
      BY <1>2, <2>1, <3>1
    <3> QED
      BY <1>2, <3>1, <3>2 DEF ToSet
  <2> QED
    BY <1>2, <2>1, <2>2
<1>6. ASSUME NEW m \in ToSet(Tail(list)) PROVE m \in ToSet(list) /\ m # Head(list)
  <2>1. PICK i \in 1 .. n - 1 : m = Tail(list)[i]
    BY <1>2 DEF ToSet
  <2>2. i + 1 \in 1 .. n /\ i + 1 # 1 /\ 1 \in 1 .. n
    BY <1>1
  <2>3. m = list[i + 1]
    BY <1>2, <2>1
  <2> QED
    BY <1>2, <1>3, <2>2, <2>3 DEF ToSet
<1>7. Head(list) \in ToSet(list)
  BY <1>1, <1>2 DEF ToSet
<1> QED
  BY <1>4, <1>5, <1>6, <1>7

\* The messages that no mailbox may hold get fewer, but for those the server sends.
LEMMA WithoutFewer ==
    ASSUME NEW more, NEW less \in SUBSET more
    PROVE  Without(more) \subseteq Without(less)
BY DEF Without

LEMMA HandedOverInit == Init => HandedOverOnce
<1> SUFFICES ASSUME Init PROVE HandedOverOnce
  OBVIOUS
<1>1. pc = "idle" /\ taken = <<>> /\ nand = EmptyBox /\ flash = nand
      /\ backup = [f \in Files |-> NoFile]
  BY DEF Init, MailStoreInit
<1>2. Pending = {}
  BY <1>1 DEF Pending, WritePoints
<1>3. nand[Mbx] \in Without(server \cup Pending)
  <2>1. nand[Mbx] = [holds |-> [s \in Slots |-> NoMessage]] /\ server \subseteq Messages
    BY <1>1, Marks DEF EmptyBox, Init
  <2> QED
    BY <1>2, <2>1, MailStoreAssumption DEF Without, Mailboxes
<1>4. MailboxesIn(Without(server \cup Pending))
  BY <1>1, <1>3, Marks DEF MailboxesIn, WritePoints
<1>5. IsInjective(taken)
  BY <1>1 DEF IsInjective
<1> QED
  BY <1>1, <1>2, <1>4, <1>5 DEF HandedOverOnce, WritePoints

LEMMA HandedOverMail ==
    ASSUME FaultsAreMasked, TypeInv, Recoverable, FetchInv, HandedOverOnce,
           MailStep \/ MailOutside, UNCHANGED <<fetchVars, historyVars>>
    PROVE  HandedOverOnce'
<1>1. taken' = taken /\ server' = server
  BY DEF fetchVars
<1>2. Pending' \subseteq Pending
  <2>1. CASE pc \in WritePoints
    <3>1. pc' \in WritePoints \cup {"stored", "off"}
      <4>1. PICK s \in Slots : Writing(s)
        BY <2>1 DEF FetchInv
      <4> QED
        BY <2>1, <4>1, WritingNext DEF IndexWritten
    <3> QED
      BY <1>1, <2>1, <3>1 DEF Pending, WritePoints
  <2>2. CASE pc \notin WritePoints
    <3>1. pc' = pc \/ pc' \notin WritePoints \cup {"stored", "copy", "deliver"}
      BY <2>2, OtherPointsNext
    <3> QED
      BY <1>1, <3>1 DEF Pending
  <2> QED
    BY <2>1, <2>2
<1>3. MailboxesIn(Without(server \cup Pending))'
  <2>1. PICK set : set = Without(server \cup Pending)
    OBVIOUS
  <2>2. MailboxesIn(set)'
    BY <2>1, MailboxesInNext DEF HandedOverOnce, TypeInv, TypeOK
  <2>3. set \subseteq Without(server' \cup Pending')
    BY <1>1, <1>2, <2>1, WithoutFewer
  <2> QED
    BY <2>2, <2>3 DEF MailboxesIn
<1>4. pc' \in WritePoints \cup {"stored"} => Head(taken') \notin server'
  BY <1>1, WritePointsNext DEF HandedOverOnce
<1> QED
  BY <1>1, <1>2, <1>3, <1>4 DEF HandedOverOnce

LEMMA HandedOverFetch ==
    ASSUME TypeInv, Recoverable, HandedOverOnce, FetchStep
    PROVE  HandedOverOnce'
<1> DEFINE Same == UNCHANGED <<nand, flash, backup>> /\ pc' \notin WritePoints \cup {"saving", "repair", "repairing"}
           Fewer == server' \cup Pending' \subseteq server \cup Pending
<1>1. ASSUME Same, Fewer PROVE MailboxesIn(Without(server \cup Pending))'
  <2>1. Without(server \cup Pending) \subseteq Without(server' \cup Pending')
    BY <1>1, WithoutFewer
  <2> QED
    BY <1>1, <2>1 DEF HandedOverOnce, MailboxesIn
<1>2. CASE NoFetch \/ StartFetch \/ ReceiveFails \/ EndFetch
  <2>1. Same /\ taken' = taken /\ server' \subseteq server /\ pc' \in {"leave", "save"}
    BY <1>2 DEF NoFetch, StartFetch, ReceiveFails, EndFetch, Goto, storageVars, fetchVars, WritePoints
  <2>2. Pending' = {}
    BY <2>1 DEF Pending, WritePoints
  <2>3. MailboxesIn(Without(server \cup Pending))'
    BY <1>1, <2>1, <2>2
  <2> QED
    BY <2>1, <2>2, <2>3 DEF HandedOverOnce, WritePoints
<1>3. CASE Receive
  <2>1. Same /\ pc' = "copy" /\ IsInjective(taken') /\ server' = server \ ToSet(taken')
    BY <1>3 DEF Receive, Goto, storageVars, WritePoints
  <2>2. ToSet(taken') \subseteq server
    <3>1. taken' \in Seq(server)
      BY <1>3, BoundedSeqs, InboxAssumption DEF Receive
    <3> QED
      BY <3>1 DEF ToSet
  <2>3. Pending' = ToSet(taken')
    BY <2>1 DEF Pending
  <2>4. MailboxesIn(Without(server \cup Pending))'
    BY <1>1, <2>1, <2>2, <2>3
  <2> QED
    BY <2>1, <2>2, <2>3, <2>4 DEF HandedOverOnce, WritePoints
<1>4. CASE KeepCopy \/ StartDelivery
  <2>1. Same /\ taken' = taken /\ server' = server /\ pc' \in {"copy", "deliver"} /\ pc = "copy"
    BY <1>4 DEF KeepCopy, StartDelivery, Goto, storageVars, fetchVars, WritePoints
  <2>2. Pending' = Pending
    BY <2>1 DEF Pending
  <2>3. MailboxesIn(Without(server \cup Pending))'
    BY <1>1, <2>1, <2>2
  <2> QED
    BY <2>1, <2>2, <2>3 DEF HandedOverOnce, WritePoints
<1>5. CASE CannotDeliver \/ EndDelivery
  <2>1. /\ Same /\ taken # <<>> /\ taken' = Tail(taken) /\ server' = server
        /\ pc \in {"deliver", "stored"} /\ pc' = "deliver"
    BY <1>5 DEF CannotDeliver, EndDelivery, TypeInv, MessageAtHand, Goto, storageVars, WritePoints
  <2>2. taken \in Seq(Messages)
    BY Batches DEF TypeInv, TypeOK
  <2>3. IsInjective(taken') /\ ToSet(taken) = {Head(taken)} \cup ToSet(taken')
    BY <2>1, <2>2, TakenTwice DEF HandedOverOnce
  <2>4. Pending' = ToSet(taken')
    BY <2>1 DEF Pending
  <2>5. Pending' \subseteq Pending
    BY <2>1, <2>3, <2>4 DEF Pending, WritePoints
  <2>6. MailboxesIn(Without(server \cup Pending))'
    BY <1>1, <2>1, <2>5
  <2> QED
    BY <2>1, <2>3, <2>5, <2>6 DEF HandedOverOnce, WritePoints
<1>6. ASSUME NEW m \in Messages, NEW s \in Slots, Deliver(m, s) PROVE HandedOverOnce'
  <2>1. /\ pc = "deliver" /\ pc' = "openJournal" /\ cur' = Mbx
        /\ taken # <<>> /\ m = Head(taken) /\ taken' = taken /\ server' = server
        /\ UNCHANGED <<nand, flash, backup>>
        /\ buffer' = BoxWith(nand, s, m)[Mbx]
    BY <1>6 DEF Deliver, MailboxFirst, Goto, storageVars, fetchVars
  <2>2. taken \in Seq(Messages)
    BY Batches DEF TypeInv, TypeOK
  <2>3. ToSet(taken) = {m} \cup ToSet(Tail(taken)) /\ m \notin ToSet(Tail(taken))
    BY <2>1, <2>2, TakenTwice DEF HandedOverOnce
  <2>4. Pending = ToSet(taken) /\ Pending' = ToSet(Tail(taken))
    BY <2>1 DEF Pending, WritePoints
  <2>5. m \notin server' \cup Pending' /\ Pending' \cap server' = {}
    BY <2>1, <2>3, <2>4 DEF HandedOverOnce
  <2>6. Without(server \cup Pending) \subseteq Without(server' \cup Pending')
    BY <2>1, <2>3, <2>4, WithoutFewer
  <2>7. nand[Mbx] \in Mailboxes /\ nand[Ctl] \in Indexes
    BY <2>1, Marks DEF Recoverable, JournalAtPoint, TornIsNamed, TypeInv, BoxTypes, Version
  <2>8. buffer' \in Mailboxes /\ buffer'.holds = [t \in Slots |-> IF t = s THEN m ELSE nand[Mbx].holds[t]]
    BY <2>1, <2>7, BoxWithMessage
  <2>9. nand[Mbx] \in Without(server' \cup Pending')
    BY <2>6, <2>7, Marks DEF HandedOverOnce, MailboxesIn, Version
  <2>10. buffer' \in Without(server' \cup Pending')
    BY <2>5, <2>8, <2>9 DEF Without
  <2>11. MailboxesIn(Without(server \cup Pending))'
    BY <2>1, <2>6, <2>10 DEF HandedOverOnce, MailboxesIn
  <2> QED
    BY <2>1, <2>5, <2>11 DEF HandedOverOnce
<1> QED
  BY <1>2, <1>3, <1>4, <1>5, <1>6 DEF FetchStep

LEMMA HandedOverImport ==
    ASSUME TypeInv, Recoverable, HandedOverOnce, NEW s \in Slots, ConsoleImports(s)
    PROVE  HandedOverOnce'
<1>1. /\ pc = "off" /\ pc' = "off" /\ nand[Mbx] # Torn
      /\ flash' = nand' /\ UNCHANGED <<backup, taken, server>>
  BY Marks DEF ConsoleImports, ConsoleWrites, Whole
<1>2. Pending = {} /\ Pending' = {}
  BY <1>1 DEF Pending, WritePoints
<1>3. nand'[Mbx] \in Without(server)
  <2>1. nand[Mbx] \in Without(server)
    BY <1>1, <1>2 DEF HandedOverOnce, MailboxesIn
  <2>2. NoMessage \notin server
    BY MailStoreAssumption DEF TypeInv, TypeOK
  <2>3. /\ nand'[Mbx] \in Mailboxes
        /\ \A t \in Slots : nand'[Mbx].holds[t] = IF t = s THEN NoMessage ELSE nand[Mbx].holds[t]
    BY ImportSettlesNext
  <2> QED
    BY <2>1, <2>2, <2>3 DEF Without
<1>4. MailboxesIn(Without(server \cup Pending))'
  BY <1>1, <1>2, <1>3 DEF HandedOverOnce, MailboxesIn, WritePoints
<1> QED
  BY <1>1, <1>2, <1>4 DEF HandedOverOnce, WritePoints

\* All of it together.
InboxInv == TypeInv /\ Recoverable /\ FetchInv /\ HandedOverOnce

LEMMA InboxInvInit == Init => InboxInv
BY TypeInvInit, RecoverableInit, FetchInvInit, HandedOverInit DEF InboxInv, Init

LEMMA InboxInvNext ==
    ASSUME FaultsAreMasked, InboxInv, [Next]_vars
    PROVE  InboxInv'
<1>1. TypeInv' /\ Recoverable'
  BY TypeInvNext, InboxRecoverable DEF InboxInv
<1>2. CASE (MailStep \/ MailOutside) /\ UNCHANGED <<fetchVars, historyVars>>
  <2>1. FetchInv'
    BY <1>2, FetchInvWriting, FetchInvMail DEF InboxInv
  <2> QED
    BY <1>1, <1>2, <2>1, HandedOverMail DEF InboxInv
<1>3. CASE FetchStep
  BY <1>1, <1>3, FetchInvFetch, HandedOverFetch DEF InboxInv
<1>4. CASE \E s \in Slots : ConsoleImports(s)
  BY <1>1, <1>4, FetchInvImport, HandedOverImport DEF InboxInv
<1>5. CASE UNCHANGED vars
  <2>1. UNCHANGED <<nand, flash, backup, journal, pc, cur, buffer, newIndex, written>>
        /\ UNCHANGED <<taken, server, batch, exposed>>
    BY <1>5 DEF vars, recoveryVars, storageVars, mailVars, fetchVars, historyVars
  <2>2. FetchInv'
    BY <2>1 DEF InboxInv, FetchInv, Covers, BackupIsCovered, Writing, SameMessages, SameEntries,
         Settled, NewMailbox
  <2>3. HandedOverOnce'
    BY <2>1 DEF InboxInv, HandedOverOnce, MailboxesIn, Pending
  <2> QED
    BY <1>1, <2>2, <2>3 DEF InboxInv
<1> QED
  BY <1>2, <1>3, <1>4, <1>5 DEF Next

THEOREM InboxInvHolds ==
    ASSUME FaultsAreMasked
    PROVE  Spec => []InboxInv
<1>1. InboxInv /\ [Next]_vars => InboxInv'
  BY InboxInvNext
<1> QED
  BY <1>1, InboxInvInit, PTL DEF Spec

\* OnlyExposedDangle: however many messages a fetch brings and whenever the job is cut
\* off or vWii started, an entry loses its message only to a recovery that goes back to
\* before the fetch, or that brings back what vWii has retired.
THEOREM OnlyExposedLoseTheirMessage ==
    ASSUME FaultsAreMasked
    PROVE  Spec => []OnlyExposedDangle
<1>1. InboxInv => OnlyExposedDangle
  <2> SUFFICES ASSUME InboxInv, NEW s \in Dangling(Settled) PROVE s \in exposed
    BY DEF OnlyExposedDangle
  <2>1. s \in Settled[Ctl].used /\ s \notin Listed(Settled) /\ s \in Slots /\ Whole(Settled)
    BY DEF Dangling
  <2>2. Settled[Mbx].holds[s] = NoMessage
    BY <2>1 DEF Listed
  <2>3. Settled[Mbx].holds[s] \notin Messages
    BY <2>2, MailStoreAssumption
  <2> QED
    BY <2>1, <2>3 DEF InboxInv, FetchInv, Covers
<1> QED
  BY <1>1, InboxInvHolds, PTL

-----------------------------------------------------------------------------
(***************************************************************************)
(* A delivery is one step.                                                 *)
(***************************************************************************)

LEMMA InboxIs ==
    /\ DOMAIN InboxOf(Settled) = Settled[Ctl].used
    /\ \A t \in Settled[Ctl].used : InboxOf(Settled)[t] = Settled[Mbx].holds[t]
    /\ DOMAIN InboxOf(Settled)' = Settled'[Ctl].used
    /\ \A t \in Settled'[Ctl].used : InboxOf(Settled)'[t] = Settled'[Mbx].holds[t]
BY DEF InboxOf

\* Of two boxes this fetch has made, without slot s, only the exposed slots differ.
LEMMA UndoesExposed ==
    ASSUME InboxInv, InboxInv', NEW s \in Slots, batch \subseteq exposed \cup {s}, IsNotDelivered(s)
    PROVE  Abstract!OnlyChangesAt(exposed)
<1>1. Settled[Ctl].used \subseteq Slots /\ Settled'[Ctl].used \subseteq Slots
  <2>1. SettledTypes /\ SettledTypes'
    BY SettledIsTyped, PTL DEF InboxInv
  <2> QED
    BY <2>1 DEF SettledTypes
<1>2. ASSUME NEW t \in Slots \ exposed
      PROVE  /\ t \in Settled[Ctl].used <=> t \in Settled'[Ctl].used
             /\ t \in Settled[Ctl].used => Settled'[Mbx].holds[t] = Settled[Mbx].holds[t]
  <2>1. CASE t = s
    BY <2>1 DEF IsNotDelivered, OfThisBatch
  <2>2. CASE t # s
    <3>1. t \in Slots \ batch
      BY <2>2
    <3> QED
      BY <3>1 DEF IsNotDelivered, OfThisBatch, SameMessages, SameEntries
  <2> QED
    BY <2>1, <2>2
<1> QED
  BY <1>1, <1>2, InboxIs DEF Abstract!OnlyChangesAt

LEMMA DeliversOne ==
    ASSUME InboxInv, InboxInv', NEW s \in Slots, Writing(s), IsDelivered(s),
           UNCHANGED <<fetchVars, historyVars>>
    PROVE  Abstract!Deliver
<1>1. Settled[Ctl].used \subseteq Slots /\ Settled'[Ctl].used \subseteq Slots
  <2>1. SettledTypes /\ SettledTypes'
    BY SettledIsTyped, PTL DEF InboxInv
  <2> QED
    BY <2>1 DEF SettledTypes
<1>2. Settled'[Mbx] = NewMailbox /\ Settled'[Ctl] = newIndex
  BY DEF IsDelivered
<1>3. ASSUME NEW t \in Slots \ (exposed \cup {s})
      PROVE  /\ t \in Settled[Ctl].used <=> t \in Settled'[Ctl].used
             /\ t \in Settled[Ctl].used => Settled'[Mbx].holds[t] = Settled[Mbx].holds[t]
  <2>1. t \in Slots \ batch
    BY DEF Writing
  <2> QED
    BY <1>2, <2>1 DEF IsDelivered, Writing, OfThisBatch, SameMessages, SameEntries
<1>4. Abstract!OnlyChangesAt(exposed \cup {s})
  BY <1>1, <1>3, InboxIs DEF Abstract!OnlyChangesAt
<1>5. PICK m : m = Head(taken)
  OBVIOUS
<1>6. m \in Messages \ server
  BY <1>5, BatchTail
     DEF InboxInv, TypeInv, TypeOK, MessageAtHand, HandedOverOnce, IsDelivered
<1>7. s \in batch \ (exposed \cup DOMAIN InboxOf(Settled))
  BY InboxIs DEF Writing, IsDelivered, OfThisBatch
<1>8. s \in DOMAIN InboxOf(Settled)' /\ InboxOf(Settled)'[s] = m
  BY <1>2, <1>5, InboxIs DEF Writing
<1>9. \A t \in DOMAIN InboxOf(Settled)' \ {s} : InboxOf(Settled)'[t] # m
  BY <1>1, <1>2, <1>5, InboxIs DEF Writing
<1>10. /\ pc # "off" /\ pc' # "off" /\ UNCHANGED <<server, batch, exposed>>
  BY DEF IsDelivered, WritePoints, fetchVars, historyVars
<1> QED
  BY <1>4, <1>6, <1>7, <1>8, <1>9, <1>10 DEF Abstract!Deliver

\* The steps of the fetch itself change nothing in the inbox.
LEMMA FetchIsAbstract ==
    ASSUME InboxInv, FetchStep
    PROVE  Abstract!Next
<1>1. ASSUME Settled' = Settled PROVE InboxOf(Settled)' = InboxOf(Settled)
  BY <1>1 DEF InboxOf
<1>2. CASE StartFetch
  <2>1. /\ pc = "gate" /\ pc' = "save" /\ UNCHANGED <<nand, backup, journal, server>>
        /\ batch' = {} /\ exposed' \in SUBSET exposed
    BY <1>2 DEF StartFetch, Goto, storageVars, fetchVars
  <2>2. InboxOf(Settled)' = InboxOf(Settled)
    BY <1>1, <2>1 DEF Settled
  <2>3. Abstract!StartFetch
    BY <2>1, <2>2 DEF Abstract!StartFetch
  <2> QED
    BY <2>3 DEF Abstract!Next
<1>3. ASSUME NEW m \in Messages, NEW s \in Slots, Deliver(m, s) PROVE Abstract!Next
  <2>1. /\ pc = "deliver" /\ pc' = "openJournal" /\ UNCHANGED <<nand, backup, journal, server>>
        /\ batch' = batch \cup {s} /\ exposed' = (exposed \cup batch) \ {s}
    BY <1>3 DEF Deliver, MailboxFirst, Exposes, Goto, storageVars, fetchVars
  <2>2. InboxOf(Settled)' = InboxOf(Settled)
    BY <1>1, <2>1 DEF Settled
  <2>3. Abstract!Begin
    BY <2>1, <2>2 DEF Abstract!Begin
  <2> QED
    BY <2>3 DEF Abstract!Next
<1>4. CASE NoFetch \/ Receive \/ ReceiveFails \/ KeepCopy \/ StartDelivery
           \/ CannotDeliver \/ EndDelivery \/ EndFetch
  <2>1. /\ pc # "off" /\ pc' # "off" /\ UNCHANGED <<nand, backup, journal, batch, exposed>>
        /\ server' \in SUBSET server
    BY <1>4 DEF NoFetch, Receive, ReceiveFails, KeepCopy, StartDelivery, CannotDeliver,
         EndDelivery, EndFetch, Goto, storageVars, fetchVars, historyVars
  <2>2. InboxOf(Settled)' = InboxOf(Settled)
    BY <1>1, <2>1 DEF Settled
  <2>3. Abstract!HandOver
    BY <2>1, <2>2 DEF Abstract!HandOver
  <2> QED
    BY <2>3 DEF Abstract!Next
<1> QED
  BY <1>2, <1>3, <1>4 DEF FetchStep

LEMMA ImportIsAbstract ==
    ASSUME InboxInv, InboxInv', NEW s \in Slots, ConsoleImports(s)
    PROVE  Abstract!Retire
<1>1. /\ pc = "off" /\ pc' = "off" /\ UNCHANGED <<server, batch>>
      /\ exposed' = IF journal = Ctl THEN exposed \cup {s} ELSE exposed \ {s}
  BY DEF ConsoleImports, ConsoleWrites
<1>2. ImportSettles(s)
  BY ImportSettlesNext DEF InboxInv
<1>3. Settled[Ctl].used \subseteq Slots /\ Settled'[Ctl].used \subseteq Slots
  <2>1. SettledTypes /\ SettledTypes'
    BY SettledIsTyped, PTL DEF InboxInv
  <2> QED
    BY <2>1 DEF SettledTypes
<1>4. CASE journal = Ctl
  <2>1. Abstract!OnlyChangesAt({s})
    BY <1>2, <1>3, <1>4, InboxIs DEF ImportSettles, Abstract!OnlyChangesAt
  <2> QED
    BY <1>1, <1>4, <2>1 DEF Abstract!Retire
<1>5. CASE journal # Ctl
  <2>1. s \in DOMAIN InboxOf(Settled)
    BY <1>2, <1>5, InboxIs DEF ImportSettles
  <2>2. Settled'[Ctl].used = Settled[Ctl].used \ {s}
    BY <1>2, <1>5 DEF ImportSettles
  <2>3. \A t \in Settled[Ctl].used \ {s} : Settled'[Mbx].holds[t] = Settled[Mbx].holds[t]
    BY <1>2, <1>3 DEF ImportSettles
  <2>4. InboxOf(Settled)' = [t \in Settled[Ctl].used \ {s} |-> Settled'[Mbx].holds[t]]
    BY <2>2 DEF InboxOf
  <2>5. InboxOf(Settled)' = [t \in DOMAIN InboxOf(Settled) \ {s} |-> InboxOf(Settled)[t]]
    BY <2>3, <2>4, InboxIs
  <2> QED
    BY <1>1, <1>5, <2>1, <2>5 DEF Abstract!Retire
<1> QED
  BY <1>4, <1>5

\* AtomicDelivery: the message a delivery is at appears in one step, and none but those
\* that a recovery may undo are touched, for batches of any size and whatever vWii does.
THEOREM DeliveryIsAtomic ==
    ASSUME FaultsAreMasked
    PROVE  Spec => AtomicDelivery
<1>1. Init => Abstract!Init
  <2> SUFFICES ASSUME Init PROVE Abstract!Init
    OBVIOUS
  <2>1. Settled[Ctl].used = {}
    BY Marks DEF Init, MailStoreInit, Settled, EmptyBox
  <2>2. InboxOf(Settled) = [s \in {} |-> s]
    BY <2>1 DEF InboxOf
  <2> QED
    BY <2>2 DEF Init, Abstract!Init
<1>2. ASSUME InboxInv, InboxInv', [Next]_vars PROVE [Abstract!Next]_(Abstract!vars)
  <2>1. CASE (MailStep \/ MailOutside) /\ UNCHANGED <<fetchVars, historyVars>>
    <3>1. UNCHANGED <<server, batch, exposed>>
      BY <2>1 DEF fetchVars, historyVars
    <3>2. CASE Settled' = Settled
      <4>1. InboxOf(Settled)' = InboxOf(Settled)
        BY <3>2 DEF InboxOf
      <4>2. CASE (pc' # "off") = (pc # "off")
        BY <3>1, <4>1, <4>2 DEF Abstract!vars
      <4>3. CASE (pc' # "off") # (pc # "off")
        <5>1. (pc' # "off") = ~(pc # "off")
          BY <4>3
        <5>2. Abstract!StartOrCut
          BY <3>1, <4>1, <5>1 DEF Abstract!StartOrCut
        <5> QED
          BY <5>2 DEF Abstract!Next
      <4> QED
        BY <4>2, <4>3
    <3>3. CASE Settled' # Settled
      <4>1. pc \in WritePoints
        BY <1>2, <2>1, <3>3, OtherSettles DEF InboxInv
      <4>2. PICK s \in Slots : Writing(s)
        BY <1>2, <4>1 DEF InboxInv, FetchInv
      <4>3. BackupIsCovered
        BY <1>2, <4>1 DEF InboxInv, FetchInv
      <4>4. (IsNotDelivered(s) \/ IsDelivered(s)) /\ pc' # "off"
        BY <1>2, <2>1, <3>3, <4>1, <4>2, <4>3, WritingSettlesNext DEF InboxInv
      <4>5. CASE IsNotDelivered(s)
        <5>1. Abstract!OnlyChangesAt(exposed)
          BY <1>2, <4>2, <4>5, UndoesExposed DEF Writing
        <5>2. pc # "off"
          BY <4>1 DEF WritePoints
        <5>3. Abstract!Undo
          BY <3>1, <4>4, <5>1, <5>2 DEF Abstract!Undo
        <5> QED
          BY <5>3 DEF Abstract!Next
      <4>6. CASE IsDelivered(s)
        BY <1>2, <2>1, <4>2, <4>6, DeliversOne DEF Abstract!Next
      <4> QED
        BY <4>4, <4>5, <4>6
    <3> QED
      BY <3>2, <3>3
  <2>2. CASE FetchStep
    BY <1>2, <2>2, FetchIsAbstract
  <2>3. ASSUME NEW s \in Slots, ConsoleImports(s) PROVE Abstract!Next
    BY <1>2, <2>3, ImportIsAbstract DEF Abstract!Next
  <2>4. CASE UNCHANGED vars
    BY <2>4 DEF vars, recoveryVars, storageVars, fetchVars, historyVars, Settled, InboxOf, Abstract!vars
  <2> QED
    BY <1>2, <2>1, <2>2, <2>3, <2>4 DEF Next
<1> QED
  BY <1>1, <1>2, InboxInvHolds, PTL DEF Spec, AtomicDelivery, Abstract!Spec

-----------------------------------------------------------------------------
(***************************************************************************)
(* The packed fields of an index entry, for any widths of the two halves,  *)
(* as long as both fit; MailMessageLong.cfg shows what happens to a value  *)
(* that does not. FieldsPointAtValues of MailMessage rests on it.          *)
(***************************************************************************)

\* A product with a number that is not 0 is at least as far from 0 as the other factor.
LEMMA OffZero ==
    ASSUME NEW d \in Int, NEW k \in Nat \ {0}, -k < d * k, d * k < k
    PROVE  d = 0
<1>1. CASE d >= 1
  <2>1. (d - 1) * k >= 0
    BY <1>1
  <2> QED
    BY <2>1
<1>2. CASE d <= -1
  <2>1. (-1 - d) * k >= 0
    BY <1>2
  <2> QED
    BY <2>1
<1> QED
  BY <1>1, <1>2

\* Quotient and remainder are the only numbers that make up the dividend.
LEMMA DivModUnique ==
    ASSUME NEW q \in Nat, NEW r \in Nat, NEW k \in Nat \ {0}, r < k
    PROVE  (q * k + r) % k = r /\ (q * k + r) \div k = q
<1> DEFINE n == q * k + r
           d == n \div k
           m == n % k
<1>1. n \in Nat /\ d \in Int /\ m \in 0 .. k - 1 /\ n = d * k + m
  OBVIOUS
<1> HIDE DEF d, m
<1>2. (d - q) * k = r - m
  BY <1>1
<1>3. d - q = 0
  BY <1>1, <1>2, OffZero
<1> QED
  BY <1>1, <1>2, <1>3 DEF d, m

\* PackedOffset and PackedLength (wc24.h) give back what the constructor was given.
THEOREM PackedFieldsComeApart ==
    ASSUME NEW offset \in 0 .. Offsets - 1, NEW length \in 0 .. Lengths - 1
    PROVE  /\ PackedOffset(PackField(offset, length)) = offset
           /\ PackedLength(PackField(offset, length)) = length
<1>1. offset % Offsets = offset /\ length % Lengths = length
  BY PackAssumption
<1>2. PackField(offset, length) = length * Offsets + offset
  BY <1>1 DEF PackField
<1>3. /\ (length * Offsets + offset) % Offsets = offset
      /\ (length * Offsets + offset) \div Offsets = length
  <2>1. offset \in Nat /\ length \in Nat /\ Offsets \in Nat \ {0} /\ offset < Offsets
    BY PackAssumption
  <2> QED
    BY <2>1, DivModUnique
<1> QED
  BY <1>2, <1>3 DEF PackedOffset, PackedLength

-----------------------------------------------------------------------------
(***************************************************************************)
(* What the fields of an index entry point at, whatever the text:          *)
(* MailMessage makes the entries that Inbox takes for one value.           *)
(***************************************************************************)
\* A name that is at no line's start in the header, but inside a line, and the body
\* starts with it: the search for "\r\n" and the name finds the blank line's end.
BodyTakenForHeader(t, name) ==
    /\ LinesOf(t, name) = {}
    /\ \E i \in 1 .. HeadEnd(t) : t[i] = name
    /\ HeadEnd(t) + 2 <= Len(t) /\ t[HeadEnd(t) + 2] = name

\* The value of a header is where a packed field can say, and no longer than it can say.
FitsField(t, name) ==
    /\ Offset(t, ValueOf(t, name)) \in 0 .. Offsets - 1
    /\ Length(t, ValueOf(t, name)) \in 0 .. Lengths - 1

\* Of the texts to deliver, fetched or built.
HeadersAreClear ==
    \A t \in Fetched \cup {BuildMessage(m) : m \in Written} :
        /\ t \in Seq(DOMAIN Width)
        /\ \A name \in Names : ~BodyTakenForHeader(t, name) /\ FitsField(t, name)

\* The least number of a set of positions. Only the strict subsets of a finite set are
\* known to be well-founded, hence the detour by the numbers below each.
LEMMA LeastPosition ==
    ASSUME NEW n \in Nat, NEW S \in SUBSET (1 .. n), S # {}
    PROVE  Min(S) \in S /\ \A y \in S : Min(S) <= y
<1> DEFINE Below(x) == {y \in S : y < x}
           Segments == {Below(x) : x \in S}
<1>1. IsFiniteSet(1 .. n)
  BY FS_Interval
<1>2. IsWellFoundedOn(StrictSubsetOrdering(1 .. n), FiniteSubsetsOf(1 .. n))
  BY <1>1, FS_StrictSubsetOrderingWellFounded
<1>3. Segments \subseteq FiniteSubsetsOf(1 .. n) /\ Segments # {}
  <2>1. \A x \in S : Below(x) \in SUBSET (1 .. n)
    OBVIOUS
  <2>2. FiniteSubsetsOf(1 .. n) = SUBSET (1 .. n)
    BY <1>1, FS_FiniteSubsetsOfFinite
  <2> HIDE DEF Below
  <2>3. Segments # {}
    OBVIOUS
  <2> QED
    BY <2>1, <2>2, <2>3
<1> HIDE DEF Segments
<1>4. PICK m \in Segments : \A k \in Segments : <<k, m>> \notin StrictSubsetOrdering(1 .. n)
  BY <1>2, <1>3, WFMin
<1>5. PICK x \in S : m = Below(x)
  BY DEF Segments
<1>6. ASSUME NEW y \in S, y < x PROVE FALSE
  <2>1. Below(y) \in Segments
    BY DEF Segments
  <2>2. y \in Below(x) /\ y \notin Below(y)
    BY <1>6
  <2>3. \A z \in Below(y) : z \in Below(x)
    <3>1. \A z \in S : z < y => z < x
      BY <1>6
    <3> QED
      BY <3>1
  <2>4. Below(y) \in SUBSET (1 .. n) /\ Below(x) \in SUBSET (1 .. n)
    OBVIOUS
  <2> HIDE DEF Below
  <2>5. <<Below(y), Below(x)>> \in StrictSubsetOrdering(1 .. n)
    BY <2>2, <2>3, <2>4 DEF StrictSubsetOrdering
  <2> QED
    BY <1>4, <1>5, <2>1, <2>5
<1>7. \A y \in S : x <= y
  BY <1>6
<1> QED
  BY <1>7 DEF Min

LEMMA LeastIsMin ==
    ASSUME NEW S \in SUBSET Int, NEW x \in S, \A y \in S : x <= y
    PROVE  Min(S) = x
<1>1. \A z \in S : (\A y \in S : z <= y) => z = x
  <2> SUFFICES ASSUME NEW z \in S, \A y \in S : z <= y
               PROVE  z = x
    OBVIOUS
  <2>1. z <= x /\ x <= z /\ z \in Int /\ x \in Int
    OBVIOUS
  <2> QED
    BY <2>1
<1> DEFINE Least(z) == \A y \in S : z <= y
<1>2. \E z \in S : Least(z)
  OBVIOUS
<1>3. Min(S) = CHOOSE z \in S : Least(z)
  BY DEF Min
<1>4. \A z \in S : Least(z) => z = x
  BY <1>1
<1> HIDE DEF Least
<1> QED
  BY <1>2, <1>3, <1>4

\* Where a token is, and where two are in a row.
LEMMA OneToken ==
    ASSUME NEW T, NEW t \in Seq(T), NEW x
    PROVE  Occurrences(t, <<x>>) = {i \in 1 .. Len(t) : t[i] = x}
<1>1. Len(<<x>>) = 1 /\ <<x>>[1] = x
  OBVIOUS
<1>2. ASSUME NEW i \in 1 .. Len(t)
      PROVE  SubSeq(t, i, i + 1 - 1) = <<x>> <=> t[i] = x
  <2>1. SubSeq(t, i, i + 1 - 1) = SubSeq(t, i, i)
    OBVIOUS
  <2>2. Len(SubSeq(t, i, i)) = 1 /\ SubSeq(t, i, i)[1] = t[i]
    OBVIOUS
  <2>3. SubSeq(t, i, i) = <<t[i]>>
    <3>1. /\ SubSeq(t, i, i) \in Seq(T) /\ <<t[i]>> \in Seq(T)
          /\ Len(<<t[i]>>) = 1 /\ <<t[i]>>[1] = t[i]
      OBVIOUS
    <3>2. \A k \in 1 .. 1 : SubSeq(t, i, i)[k] = <<t[i]>>[k]
      BY <2>2, <3>1
    <3> QED
      BY <2>2, <3>1, <3>2, SeqEqual
  <2> QED
    BY <2>1, <2>3
<1> QED
  BY <1>1, <1>2 DEF Occurrences

LEMMA TwoTokens ==
    ASSUME NEW T, NEW t \in Seq(T), NEW x, NEW y
    PROVE  Occurrences(t, <<x, y>>) =
               {i \in 1 .. Len(t) - 1 : t[i] = x /\ t[i + 1] = y}
<1>1. Len(<<x, y>>) = 2 /\ <<x, y>>[1] = x /\ <<x, y>>[2] = y
  OBVIOUS
<1>2. ASSUME NEW i \in 1 .. Len(t) - 1
      PROVE  SubSeq(t, i, i + 2 - 1) = <<x, y>> <=> t[i] = x /\ t[i + 1] = y
  <2>1. SubSeq(t, i, i + 2 - 1) = SubSeq(t, i, i + 1)
    OBVIOUS
  <2>2. /\ Len(SubSeq(t, i, i + 1)) = 2
        /\ SubSeq(t, i, i + 1)[1] = t[i] /\ SubSeq(t, i, i + 1)[2] = t[i + 1]
    OBVIOUS
  <2>3. SubSeq(t, i, i + 1) = <<t[i], t[i + 1]>>
    <3>1. /\ SubSeq(t, i, i + 1) \in Seq(T) /\ <<t[i], t[i + 1]>> \in Seq(T)
          /\ Len(<<t[i], t[i + 1]>>) = 2
          /\ <<t[i], t[i + 1]>>[1] = t[i] /\ <<t[i], t[i + 1]>>[2] = t[i + 1]
      OBVIOUS
    <3>2. ASSUME NEW k \in 1 .. 2
          PROVE  SubSeq(t, i, i + 1)[k] = <<t[i], t[i + 1]>>[k]
      <4>1. k = 1 \/ k = 2
        OBVIOUS
      <4> QED
        BY <2>2, <3>1, <4>1
    <3> QED
      BY <2>2, <3>1, <3>2, SeqEqual
  <2> QED
    BY <2>1, <2>3
<1>3. Len(t) - 2 + 1 = Len(t) - 1
  OBVIOUS
<1> QED
  BY <1>1, <1>2, <1>3 DEF Occurrences

\* The first place at or after a position, or npos.
LEMMA FindOne ==
    ASSUME NEW T, NEW t \in Seq(T), NEW x, NEW from \in Nat \ {0}, NEW at, at = Find(t, <<x>>, from)
    PROVE  \/ at = 0 /\ \A i \in 1 .. Len(t) : i >= from => t[i] # x
           \/ /\ at \in 1 .. Len(t) /\ at >= from /\ t[at] = x
              /\ \A i \in 1 .. Len(t) : i >= from /\ t[i] = x => at <= i
<1> DEFINE found == {i \in Occurrences(t, <<x>>) : i >= from}
<1>1. found = {i \in 1 .. Len(t) : t[i] = x /\ i >= from}
  BY OneToken
<1>2. at = IF found = {} THEN 0 ELSE Min(found)
  BY DEF Find
<1> HIDE DEF found
<1>3. found # {} => Min(found) \in found /\ \A i \in found : Min(found) <= i
  <2>1. Len(t) \in Nat /\ found \in SUBSET (1 .. Len(t))
    BY <1>1
  <2> QED
    BY <2>1, LeastPosition
<1> QED
  BY <1>1, <1>2, <1>3

LEMMA FindTwo ==
    ASSUME NEW T, NEW t \in Seq(T), NEW x, NEW y, NEW from \in Nat \ {0}, NEW at,
           at = Find(t, <<x, y>>, from)
    PROVE  \/ at = 0 /\ \A i \in 1 .. Len(t) - 1 : i >= from => ~(t[i] = x /\ t[i + 1] = y)
           \/ /\ at \in 1 .. Len(t) - 1 /\ at >= from /\ t[at] = x /\ t[at + 1] = y
              /\ \A i \in 1 .. Len(t) - 1 : i >= from /\ t[i] = x /\ t[i + 1] = y => at <= i
<1> DEFINE found == {i \in Occurrences(t, <<x, y>>) : i >= from}
<1>1. found = {i \in 1 .. Len(t) - 1 : t[i] = x /\ t[i + 1] = y /\ i >= from}
  BY TwoTokens
<1>2. at = IF found = {} THEN 0 ELSE Min(found)
  BY DEF Find
<1> HIDE DEF found
<1>3. found # {} => Min(found) \in found /\ \A i \in found : Min(found) <= i
  <2>1. Len(t) \in Nat /\ found \in SUBSET (1 .. Len(t))
    BY <1>1
  <2> QED
    BY <2>1, LeastPosition
<1> QED
  BY <1>1, <1>2, <1>3

LEMMA LineOf ==
    ASSUME NEW T, NEW t \in Seq(T), NEW from \in Nat \ {0}, NEW end \in 1 .. Len(t),
           from <= end, t[end] = CRLF
    PROVE  Line(t, from) = Span(from, Min({i \in from .. end : t[i] = CRLF}))
<1> DEFINE at == Find(t, <<CRLF>>, from)
           ends == {i \in from .. end : t[i] = CRLF}
<1>1. /\ at \in 1 .. Len(t) /\ at >= from /\ t[at] = CRLF
      /\ \A i \in 1 .. Len(t) : i >= from /\ t[i] = CRLF => at <= i
  <2>1. PICK a : a = Find(t, <<CRLF>>, from)
    OBVIOUS
  <2> QED
    BY <2>1, FindOne
<1> HIDE DEF at
<1>2. at \in ends /\ \A i \in ends : at <= i
  BY <1>1
<1>3. ends \subseteq Int
  OBVIOUS
<1> HIDE DEF ends
<1>4. Min(ends) = at
  BY <1>2, <1>3, LeastIsMin
<1> QED
  BY <1>1, <1>4 DEF Line, OrEnd, at, ends

\* FindHeaderValue, given where the header ends, finds the value of the first line of
\* that name.
THEOREM HeaderValuesAreFound ==
    ASSUME NEW T, NEW t \in Seq(T), NEW name, name # CRLF, HeadEnd(t) # 0,
           ~BodyTakenForHeader(t, name)
    PROVE  FindHeaderValue(t, name, HeadEnd(t) + 2) = ValueOf(t, name)
<1>1. PICK blank : blank = HeadEnd(t)
  OBVIOUS
<1>2. /\ blank \in 1 .. Len(t) - 1 /\ t[blank] = CRLF /\ t[blank + 1] = CRLF
  BY <1>1, FindTwo DEF HeadEnd
<1>3. PICK first : first = Find(t, <<name>>, 1)
  OBVIOUS
<1>4. PICK atLine : atLine = Find(t, <<CRLF, name>>, 1)
  OBVIOUS
<1>5. PICK lines : lines = LinesOf(t, name)
  OBVIOUS
<1>6. lines = {i \in 1 .. blank : t[i] = name /\ (i = 1 \/ t[i - 1] = CRLF)}
  BY <1>1, <1>5 DEF LinesOf
<1>7. \/ first = 0 /\ \A i \in 1 .. Len(t) : t[i] # name
      \/ /\ first \in 1 .. Len(t) /\ t[first] = name
         /\ \A i \in 1 .. Len(t) : t[i] = name => first <= i
  <2>1. Len(t) \in Nat /\ 1 \in Nat \ {0}
    OBVIOUS
  <2> QED
    BY <1>3, <2>1, FindOne
<1>8. \/ atLine = 0 /\ \A i \in 1 .. Len(t) - 1 : ~(t[i] = CRLF /\ t[i + 1] = name)
      \/ /\ atLine \in 1 .. Len(t) - 1 /\ t[atLine] = CRLF /\ t[atLine + 1] = name
         /\ \A i \in 1 .. Len(t) - 1 : t[i] = CRLF /\ t[i + 1] = name => atLine <= i
  BY <1>4, FindTwo
<1>9. FindHeaderValue(t, name, blank + 2) =
          IF first = 0 \/ first >= blank + 2 THEN NoSpan
          ELSE IF first = 1 \/ t[first - 1] = CRLF THEN Line(t, first + 1)
          ELSE IF atLine = 0 \/ atLine >= blank + 2 THEN NoSpan
          ELSE Line(t, atLine + 2)
  BY <1>3, <1>4 DEF FindHeaderValue
\* The first line of that name, if it is known to be one.
<1>10. ASSUME NEW i \in lines, \A k \in lines : i <= k
       PROVE  ValueOf(t, name) = Line(t, i + 1)
  <2>1. i \in 1 .. blank /\ i # blank /\ lines \subseteq Int
    BY <1>2, <1>6
  <2>2. Min(lines) = i
    BY <1>10, <2>1, LeastIsMin
  <2>3. Line(t, i + 1) = Span(i + 1, Min({k \in i + 1 .. blank : t[k] = CRLF}))
    BY <1>2, <2>1, LineOf
  <2> QED
    BY <1>1, <1>5, <2>2, <2>3 DEF ValueOf
<1>11. lines = {} => ValueOf(t, name) = NoSpan
  BY <1>5 DEF ValueOf
<1>12. CASE first = 0 \/ first >= blank + 2
  <2>1. lines = {}
    BY <1>2, <1>6, <1>7, <1>12
  <2> QED
    BY <1>1, <1>9, <1>11, <1>12, <2>1
<1>13. CASE ~(first = 0 \/ first >= blank + 2) /\ (first = 1 \/ t[first - 1] = CRLF)
  <2>1. first \in 1 .. blank
    BY <1>2, <1>7, <1>13
  <2>2. first \in lines /\ \A k \in lines : first <= k
    BY <1>2, <1>6, <1>7, <1>13, <2>1
  <2> QED
    BY <1>1, <1>9, <1>10, <1>13, <2>2
<1>14. CASE ~(first = 0 \/ first >= blank + 2) /\ ~(first = 1 \/ t[first - 1] = CRLF)
  <2>1. first \in 2 .. blank
    BY <1>2, <1>7, <1>14
  <2>2. 1 \notin lines
    BY <1>6, <1>7, <2>1
  <2>3. \A k \in lines : k - 1 \in 1 .. Len(t) - 1 /\ t[k - 1] = CRLF /\ t[k - 1 + 1] = name
    BY <1>2, <1>6, <2>2
  <2>4. CASE atLine = 0 \/ atLine >= blank + 2
    <3>1. lines = {}
      BY <1>2, <1>6, <1>8, <2>3, <2>4
    <3> QED
      BY <1>1, <1>9, <1>11, <1>14, <2>4, <3>1
  <2>5. CASE ~(atLine = 0 \/ atLine >= blank + 2)
    <3>1. atLine \in 1 .. Len(t) - 1 /\ atLine < blank + 2 /\ t[atLine + 1] = name
      BY <1>2, <1>8, <2>5
    <3>2. atLine # blank
      BY <1>2, <3>1
    <3>3. CASE atLine = blank + 1
      <4>1. lines = {}
        BY <1>2, <1>6, <1>8, <2>3, <2>5, <3>3
      <4>2. BodyTakenForHeader(t, name)
        BY <1>1, <1>2, <1>5, <1>7, <2>1, <3>1, <3>3, <4>1 DEF BodyTakenForHeader
      <4> QED
        BY <4>2
    <3>4. CASE atLine < blank
      <4>1. atLine + 1 \in lines
        BY <1>2, <1>6, <1>8, <2>5, <3>1, <3>4
      <4>2. \A k \in lines : atLine + 1 <= k
        BY <1>6, <1>8, <2>3, <2>5, <3>1
      <4>3. ValueOf(t, name) = Line(t, atLine + 1 + 1)
        BY <1>10, <4>1, <4>2
      <4>4. atLine + 1 + 1 = atLine + 2
        BY <3>1
      <4> QED
        BY <1>1, <1>9, <1>14, <2>5, <4>3, <4>4
    <3> QED
      BY <1>2, <3>1, <3>2, <3>3, <3>4
  <2> QED
    BY <2>4, <2>5
<1> QED
  BY <1>12, <1>13, <1>14

\* What Init and Index leave: the entry is the one of the text.
EntryIsOfText ==
    /\ text \in Fetched \cup {BuildMessage(m) : m \in Written}
    /\ entry # None =>
           /\ AnalyseMessage(text) # None
           /\ entry = EntryOf(text, AnalyseMessage(text))

\* AnalyseMessage takes the three headers, whatever it makes of the body.
LEMMA HeadersOfAnalysis ==
    ASSUME NEW t, AnalyseMessage(t) # None
    PROVE  /\ HeadEnd(t) # 0
           /\ AnalyseMessage(t).headers = Headers(t, HeadEnd(t) + 2)
<1> DEFINE mime == HeadEnd(t) + 2
           delim == Delim(Boundary(t, mime))
<1>1. AnalyseMessage(t) =
          IF HeadEnd(t) = 0 THEN None
          ELSE IF Boundary(t, mime) = <<>> THEN Unmarked(t, mime)
          ELSE Multipart(t, mime, delim)
  BY DEF AnalyseMessage, HeadEnd
<1>2. Unmarked(t, mime).headers = Headers(t, mime)
  BY DEF Unmarked
<1>3. Multipart(t, mime, delim) # None =>
          Multipart(t, mime, delim).headers = Headers(t, mime)
  BY DEF Multipart
<1> HIDE DEF mime, delim
<1> QED
  BY <1>1, <1>2, <1>3 DEF mime

\* The packed fields of an entry lead back to the values of the header lines.
LEMMA EntryPointsAtValues ==
    ASSUME HeadersAreClear, NEW t \in Fetched \cup {BuildMessage(m) : m \in Written},
           AnalyseMessage(t) # None, NEW name \in Names,
           NEW e, e = EntryOf(t, AnalyseMessage(t))
    PROVE  /\ PackedOffset(e.packed[name]) = Offset(t, ValueOf(t, name))
           /\ PackedLength(e.packed[name]) = Length(t, ValueOf(t, name))
<1>1. PICK value : value = ValueOf(t, name)
  OBVIOUS
<1>2. name # CRLF
  BY DEF Names, CRLF
<1>3. t \in Seq(DOMAIN Width) /\ ~BodyTakenForHeader(t, name) /\ FitsField(t, name)
  BY DEF HeadersAreClear
<1>4. FindHeaderValue(t, name, HeadEnd(t) + 2) = value
  BY <1>1, <1>2, <1>3, HeadersOfAnalysis, HeaderValuesAreFound
<1>5. AnalyseMessage(t).headers[name] = value
  BY <1>4, HeadersOfAnalysis DEF Headers
<1>6. e.packed[name] = Pack(t, value)
  BY <1>5 DEF EntryOf
<1>7. PICK offset, length :
          offset = Offset(t, value) /\ length = Length(t, value)
  OBVIOUS
<1>8. offset \in 0 .. Offsets - 1 /\ length \in 0 .. Lengths - 1
  BY <1>1, <1>3, <1>7 DEF FitsField
<1>9. Pack(t, value) = PackField(offset, length)
  BY <1>7 DEF Pack
<1>10. /\ PackedOffset(e.packed[name]) = PackedOffset(PackField(offset, length))
       /\ PackedLength(e.packed[name]) = PackedLength(PackField(offset, length))
  BY <1>6, <1>9
<1> QED
  BY <1>1, <1>7, <1>8, <1>10, PackedFieldsComeApart

LEMMA EntriesAreOfText == MessageSpec => []EntryIsOfText
<1>1. MessageInit => EntryIsOfText
  BY DEF MessageInit, EntryIsOfText
<1>2. EntryIsOfText /\ [MessageNext]_messageVars => EntryIsOfText'
  <2> SUFFICES ASSUME EntryIsOfText, [MessageNext]_messageVars PROVE EntryIsOfText'
    OBVIOUS
  <2>1. CASE Index
    <3>1. /\ text' = text /\ AnalyseMessage(text) # None
          /\ entry' = EntryOf(text, AnalyseMessage(text))
      BY <2>1 DEF Index
    <3> QED
      BY <3>1 DEF EntryIsOfText
  <2>2. CASE UNCHANGED messageVars
    BY <2>2 DEF EntryIsOfText, messageVars
  <2>3. CASE Refuse \/ Abort
    BY <2>3 DEF Refuse, Abort, EntryIsOfText
  <2> QED
    BY <2>1, <2>2, <2>3 DEF MessageNext
<1> QED
  BY <1>1, <1>2, PTL DEF MessageSpec

\* DeliverRaw (mail.cpp) makes entries whose From, To and Subject fields point at the
\* values of these header lines, if they fit and no body line passes for one.
THEOREM FieldsAreWhereTheySay ==
    ASSUME HeadersAreClear
    PROVE  MessageSpec => []FieldsPointAtValues
<1>1. MessageSpec => []EntryIsOfText
  BY EntriesAreOfText
<1>2. EntryIsOfText => FieldsPointAtValues
  <2> SUFFICES ASSUME EntryIsOfText, entry # None, NEW name \in Names
               PROVE  /\ PackedOffset(entry.packed[name]) =
                             Offset(text, ValueOf(text, name))
                      /\ PackedLength(entry.packed[name]) =
                             Length(text, ValueOf(text, name))
    BY DEF FieldsPointAtValues
  <2> QED
    BY EntryPointsAtValues DEF EntryIsOfText
<1> QED
  BY <1>1, <1>2, PTL

-----------------------------------------------------------------------------
(***************************************************************************)
(* What AnalyseMessage makes of a message that BuildMessage made, however  *)
(* long its fields and its body. First where in it each token is, piece by *)
(* piece, then what the searches find in such a text.                      *)
(***************************************************************************)
\* The parts of a concatenation.
IsJoined(T, j, s, u) ==
    /\ j \in Seq(T) /\ Len(j) = Len(s) + Len(u)
    /\ \A i \in 1 .. Len(s) : j[i] = s[i]
    /\ \A i \in 1 .. Len(u) : j[Len(s) + i] = u[i]

LEMMA Joined ==
    ASSUME NEW T, NEW s \in Seq(T), NEW u \in Seq(T)
    PROVE  IsJoined(T, s \o u, s, u)
<1>1. s \o u \in Seq(T) /\ Len(s \o u) = Len(s) + Len(u)
  BY ConcatProperties
<1>2. \A i \in 1 .. Len(s) : (s \o u)[i] = s[i]
  BY ConcatProperties
<1>3. ASSUME NEW i \in 1 .. Len(u) PROVE (s \o u)[Len(s) + i] = u[i]
  <2>1. Len(s) + i \in Len(s) + 1 .. Len(s) + Len(u)
    OBVIOUS
  <2>2. (s \o u)[Len(s) + i] = u[Len(s) + i - Len(s)]
    BY <2>1, ConcatProperties
  <2>3. Len(s) + i - Len(s) = i
    OBVIOUS
  <2> QED
    BY <2>2, <2>3
<1> QED
  BY <1>1, <1>2, <1>3 DEF IsJoined

\* A text that is s, of n tokens, with two or three more, or with a field of any length.
TwoAt(T, j, s, n, x, y) ==
    /\ j \in Seq(T) /\ Len(j) = n + 2 /\ \A i \in 1 .. n : j[i] = s[i]
    /\ j[n + 1] = x /\ j[n + 2] = y

LEMMA JoinedTwo ==
    ASSUME NEW T, NEW s \in Seq(T), NEW x \in T, NEW y \in T
    PROVE  TwoAt(T, s \o <<x, y>>, s, Len(s), x, y)
<1>1. PICK u, j, n : u = <<x, y>> /\ j = s \o u /\ n = Len(s)
  OBVIOUS
<1>2. /\ u \in Seq(T) /\ Len(u) = 2
      /\ u[1] = x /\ u[2] = y
  BY <1>1
<1>3. IsJoined(T, j, s, u)
  BY <1>1, <1>2, Joined
<1>4. 1 \in 1 .. Len(u) /\ 2 \in 1 .. Len(u)
  BY <1>2
<1>5. j[n + 1] = u[1] /\ j[n + 2] = u[2]
  BY <1>1, <1>3, <1>4 DEF IsJoined
<1>6. j \in Seq(T) /\ Len(j) = n + 2 /\ \A i \in 1 .. n : j[i] = s[i]
  BY <1>1, <1>2, <1>3 DEF IsJoined
<1>7. TwoAt(T, j, s, n, x, y)
  BY <1>2, <1>5, <1>6 DEF TwoAt
<1> QED
  BY <1>1, <1>7

ThreeAt(T, j, s, n, x, y, z) ==
    /\ j \in Seq(T) /\ Len(j) = n + 3 /\ \A i \in 1 .. n : j[i] = s[i]
    /\ j[n + 1] = x /\ j[n + 2] = y /\ j[n + 3] = z

LEMMA JoinedThree ==
    ASSUME NEW T, NEW s \in Seq(T), NEW x \in T, NEW y \in T, NEW z \in T
    PROVE  ThreeAt(T, s \o <<x, y, z>>, s, Len(s), x, y, z)
<1>1. PICK u, j, n : u = <<x, y, z>> /\ j = s \o u /\ n = Len(s)
  OBVIOUS
<1>2. /\ u \in Seq(T) /\ Len(u) = 3
      /\ u[1] = x /\ u[2] = y /\ u[3] = z
  BY <1>1
<1>3. IsJoined(T, j, s, u)
  BY <1>1, <1>2, Joined
<1>4. 1 \in 1 .. Len(u) /\ 2 \in 1 .. Len(u) /\ 3 \in 1 .. Len(u)
  BY <1>2
<1>5. j[n + 1] = u[1] /\ j[n + 2] = u[2] /\ j[n + 3] = u[3]
  BY <1>1, <1>3, <1>4 DEF IsJoined
<1>6. j \in Seq(T) /\ Len(j) = n + 3 /\ \A i \in 1 .. n : j[i] = s[i]
  BY <1>1, <1>2, <1>3 DEF IsJoined
<1>7. ThreeAt(T, j, s, n, x, y, z)
  BY <1>2, <1>5, <1>6 DEF ThreeAt
<1> QED
  BY <1>1, <1>7

FieldAt(T, j, s, n, u) ==
    /\ j \in Seq(T) /\ Len(j) = n + Len(u) /\ \A i \in 1 .. n : j[i] = s[i]
    /\ \A i \in n + 1 .. n + Len(u) : j[i] = u[i - n]

LEMMA JoinedField ==
    ASSUME NEW T, NEW s \in Seq(T), NEW u \in Seq(T)
    PROVE  FieldAt(T, s \o u, s, Len(s), u)
  BY DEF FieldAt

\* Two texts that start with the same n tokens.
Same(s, u, n) == \A i \in 1 .. n : u[i] = s[i]

LEMMA SameAt ==
    ASSUME NEW s, NEW u, NEW n \in Int, Same(s, u, n), NEW i \in 1 .. n
    PROVE  u[i] = s[i]
  BY DEF Same

LEMMA SameThrough ==
    ASSUME NEW s, NEW u, NEW v, NEW n \in Int, NEW m \in Int, n <= m, Same(s, u, n), Same(u, v, m)
    PROVE  Same(s, v, n)
  BY DEF Same

\* The tokens that BuildMessage writes, by name: the provers do without their letters.
FromKey == "From: "
ToKey == "To: "
SubjectKey == "Subject: "
MimeVersion == "MIME-Version: 1.0"
AltKey == "X-Wii-AltName: "
AltValue == "base64"
Mixed == "Content-Type: multipart/mixed; "
BoundaryKey == "boundary="
Dashes == "--"
Plain == "Content-Type: text/plain; "
CharsetKey == "charset="
Utf8 == "utf-8"

Tokens == {FromKey, ToKey, SubjectKey, MimeVersion, AltKey, AltValue, Mixed, BoundaryKey, Dashes,
           Plain, CharsetKey, Utf8, CRLF, Wiimail, Own}

\* What the searches rely on.
LEMMA TokensDiffer ==
    /\ Names = {FromKey, ToKey, SubjectKey}
    /\ FromKey # ToKey /\ FromKey # SubjectKey /\ ToKey # SubjectKey
    /\ {FromKey, ToKey, SubjectKey} \cap {MimeVersion, AltKey, Mixed, CRLF, BoundaryKey} = {}
    /\ CRLF \notin {MimeVersion, AltKey, AltValue, Mixed, BoundaryKey, Own, Dashes, Plain,
                    CharsetKey, Utf8, Wiimail}
    /\ BoundaryKey \notin {MimeVersion, AltKey, AltValue, Mixed, CRLF}
    /\ CharsetKey \notin {Dashes, Own, CRLF, Plain}
    /\ Wiimail \notin {Dashes, Own, CRLF, Plain, CharsetKey, Utf8}
    /\ Dashes \notin {Own, CRLF, Plain, CharsetKey, Utf8, Wiimail}
  BY DEF Names, Tokens, CRLF, Wiimail, Own, FromKey, ToKey, SubjectKey, MimeVersion, AltKey,
         AltValue, Mixed, BoundaryKey, Dashes, Plain, CharsetKey, Utf8

\* A text starts with the header of a message: p, q and r end its first three lines,
\* k is what comes before the line with the boundary.
HeaderLaid(t, p, q, r, k) ==
    /\ t[1] = FromKey /\ t[p] = CRLF
    /\ t[p + 1] = ToKey /\ t[q] = CRLF
    /\ t[q + 1] = SubjectKey /\ t[r] = CRLF /\ t[r + 1] = MimeVersion
    /\ \A i \in (2 .. p - 1) \cup (p + 2 .. q - 1) \cup (q + 2 .. r - 1) : t[i] # CRLF
    /\ \A i \in 1 .. k + 1 : t[i] # BoundaryKey
    /\ \A i \in 1 .. k + 1 :
           t[i] = CRLF => i \in {p, q, r} \/ t[i + 1] \notin Names \cup {CRLF}

\* Up to where the body starts.
PartLaid(t, k) ==
    /\ t[k + 2] = BoundaryKey /\ t[k + 3] = Own /\ t[k + 4] = CRLF /\ t[k + 5] = CRLF
    /\ t[k + 6] = Dashes /\ t[k + 7] = Own /\ t[k + 8] = CRLF
    /\ t[k + 9] = Plain
    /\ t[k + 10] = CharsetKey /\ t[k + 11] = Utf8 /\ t[k + 12] = CRLF
    /\ t[k + 13] = Wiimail /\ t[k + 14] = CRLF /\ t[k + 15] = CRLF

\* A message whose header fields have no line end and no boundary in them, and whose body has
\* not the one that BuildMessage chooses.
Unambiguous(m) ==
    /\ {m.from, m.to, m.subject, m.body} \subseteq Seq(DOMAIN Width)
    /\ \A field \in {m.from, m.to, m.subject} :
           \A i \in 1 .. Len(field) : field[i] \notin {CRLF, BoundaryKey}
    /\ Occurrences(m.body, Delim(<<Own>>)) = {}

\* Of all the messages to build. "From: " has six bytes: a name behind it does not start at
\* the second, which makes the parser throw.
WrittenIsClear == Width[FromKey] # 1 /\ \A m \in Written : Unambiguous(m)

\* What Before puts together, with a choice of an alternative name or none.
HeaderOf(from, to, subject, alt) ==
    <<FromKey>> \o from \o <<CRLF, ToKey>> \o to \o <<CRLF, SubjectKey>> \o subject
        \o <<CRLF, MimeVersion, CRLF>> \o alt \o <<Mixed, BoundaryKey, Own, CRLF, CRLF>>
        \o <<Dashes, Own, CRLF, Plain, CharsetKey, Utf8, CRLF>> \o <<Wiimail, CRLF, CRLF>>

\* p, q and r end its first three lines, k comes before the line with the boundary.
EndsAt(from, to, subject, alt, p, q, r, k) ==
    /\ p \in Nat /\ q \in Nat /\ r \in Nat /\ k \in Nat
    /\ p = Len(from) + 2 /\ q = p + Len(to) + 2 /\ r = q + Len(subject) + 2
    /\ k = r + 2 + Len(alt)

\* What is where in it.
HeaderFacts(T, h, from, to, subject, alt, p, q, r, k) ==
    /\ h \in Seq(T) /\ Len(h) = k + 15 /\ PartLaid(h, k)
    /\ h[1] = FromKey /\ h[p] = CRLF /\ h[p + 1] = ToKey /\ h[q] = CRLF
    /\ h[q + 1] = SubjectKey /\ h[r] = CRLF /\ h[r + 1] = MimeVersion
    /\ h[r + 2] = CRLF /\ h[k + 1] = Mixed
    /\ \A i \in 2 .. p - 1 : h[i] = from[i - 1]
    /\ \A i \in p + 2 .. q - 1 : h[i] = to[i - p - 1]
    /\ \A i \in q + 2 .. r - 1 : h[i] = subject[i - q - 1]
    /\ \A i \in r + 3 .. k : h[i] = alt[i - r - 2]

\* A header is put together as Before says, whatever its fields.
LEMMA HeaderText ==
    ASSUME NEW T, Tokens \subseteq T, NEW from \in Seq(T), NEW to \in Seq(T),
           NEW subject \in Seq(T), NEW alt \in Seq(T), NEW p, NEW q, NEW r, NEW k,
           EndsAt(from, to, subject, alt, p, q, r, k)
    PROVE  HeaderFacts(T, HeaderOf(from, to, subject, alt), from, to, subject, alt, p, q, r, k)
<1> p \in Nat /\ q \in Nat /\ r \in Nat /\ k \in Nat
  BY DEF EndsAt
<1>1. /\ Len(from) \in Nat /\ Len(to) \in Nat /\ Len(subject) \in Nat /\ Len(alt) \in Nat
      /\ p = Len(from) + 2 /\ q = p + Len(to) + 2 /\ r = q + Len(subject) + 2
      /\ k = r + 2 + Len(alt)
  BY DEF EndsAt
<1>2. /\ FromKey \in T /\ ToKey \in T /\ SubjectKey \in T /\ MimeVersion \in T /\ Mixed \in T
      /\ BoundaryKey \in T /\ Dashes \in T /\ Plain \in T /\ CharsetKey \in T /\ Utf8 \in T
      /\ CRLF \in T /\ Wiimail \in T /\ Own \in T
  BY DEF Tokens
<1>3. 1 < p /\ p + 1 < q /\ q + 1 < r /\ r + 1 < k
  BY <1>1
<1>4. PICK h0, h1, h2, h3, h4, h5, h6, h7, h8, h9 :
          /\ h0 = <<FromKey>>
          /\ h1 = h0 \o from /\ h2 = h1 \o <<CRLF, ToKey>>
          /\ h3 = h2 \o to /\ h4 = h3 \o <<CRLF, SubjectKey>>
          /\ h5 = h4 \o subject /\ h6 = h5 \o <<CRLF, MimeVersion, CRLF>>
          /\ h7 = h6 \o alt /\ h8 = h7 \o <<Mixed, BoundaryKey, Own, CRLF, CRLF>>
          /\ h9 = h8 \o <<Dashes, Own, CRLF, Plain, CharsetKey, Utf8, CRLF>>
  OBVIOUS
<1> DEFINE h == HeaderOf(from, to, subject, alt)
<1>5. h = h9 \o <<Wiimail, CRLF, CRLF>>
  BY <1>4 DEF HeaderOf
<1> HIDE DEF h
<1> DEFINE Text(s, n) == s \in Seq(T) /\ Len(s) = n
<1> HIDE DEF Text
<1>6. Text(h0, 1) /\ h0[1] = FromKey
  <2>1. h0 = <<FromKey>>
    BY <1>4
  <2> QED
    BY <1>2, <2>1 DEF Text
<1>7. Text(h1, p - 1) /\ Same(h0, h1, 1) /\ \A i \in 2 .. p - 1 : h1[i] = from[i - 1]
  <2>1. h1 = h0 \o from
    BY <1>4
  <2>2. FieldAt(T, h1, h0, 1, from)
    BY <1>2, <1>6, <2>1, JoinedField DEF Text
  <2>3. 1 + Len(from) = p - 1 /\ 1 + 1 = 2
    BY <1>1, <1>3
  <2> QED
    BY <2>2, <2>3 DEF FieldAt, Text, Same
<1>8. Text(h2, p + 1) /\ Same(h1, h2, p - 1) /\ h2[p] = CRLF /\ h2[p + 1] = ToKey
  <2>1. h2 = h1 \o <<CRLF, ToKey>>
    BY <1>4
  <2>2. TwoAt(T, h2, h1, p - 1, CRLF, ToKey)
    BY <1>2, <1>7, <2>1, JoinedTwo DEF Text
  <2>3. p - 1 + 1 = p /\ p - 1 + 2 = p + 1
    BY <1>3
  <2> QED
    BY <2>2, <2>3 DEF TwoAt, Text, Same
<1>9. /\ Text(h3, q - 1) /\ Same(h2, h3, p + 1)
      /\ \A i \in p + 2 .. q - 1 : h3[i] = to[i - p - 1]
  <2>1. h3 = h2 \o to
    BY <1>4
  <2>2. FieldAt(T, h3, h2, p + 1, to)
    BY <1>2, <1>8, <2>1, JoinedField DEF Text
  <2>3. p + 1 + Len(to) = q - 1 /\ p + 1 + 1 = p + 2 /\ \A i \in Int : i - (p + 1) = i - p - 1
    BY <1>1, <1>3
  <2> QED
    BY <2>2, <2>3 DEF FieldAt, Text, Same
<1>10. Text(h4, q + 1) /\ Same(h3, h4, q - 1) /\ h4[q] = CRLF /\ h4[q + 1] = SubjectKey
  <2>1. h4 = h3 \o <<CRLF, SubjectKey>>
    BY <1>4
  <2>2. TwoAt(T, h4, h3, q - 1, CRLF, SubjectKey)
    BY <1>2, <1>9, <2>1, JoinedTwo DEF Text
  <2>3. q - 1 + 1 = q /\ q - 1 + 2 = q + 1
    BY <1>3
  <2> QED
    BY <2>2, <2>3 DEF TwoAt, Text, Same
<1>11. /\ Text(h5, r - 1) /\ Same(h4, h5, q + 1)
       /\ \A i \in q + 2 .. r - 1 : h5[i] = subject[i - q - 1]
  <2>1. h5 = h4 \o subject
    BY <1>4
  <2>2. FieldAt(T, h5, h4, q + 1, subject)
    BY <1>2, <1>10, <2>1, JoinedField DEF Text
  <2>3. q + 1 + Len(subject) = r - 1 /\ q + 1 + 1 = q + 2 /\ \A i \in Int : i - (q + 1) = i - q - 1
    BY <1>1, <1>3
  <2> QED
    BY <2>2, <2>3 DEF FieldAt, Text, Same
<1>12. /\ Text(h6, r + 2) /\ Same(h5, h6, r - 1)
       /\ h6[r] = CRLF /\ h6[r + 1] = MimeVersion /\ h6[r + 2] = CRLF
  <2>1. h6 = h5 \o <<CRLF, MimeVersion, CRLF>>
    BY <1>4
  <2>2. ThreeAt(T, h6, h5, r - 1, CRLF, MimeVersion, CRLF)
    BY <1>2, <1>11, <2>1, JoinedThree DEF Text
  <2>3. r - 1 + 1 = r /\ r - 1 + 2 = r + 1 /\ r - 1 + 3 = r + 2
    BY <1>3
  <2> QED
    BY <2>2, <2>3 DEF ThreeAt, Text, Same
<1>13. Text(h7, k) /\ Same(h6, h7, r + 2) /\ \A i \in r + 3 .. k : h7[i] = alt[i - r - 2]
  <2>1. h7 = h6 \o alt
    BY <1>4
  <2>2. FieldAt(T, h7, h6, r + 2, alt)
    BY <1>2, <1>12, <2>1, JoinedField DEF Text
  <2>3. r + 2 + Len(alt) = k /\ r + 2 + 1 = r + 3 /\ \A i \in Int : i - (r + 2) = i - r - 2
    BY <1>1, <1>3
  <2> QED
    BY <2>2, <2>3 DEF FieldAt, Text, Same
<1>14. /\ Text(h8, k + 5) /\ Same(h7, h8, k)
       /\ h8[k + 1] = Mixed /\ h8[k + 2] = BoundaryKey
       /\ h8[k + 3] = Own /\ h8[k + 4] = CRLF /\ h8[k + 5] = CRLF
  <2>1. PICK u : u = <<Mixed, BoundaryKey, Own, CRLF, CRLF>>
    OBVIOUS
  <2>2. /\ u \in Seq(T) /\ Len(u) = 5
        /\ u[1] = Mixed /\ u[2] = BoundaryKey /\ u[3] = Own /\ u[4] = CRLF /\ u[5] = CRLF
    BY <1>2, <2>1
  <2>3. IsJoined(T, h8, h7, u)
    <3>1. h8 = h7 \o u
      BY <1>4, <2>1
    <3> QED
      BY <1>13, <2>2, <3>1, Joined DEF Text
  <2>4. h8 \in Seq(T) /\ Len(h8) = k + 5 /\ Same(h7, h8, k)
    BY <1>13, <2>2, <2>3 DEF IsJoined, Same, Text
  <2>5. ASSUME NEW d \in 1 .. 5 PROVE h8[k + d] = u[d]
    BY <1>13, <2>2, <2>3 DEF IsJoined, Text
  <2>6. k + 5 = k + 5
    OBVIOUS
  <2>7. Text(h8, k + 5) /\ Same(h7, h8, k)
    BY <2>4, <2>6 DEF Text
  <2>8. /\ h8[k + 1] = u[1] /\ h8[k + 2] = u[2] /\ h8[k + 3] = u[3]
        /\ h8[k + 4] = u[4] /\ h8[k + 5] = u[5]
    BY <2>5
  <2> QED
    BY <2>2, <2>7, <2>8
<1>15. /\ Text(h9, k + 12) /\ Same(h8, h9, k + 5)
       /\ h9[k + 6] = Dashes /\ h9[k + 7] = Own /\ h9[k + 8] = CRLF /\ h9[k + 9] = Plain
       /\ h9[k + 10] = CharsetKey /\ h9[k + 11] = Utf8 /\ h9[k + 12] = CRLF
  <2>1. PICK u : u = <<Dashes, Own, CRLF, Plain, CharsetKey, Utf8, CRLF>>
    OBVIOUS
  <2>2. /\ u \in Seq(T) /\ Len(u) = 7
        /\ u[1] = Dashes /\ u[2] = Own /\ u[3] = CRLF /\ u[4] = Plain
        /\ u[5] = CharsetKey /\ u[6] = Utf8 /\ u[7] = CRLF
    BY <1>2, <2>1
  <2>3. IsJoined(T, h9, h8, u)
    <3>1. h9 = h8 \o u
      BY <1>4, <2>1
    <3> QED
      BY <1>14, <2>2, <3>1, Joined DEF Text
  <2>4. h9 \in Seq(T) /\ Len(h9) = k + 5 + 7 /\ Same(h8, h9, k + 5)
    BY <1>14, <2>2, <2>3 DEF IsJoined, Same, Text
  <2>5. ASSUME NEW d \in 1 .. 7 PROVE h9[k + 5 + d] = u[d]
    BY <1>14, <2>2, <2>3 DEF IsJoined, Text
  <2>6. k + 5 + 7 = k + 12
    OBVIOUS
  <2>7. Text(h9, k + 12) /\ Same(h8, h9, k + 5)
    BY <2>4, <2>6 DEF Text
  <2>8. /\ h9[k + 6] = u[1] /\ h9[k + 7] = u[2] /\ h9[k + 8] = u[3] /\ h9[k + 9] = u[4]
        /\ h9[k + 10] = u[5] /\ h9[k + 11] = u[6] /\ h9[k + 12] = u[7]
    <3>1. /\ h9[k + 5 + 1] = u[1] /\ h9[k + 5 + 2] = u[2] /\ h9[k + 5 + 3] = u[3]
          /\ h9[k + 5 + 4] = u[4] /\ h9[k + 5 + 5] = u[5] /\ h9[k + 5 + 6] = u[6] /\ h9[k + 5 + 7] = u[7]
      BY <2>5
    <3>2. /\ k + 5 + 1 = k + 6 /\ k + 5 + 2 = k + 7 /\ k + 5 + 3 = k + 8 /\ k + 5 + 4 = k + 9
          /\ k + 5 + 5 = k + 10 /\ k + 5 + 6 = k + 11 /\ k + 5 + 7 = k + 12
      OBVIOUS
    <3> QED
      BY <3>1, <3>2
  <2> QED
    BY <2>2, <2>7, <2>8
<1>16. /\ Text(h, k + 15) /\ Same(h9, h, k + 12)
       /\ h[k + 13] = Wiimail /\ h[k + 14] = CRLF /\ h[k + 15] = CRLF
  <2>1. PICK u : u = <<Wiimail, CRLF, CRLF>>
    OBVIOUS
  <2>2. /\ u \in Seq(T) /\ Len(u) = 3
        /\ u[1] = Wiimail /\ u[2] = CRLF /\ u[3] = CRLF
    BY <1>2, <2>1
  <2>3. IsJoined(T, h, h9, u)
    <3>1. h = h9 \o u
      BY <1>5, <2>1
    <3> QED
      BY <1>15, <2>2, <3>1, Joined DEF Text
  <2>4. h \in Seq(T) /\ Len(h) = k + 12 + 3 /\ Same(h9, h, k + 12)
    BY <1>15, <2>2, <2>3 DEF IsJoined, Same, Text
  <2>5. ASSUME NEW d \in 1 .. 3 PROVE h[k + 12 + d] = u[d]
    BY <1>15, <2>2, <2>3 DEF IsJoined, Text
  <2>6. k + 12 + 3 = k + 15
    OBVIOUS
  <2>7. Text(h, k + 15) /\ Same(h9, h, k + 12)
    BY <2>4, <2>6 DEF Text
  <2>8. /\ h[k + 13] = u[1] /\ h[k + 14] = u[2]
        /\ h[k + 15] = u[3]
    <3>1. h[k + 12 + 1] = u[1] /\ h[k + 12 + 2] = u[2] /\ h[k + 12 + 3] = u[3]
      BY <2>5
    <3>2. k + 12 + 1 = k + 13 /\ k + 12 + 2 = k + 14 /\ k + 12 + 3 = k + 15
      OBVIOUS
    <3> QED
      BY <3>1, <3>2
  <2> QED
    BY <2>2, <2>7, <2>8
\* Each part is where it was when the next ones are put behind it.
<1>17. Same(h8, h, k + 5)
  BY <1>15, <1>16, SameThrough
<1>18. Same(h7, h, k)
  BY <1>14, <1>17, SameThrough
<1>19. Same(h6, h, r + 2)
  BY <1>3, <1>13, <1>18, SameThrough
<1>20. Same(h5, h, r - 1)
  BY <1>12, <1>19, SameThrough
<1>21. Same(h4, h, q + 1)
  BY <1>3, <1>11, <1>20, SameThrough
<1>22. Same(h3, h, q - 1)
  BY <1>10, <1>21, SameThrough
<1>23. Same(h2, h, p + 1)
  BY <1>3, <1>9, <1>22, SameThrough
<1>24. Same(h1, h, p - 1)
  BY <1>8, <1>23, SameThrough
<1>25. Same(h0, h, 1)
  BY <1>3, <1>7, <1>24, SameThrough
<1>26. PartLaid(h, k)
  <2>1. h[k + 2] = BoundaryKey /\ h[k + 3] = Own /\ h[k + 4] = CRLF /\ h[k + 5] = CRLF
    BY <1>14, <1>17, SameAt
  <2>2. \A i \in 1 .. k + 12 : h[i] = h9[i]
    BY <1>16 DEF Same
  <2>3. /\ h[k + 6] = Dashes /\ h[k + 7] = Own /\ h[k + 8] = CRLF /\ h[k + 9] = Plain
        /\ h[k + 10] = CharsetKey /\ h[k + 11] = Utf8 /\ h[k + 12] = CRLF
    <3>1. /\ k + 6 \in 1 .. k + 12 /\ k + 7 \in 1 .. k + 12 /\ k + 8 \in 1 .. k + 12
          /\ k + 9 \in 1 .. k + 12 /\ k + 10 \in 1 .. k + 12 /\ k + 11 \in 1 .. k + 12
          /\ k + 12 \in 1 .. k + 12
      OBVIOUS
    <3>2. /\ h[k + 6] = h9[k + 6] /\ h[k + 7] = h9[k + 7] /\ h[k + 8] = h9[k + 8]
          /\ h[k + 9] = h9[k + 9] /\ h[k + 10] = h9[k + 10] /\ h[k + 11] = h9[k + 11]
          /\ h[k + 12] = h9[k + 12]
      BY <2>2, <3>1
    <3> QED
      BY <1>15, <3>2
  <2> QED
    BY <1>16, <2>1, <2>3 DEF PartLaid
<1>27. h[1] = FromKey /\ h[k + 1] = Mixed
  BY <1>6, <1>14, <1>17, <1>25, SameAt
<1>28. h[p] = CRLF /\ h[p + 1] = ToKey
  BY <1>3, <1>8, <1>23, SameAt
<1>29. h[q] = CRLF /\ h[q + 1] = SubjectKey
  BY <1>3, <1>10, <1>21, SameAt
<1>30. h[r] = CRLF /\ h[r + 1] = MimeVersion /\ h[r + 2] = CRLF
  BY <1>3, <1>12, <1>19, SameAt
<1>31. ASSUME NEW i \in 2 .. p - 1 PROVE h[i] = from[i - 1]
  BY <1>7, <1>24, SameAt
<1>32. ASSUME NEW i \in p + 2 .. q - 1 PROVE h[i] = to[i - p - 1]
  BY <1>9, <1>22, SameAt
<1>33. ASSUME NEW i \in q + 2 .. r - 1 PROVE h[i] = subject[i - q - 1]
  BY <1>11, <1>20, SameAt
<1>34. ASSUME NEW i \in r + 3 .. k PROVE h[i] = alt[i - r - 2]
  BY <1>13, <1>18, SameAt
<1> QED
  BY <1>16, <1>26, <1>27, <1>28, <1>29, <1>30, <1>31, <1>32, <1>33, <1>34 DEF HeaderFacts, Text, h

\* Without line ends and boundaries in its fields it is laid out as the parser expects.
LEMMA HeaderIsLaid ==
    ASSUME NEW m, Unambiguous(m), NEW T, T = DOMAIN Width \cup Tokens
    PROVE  \E k \in Nat : \E p, q, r \in Nat :
               /\ p = Len(m.from) + 2 /\ q = p + Len(m.to) + 2 /\ r = q + Len(m.subject) + 2
               /\ k > r + 1 /\ Before(m) \in Seq(T) /\ Len(Before(m)) = k + 15
               /\ HeaderLaid(Before(m), p, q, r, k) /\ PartLaid(Before(m), k)
<1>1. PICK from, to, subject, h :
          from = m.from /\ to = m.to /\ subject = m.subject /\ h = Before(m)
  OBVIOUS
<1>2. from \in Seq(T) /\ to \in Seq(T) /\ subject \in Seq(T)
  <2>1. from \in Seq(DOMAIN Width) /\ to \in Seq(DOMAIN Width) /\ subject \in Seq(DOMAIN Width)
    BY <1>1 DEF Unambiguous
  <2> QED
    BY <2>1
<1>3. /\ \A i \in 1 .. Len(from) : from[i] \notin {CRLF, BoundaryKey}
      /\ \A i \in 1 .. Len(to) : to[i] \notin {CRLF, BoundaryKey}
      /\ \A i \in 1 .. Len(subject) : subject[i] \notin {CRLF, BoundaryKey}
  BY <1>1 DEF Unambiguous, BoundaryKey
<1>4. PICK alt : alt = IF m.alt_name = <<>> THEN <<>> ELSE <<AltKey, AltValue, CRLF>>
  OBVIOUS
<1>5. h = HeaderOf(from, to, subject, alt)
  BY <1>1, <1>4 DEF HeaderOf, Before, FromKey, ToKey, SubjectKey, MimeVersion, AltKey, AltValue,
                    Mixed, BoundaryKey, Dashes, Plain, CharsetKey, Utf8
<1>6. /\ alt \in Seq(T) /\ Len(alt) \in {0, 3}
      /\ Len(alt) = 3 => alt[1] = AltKey /\ alt[2] = AltValue /\ alt[3] = CRLF
  <2>1. CASE m.alt_name = <<>>
    <3>1. alt = <<>>
      BY <1>4, <2>1
    <3> QED
      BY <3>1
  <2>2. CASE m.alt_name # <<>>
    <3>1. alt = <<AltKey, AltValue, CRLF>>
      BY <1>4, <2>2
    <3>2. AltKey \in T /\ AltValue \in T /\ CRLF \in T
      BY DEF Tokens
    <3> QED
      BY <3>1, <3>2
  <2> QED
    BY <2>1, <2>2
<1>7. PICK p, q, r, k \in Nat :
          /\ p = Len(from) + 2 /\ q = p + Len(to) + 2 /\ r = q + Len(subject) + 2
          /\ k = r + 2 + Len(alt)
  <2>1. Len(from) \in Nat /\ Len(to) \in Nat /\ Len(subject) \in Nat /\ Len(alt) \in Nat
    BY <1>2, <1>6
  <2>2. PICK a, b, c, d \in Nat : a = Len(from) /\ b = Len(to) /\ c = Len(subject) /\ d = Len(alt)
    BY <2>1
  <2>3. /\ a + 2 \in Nat /\ a + 2 + b + 2 \in Nat /\ a + 2 + b + 2 + c + 2 \in Nat
        /\ a + 2 + b + 2 + c + 2 + 2 + d \in Nat
    OBVIOUS
  <2> QED
    BY <2>2, <2>3
<1>8. k > r + 1 /\ 1 < p /\ p + 1 < q /\ q + 1 < r
  BY <1>2, <1>6, <1>7
<1>9. Tokens \subseteq T
  OBVIOUS
<1>10. /\ h \in Seq(T) /\ Len(h) = k + 15 /\ PartLaid(h, k)
       /\ h[1] = FromKey /\ h[p] = CRLF /\ h[p + 1] = ToKey /\ h[q] = CRLF
       /\ h[q + 1] = SubjectKey /\ h[r] = CRLF /\ h[r + 1] = MimeVersion
       /\ h[r + 2] = CRLF /\ h[k + 1] = Mixed
       /\ \A i \in 2 .. p - 1 : h[i] = from[i - 1]
       /\ \A i \in p + 2 .. q - 1 : h[i] = to[i - p - 1]
       /\ \A i \in q + 2 .. r - 1 : h[i] = subject[i - q - 1]
       /\ \A i \in r + 3 .. k : h[i] = alt[i - r - 2]
  <2>1. alt \in Seq(T)
    BY <1>6
  <2>2. EndsAt(from, to, subject, alt, p, q, r, k)
    BY <1>7 DEF EndsAt
  <2>3. HeaderFacts(T, h, from, to, subject, alt, p, q, r, k)
    BY <1>2, <1>5, <1>9, <2>1, <2>2, HeaderText
  <2> QED
    BY <2>3 DEF HeaderFacts
<1>11. /\ \A i \in 2 .. p - 1 : h[i] \notin {CRLF, BoundaryKey}
       /\ \A i \in p + 2 .. q - 1 : h[i] \notin {CRLF, BoundaryKey}
       /\ \A i \in q + 2 .. r - 1 : h[i] \notin {CRLF, BoundaryKey}
  <2>1. ASSUME NEW i \in 2 .. p - 1 PROVE h[i] \notin {CRLF, BoundaryKey}
    <3>1. i - 1 \in 1 .. Len(from)
      BY <1>2, <1>7
    <3> QED
      BY <1>3, <1>10, <3>1
  <2>2. ASSUME NEW i \in p + 2 .. q - 1 PROVE h[i] \notin {CRLF, BoundaryKey}
    <3>1. i - p - 1 \in 1 .. Len(to)
      BY <1>2, <1>7
    <3> QED
      BY <1>3, <1>10, <3>1
  <2>3. ASSUME NEW i \in q + 2 .. r - 1 PROVE h[i] \notin {CRLF, BoundaryKey}
    <3>1. i - q - 1 \in 1 .. Len(subject)
      BY <1>2, <1>7
    <3> QED
      BY <1>3, <1>10, <3>1
  <2> QED
    BY <2>1, <2>2, <2>3
<1>12. \/ k = r + 2
       \/ k = r + 5 /\ h[r + 3] = AltKey /\ h[r + 4] = AltValue /\ h[r + 5] = CRLF
  <2>1. CASE Len(alt) = 0
    BY <1>7, <2>1
  <2>2. CASE Len(alt) = 3
    <3>1. k = r + 5 /\ r + 3 \in r + 3 .. k /\ r + 4 \in r + 3 .. k /\ r + 5 \in r + 3 .. k
      BY <1>7, <2>2
    <3>2. r + 3 - r - 2 = 1 /\ r + 4 - r - 2 = 2 /\ r + 5 - r - 2 = 3
      BY <1>7
    <3> QED
      BY <1>6, <1>10, <2>2, <3>1, <3>2
  <2> QED
    BY <1>6, <2>1, <2>2
<1>13. HeaderLaid(h, p, q, r, k)
  <2>1. ASSUME NEW i \in 1 .. k + 1
        PROVE  /\ h[i] # BoundaryKey
               /\ h[i] = CRLF => i \in {p, q, r} \/ h[i + 1] \notin Names \cup {CRLF}
    <3>1. CASE i < r
      <4>1. CASE i = 1 \/ i = p \/ i = p + 1 \/ i = q \/ i = q + 1
        BY <1>10, <4>1, TokensDiffer
      <4>2. CASE i # 1 /\ i < p
        BY <1>11, <4>2
      <4>3. CASE p + 1 < i /\ i < q
        BY <1>11, <4>3
      <4>4. CASE q + 1 < i
        BY <1>11, <3>1, <4>4
      <4> QED
        BY <1>8, <4>1, <4>2, <4>3, <4>4
    <3>2. CASE i >= r
      <4>1. \/ i = r \/ i = r + 1 \/ i = r + 2 \/ i = k + 1
            \/ k = r + 5 /\ (i = r + 3 \/ i = r + 4 \/ i = r + 5)
        <5>1. CASE k = r + 2
          BY <3>2, <5>1
        <5>2. CASE k = r + 5
          BY <3>2, <5>2
        <5> QED
          BY <1>12, <5>1, <5>2
      <4>2. h[r + 3] \in {AltKey, Mixed}
        <5>1. CASE k = r + 2
          <6>1. r + 3 = k + 1
            BY <5>1
          <6> QED
            BY <1>10, <6>1
        <5> QED
          BY <1>12, <5>1
      <4>3. CASE i = r \/ i = r + 1 \/ i = k + 1
        BY <1>10, <4>3, TokensDiffer
      <4>4. CASE i = r + 2
        <5>1. h[i] = CRLF /\ h[i + 1] = h[r + 3]
          <6>1. i + 1 = r + 3
            BY <4>4
          <6> QED
            BY <1>10, <4>4, <6>1
        <5> QED
          BY <4>2, <5>1, TokensDiffer
      <4>5. CASE k = r + 5 /\ (i = r + 3 \/ i = r + 4)
        BY <1>12, <4>5, TokensDiffer
      <4>6. CASE k = r + 5 /\ i = r + 5
        <5>1. h[i] = CRLF /\ h[i + 1] = Mixed
          BY <1>10, <1>12, <4>6
        <5> QED
          BY <5>1, TokensDiffer
      <4> QED
        BY <4>1, <4>3, <4>4, <4>5, <4>6
    <3> QED
      BY <1>7, <3>1, <3>2
  <2>2. \A i \in (2 .. p - 1) \cup (p + 2 .. q - 1) \cup (q + 2 .. r - 1) : h[i] # CRLF
    BY <1>11
  <2> QED
    BY <1>10, <2>1, <2>2 DEF HeaderLaid
<1> QED
  BY <1>1, <1>7, <1>8, <1>10, <1>13

\* The search for a token, or for two in a row, stops at the first.
FirstAt(t, x, from, at) ==
    /\ from \in Nat \ {0} /\ at \in from .. Len(t) /\ t[at] = x
    /\ \A i \in from .. at - 1 : t[i] # x

LEMMA FindsFirst ==
    ASSUME NEW T, NEW t \in Seq(T), NEW x, NEW from, NEW at, FirstAt(t, x, from, at)
    PROVE  Find(t, <<x>>, from) = at
<1>1. PICK f : f = Find(t, <<x>>, from)
  OBVIOUS
<1>2. \/ f = 0 /\ \A i \in 1 .. Len(t) : i >= from => t[i] # x
      \/ /\ f \in 1 .. Len(t) /\ f >= from /\ t[f] = x
         /\ \A i \in 1 .. Len(t) : i >= from /\ t[i] = x => f <= i
  <2>1. from \in Nat \ {0}
    BY DEF FirstAt
  <2> QED
    BY <1>1, <2>1, FindOne
<1>3. /\ from \in Nat \ {0} /\ at \in from .. Len(t) /\ t[at] = x
      /\ \A i \in from .. at - 1 : t[i] # x
  BY DEF FirstAt
<1>4. at \in 1 .. Len(t)
  BY <1>3
<1>5. f # 0 /\ f <= at
  BY <1>2, <1>3, <1>4
<1>6. f >= from /\ t[f] = x /\ f \in 1 .. Len(t)
  BY <1>2, <1>5
<1>7. ~(f < at)
  BY <1>3, <1>6
<1> QED
  BY <1>1, <1>3, <1>5, <1>6, <1>7

FirstTwoAt(t, x, y, from, at) ==
    /\ from \in Nat \ {0} /\ at \in from .. Len(t) - 1 /\ t[at] = x /\ t[at + 1] = y
    /\ \A i \in from .. at - 1 : ~(t[i] = x /\ t[i + 1] = y)

LEMMA FindsFirstTwo ==
    ASSUME NEW T, NEW t \in Seq(T), NEW x, NEW y, NEW from, NEW at, FirstTwoAt(t, x, y, from, at)
    PROVE  Find(t, <<x, y>>, from) = at
<1> DEFINE found == {i \in Occurrences(t, <<x, y>>) : i >= from}
<1>1. found = {i \in 1 .. Len(t) - 1 : t[i] = x /\ t[i + 1] = y /\ i >= from}
  BY TwoTokens
<1>2. Find(t, <<x, y>>, from) = IF found = {} THEN 0 ELSE Min(found)
  BY DEF Find
<1> HIDE DEF found
<1>3. /\ from \in Nat \ {0} /\ at \in from .. Len(t) - 1 /\ t[at] = x /\ t[at + 1] = y
      /\ \A i \in from .. at - 1 : ~(t[i] = x /\ t[i + 1] = y)
  BY DEF FirstTwoAt
<1>4. at \in found
  BY <1>1, <1>3
<1>5. ASSUME NEW i \in found PROVE at <= i
  <2>1. i \in 1 .. Len(t) - 1 /\ i >= from /\ t[i] = x /\ t[i + 1] = y
    BY <1>1
  <2>2. ~(i < at)
    BY <1>3, <2>1
  <2> QED
    BY <1>3, <2>1, <2>2
<1>6. found \subseteq Int
  BY <1>1
<1>7. Min(found) = at
  BY <1>4, <1>5, <1>6, LeastIsMin
<1> QED
  BY <1>2, <1>4, <1>7

\* A line goes to the next line end.
LEMMA LineEnds ==
    ASSUME NEW T, NEW t \in Seq(T), NEW from, NEW at, FirstAt(t, CRLF, from, at)
    PROVE  Line(t, from) = Span(from, at)
<1>1. Find(t, <<CRLF>>, from) = at
  BY FindsFirst
<1>2. at # 0
  BY DEF FirstAt
<1> QED
  BY <1>1, <1>2 DEF Line, OrEnd

\* A header that starts a line, wherever else its name is.
LEMMA HeaderFound ==
    ASSUME NEW T, NEW t \in Seq(T), NEW name, name # CRLF, NEW a \in Nat, NEW b \in Nat,
           NEW end \in Nat, a + 1 < end, a + 1 \in 2 .. Len(t),
           t[1] # name, t[a] = CRLF, t[a + 1] = name,
           \A i \in 1 .. a - 1 : ~(t[i] = CRLF /\ t[i + 1] = name),
           FirstAt(t, CRLF, a + 2, b)
    PROVE  FindHeaderValue(t, name, end) = Span(a + 2, b)
<1>1. PICK first : first = Find(t, <<name>>, 1)
  OBVIOUS
<1>2. \/ first = 0 /\ \A i \in 1 .. Len(t) : t[i] # name
      \/ /\ first \in 1 .. Len(t) /\ t[first] = name
         /\ \A i \in 1 .. Len(t) : t[i] = name => first <= i
  <2>1. Len(t) \in Nat /\ 1 \in Nat \ {0}
    OBVIOUS
  <2> QED
    BY <1>1, <2>1, FindOne
<1>3. a + 1 \in 1 .. Len(t)
  OBVIOUS
<1>4. first \in 2 .. Len(t) /\ first <= a + 1 /\ t[first] = name
  BY <1>2, <1>3
<1>5. FirstTwoAt(t, CRLF, name, 1, a)
  BY <1>3 DEF FirstTwoAt
<1>6. Find(t, <<CRLF, name>>, 1) = a
  BY <1>5, FindsFirstTwo
<1>7. Line(t, a + 2) = Span(a + 2, b)
  BY LineEnds
<1>8. FindHeaderValue(t, name, end) =
          IF first = 0 \/ first >= end THEN NoSpan
          ELSE IF first = 1 \/ t[first - 1] = CRLF THEN Line(t, first + 1)
          ELSE IF a = 0 \/ a >= end THEN NoSpan
          ELSE Line(t, a + 2)
  BY <1>1, <1>6 DEF FindHeaderValue
<1>9. first # 0 /\ first # 1 /\ ~(first >= end) /\ a # 0 /\ ~(a >= end)
  BY <1>3, <1>4
<1>10. CASE t[first - 1] = CRLF
  <2>1. PICK i : i = first - 1
    OBVIOUS
  <2>2. i \in 1 .. a /\ t[i] = CRLF /\ i + 1 = first
    BY <1>4, <1>10, <2>1
  <2>3. t[i + 1] = name
    BY <1>4, <2>2
  <2>4. ~(i \in 1 .. a - 1)
    BY <2>2, <2>3
  <2>5. first + 1 = a + 2
    BY <2>2, <2>4
  <2> QED
    BY <1>7, <1>8, <1>9, <1>10, <2>5
<1>11. CASE t[first - 1] # CRLF
  BY <1>7, <1>8, <1>9, <1>11
<1> QED
  BY <1>10, <1>11

\* A text ends with the body and the boundary, which is not in the body; e is the body's end.
TailLaid(t, k, e) ==
    /\ e \in Nat /\ e >= k + 15 /\ Len(t) = e + 3
    /\ t[e + 1] = Dashes /\ t[e + 2] = Own
    /\ \A i \in k + 16 .. e : ~(t[i] = Dashes /\ t[i + 1] = Own)

\* One token of a text as a text.
LEMMA TokenAt ==
    ASSUME NEW T, NEW t \in Seq(T), NEW i \in 1 .. Len(t)
    PROVE  SubSeq(t, i, i) = <<t[i]>>
<1>1. Len(SubSeq(t, i, i)) = 1 /\ SubSeq(t, i, i)[1] = t[i]
  OBVIOUS
<1>2. /\ SubSeq(t, i, i) \in Seq(T) /\ <<t[i]>> \in Seq(T)
      /\ Len(<<t[i]>>) = 1 /\ <<t[i]>>[1] = t[i]
  OBVIOUS
<1>3. \A j \in 1 .. 1 : SubSeq(t, i, i)[j] = <<t[i]>>[j]
  BY <1>1, <1>2
<1> QED
  BY <1>1, <1>2, <1>3, SeqEqual

LEMMA DelimIsTwo == Delim(<<Own>>) = <<Dashes, Own>>
<1>1. PICK o, d : o = Own /\ d = Dashes
  OBVIOUS
<1>2. <<d>> \o <<o>> = <<d, o>>
  <2>1. /\ <<d>> \o <<o>> \in Seq({d, o}) /\ <<d, o>> \in Seq({d, o})
        /\ Len(<<d>> \o <<o>>) = 2 /\ Len(<<d, o>>) = 2
    OBVIOUS
  <2>2. (<<d>> \o <<o>>)[1] = d /\ (<<d>> \o <<o>>)[2] = o
    OBVIOUS
  <2>3. <<d, o>>[1] = d /\ <<d, o>>[2] = o
    OBVIOUS
  <2>4. ASSUME NEW i \in 1 .. 2 PROVE (<<d>> \o <<o>>)[i] = <<d, o>>[i]
    <3>1. i = 1 \/ i = 2
      OBVIOUS
    <3> QED
      BY <2>2, <2>3, <3>1
  <2> QED
    BY <2>1, <2>4, SeqEqual
<1> QED
  BY <1>1, <1>2 DEF Delim, Dashes

\* The last of some positions.
LEMMA GreatestIsMax ==
    ASSUME NEW S \in SUBSET Int, NEW x \in S, \A y \in S : y <= x
    PROVE  Max(S) = x
<1>1. \A z \in S : (\A y \in S : y <= z) => z = x
  <2> SUFFICES ASSUME NEW z \in S, \A y \in S : y <= z
               PROVE  z = x
    OBVIOUS
  <2>1. z <= x /\ x <= z /\ z \in Int /\ x \in Int
    OBVIOUS
  <2> QED
    BY <2>1
<1> DEFINE Greatest(z) == \A y \in S : y <= z
<1>2. \E z \in S : Greatest(z)
  OBVIOUS
<1>3. Max(S) = CHOOSE z \in S : Greatest(z)
  BY DEF Max
<1>4. \A z \in S : Greatest(z) => z = x
  BY <1>1
<1> HIDE DEF Greatest
<1> QED
  BY <1>2, <1>3, <1>4

\* The spans of a text that is laid like that.
SpansOf(mime, from, to, subject, charset, body) ==
    [mime |-> mime,
     headers |-> [name \in Names |->
         CASE name = "From: " -> from [] name = "To: " -> to [] name = "Subject: " -> subject],
     charset |-> charset, body |-> body]

LaidSpans(p, q, r, k, e) ==
    SpansOf(k + 6, Span(2, p), Span(p + 2, q), Span(q + 2, r), Span(k + 11, k + 12),
            Span(k + 16, e + 1))

\* What the parser makes of such a text.
LEMMA LaidTextIsAnalysed ==
    ASSUME NEW T, NEW t \in Seq(T), NEW p \in Nat, NEW q \in Nat, NEW r \in Nat, NEW k \in Nat,
           NEW e, 1 < p, p + 1 < q, q + 1 < r, r + 1 < k,
           HeaderLaid(t, p, q, r, k), PartLaid(t, k), TailLaid(t, k, e)
    PROVE  AnalyseMessage(t) = LaidSpans(p, q, r, k, e)
<1>1. e \in Nat /\ e >= k + 15 /\ Len(t) = e + 3
  BY DEF TailLaid
<1>2. /\ t[1] = FromKey /\ t[p] = CRLF /\ t[p + 1] = ToKey /\ t[q] = CRLF
      /\ t[q + 1] = SubjectKey /\ t[r] = CRLF /\ t[r + 1] = MimeVersion
  BY DEF HeaderLaid
<1>3. /\ \A i \in 2 .. p - 1 : t[i] # CRLF
      /\ \A i \in p + 2 .. q - 1 : t[i] # CRLF
      /\ \A i \in q + 2 .. r - 1 : t[i] # CRLF
  BY DEF HeaderLaid
<1>4. /\ \A i \in 1 .. k + 1 : t[i] # BoundaryKey
      /\ \A i \in 1 .. k + 1 : t[i] = CRLF =>
             i = p \/ i = q \/ i = r \/ t[i + 1] \notin Names \cup {CRLF}
  BY DEF HeaderLaid
<1>5. /\ t[k + 2] = BoundaryKey /\ t[k + 3] = Own /\ t[k + 4] = CRLF /\ t[k + 5] = CRLF
      /\ t[k + 6] = Dashes /\ t[k + 7] = Own /\ t[k + 8] = CRLF /\ t[k + 9] = Plain
      /\ t[k + 10] = CharsetKey /\ t[k + 11] = Utf8 /\ t[k + 12] = CRLF
      /\ t[k + 13] = Wiimail /\ t[k + 14] = CRLF /\ t[k + 15] = CRLF
  BY DEF PartLaid, BoundaryKey, Dashes, Plain, CharsetKey, Utf8
<1>6. /\ 2 \in 1 .. Len(t) /\ p \in 1 .. Len(t) /\ q \in 1 .. Len(t) /\ r \in 1 .. Len(t)
      /\ p + 1 \in 2 .. Len(t) /\ q + 1 \in 2 .. Len(t) /\ Len(t) \in Nat /\ k + 16 <= Len(t)
  BY <1>1
<1>6a. /\ FromKey # CRLF /\ ToKey # CRLF /\ SubjectKey # CRLF /\ Own # CRLF /\ Plain # CRLF
      /\ Wiimail # CRLF /\ Utf8 # CRLF
      /\ FromKey # ToKey /\ FromKey # SubjectKey /\ ToKey # SubjectKey
  BY TokensDiffer
<1>6b. \A i \in 1 .. p - 1 : t[i] # CRLF
  <2>1. ASSUME NEW i \in 1 .. p - 1 PROVE t[i] # CRLF
    <3>1. i = 1 \/ i \in 2 .. p - 1
      OBVIOUS
    <3> QED
      BY <1>2, <1>3, <1>6a, <3>1
  <2> QED
    BY <2>1
\* The outer headers.
<1>7. Find(t, <<CRLF, CRLF>>, 1) = k + 4
  <2>1. ASSUME NEW i \in 1 .. k + 4 - 1, t[i] = CRLF, t[i + 1] = CRLF PROVE FALSE
    <3>1. CASE i \in 1 .. k + 1
      <4>1. i = p \/ i = q \/ i = r
        BY <1>4, <2>1, <3>1
      <4> QED
        BY <1>2, <2>1, <4>1, TokensDiffer
    <3>2. CASE i = k + 2 \/ i = k + 3
      BY <1>5, <2>1, <3>2, TokensDiffer
    <3> QED
      BY <3>1, <3>2
  <2>2. k + 4 \in 1 .. Len(t) - 1 /\ k + 4 + 1 = k + 5
    BY <1>6
  <2>3. FirstTwoAt(t, CRLF, CRLF, 1, k + 4)
    BY <1>5, <2>1, <2>2 DEF FirstTwoAt
  <2> QED
    BY <2>3, FindsFirstTwo
<1>8. FindHeaderValue(t, FromKey, k + 6) = Span(2, p)
  <2>1. FirstAt(t, FromKey, 1, 1)
    BY <1>2, <1>6 DEF FirstAt
  <2>2. Find(t, <<FromKey>>, 1) = 1
    BY <2>1, FindsFirst
  <2>3. FirstAt(t, CRLF, 2, p)
    BY <1>2, <1>3, <1>6 DEF FirstAt
  <2>4. Line(t, 2) = Span(2, p)
    BY <2>3, LineEnds
  <2>5. ~(1 = 0 \/ 1 >= k + 6) /\ 1 + 1 = 2
    OBVIOUS
  <2> QED
    BY <2>2, <2>4, <2>5 DEF FindHeaderValue
<1>9. FindHeaderValue(t, ToKey, k + 6) = Span(p + 2, q)
  <2>1. FirstAt(t, CRLF, p + 2, q)
    BY <1>2, <1>3, <1>6 DEF FirstAt
  <2>2. ASSUME NEW i \in 1 .. p - 1 PROVE ~(t[i] = CRLF /\ t[i + 1] = ToKey)
    BY <1>6b
  <2>3. p + 1 < k + 6 /\ k + 6 \in Nat
    OBVIOUS
  <2>4. t[1] # ToKey /\ t[p] = CRLF /\ t[p + 1] = ToKey /\ p + 1 \in 2 .. Len(t) /\ ToKey # CRLF
    BY <1>2, <1>6, <1>6a
  <2> QED
    BY <2>1, <2>2, <2>3, <2>4, HeaderFound
<1>10. FindHeaderValue(t, SubjectKey, k + 6) = Span(q + 2, r)
  <2>1. FirstAt(t, CRLF, q + 2, r)
    BY <1>2, <1>3, <1>6 DEF FirstAt
  <2>2. ASSUME NEW i \in 1 .. q - 1 PROVE ~(t[i] = CRLF /\ t[i + 1] = SubjectKey)
    <3>1. i = 1 \/ i \in 2 .. p - 1 \/ i = p \/ i = p + 1 \/ i \in p + 2 .. q - 1
      OBVIOUS
    <3>2. i \in 1 .. p - 1 \/ i = p \/ i = p + 1 \/ i \in p + 2 .. q - 1
      BY <3>1
    <3>3. t[i] # CRLF \/ i = p
      BY <1>2, <1>3, <1>6a, <1>6b, <3>2
    <3> QED
      BY <1>2, <1>6a, <3>3
  <2>3. q + 1 < k + 6 /\ k + 6 \in Nat
    OBVIOUS
  <2>4. t[1] # SubjectKey /\ t[q] = CRLF /\ t[q + 1] = SubjectKey /\ q + 1 \in 2 .. Len(t)
        /\ SubjectKey # CRLF
    BY <1>2, <1>6, <1>6a
  <2> QED
    BY <2>1, <2>2, <2>3, <2>4, HeaderFound
<1>11. Headers(t, k + 6) =
           [name \in Names |->
                CASE name = "From: " -> Span(2, p)
                  [] name = "To: " -> Span(p + 2, q)
                  [] name = "Subject: " -> Span(q + 2, r)]
  BY <1>8, <1>9, <1>10 DEF Headers, Names, FromKey, ToKey, SubjectKey
<1>12. Boundary(t, k + 6) = <<Own>>
  <2>1. FirstAt(t, BoundaryKey, 1, k + 2)
    BY <1>4, <1>5, <1>6 DEF FirstAt
  <2>2. Find(t, <<BoundaryKey>>, 1) = k + 2
    BY <2>1, FindsFirst
  <2>3. FirstAt(t, CRLF, k + 3, k + 4)
    <3>1. ASSUME NEW i \in k + 3 .. k + 4 - 1 PROVE t[i] # CRLF
      <4>1. i = k + 3
        OBVIOUS
      <4> QED
        BY <1>5, <1>6a, <4>1
    <3>2. k + 3 \in Nat \ {0} /\ k + 4 \in k + 3 .. Len(t)
      BY <1>6
    <3> QED
      BY <1>5, <3>1, <3>2 DEF FirstAt
  <2>4. k + 2 + 1 = k + 3 /\ k + 4 - 1 = k + 3 /\ ~(k + 2 = 0 \/ k + 2 >= k + 6)
    OBVIOUS
  <2>5. Line(t, k + 2 + 1) = Span(k + 3, k + 4)
    BY <2>3, <2>4, LineEnds
  <2>6. SubSeq(t, k + 3, k + 3) = <<Own>>
    <3>1. PICK i : i = k + 3
      OBVIOUS
    <3>2. i \in 1 .. Len(t) /\ t[i] = Own
      BY <1>5, <1>6, <3>1
    <3>3. SubSeq(t, i, i) = <<t[i]>>
      BY <3>2, TokenAt
    <3> QED
      BY <3>1, <3>2, <3>3
  <2>7. Span(k + 3, k + 4).from = k + 3 /\ Span(k + 3, k + 4).to - 1 = k + 3
    BY <2>4 DEF Span
  <2>8. PICK b, line : b = Find(t, <<BoundaryKey>>, 1) /\ line = Line(t, b + 1)
    OBVIOUS
  <2>9. Boundary(t, k + 6) =
            IF b = 0 \/ b >= k + 6 THEN <<>> ELSE SubSeq(t, line.from, line.to - 1)
    BY <2>8 DEF Boundary, BoundaryKey
  <2>10. b = k + 2 /\ line = Span(k + 3, k + 4)
    BY <2>2, <2>5, <2>8
  <2> QED
    BY <2>4, <2>6, <2>7, <2>9, <2>10
\* The part.
<1>13. PartOf(t, <<Dashes, Own>>, k + 6) = k + 6
  <2>1. FirstAt(t, Wiimail, k + 6, k + 13)
    <3>1. ASSUME NEW i \in k + 6 .. k + 13 - 1 PROVE t[i] # Wiimail
      <4>1. \/ i = k + 6 \/ i = k + 7 \/ i = k + 8 \/ i = k + 9
            \/ i = k + 10 \/ i = k + 11 \/ i = k + 12
        OBVIOUS
      <4>2. t[i] \in {Dashes, Own, CRLF, Plain, CharsetKey, Utf8}
        BY <1>5, <4>1
      <4> QED
        BY <4>2, TokensDiffer
    <3>2. k + 6 \in Nat \ {0} /\ k + 13 \in k + 6 .. Len(t)
      BY <1>6
    <3> QED
      BY <1>5, <3>1, <3>2 DEF FirstAt
  <2>2. Find(t, <<Wiimail>>, k + 6) = k + 13
    BY <2>1, FindsFirst
  <2> DEFINE found == {i \in Occurrences(t, <<Dashes, Own>>) : i <= k + 13}
  <2>3. found = {i \in 1 .. Len(t) - 1 : t[i] = Dashes /\ t[i + 1] = Own /\ i <= k + 13}
    BY TwoTokens
  <2> HIDE DEF found
  <2>4. k + 6 \in found
    <3>1. k + 6 + 1 = k + 7
      OBVIOUS
    <3> QED
      BY <1>5, <1>6, <2>3, <3>1
  <2>5. ASSUME NEW i \in found PROVE i <= k + 6
    <3>1. i \in 1 .. k + 13 /\ t[i] = Dashes
      BY <2>3
    <3>2. \/ i <= k + 6 \/ i = k + 7 \/ i = k + 8 \/ i = k + 9
          \/ i = k + 10 \/ i = k + 11 \/ i = k + 12 \/ i = k + 13
      BY <3>1
    <3> QED
      BY <1>5, <3>1, <3>2, TokensDiffer
  <2>6. found \subseteq Int
    BY <2>3
  <2>7. Max(found) = k + 6
    BY <2>4, <2>5, <2>6, GreatestIsMax
  <2>8. RFind(t, <<Dashes, Own>>, k + 13) = k + 6
    BY <2>4, <2>7 DEF RFind, found
  <2>9. k + 13 # 0
    OBVIOUS
  <2> QED
    BY <2>2, <2>8, <2>9 DEF PartOf
<1>14. Find(t, <<CRLF, CRLF>>, k + 6) = k + 14
  <2>1. ASSUME NEW i \in k + 6 .. k + 14 - 1 PROVE ~(t[i] = CRLF /\ t[i + 1] = CRLF)
    <3>1. \/ i = k + 6 \/ i = k + 7 \/ i = k + 8 \/ i = k + 9
          \/ i = k + 10 \/ i = k + 11 \/ i = k + 12 \/ i = k + 13
      OBVIOUS
    <3>2. k + 8 + 1 = k + 9 /\ k + 12 + 1 = k + 13
      OBVIOUS
    <3>3. t[i] # CRLF \/ i = k + 8 \/ i = k + 12
      BY <1>5, <1>6a, <3>1, TokensDiffer
    <3>4. t[k + 9] # CRLF /\ t[k + 13] # CRLF
      BY <1>5, <1>6a
    <3> QED
      BY <3>2, <3>3, <3>4
  <2>2. k + 14 \in k + 6 .. Len(t) - 1 /\ k + 14 + 1 = k + 15 /\ k + 6 \in Nat \ {0}
    BY <1>6
  <2>3. FirstTwoAt(t, CRLF, CRLF, k + 6, k + 14)
    BY <1>5, <2>1, <2>2 DEF FirstTwoAt
  <2> QED
    BY <2>3, FindsFirstTwo
<1>15. Charset(t, k + 6, k + 14) = Span(k + 11, k + 12)
  <2>1. FirstAt(t, CharsetKey, k + 6, k + 10)
    <3>1. ASSUME NEW i \in k + 6 .. k + 10 - 1 PROVE t[i] # CharsetKey
      <4>1. i = k + 6 \/ i = k + 7 \/ i = k + 8 \/ i = k + 9
        OBVIOUS
      <4>2. t[i] \in {Dashes, Own, CRLF, Plain}
        BY <1>5, <4>1
      <4> QED
        BY <4>2, TokensDiffer
    <3>2. k + 6 \in Nat \ {0} /\ k + 10 \in k + 6 .. Len(t)
      BY <1>6
    <3> QED
      BY <1>5, <3>1, <3>2 DEF FirstAt
  <2>2. Find(t, <<CharsetKey>>, k + 6) = k + 10
    BY <2>1, FindsFirst
  <2>3. FirstAt(t, CRLF, k + 11, k + 12)
    <3>1. ASSUME NEW i \in k + 11 .. k + 12 - 1 PROVE t[i] # CRLF
      <4>1. i = k + 11
        OBVIOUS
      <4> QED
        BY <1>5, <1>6a, <4>1
    <3>2. k + 11 \in Nat \ {0} /\ k + 12 \in k + 11 .. Len(t)
      BY <1>6
    <3> QED
      BY <1>5, <3>1, <3>2 DEF FirstAt
  <2>4. k + 10 + 1 = k + 11 /\ ~(k + 10 = 0 \/ k + 10 >= k + 14)
    OBVIOUS
  <2>5. Line(t, k + 11) = Span(k + 11, k + 12)
    BY <2>3, LineEnds
  <2>6. PICK cs : cs = Find(t, <<CharsetKey>>, k + 6)
    OBVIOUS
  <2>7. Charset(t, k + 6, k + 14) = IF cs = 0 \/ cs >= k + 14 THEN NoSpan ELSE Line(t, cs + 1)
    BY <2>6 DEF Charset, CharsetKey
  <2>8. cs = k + 10
    BY <2>2, <2>6
  <2> QED
    BY <2>4, <2>5, <2>7, <2>8
<1>16. Find(t, <<Dashes, Own>>, k + 14 + 2) = e + 1
  <2>1. /\ t[e + 1] = Dashes /\ t[e + 2] = Own
        /\ \A i \in k + 16 .. e : ~(t[i] = Dashes /\ t[i + 1] = Own)
    BY DEF TailLaid
  <2>2. /\ k + 14 + 2 = k + 16 /\ k + 16 \in Nat \ {0} /\ e + 1 \in k + 16 .. Len(t) - 1
        /\ e + 1 + 1 = e + 2 /\ e + 1 - 1 = e
    BY <1>1
  <2>3. FirstTwoAt(t, Dashes, Own, k + 14 + 2, e + 1)
    <3>1. PICK f, d \in Nat : f = k + 14 + 2 /\ d = e + 1
      BY <1>1
    <3>2. f \in Nat \ {0} /\ d \in f .. Len(t) - 1
      BY <1>1, <3>1
    <3>3. t[d] = Dashes /\ t[d + 1] = Own
      BY <2>1, <2>2, <3>1
    <3>4. ASSUME NEW i \in f .. d - 1 PROVE ~(t[i] = Dashes /\ t[i + 1] = Own)
      <4>1. i \in k + 16 .. e
        BY <1>1, <3>1
      <4> QED
        BY <2>1, <4>1
    <3>5. FirstTwoAt(t, Dashes, Own, f, d)
      BY <3>2, <3>3, <3>4 DEF FirstTwoAt
    <3> QED
      BY <3>1, <3>5
  <2> QED
    BY <2>3, FindsFirstTwo
<1>17. Multipart(t, k + 6, <<Dashes, Own>>) =
           [mime |-> k + 6, headers |-> Headers(t, k + 6), charset |-> Span(k + 11, k + 12),
            body |-> Span(k + 16, e + 1)]
  <2>1. ~(k + 6 = 0 \/ k + 14 = 0) /\ e + 1 # 0 /\ k + 14 + 2 = k + 16
    BY <1>1
  <2>2. OrEnd(t, e + 1) = e + 1
    BY <2>1 DEF OrEnd
  <2> QED
    BY <1>13, <1>14, <1>15, <1>16, <2>1, <2>2 DEF Multipart
<1>18. AnalyseMessage(t) = Multipart(t, k + 6, <<Dashes, Own>>)
  <2>1. k + 4 + 2 = k + 6 /\ k + 4 # 0 /\ <<Own>> # <<>>
    OBVIOUS
  <2> QED
    BY <1>7, <1>12, <2>1, DelimIsTwo DEF AnalyseMessage
<1> QED
  BY <1>11, <1>17, <1>18 DEF LaidSpans, SpansOf

\* What is true of the start of a text is true of the text.
LEMMA StartIsLaid ==
    ASSUME NEW h, NEW t, NEW p \in Nat, NEW q \in Nat, NEW r \in Nat, NEW k \in Nat,
           1 < p, p + 1 < q, q + 1 < r, r + 1 < k, Same(h, t, k + 15),
           HeaderLaid(h, p, q, r, k), PartLaid(h, k)
    PROVE  HeaderLaid(t, p, q, r, k) /\ PartLaid(t, k)
<1>1. \A i \in 1 .. k + 15 : t[i] = h[i]
  BY DEF Same
<1>2. PartLaid(t, k)
  <2>1. /\ k + 2 \in 1 .. k + 15 /\ k + 3 \in 1 .. k + 15 /\ k + 4 \in 1 .. k + 15
        /\ k + 5 \in 1 .. k + 15 /\ k + 6 \in 1 .. k + 15 /\ k + 7 \in 1 .. k + 15
        /\ k + 8 \in 1 .. k + 15 /\ k + 9 \in 1 .. k + 15 /\ k + 10 \in 1 .. k + 15
        /\ k + 11 \in 1 .. k + 15 /\ k + 12 \in 1 .. k + 15 /\ k + 13 \in 1 .. k + 15
        /\ k + 14 \in 1 .. k + 15 /\ k + 15 \in 1 .. k + 15
    OBVIOUS
  <2>2. /\ t[k + 2] = h[k + 2] /\ t[k + 3] = h[k + 3] /\ t[k + 4] = h[k + 4]
        /\ t[k + 5] = h[k + 5] /\ t[k + 6] = h[k + 6] /\ t[k + 7] = h[k + 7]
        /\ t[k + 8] = h[k + 8] /\ t[k + 9] = h[k + 9] /\ t[k + 10] = h[k + 10]
        /\ t[k + 11] = h[k + 11] /\ t[k + 12] = h[k + 12] /\ t[k + 13] = h[k + 13]
        /\ t[k + 14] = h[k + 14] /\ t[k + 15] = h[k + 15]
    BY <1>1, <2>1
  <2> QED
    BY <2>2 DEF PartLaid
<1>3. HeaderLaid(t, p, q, r, k)
  <2>1. /\ 1 \in 1 .. k + 15 /\ p \in 1 .. k + 15 /\ p + 1 \in 1 .. k + 15
        /\ q \in 1 .. k + 15 /\ q + 1 \in 1 .. k + 15
        /\ r \in 1 .. k + 15 /\ r + 1 \in 1 .. k + 15
    OBVIOUS
  <2>2. /\ t[1] = h[1] /\ t[p] = h[p] /\ t[p + 1] = h[p + 1] /\ t[q] = h[q]
        /\ t[q + 1] = h[q + 1] /\ t[r] = h[r] /\ t[r + 1] = h[r + 1]
    BY <1>1, <2>1
  <2>3. ASSUME NEW i \in 1 .. k + 1 PROVE t[i] = h[i] /\ t[i + 1] = h[i + 1]
    <3>1. i \in 1 .. k + 15 /\ i + 1 \in 1 .. k + 15
      OBVIOUS
    <3> QED
      BY <1>1, <3>1
  <2>4. ASSUME NEW i \in (2 .. p - 1) \cup (p + 2 .. q - 1) \cup (q + 2 .. r - 1)
        PROVE  t[i] = h[i]
    <3>1. i \in 1 .. k + 1
      OBVIOUS
    <3> QED
      BY <2>3, <3>1
  <2> QED
    BY <2>2, <2>3, <2>4 DEF HeaderLaid
<1> QED
  BY <1>2, <1>3

\* The body has line ends behind it, and the boundary is not in it then either.
BodyFacts(T, body, b) ==
    /\ b \in Seq(T)
    /\ \A i \in 1 .. Len(b) - 1 : ~(b[i] = Dashes /\ b[i + 1] = Own)

LEMMA NormalisedText ==
    ASSUME NEW T, CRLF \in T, NEW body \in Seq(T), Occurrences(body, Delim(<<Own>>)) = {}
    PROVE  BodyFacts(T, body, Normalised(body))
<1>1. PICK ends : ends = IF EndsLine(body) THEN <<>> ELSE <<CRLF>>
  OBVIOUS
<1>2. ends \in Seq(T) /\ \A i \in 1 .. Len(ends) : ends[i] = CRLF
  <2>1. CASE ends = <<>>
    BY <2>1
  <2>2. CASE ends = <<CRLF>>
    <3>1. Len(ends) = 1 /\ ends[1] = CRLF /\ ends \in Seq(T)
      BY <2>2
    <3> QED
      BY <3>1
  <2> QED
    BY <1>1, <2>1, <2>2
<1>3. PICK u : u = body \o ends
  OBVIOUS
<1>4. IsJoined(T, u, body, ends)
  BY <1>2, <1>3, Joined
<1>5. PICK b : b = u \o <<CRLF, CRLF, CRLF>>
  OBVIOUS
<1>6. u \in Seq(T)
  BY <1>4 DEF IsJoined
<1>7. ThreeAt(T, b, u, Len(u), CRLF, CRLF, CRLF)
  BY <1>5, <1>6, JoinedThree
<1>8. PICK n, c \in Nat : n = Len(body) /\ c = Len(u)
  BY <1>6
<1>9. /\ b \in Seq(T) /\ Len(b) = c + 3 /\ \A i \in 1 .. c : b[i] = u[i]
      /\ b[c + 1] = CRLF /\ b[c + 2] = CRLF /\ b[c + 3] = CRLF
  BY <1>7, <1>8 DEF ThreeAt
<1>10. /\ c = n + Len(ends) /\ \A i \in 1 .. n : u[i] = body[i]
       /\ \A i \in 1 .. Len(ends) : u[n + i] = ends[i]
  BY <1>4, <1>8 DEF IsJoined
<1>11. Len(ends) \in Nat
  BY <1>2
<1>12. ASSUME NEW i \in 1 .. n PROVE b[i] = body[i]
  <2>1. i \in 1 .. c
    BY <1>10, <1>11
  <2> QED
    BY <1>9, <1>10, <2>1
<1>13. ASSUME NEW i \in n + 1 .. c + 3 PROVE b[i] = CRLF
  <2>1. CASE i \in n + 1 .. c
    <3>1. i - n \in 1 .. Len(ends) /\ n + (i - n) = i /\ i \in 1 .. c
      BY <1>10, <1>11, <2>1
    <3>2. u[n + (i - n)] = CRLF
      BY <1>2, <1>10, <3>1
    <3> QED
      BY <1>9, <3>1, <3>2
  <2>2. CASE i = c + 1 \/ i = c + 2 \/ i = c + 3
    BY <1>9, <2>2
  <2> QED
    BY <2>1, <2>2
<1>14. \A i \in 1 .. n - 1 : ~(body[i] = Dashes /\ body[i + 1] = Own)
  <2>1. Occurrences(body, <<Dashes, Own>>) = {}
    BY DelimIsTwo
  <2> DEFINE found == {i \in Occurrences(body, <<Dashes, Own>>) : i >= 1}
  <2>2. found = {i \in 1 .. Len(body) - 1 : body[i] = Dashes /\ body[i + 1] = Own /\ i >= 1}
    BY TwoTokens
  <2>3. found = {}
    BY <2>1
  <2> HIDE DEF found
  <2> QED
    BY <1>8, <2>2, <2>3
<1>15. Dashes # CRLF /\ Own # CRLF
  BY TokensDiffer
<1>16. ASSUME NEW i \in 1 .. c + 3 - 1 PROVE ~(b[i] = Dashes /\ b[i + 1] = Own)
  <2>1. CASE i < n
    <3>1. i \in 1 .. n - 1 /\ i \in 1 .. n /\ i + 1 \in 1 .. n
      BY <2>1
    <3>2. b[i] = body[i] /\ b[i + 1] = body[i + 1]
      BY <1>12, <3>1
    <3> QED
      BY <1>14, <3>1, <3>2
  <2>2. CASE i >= n
    <3>1. i + 1 \in n + 1 .. c + 3
      BY <1>10, <1>11, <2>2
    <3> QED
      BY <1>13, <1>15, <3>1
  <2> QED
    BY <2>1, <2>2
<1>17. BodyFacts(T, body, b)
  BY <1>9, <1>16 DEF BodyFacts
<1>18. b = Normalised(body)
  BY <1>1, <1>3, <1>5 DEF Normalised
<1> QED
  BY <1>17, <1>18

\* The parser finds in what BuildMessage makes of such a message what it put there.
LEMMA BuiltIsParsed ==
    ASSUME NEW m, Unambiguous(m)
    PROVE  /\ AnalyseMessage(BuildMessage(m)) = BuiltSpans(m)
           /\ BuildMessage(m)[1] = FromKey
<1>1. PICK T : T = DOMAIN Width \cup Tokens
  OBVIOUS
<1>2. PICK h, b, t, e : /\ h = Before(m) /\ b = Normalised(m.body)
                        /\ t = BuildMessage(m) /\ e = Len(h \o b)
  OBVIOUS
<1>3. PICK k \in Nat, p \in Nat, q \in Nat, r \in Nat :
          /\ p = Len(m.from) + 2 /\ q = p + Len(m.to) + 2 /\ r = q + Len(m.subject) + 2
          /\ k > r + 1 /\ h \in Seq(T) /\ Len(h) = k + 15
          /\ HeaderLaid(h, p, q, r, k) /\ PartLaid(h, k)
  BY <1>1, <1>2, HeaderIsLaid
<1>4. m.from \in Seq(DOMAIN Width) /\ m.to \in Seq(DOMAIN Width) /\ m.subject \in Seq(DOMAIN Width)
      /\ m.body \in Seq(DOMAIN Width) /\ Occurrences(m.body, Delim(<<Own>>)) = {}
  BY DEF Unambiguous
<1>5. PICK a, c, s \in Nat : a = Len(m.from) /\ c = Len(m.to) /\ s = Len(m.subject)
  BY <1>4
<1>6. p = a + 2 /\ q = p + c + 2 /\ r = q + s + 2 /\ 1 < p /\ p + 1 < q /\ q + 1 < r /\ r + 1 < k
  <2>1. p = a + 2 /\ q = p + c + 2 /\ r = q + s + 2
    BY <1>3, <1>5
  <2>2. r + 1 < k
    BY <1>3
  <2> QED
    BY <2>1, <2>2
<1>7. Dashes \in T /\ Own \in T /\ CRLF \in T
  BY <1>1 DEF Tokens
<1>8. b \in Seq(T) /\ \A i \in 1 .. Len(b) - 1 : ~(b[i] = Dashes /\ b[i + 1] = Own)
  <2>1. m.body \in Seq(T)
    BY <1>1, <1>4
  <2> QED
    BY <1>2, <1>4, <1>7, <2>1, NormalisedText DEF BodyFacts
<1>9. PICK n \in Nat : n = Len(b)
  BY <1>8
<1>10. FieldAt(T, h \o b, h, k + 15, b)
  BY <1>3, <1>8, JoinedField
<1>11. h \o b \in Seq(T)
  BY <1>10 DEF FieldAt
<1>12. ThreeAt(T, t, h \o b, e, Dashes, Own, Dashes)
  <2>1. t = h \o b \o <<Dashes, Own, Dashes>>
    BY <1>2 DEF BuildMessage, Dashes
  <2> QED
    BY <1>2, <1>7, <1>11, <2>1, JoinedThree
<1>13. PICK u : u = h \o b
  OBVIOUS
<1>14. /\ u \in Seq(T) /\ e = k + 15 + n /\ \A i \in 1 .. k + 15 : u[i] = h[i]
       /\ \A i \in k + 15 + 1 .. k + 15 + n : u[i] = b[i - (k + 15)]
  BY <1>2, <1>9, <1>10, <1>13 DEF FieldAt
<1>15. /\ t \in Seq(T) /\ Len(t) = e + 3 /\ \A i \in 1 .. e : t[i] = u[i]
       /\ t[e + 1] = Dashes /\ t[e + 2] = Own
  BY <1>12, <1>13 DEF ThreeAt
<1>16. e \in Nat /\ e >= k + 15
  BY <1>14
<1>17. Same(h, t, k + 15)
  <2>1. ASSUME NEW i \in 1 .. k + 15 PROVE t[i] = h[i]
    <3>1. i \in 1 .. e
      BY <1>16
    <3> QED
      BY <1>14, <1>15, <3>1
  <2> QED
    BY <2>1 DEF Same
<1>18. HeaderLaid(t, p, q, r, k) /\ PartLaid(t, k)
  BY <1>3, <1>6, <1>17, StartIsLaid
<1>19. TailLaid(t, k, e)
  <2>1. ASSUME NEW i \in k + 16 .. e PROVE ~(t[i] = Dashes /\ t[i + 1] = Own)
    <3>1. ASSUME NEW j \in k + 16 .. e PROVE t[j] = b[j - (k + 15)]
      <4>1. j \in k + 15 + 1 .. k + 15 + n /\ j \in 1 .. e
        BY <1>14
      <4> QED
        BY <1>14, <1>15, <4>1
    <3>2. CASE i < e
      <4>1. PICK j : j = i - (k + 15)
        OBVIOUS
      <4>2. j \in 1 .. n - 1 /\ i + 1 \in k + 16 .. e /\ i + 1 - (k + 15) = j + 1
        BY <1>14, <3>2, <4>1
      <4>3. t[i] = b[j] /\ t[i + 1] = b[j + 1]
        BY <3>1, <4>1, <4>2
      <4> QED
        BY <1>8, <1>9, <4>2, <4>3
    <3>3. CASE i = e
      <4>1. t[i + 1] = Dashes
        BY <1>15, <3>3
      <4> QED
        BY <4>1, TokensDiffer
    <3> QED
      BY <1>16, <3>2, <3>3
  <2> QED
    BY <1>15, <1>16, <2>1 DEF TailLaid
<1>20. AnalyseMessage(t) = LaidSpans(p, q, r, k, e)
  BY <1>6, <1>15, <1>16, <1>18, <1>19, LaidTextIsAnalysed
<1>21. PICK l \in Nat : l = k + 15
  OBVIOUS
<1>22. /\ l - 9 = k + 6 /\ l - 4 = k + 11 /\ l - 3 = k + 12 /\ l + 1 = k + 16
       /\ l + 1 + n = e + 1 /\ 2 + a = p /\ 2 + a + 2 = p + 2 /\ 2 + a + 2 + c = q
       /\ 2 + a + 2 + c + 2 = q + 2 /\ 2 + a + 2 + c + 2 + s = r
  BY <1>6, <1>14, <1>21
<1>23. AnalyseMessage(t) = BuiltSpans(m)
  <2>1. Len(Before(m)) = l /\ Len(Normalised(m.body)) = n
    BY <1>2, <1>3, <1>9, <1>21
  <2>2. BuiltSpans(m) =
            SpansOf(l - 9, Span(2, 2 + a), Span(2 + a + 2, 2 + a + 2 + c),
                    Span(2 + a + 2 + c + 2, 2 + a + 2 + c + 2 + s),
                    Span(l - 4, l - 3), Span(l + 1, l + 1 + n))
    BY <1>5, <2>1 DEF BuiltSpans, SpansWith, SpansOf
  <2>3. BuiltSpans(m) = LaidSpans(p, q, r, k, e)
    BY <1>22, <2>2 DEF LaidSpans
  <2> QED
    BY <1>20, <2>3
<1>24. t[1] = FromKey
  BY <1>18 DEF HeaderLaid
<1> QED
  BY <1>2, <1>23, <1>24

\* The spans are those of a written message, or of the text.
SpansAreOfText ==
    /\ built # None => \E m \in Written : text = BuildMessage(m) /\ built = BuiltSpans(m)
    /\ \/ outcome = "pending"
       \/ outcome = "indexed" /\ spans = AnalyseMessage(text)
       \/ outcome = "refused" /\ AnalyseMessage(text) = None
       \/ outcome = "aborted" /\ Throws(text)

\* AnalyseMessage finds in what BuildMessage makes what BuildMessage says is there, and does
\* not refuse it (mailmsg.cpp), unless a field or the body looks like structure.
THEOREM BuiltMessagesParseBack ==
    ASSUME WrittenIsClear
    PROVE  MessageSpec => []ParsesBack
<1>1. MessageInit => SpansAreOfText
  BY DEF MessageInit, SpansAreOfText
<1>2. SpansAreOfText /\ [MessageNext]_messageVars => SpansAreOfText'
  <2> SUFFICES ASSUME SpansAreOfText, [MessageNext]_messageVars PROVE SpansAreOfText'
    OBVIOUS
  <2>1. CASE Index
    BY <2>1 DEF SpansAreOfText, Index
  <2>2. CASE UNCHANGED messageVars
    BY <2>2 DEF SpansAreOfText, messageVars
  <2>3. CASE Refuse
    BY <2>3 DEF SpansAreOfText, Refuse
  <2>4. CASE Abort
    BY <2>4 DEF SpansAreOfText, Abort
  <2> QED
    BY <2>1, <2>2, <2>3, <2>4 DEF MessageNext
<1>3. SpansAreOfText => ParsesBack
  <2> SUFFICES ASSUME SpansAreOfText, built # None
               PROVE  /\ outcome \in {"pending", "indexed"}
                      /\ outcome = "indexed" => spans = built
    BY DEF ParsesBack
  <2>1. PICK m \in Written : text = BuildMessage(m) /\ built = BuiltSpans(m)
    BY DEF SpansAreOfText
  <2>2. AnalyseMessage(text) = built /\ text[1] = FromKey
    BY <2>1, BuiltIsParsed DEF WrittenIsClear
  <2>3. ~Throws(text)
    BY <2>2 DEF Throws, WrittenIsClear
  <2>4. built # None
    OBVIOUS
  <2> QED
    BY <2>2, <2>3, <2>4 DEF SpansAreOfText
<1> QED
  BY <1>1, <1>2, <1>3, PTL DEF MessageSpec

-----------------------------------------------------------------------------
(***************************************************************************)
(* What the body is, in a text with any boundary and any number of parts.  *)
(***************************************************************************)
\* No part starts among the headers of another, and what looks like the mark of the body is
\* among the headers of a part.
PartsAreApart(t, delim) ==
    /\ \A i, j \in PartsOf(t, delim) : ~(i < j /\ j <= BlankAfter(t, i) + 1)
    /\ \A k \in HeadEnd(t) + 2 .. Len(t) :
           t[k] = Wiimail => \E i \in PartsOf(t, delim) : k \in i .. BlankAfter(t, i)

\* Of the texts to deliver that have a boundary.
PartsAreClear ==
    \A t \in Fetched \cup {BuildMessage(m) : m \in Written} :
        /\ t \in Seq(DOMAIN Width)
        /\ Boundary(t, HeadEnd(t) + 2) # <<>> =>
               PartsAreApart(t, Delim(Boundary(t, HeadEnd(t) + 2)))

\* Whatever the boundary, its occurrences are positions.
LEMMA BoundaryIsText ==
    ASSUME NEW T, NEW t \in Seq(T), NEW mime \in Nat
    PROVE  Boundary(t, mime) \in Seq(T)
<1>1. PICK b : b = Find(t, <<BoundaryKey>>, 1)
  OBVIOUS
<1>2. b = 0 \/ b \in 1 .. Len(t)
  <2>1. 1 \in Nat \ {0}
    OBVIOUS
  <2> QED
    BY <1>1, <2>1, FindOne
<1>3. CASE b = 0 \/ b >= mime
  <2>1. Boundary(t, mime) = <<>>
    BY <1>1, <1>3 DEF Boundary, BoundaryKey
  <2> QED
    BY <2>1
<1>4. CASE ~(b = 0 \/ b >= mime)
  <2>1. PICK from, to : from = b + 1 /\ to = OrEnd(t, Find(t, <<CRLF>>, from))
    OBVIOUS
  <2>2. Boundary(t, mime) = SubSeq(t, from, to - 1)
    BY <1>1, <1>4, <2>1 DEF Boundary, BoundaryKey, Line, Span
  <2>3. from \in Nat \ {0}
    BY <1>2, <2>1
  <2>4. PICK c : c = Find(t, <<CRLF>>, from)
    OBVIOUS
  <2>5. c = 0 \/ c \in 1 .. Len(t)
    BY <2>3, <2>4, FindOne
  <2>6. to \in 1 .. Len(t) + 1
    BY <2>1, <2>4, <2>5 DEF OrEnd
  <2>7. PICK l \in Int : l = to - 1 /\ l <= Len(t)
    BY <2>6
  <2>8. SubSeq(t, from, l) \in Seq(T)
    BY <2>3, <2>7
  <2> QED
    BY <2>2, <2>7, <2>8
<1> QED
  BY <1>3, <1>4

LEMMA OccurrencesArePositions ==
    ASSUME NEW T, NEW t \in Seq(T), NEW S, NEW boundary \in Seq(S)
    PROVE  Occurrences(t, Delim(boundary)) \subseteq 1 .. Len(t)
<1>1. PICK n, d : n = Len(Delim(boundary)) /\ d = Delim(boundary)
  OBVIOUS
<1>2. PICK U : U = S \cup {"--"}
  OBVIOUS
<1>3. <<"--">> \in Seq(U) /\ boundary \in Seq(U)
  BY <1>2
<1>4. n \in Nat /\ n >= 1
  <2>1. Len(<<"--">> \o boundary) = 1 + Len(boundary)
    BY <1>3, ConcatProperties
  <2> QED
    BY <1>1, <2>1 DEF Delim
<1>5. Occurrences(t, d) = {i \in 1 .. Len(t) - n + 1 : SubSeq(t, i, i + n - 1) = d}
  BY <1>1 DEF Occurrences
<1>6. 1 .. Len(t) - n + 1 \subseteq 1 .. Len(t)
  BY <1>4
<1> QED
  BY <1>1, <1>5, <1>6

\* The parser finds the part that is shown: before the first mark no other part starts after it.
LEMMA PartIsShown ==
    ASSUME NEW T, NEW t \in Seq(T), NEW delim, Occurrences(t, delim) \subseteq 1 .. Len(t),
           HeadEnd(t) \in Nat, PartsAreApart(t, delim), PartOf(t, delim, HeadEnd(t) + 2) # 0
    PROVE  /\ PartOf(t, delim, HeadEnd(t) + 2) = Shown(t, delim)
           /\ Shown(t, delim) \in PartsOf(t, delim)
<1>1. PICK mime \in Nat \ {0} : mime = HeadEnd(t) + 2
  OBVIOUS
<1>2. PICK parts : parts = PartsOf(t, delim)
  OBVIOUS
<1>3. parts = {i \in Occurrences(t, delim) : i >= mime} /\ parts \subseteq 1 .. Len(t)
  BY <1>1, <1>2 DEF PartsOf
<1>4. PICK mark : mark = Find(t, <<Wiimail>>, mime)
  OBVIOUS
<1>5. \/ mark = 0 /\ \A i \in 1 .. Len(t) : i >= mime => t[i] # Wiimail
      \/ /\ mark \in 1 .. Len(t) /\ mark >= mime /\ t[mark] = Wiimail
         /\ \A i \in 1 .. Len(t) : i >= mime /\ t[i] = Wiimail => mark <= i
  BY <1>4, FindOne
<1>6. PICK marked : marked = {i \in parts : \E k \in i .. BlankAfter(t, i) : t[k] = Wiimail}
  OBVIOUS
<1>7. Shown(t, delim) = Min(IF marked = {} THEN parts ELSE marked)
  BY <1>2, <1>6 DEF Shown
<1>8. ASSUME NEW i \in parts PROVE BlankAfter(t, i) \in 0 .. Len(t)
  <2>1. i \in Nat \ {0}
    BY <1>3
  <2> QED
    BY <2>1, FindTwo DEF BlankAfter
<1>9. ASSUME NEW i \in parts, NEW k \in i .. BlankAfter(t, i)
      PROVE  k \in 1 .. Len(t) /\ k >= mime
  <2>1. BlankAfter(t, i) \in 0 .. Len(t) /\ i \in 1 .. Len(t) /\ i >= mime
    BY <1>3, <1>8
  <2> QED
    BY <1>1, <2>1
<1>10. \A i, j \in parts : ~(i < j /\ j <= BlankAfter(t, i) + 1)
  BY <1>2 DEF PartsAreApart
<1>11. PartOf(t, delim, mime) = IF mark # 0 THEN RFind(t, delim, mark) ELSE Find(t, delim, mime)
  BY <1>4 DEF PartOf
<1>12. CASE mark = 0
  <2>1. marked = {}
    <3>1. ASSUME NEW i \in parts, NEW k \in i .. BlankAfter(t, i) PROVE t[k] # Wiimail
      BY <1>5, <1>9, <1>12
    <3> QED
      BY <1>6, <3>1
  <2>2. Find(t, delim, mime) = IF parts = {} THEN 0 ELSE Min(parts)
    BY <1>3 DEF Find
  <2>3. PartOf(t, delim, mime) = Min(parts) /\ parts # {}
    BY <1>1, <1>11, <1>12, <2>2
  <2>4. Min(parts) \in parts
    <3>1. Len(t) \in Nat
      OBVIOUS
    <3>2. PICK i \in parts : \A j \in parts : i <= j
      BY <1>3, <2>3, <3>1, LeastPosition
    <3>3. parts \subseteq Int
      BY <1>3
    <3> QED
      BY <3>2, <3>3, LeastIsMin
  <2> QED
    BY <1>1, <1>2, <1>7, <2>1, <2>3, <2>4
<1>13. CASE mark # 0
  <2>1. mark \in 1 .. Len(t) /\ mark >= mime /\ t[mark] = Wiimail
    BY <1>5, <1>13
  <2>2. PICK i \in parts : mark \in i .. BlankAfter(t, i)
    <3>1. mark \in HeadEnd(t) + 2 .. Len(t)
      BY <1>1, <2>1
    <3> QED
      BY <1>2, <2>1, <3>1 DEF PartsAreApart
  <2>3. i \in 1 .. Len(t) /\ i >= mime /\ i <= mark /\ mark <= BlankAfter(t, i)
        /\ BlankAfter(t, i) \in 0 .. Len(t)
    BY <1>3, <1>8, <2>2
  <2>4. PICK found : found = {j \in Occurrences(t, delim) : j <= mark}
    OBVIOUS
  <2>5. i \in found /\ found \subseteq Int
    BY <1>3, <2>3, <2>4
  <2>6. ASSUME NEW j \in found PROVE j <= i
    <3>1. j \in 1 .. Len(t) /\ j <= mark /\ j \in Occurrences(t, delim)
      BY <2>4
    <3>2. CASE j > i
      <4>1. j \in parts
        BY <1>1, <1>3, <2>3, <3>1, <3>2
      <4>2. i < j /\ j <= BlankAfter(t, i) + 1
        <5>1. PICK blank \in Int : blank = BlankAfter(t, i)
          BY <2>3
        <5>2. mark <= blank /\ mark \in Int /\ j \in Int /\ j <= mark
          BY <2>1, <2>3, <3>1, <5>1
        <5>3. j <= blank + 1
          BY <5>1, <5>2
        <5> QED
          BY <3>2, <5>1, <5>3
      <4> QED
        BY <1>10, <4>1, <4>2
    <3> QED
      BY <2>3, <3>1, <3>2
  <2>7. Max(found) = i
    BY <2>5, <2>6, GreatestIsMax
  <2>8. RFind(t, delim, mark) = i
    BY <2>4, <2>5, <2>7 DEF RFind
  <2>9. i \in marked /\ marked \subseteq Int
    BY <1>3, <1>6, <2>1, <2>2
  <2>10. ASSUME NEW j \in marked PROVE i <= j
    <3>1. j \in parts /\ j \in 1 .. Len(t)
      BY <1>3, <1>6
    <3>2. PICK k \in j .. BlankAfter(t, j) : t[k] = Wiimail
      BY <1>6
    <3>3. mark <= k
      BY <1>5, <1>9, <1>13, <3>1, <3>2
    <3>4. BlankAfter(t, j) \in 0 .. Len(t)
      BY <1>8, <3>1
    <3>5. i <= BlankAfter(t, j) + 1
      <4>1. PICK blank \in Int : blank = BlankAfter(t, j)
        BY <3>4
      <4>2. k \in Int /\ k <= blank /\ mark \in Int /\ i \in Int /\ i <= mark
        BY <2>1, <2>3, <3>1, <3>2, <4>1
      <4>3. i <= blank + 1
        BY <3>3, <4>1, <4>2
      <4> QED
        BY <4>1, <4>3
    <3>6. ~(j < i)
      BY <1>10, <3>1, <3>5
    <3> QED
      BY <2>3, <3>1, <3>6
  <2>11. Min(marked) = i /\ marked # {}
    BY <2>9, <2>10, LeastIsMin
  <2> QED
    BY <1>1, <1>2, <1>7, <1>11, <1>13, <2>8, <2>11
<1> QED
  BY <1>12, <1>13

\* And its body is what the parser takes for the body.
LEMMA BodyIsFound ==
    ASSUME NEW T, NEW t \in Seq(T), AnalyseMessage(t) # None,
           Boundary(t, HeadEnd(t) + 2) # <<>> =>
               PartsAreApart(t, Delim(Boundary(t, HeadEnd(t) + 2)))
    PROVE  AnalyseMessage(t).body = BodyOf(t)
<1>1. PICK head : head = HeadEnd(t)
  OBVIOUS
<1>2. head # 0
  BY <1>1 DEF AnalyseMessage, HeadEnd
<1>3. head \in Nat
  <2>1. 1 \in Nat \ {0}
    OBVIOUS
  <2>2. head = 0 \/ head \in 1 .. Len(t)
    BY <1>1, <2>1, FindTwo DEF HeadEnd
  <2> QED
    BY <2>2
<1>4. PICK mime \in Nat : mime = head + 2
  BY <1>3
<1>5. PICK boundary : boundary = Boundary(t, mime)
  OBVIOUS
<1>6. CASE boundary = <<>>
  <2>1. AnalyseMessage(t) = Unmarked(t, mime)
    BY <1>1, <1>2, <1>4, <1>5, <1>6 DEF AnalyseMessage, HeadEnd
  <2>2. BodyOf(t) = Span(mime, Len(t) + 1)
    BY <1>1, <1>4, <1>5, <1>6 DEF BodyOf
  <2> QED
    BY <2>1, <2>2 DEF Unmarked
<1>7. CASE boundary # <<>>
  <2>1. PICK delim : delim = Delim(boundary)
    OBVIOUS
  <2>2. AnalyseMessage(t) = Multipart(t, mime, delim)
    BY <1>1, <1>2, <1>4, <1>5, <1>7, <2>1 DEF AnalyseMessage, HeadEnd
  <2>3. PICK part, end : part = PartOf(t, delim, mime) /\ end = Find(t, <<CRLF, CRLF>>, part)
    OBVIOUS
  <2>4. part # 0 /\ end # 0
    BY <2>2, <2>3 DEF Multipart
  <2>5. AnalyseMessage(t).body = Span(end + 2, OrEnd(t, Find(t, delim, end + 2)))
    BY <2>2, <2>3, <2>4 DEF Multipart
  <2>6. Occurrences(t, delim) \subseteq 1 .. Len(t)
    <3>1. boundary \in Seq(T)
      BY <1>5, BoundaryIsText
    <3> QED
      BY <2>1, <3>1, OccurrencesArePositions
  <2>7. PartsAreApart(t, delim)
    BY <1>1, <1>4, <1>5, <1>7, <2>1
  <2>8. part = Shown(t, delim) /\ part \in PartsOf(t, delim)
    BY <1>1, <1>3, <1>4, <2>3, <2>4, <2>6, <2>7, PartIsShown
  <2>9. end = BlankAfter(t, part)
    BY <2>3 DEF BlankAfter
  <2>10. PICK later : later = {i \in PartsOf(t, delim) : i > part}
    OBVIOUS
  <2>11. BodyOf(t) = Span(end + 2, IF later = {} THEN Len(t) + 1 ELSE Min(later))
    BY <1>1, <1>4, <1>5, <1>7, <2>1, <2>8, <2>9, <2>10 DEF BodyOf
  <2>12. part \in 1 .. Len(t) /\ part >= mime
    BY <1>1, <1>4, <2>6, <2>8 DEF PartsOf
  <2>13. end \in 1 .. Len(t) /\ end >= part
    <3>1. part \in Nat \ {0}
      BY <2>12
    <3> QED
      BY <2>3, <2>4, <3>1, FindTwo
  <2>14. later = {i \in Occurrences(t, delim) : i >= end + 2}
    <3>1. ASSUME NEW i \in later PROVE i \in Occurrences(t, delim) /\ i >= end + 2
      <4>1. i \in PartsOf(t, delim) /\ i > part /\ i \in Occurrences(t, delim)
        BY <2>10 DEF PartsOf
      <4>2. ~(i <= end + 1)
        BY <2>7, <2>8, <2>9, <4>1 DEF PartsAreApart
      <4>3. i \in Int
        BY <2>6, <4>1
      <4> QED
        BY <2>13, <4>1, <4>2, <4>3
    <3>2. ASSUME NEW i \in Occurrences(t, delim), i >= end + 2 PROVE i \in later
      <4>1. i \in Int
        BY <2>6
      <4>2. i >= mime /\ i > part
        BY <2>12, <2>13, <3>2, <4>1
      <4>3. i \in PartsOf(t, delim)
        BY <1>1, <1>4, <4>2 DEF PartsOf
      <4> QED
        BY <2>10, <4>2, <4>3
    <3> QED
      BY <3>1, <3>2
  <2>15. Find(t, delim, end + 2) = IF later = {} THEN 0 ELSE Min(later)
    BY <2>14 DEF Find
  <2>16. OrEnd(t, Find(t, delim, end + 2)) = IF later = {} THEN Len(t) + 1 ELSE Min(later)
    <3>1. CASE later = {}
      BY <2>15, <3>1 DEF OrEnd
    <3>2. CASE later # {}
      <4>1. later \subseteq 1 .. Len(t) /\ Len(t) \in Nat
        BY <2>6, <2>14
      <4>2. PICK i \in later : \A j \in later : i <= j
        BY <3>2, <4>1, LeastPosition
      <4>3. Min(later) = i
        BY <4>1, <4>2, LeastIsMin
      <4>4. Min(later) # 0
        BY <4>1, <4>3
      <4> QED
        BY <2>15, <3>2, <4>4 DEF OrEnd
    <3> QED
      BY <3>1, <3>2
  <2> QED
    BY <2>5, <2>11, <2>16
<1> QED
  BY <1>6, <1>7

\* DeliverRaw (mail.cpp) has the message board show the body of the marked part, or of the first,
\* and all of it, unless something outside the parts' headers looks like a part or its mark.
THEOREM ShownBodyIsThePart ==
    ASSUME PartsAreClear
    PROVE  MessageSpec => []BodyIsThePart
<1>1. MessageSpec => []EntryIsOfText
  BY EntriesAreOfText
<1>2. EntryIsOfText => BodyIsThePart
  <2> SUFFICES ASSUME EntryIsOfText, entry # None
               PROVE  /\ entry.message_offset = Offset(text, BodyOf(text))
                      /\ entry.message_length = Length(text, BodyOf(text))
    BY DEF BodyIsThePart
  <2>1. /\ AnalyseMessage(text) # None /\ entry = EntryOf(text, AnalyseMessage(text))
        /\ text \in Fetched \cup {BuildMessage(m) : m \in Written}
    BY DEF EntryIsOfText
  <2>2. AnalyseMessage(text).body = BodyOf(text)
    BY <2>1, BodyIsFound DEF PartsAreClear
  <2> QED
    BY <2>1, <2>2 DEF EntryOf
<1> QED
  BY <1>1, <1>2, PTL
=============================================================================
