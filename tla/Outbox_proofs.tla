---------------------------- MODULE Outbox_proofs ----------------------------
(***************************************************************************)
(* Proofs about Outbox for any messages, any number of slots and any limit *)
(* of the server's: types whatever fails, and, under the faults the        *)
(* journal masks, recoverable boxes and the promise that no message is     *)
(* forgotten before the server has it.                                     *)
(***************************************************************************)
EXTENDS Outbox, MailStore_proofs

-----------------------------------------------------------------------------
(***************************************************************************)
(* Types, whatever fails.                                                  *)
(***************************************************************************)

\* A mailbox with none but messages that were written on the console. That the server
\* takes no other is part of TypeOK, so it takes this to prove it.
ComposedBoxes == {box \in Mailboxes : \A s \in Slots : box.holds[s] \in composed \cup {NoMessage}}

TypeInv ==
    /\ TypeOK
    /\ BoxTypes
    /\ MailboxesIn(ComposedBoxes)
    /\ \A s \in DOMAIN queued : queued[s] \in composed

\* Nothing has been written, nothing has been sent.
LEMMA TypeInvInit == Init => TypeInv
<1> SUFFICES ASSUME Init PROVE TypeInv
  OBVIOUS
<1>1. MailStoreTypeOK /\ BoxTypes
  BY MailTypesInit DEF Init
<1>2. nand[Mbx] = [holds |-> [s \in Slots |-> NoMessage]]
  BY Marks DEF Init, MailStoreInit, EmptyBox
<1>3. nand[Mbx] \in ComposedBoxes
  BY <1>2 DEF ComposedBoxes, Mailboxes
<1>4. MailboxesIn(ComposedBoxes)
  BY <1>3, Marks DEF Init, MailStoreInit, MailboxesIn, WritePoints
<1>5. pc \in MailPoints
  BY DEF Init, MailStoreInit, MailPoints
<1>6. DOMAIN queued = {}
  BY DEF Init, NothingQueued
<1> QED
  BY <1>1, <1>4, <1>5, <1>6 DEF Init, TypeInv, TypeOK

\* The steps shared with the inbox.
LEMMA MailTypeInv ==
    ASSUME TypeInv, MailStep \/ MailOutside, UNCHANGED sendVars
    PROVE  TypeInv'
<1>1. MailStoreTypeOK' /\ BoxTypes'
  BY MailTypesNext DEF TypeInv, TypeOK
<1>2. pc' \in MailPoints \cup {"clear"}
  BY MailPointsNext DEF TypeInv, TypeOK
<1>3. ComposedBoxes' = ComposedBoxes
  BY DEF ComposedBoxes, sendVars
<1>4. MailboxesIn(ComposedBoxes)'
  <2>1. PICK set : set = ComposedBoxes
    OBVIOUS
  <2>2. MailboxesIn(set)'
    BY <2>1, MailboxesInNext DEF TypeInv, TypeOK
  <2> QED
    BY <1>3, <2>1, <2>2 DEF MailboxesIn
<1> QED
  BY <1>1, <1>2, <1>4 DEF TypeInv, TypeOK, sendVars

\* A box made of the one that was read holds no other messages.
LEMMA WithoutComposed ==
    ASSUME nand[Mbx] \in ComposedBoxes \cup {Torn}, nand[Ctl] \in Indexes \cup {Torn},
           NEW slots \in SUBSET Slots, NEW last \in Slots
    PROVE  BoxWithout(nand, slots, last)[Mbx] \in ComposedBoxes \cup {Torn}
<1>1. CASE nand[Mbx] = Torn
  BY <1>1, Marks DEF BoxWithout
<1>2. CASE nand[Mbx] \in ComposedBoxes
  <2>1. nand[Mbx] \in Mailboxes /\ nand[Mbx] # Torn
    BY <1>2, Marks DEF ComposedBoxes, Version
  <2>2. BoxWithout(nand, slots, last)[Mbx]
          = [holds |-> [s \in Slots |-> IF s \in slots THEN NoMessage ELSE nand[Mbx].holds[s]]]
    BY <2>1, Marks DEF BoxWithout
  <2> QED
    BY <1>2, <2>1, <2>2 DEF ComposedBoxes, Mailboxes
<1> QED
  BY <1>1, <1>2

\* A step of the sending puts no bytes where they do not belong.
LEMMA SendTypes ==
    ASSUME TypeInv, SendStep
    PROVE  TypeInv'
<1>1. composed' = composed /\ ComposedBoxes' = ComposedBoxes
  BY DEF SendStep, NoSend, ReadOutbox, TooManyToSend, Send, SendFails, ClearFromOutbox,
         CannotClear, EndSend, sendVars, ComposedBoxes
<1> USE DEF TypeInv, TypeOK, MailStoreTypeOK, RecoveryTypeOK, StorageTypeOK, BoxTypes,
         MailboxesIn, WritePoints, MailPoints, RecoveryPoints, Goto, storageVars, mailVars,
         sendVars
<1>2. CASE NoSend
  BY <1>1, <1>2 DEF NoSend
<1>3. CASE ReadOutbox
  <2>1. nand[Mbx] \in ComposedBoxes
    BY <1>3, Marks DEF ReadOutbox, Listed, Whole
  <2>2. \A s \in Listed(nand) : s \in Slots /\ nand[Mbx].holds[s] \in composed
    BY <2>1 DEF Listed, ComposedBoxes
  <2> QED
    BY <1>1, <1>3, <2>2, Marks DEF ReadOutbox
<1>4. CASE TooManyToSend
  BY <1>1, <1>4 DEF TooManyToSend
<1>5. CASE Send
  <2>1. sent' \subseteq DOMAIN queued /\ accepted' = accepted \cup {queued[s] : s \in sent'}
    BY <1>5 DEF Send, Takes
  <2> QED
    BY <1>1, <1>5, <2>1 DEF Send
<1>6. CASE SendFails
  <2>1. PICK slots \in SUBSET DOMAIN queued : accepted' = accepted \cup {queued[s] : s \in slots}
    BY <1>6 DEF SendFails, Takes
  <2> QED
    BY <1>1, <1>6, <2>1 DEF SendFails
<1>7. CASE ClearFromOutbox
  <2>1. PICK last \in sent : MailboxFirst(BoxWithout(nand, sent, last))
    BY <1>7 DEF ClearFromOutbox
  <2>2. sent \in SUBSET Slots /\ last \in Slots
    BY <2>1
  <2>3. \A f \in Files : BoxWithout(nand, sent, last)[f] \in Version(f) \cup {Torn}
    BY <2>2, TornBoxWithout
  <2>4. BoxWithout(nand, sent, last)[Mbx] \in ComposedBoxes \cup {Torn}
    BY <2>2, WithoutComposed, Marks DEF Version
  <2>5. /\ buffer' \in Version(Mbx) \cup {Torn}
        /\ buffer' \in ComposedBoxes \cup {Torn}
        /\ newIndex' \in Indexes \cup {Torn}
    BY <2>1, <2>3, <2>4, Marks DEF MailboxFirst, Version
  <2>6. cur' = Mbx /\ written' = FALSE /\ pc' = "openJournal"
    BY <2>1 DEF MailboxFirst
  <2> QED
    BY <1>1, <1>7, <2>5, <2>6, Marks DEF ClearFromOutbox
<1>8. CASE CannotClear \/ EndSend
  BY <1>1, <1>8 DEF CannotClear, EndSend
<1> QED
  BY <1>2, <1>3, <1>4, <1>5, <1>6, <1>7, <1>8 DEF SendStep

\* Whatever the console writes on the message board, or retires, becomes a box of its own.
LEMMA ConsoleTypes ==
    ASSUME TypeInv, NEW box, \A f \in Files : box[f] \in Version(f), DOMAIN box = Files,
           box = [f \in Files |-> box[f]], ConsoleWrites(box),
           composed \subseteq composed', composed' \subseteq Messages,
           accepted' \subseteq composed', late' \subseteq composed', queued' = queued, sent' = sent,
           box[Mbx] \in ComposedBoxes'
    PROVE  TypeInv'
<1>1. \A f \in Files : box[f] \in Content \cup {Torn}
  BY Marks
<1>2. box \in [Files -> Content \cup {Torn}]
  BY <1>1
<1>3. MailStoreTypeOK' /\ BoxTypes'
  BY <1>2, ConsoleWritesTypes DEF TypeInv, TypeOK
<1>4. ComposedBoxes \subseteq ComposedBoxes'
  BY DEF ComposedBoxes
<1>5. MailboxesIn(ComposedBoxes)'
  <2>1. /\ pc' = "off" /\ nand' = box /\ flash' = box /\ backup' = backup
    BY DEF ConsoleWrites
  <2>2. /\ nand'[Mbx] \in ComposedBoxes' /\ flash'[Mbx] \in ComposedBoxes'
        /\ backup'[Mbx] \in ComposedBoxes' \cup {Torn, NoFile}
    BY <1>4, <2>1 DEF TypeInv, MailboxesIn
  <2> QED
    BY <2>1, <2>2 DEF MailboxesIn, WritePoints
<1> QED
  BY <1>3, <1>5 DEF TypeInv, TypeOK, ConsoleWrites, MailPoints, RecoveryPoints

LEMMA WholeBox ==
    ASSUME TypeInv, Whole(nand)
    PROVE  nand[Mbx] \in Mailboxes /\ nand[Mbx] \in ComposedBoxes /\ nand[Ctl] \in Indexes
BY Marks DEF Whole, TypeInv, BoxTypes, Version, MailboxesIn

LEMMA ComposesTypes ==
    ASSUME TypeInv, NEW m \in Messages, NEW s \in Slots, ConsoleComposes(m, s)
    PROVE  TypeInv'
<1> DEFINE box == BoxWith(nand, s, m)
<1>1. /\ Whole(nand) /\ ConsoleWrites(box) /\ composed' = composed \cup {m}
      /\ late' \subseteq late \cup {m} /\ UNCHANGED <<accepted, queued, sent>>
  BY DEF ConsoleComposes
<1>2. nand[Mbx] \in Mailboxes /\ nand[Mbx] \in ComposedBoxes /\ nand[Ctl] \in Indexes
  BY <1>1, WholeBox
<1>3. /\ box[Mbx] \in Mailboxes /\ box[Ctl] \in Indexes
      /\ box[Mbx].holds = [t \in Slots |-> IF t = s THEN m ELSE nand[Mbx].holds[t]]
  BY <1>2, BoxWithMessage
<1>4. box[Mbx] \in ComposedBoxes'
  BY <1>1, <1>2, <1>3 DEF ComposedBoxes
<1>5. \A f \in Files : box[f] \in Version(f)
  BY <1>3, Marks DEF Version
<1>6. DOMAIN box = Files /\ box = [f \in Files |-> box[f]]
  BY DEF BoxWith
<1> HIDE DEF box
<1> QED
  BY <1>1, <1>4, <1>5, <1>6, ConsoleTypes DEF TypeInv, TypeOK

LEMMA ConsoleSendsTypes ==
    ASSUME TypeInv, NEW s \in Slots, ConsoleSends(s)
    PROVE  TypeInv'
<1> DEFINE box == BoxWithout(nand, {s}, s)
<1>1. /\ Whole(nand) /\ nand[Mbx].holds[s] # NoMessage /\ ConsoleWrites(box)
      /\ accepted' = accepted \cup {nand[Mbx].holds[s]}
      /\ UNCHANGED <<composed, queued, sent, late>>
  BY DEF ConsoleSends, Listed
<1>2. nand[Mbx] \in Mailboxes /\ nand[Mbx] \in ComposedBoxes /\ nand[Ctl] \in Indexes
  BY <1>1, WholeBox
<1>3. /\ box[Mbx] \in Mailboxes /\ box[Ctl] \in Indexes
      /\ \A t \in Slots : box[Mbx].holds[t] = IF t = s THEN NoMessage ELSE nand[Mbx].holds[t]
  BY <1>2, BoxWithoutOne
<1>4. box[Mbx] \in ComposedBoxes'
  BY <1>1, <1>2, <1>3 DEF ComposedBoxes
<1>5. \A f \in Files : box[f] \in Version(f)
  BY <1>3, Marks DEF Version
<1>6. DOMAIN box = Files /\ box = [f \in Files |-> box[f]]
  BY DEF BoxWithout
<1>7. accepted' \subseteq composed'
  BY <1>1, <1>2 DEF ComposedBoxes, TypeInv, TypeOK
<1> HIDE DEF box
<1> QED
  BY <1>1, <1>4, <1>5, <1>6, <1>7, ConsoleTypes DEF TypeInv, TypeOK

LEMMA TypeInvNext == TypeInv /\ [Next]_vars => TypeInv'
<1> SUFFICES ASSUME TypeInv, [Next]_vars PROVE TypeInv'
  OBVIOUS
<1>1. CASE (MailStep \/ MailOutside) /\ UNCHANGED sendVars
  BY <1>1, MailTypeInv
<1>2. CASE SendStep
  BY <1>2, SendTypes
<1>3. CASE \E s \in Slots : ConsoleSends(s) \/ \E m \in Messages : ConsoleComposes(m, s)
  BY <1>3, ComposesTypes, ConsoleSendsTypes
<1>4. CASE UNCHANGED vars
  BY <1>4 DEF vars, recoveryVars, storageVars, mailVars, sendVars, TypeInv, TypeOK,
     MailStoreTypeOK, RecoveryTypeOK, StorageTypeOK, BoxTypes, MailboxesIn, ComposedBoxes
<1> QED
  BY <1>1, <1>2, <1>3, <1>4 DEF Next

\* TypeOK; in particular the server takes no messages but those written on the console,
\* and what it says it took is among those that were handed over.
THEOREM OutboxTypeCorrect == Spec => []TypeOK
<1>1. TypeInv => TypeOK
  BY DEF TypeInv
<1> QED
  BY <1>1, TypeInvInit, TypeInvNext, PTL DEF Spec

-----------------------------------------------------------------------------
(***************************************************************************)
(* Boxes that can be recovered, under the faults the journal masks.        *)
(***************************************************************************)

\* The box is only read again, to retire what was sent, when no write is at hand.
LEMMA SendRecoverable ==
    ASSUME TypeInv, Recoverable, SendStep
    PROVE  Recoverable'
<1> USE Marks
     DEF Recoverable, JournalAtPoint, JournalIsBacked, TornIsNamed, RepairsFromBackup,
         BackedUpFirst, CopiedPoints, WritesVersions, WritePoints, Goto, storageVars,
         mailVars, sendVars
<1>1. CASE NoSend \/ ReadOutbox
  BY <1>1 DEF NoSend, ReadOutbox
<1>2. CASE TooManyToSend \/ Send \/ SendFails
  BY <1>2 DEF TooManyToSend, Send, SendFails
<1>3. CASE ClearFromOutbox
  <2>1. PICK last \in sent : MailboxFirst(BoxWithout(nand, sent, last))
    BY <1>3 DEF ClearFromOutbox
  <2>2. sent \in SUBSET Slots /\ last \in Slots
    BY <2>1 DEF TypeInv, TypeOK
  <2>3. nand[Mbx] \in Mailboxes /\ nand[Ctl] \in Indexes
    BY <1>3 DEF ClearFromOutbox, TypeInv, BoxTypes, Version
  <2>4. buffer' \in Version(Mbx) /\ newIndex' \in Indexes
    BY <2>1, <2>2, <2>3, BoxWithoutMessages DEF MailboxFirst, Version
  <2> QED
    BY <1>3, <2>1, <2>4 DEF ClearFromOutbox, MailboxFirst
<1>4. CASE CannotClear \/ EndSend
  BY <1>4 DEF CannotClear, EndSend
<1> HIDE DEF Recoverable
<1> QED
  BY <1>1, <1>2, <1>3, <1>4 DEF SendStep

LEMMA ConsoleRecoverable ==
    ASSUME TypeInv, Recoverable, NEW s \in Slots,
           ConsoleSends(s) \/ \E m \in Messages : ConsoleComposes(m, s)
    PROVE  Recoverable'
<1>1. nand[Mbx] \in Mailboxes /\ nand[Ctl] \in Indexes
  BY WholeBox DEF ConsoleSends, ConsoleComposes, ConsoleWrites
<1>2. CASE ConsoleSends(s)
  <2>1. \A f \in Files : BoxWithout(nand, {s}, s)[f] \in Version(f)
    BY <1>1, BoxWithoutOne, Marks DEF Version
  <2> QED
    BY <1>2, <2>1, ConsoleWritesRecoverable DEF ConsoleSends
<1>3. ASSUME NEW m \in Messages, ConsoleComposes(m, s) PROVE Recoverable'
  <2>1. \A f \in Files : BoxWith(nand, s, m)[f] \in Version(f)
    BY <1>1, BoxWithMessage, Marks DEF Version
  <2> QED
    BY <1>3, <2>1, ConsoleWritesRecoverable DEF ConsoleComposes
<1> QED
  BY <1>2, <1>3

LEMMA OutboxRecoverable ==
    ASSUME FaultsAreMasked, TypeInv, Recoverable, [Next]_vars
    PROVE  Recoverable'
<1>1. CASE (MailStep \/ MailOutside) /\ UNCHANGED sendVars
  BY <1>1, RecoverableNext DEF TypeInv, TypeOK
<1>2. CASE SendStep
  BY <1>2, SendRecoverable
<1>3. CASE \E s \in Slots : ConsoleSends(s) \/ \E m \in Messages : ConsoleComposes(m, s)
  BY <1>3, ConsoleRecoverable
<1>4. CASE UNCHANGED vars
  BY <1>4 DEF vars, recoveryVars, storageVars, mailVars, Recoverable, JournalAtPoint,
     JournalIsBacked, TornIsNamed, RepairsFromBackup, BackedUpFirst, WritesVersions
<1> QED
  BY <1>1, <1>2, <1>3, <1>4 DEF Next

\* TornIsRecoverable: when the sending, or the recovery before it, is cut off at any
\* point, a torn file of the outbox has a whole backup that the journal names.
THEOREM OutboxIsRecoverable ==
    ASSUME FaultsAreMasked
    PROVE  Spec => []TornIsRecoverable
<1>1. Init => TypeInv /\ Recoverable
  BY TypeInvInit, RecoverableInit DEF Init
<1>2. TypeInv /\ Recoverable /\ [Next]_vars => (TypeInv /\ Recoverable)'
  BY TypeInvNext, OutboxRecoverable
<1>3. TypeInv /\ Recoverable => TornIsRecoverable
  BY RecoverableIsSafe DEF TypeInv, TypeOK, TornIsRecoverable
<1> QED
  BY <1>1, <1>2, <1>3, PTL DEF Spec

-----------------------------------------------------------------------------
(***************************************************************************)
(* No message is forgotten before the server has it.                       *)
(***************************************************************************)

\* From reading the box to retiring what was sent, the messages in memory are those in
\* the box: a job that changed it in between would retire others.
QueuedAsRead ==
    pc \in {"save", "saving", "transfer", "clear"} =>
        \A s \in DOMAIN queued : s \in Listed(nand) /\ queued[s] = nand[Mbx].holds[s]

\* What the server says it took, it has, and the box is still as it was backed up.
SentIsAccepted ==
    pc = "clear" => backup = nand /\ \A s \in sent : queued[s] \in accepted

\* Retiring writes the box that was backed up, without messages that the server has.
Retiring ==
    pc \in WritePoints =>
        /\ \E last \in Slots :
              /\ NewMailbox = BoxWithout(backup, sent, last)[Mbx]
              /\ newIndex = BoxWithout(backup, sent, last)[Ctl]
        /\ \A s \in sent : backup[Mbx].holds[s] \in accepted

SendInv == OneChange /\ QueuedAsRead /\ SentIsAccepted /\ Retiring

LEMMA SendInvInit == Init => SendInv
BY Marks DEF Init, MailStoreInit, SendInv, OneChange, QueuedAsRead, SentIsAccepted, Retiring,
             WritePoints

\* What a whole box lists.
LEMMA ListedWhole ==
    ASSUME NEW box, box[Mbx] \in Mailboxes, box[Ctl] \in Indexes
    PROVE  \A s : s \in Listed(box)
                   <=> s \in Slots /\ s \in box[Ctl].used /\ box[Mbx].holds[s] # NoMessage
BY Marks DEF Listed, Whole, Version

LEMMA SettledTypes ==
    ASSUME TypeInv, Recoverable
    PROVE  Settled[Mbx] \in Mailboxes /\ Settled[Ctl] \in Indexes
BY SettledIsWhole, Marks DEF TypeInv, TypeOK, Version

\* What the writes make of the box that was backed up.
BoxIsRetired ==
    /\ backup[Mbx] \in Mailboxes /\ backup[Ctl] \in Indexes
    /\ sent \in SUBSET Slots
    /\ \A s \in sent : backup[Mbx].holds[s] \in accepted
    /\ NewMailbox \in Mailboxes /\ newIndex \in Indexes
    /\ \A s \in Slots : NewMailbox.holds[s] = IF s \in sent THEN NoMessage ELSE backup[Mbx].holds[s]
    /\ \A s : s \in newIndex.used <=> s \in backup[Ctl].used /\ s \notin sent

LEMMA RetiringWrites ==
    ASSUME TypeInv, Recoverable, SendInv, pc \in WritePoints
    PROVE  BoxIsRetired
<1>1. backup[Mbx] \in Mailboxes /\ backup[Ctl] \in Indexes
  BY Marks DEF Recoverable, BackedUpFirst, CopiedPoints, Version
<1>2. sent \in SUBSET Slots
  BY DEF TypeInv, TypeOK
<1>3. PICK last \in Slots : /\ NewMailbox = BoxWithout(backup, sent, last)[Mbx]
                            /\ newIndex = BoxWithout(backup, sent, last)[Ctl]
  BY DEF SendInv, Retiring
<1>4. \A s \in sent : backup[Mbx].holds[s] \in accepted
  BY DEF SendInv, Retiring
<1>5. /\ BoxWithout(backup, sent, last)[Mbx] \in Mailboxes
      /\ BoxWithout(backup, sent, last)[Ctl] \in Indexes
      /\ \A s \in Slots : BoxWithout(backup, sent, last)[Mbx].holds[s]
                         = IF s \in sent THEN NoMessage ELSE backup[Mbx].holds[s]
      /\ \A s : s \in BoxWithout(backup, sent, last)[Ctl].used
                 <=> s \in backup[Ctl].used /\ s \notin sent
  BY <1>1, <1>2, BoxWithoutMessages
<1> QED
  BY <1>1, <1>2, <1>3, <1>4, <1>5 DEF BoxIsRetired

\* Of the two journals of a change only the mailbox's takes messages off the queue, and
\* the server has them.
LEMMA QueueNext ==
    ASSUME FaultsAreMasked, TypeInv, Recoverable, SendInv, MailStep \/ MailOutside
    PROVE  Queue' \subseteq Queue /\ Queue \ Queue' \subseteq accepted
<1>1. CASE Settled' = Settled
  BY <1>1 DEF Queue, Listed, Whole
<1>2. pc = "closeJournal" => BoxIsRetired
  BY RetiringWrites DEF WritePoints
<1>3. \A s : s \in Listed(Settled)
              <=> s \in Slots /\ s \in Settled[Ctl].used /\ Settled[Mbx].holds[s] # NoMessage
  BY SettledTypes, ListedWhole
<1>4. CASE MailboxSettles
  <2>1. pc = "closeJournal" /\ Settled = backup
    BY <1>4 DEF MailboxSettles
  <2>2. Settled'[Mbx] = NewMailbox /\ Settled'[Ctl] = backup[Ctl]
    BY <1>4, <2>1, Marks DEF MailboxSettles, Settled
  <2>3. \A s : s \in Listed(Settled')
                <=> s \in Slots /\ s \in backup[Ctl].used /\ NewMailbox.holds[s] # NoMessage
    BY <1>2, <2>1, <2>2, ListedWhole DEF BoxIsRetired
  <2>4. \A s \in Listed(Settled') :
            s \in Listed(Settled) /\ Settled'[Mbx].holds[s] = Settled[Mbx].holds[s]
    BY <1>2, <1>3, <2>1, <2>2, <2>3 DEF BoxIsRetired
  <2>5. \A s \in Listed(Settled) :
            \/ Settled[Mbx].holds[s] \in accepted
            \/ s \in Listed(Settled') /\ Settled'[Mbx].holds[s] = Settled[Mbx].holds[s]
    BY <1>2, <1>3, <2>1, <2>2, <2>3 DEF BoxIsRetired
  <2> QED
    BY <2>4, <2>5 DEF Queue
<1>5. CASE IndexSettles
  <2>1. pc = "closeJournal" /\ Settled[Mbx] = NewMailbox /\ Settled[Ctl] = backup[Ctl]
    BY <1>5 DEF IndexSettles
  <2>2. Settled'[Mbx] = NewMailbox /\ Settled'[Ctl] = newIndex
    BY <1>5, <2>1, Marks DEF IndexSettles, Settled
  <2>3. \A s : s \in Listed(Settled')
                <=> s \in Slots /\ s \in newIndex.used /\ NewMailbox.holds[s] # NoMessage
    BY <1>2, <2>1, <2>2, ListedWhole DEF BoxIsRetired
  <2>4. \A s : s \in Listed(Settled') <=> s \in Listed(Settled)
    BY <1>2, <1>3, <2>1, <2>3 DEF BoxIsRetired
  <2> QED
    BY <2>1, <2>2, <2>4 DEF Queue
<1> QED
  BY <1>1, <1>4, <1>5, SettledNext DEF TypeInv, TypeOK, SendInv

\* The steps that the sending shares leave what it has in memory as it is.
LEMMA SendMailNext ==
    ASSUME FaultsAreMasked, TypeInv, Recoverable, SendInv, MailStep \/ MailOutside,
           UNCHANGED sendVars
    PROVE  SendInv'
<1>1. OneChange' /\ ChangeStays
  BY SettledNext DEF TypeInv, TypeOK, SendInv
<1>2. accepted' = accepted /\ queued' = queued /\ sent' = sent
  BY DEF sendVars
<1>3. pc' = "clear" => UNCHANGED <<storageVars, pc>>
  BY MailPointsNext DEF MailPoints, RecoveryPoints
<1>4. QueuedAsRead'
  <2>1. pc' \in {"save", "saving", "transfer", "clear"}
          => pc \in {"save", "saving", "transfer", "clear"} /\ nand' = nand
    BY <1>3, BackupPointsNext DEF storageVars
  <2> QED
    BY <1>2, <2>1 DEF SendInv, QueuedAsRead, Listed, Whole
<1>5. SentIsAccepted'
  BY <1>2, <1>3 DEF SendInv, SentIsAccepted, storageVars
<1>6. Retiring'
  <2> SUFFICES ASSUME pc' \in WritePoints
               PROVE  /\ \E last \in Slots :
                            /\ NewMailbox' = BoxWithout(backup', sent', last)[Mbx]
                            /\ newIndex' = BoxWithout(backup', sent', last)[Ctl]
                      /\ \A s \in sent' : backup'[Mbx].holds[s] \in accepted'
    BY DEF Retiring, BoxWithout
  <2> QED
    BY <1>1, <1>2 DEF SendInv, Retiring, ChangeStays
<1> QED
  BY <1>1, <1>4, <1>5, <1>6 DEF SendInv

\* What the server takes is queued, and nothing is retired but what it took.
LEMMA SendStepNext ==
    ASSUME TypeInv, Recoverable, SendInv, SendStep
    PROVE  /\ SendInv'
           /\ Settled' = Settled
           /\ \E taken \in SUBSET Queue : accepted' = accepted \cup taken
<1>1. UNCHANGED storageVars
  BY DEF SendStep, NoSend, ReadOutbox, TooManyToSend, Send, SendFails, ClearFromOutbox,
         CannotClear, EndSend
<1>2. Settled' = Settled
  BY <1>1 DEF Settled, storageVars
<1>3. ASSUME accepted' = accepted
      PROVE  \E taken \in SUBSET Queue : accepted' = accepted \cup taken
  <2> WITNESS {} \in SUBSET Queue
  <2> QED
    BY <1>3
<1>4. ASSUME NEW slots \in SUBSET DOMAIN queued, Takes(slots), pc = "transfer"
      PROVE  \E taken \in SUBSET Queue : accepted' = accepted \cup taken
  <2>1. journal = NoJournal
    BY <1>4 DEF Recoverable, JournalAtPoint
  <2>2. Settled = nand
    BY <2>1, SettledIsNand DEF TypeInv, TypeOK
  <2>3. {queued[s] : s \in slots} \in SUBSET Queue
    BY <1>4, <2>2 DEF SendInv, QueuedAsRead, Queue
  <2> WITNESS {queued[s] : s \in slots} \in SUBSET Queue
  <2> QED
    BY <1>4 DEF Takes
<1> DEFINE Goal == SendInv' /\ \E taken \in SUBSET Queue : accepted' = accepted \cup taken
<1> SUFFICES Goal
  BY <1>2
<1> USE Marks
     DEF SendInv, OneChange, QueuedAsRead, SentIsAccepted, Retiring, NewMailbox, Listed, Whole,
         WritePoints, Goto, storageVars, mailVars, sendVars
<1>5. CASE NoSend \/ TooManyToSend \/ CannotClear \/ EndSend
  BY <1>3, <1>5 DEF NoSend, TooManyToSend, CannotClear, EndSend
<1>6. CASE ReadOutbox
  BY <1>3, <1>6 DEF ReadOutbox
<1>7. CASE Send
  <2>1. sent' \in SUBSET DOMAIN queued /\ pc = "transfer" /\ Takes(sent')
    BY <1>7 DEF Send
  <2>2. backup' = nand' /\ nand' = nand /\ queued' = queued
    BY <1>1, <1>7 DEF Send
  <2>3. SendInv'
    BY <1>7, <2>1, <2>2 DEF Send, Takes
  <2> QED
    BY <1>4, <2>1, <2>3
<1>8. CASE SendFails
  <2>1. PICK slots \in SUBSET DOMAIN queued : Takes(slots)
    BY <1>8 DEF SendFails
  <2>2. SendInv' /\ pc = "transfer"
    BY <1>8 DEF SendFails
  <2> QED
    BY <1>4, <2>1, <2>2
<1>9. CASE ClearFromOutbox
  <2>1. PICK last \in sent : MailboxFirst(BoxWithout(nand, sent, last))
    BY <1>9 DEF ClearFromOutbox
  <2>2. /\ pc = "clear" /\ pc' = "openJournal" /\ cur' = Mbx
        /\ buffer' = BoxWithout(nand, sent, last)[Mbx]
        /\ newIndex' = BoxWithout(nand, sent, last)[Ctl]
        /\ sent' = sent /\ accepted' = accepted
    BY <1>9, <2>1 DEF ClearFromOutbox, MailboxFirst
  <2>3. backup = nand /\ \A s \in sent : backup[Mbx].holds[s] \in accepted
    BY <2>2 DEF TypeInv, TypeOK
  <2>4. last \in Slots
    BY <2>1 DEF TypeInv, TypeOK
  <2>5. SendInv'
    BY <1>1, <2>2, <2>3, <2>4
  <2> QED
    BY <1>3, <2>2, <2>5
<1> HIDE DEF Goal
<1> QED
  BY <1>5, <1>6, <1>7, <1>8, <1>9 DEF SendStep

-----------------------------------------------------------------------------
(***************************************************************************)
(* What a recovery that vWii runs before can bring back or take away: only *)
(* messages that the server has, and those that were written meanwhile.    *)
(***************************************************************************)

Spent(m) == m \in accepted \cup late \cup {NoMessage}

\* The box and what it settles to have the same message in a slot, or it does not matter.
SameSlot(s) ==
    \/ Spent(nand[Mbx].holds[s]) /\ Spent(Settled[Mbx].holds[s])
    \/ /\ nand[Mbx].holds[s] = Settled[Mbx].holds[s]
       /\ s \in nand[Ctl].used /\ s \in Settled[Ctl].used

SpentInv ==
    /\ \A s \in Slots : s \in Settled[Ctl].used \/ Spent(Settled[Mbx].holds[s])
    /\ Whole(nand) => \A s \in Slots : SameSlot(s)
    /\ pc \in WritePoints
          => \A s \in Slots : s \in backup[Ctl].used \/ Spent(backup[Mbx].holds[s])

LEMMA SettledIs ==
    /\ Settled[Mbx] = IF journal = Mbx THEN backup[Mbx] ELSE nand[Mbx]
    /\ Settled[Ctl] = IF journal = Ctl THEN backup[Ctl] ELSE nand[Ctl]
    /\ Settled'[Mbx] = IF journal' = Mbx THEN backup'[Mbx] ELSE nand'[Mbx]
    /\ Settled'[Ctl] = IF journal' = Ctl THEN backup'[Ctl] ELSE nand'[Ctl]
BY Marks DEF Settled

LEMMA SpentInvInit == Init => SpentInv
<1> SUFFICES ASSUME Init PROVE SpentInv
  OBVIOUS
<1>1. journal = NoJournal /\ nand = EmptyBox /\ pc = "idle"
  BY DEF Init, MailStoreInit
<1>2. \A s \in Slots : nand[Mbx].holds[s] = NoMessage /\ Settled[Mbx].holds[s] = NoMessage
  BY <1>1, SettledIs, Marks DEF EmptyBox
<1> QED
  BY <1>1, <1>2 DEF SpentInv, SameSlot, Spent, WritePoints

\* While a change is written, each of the two files is as it was backed up, as it is going
\* to be, or torn.
WritingIsSpent ==
    /\ TypeInv /\ Recoverable /\ SendInv /\ pc \in WritePoints
    /\ \A s \in Slots : s \in backup[Ctl].used \/ Spent(backup[Mbx].holds[s])
    => SpentInv

LEMMA WritingStaysSpent == WritingIsSpent
<1> SUFFICES ASSUME TypeInv, Recoverable, SendInv, pc \in WritePoints,
                    \A s \in Slots : s \in backup[Ctl].used \/ Spent(backup[Mbx].holds[s])
             PROVE  SpentInv
  BY DEF WritingIsSpent
<1>1. BoxIsRetired
  BY RetiringWrites
<1>2. OneChange /\ (cur = Mbx \/ cur = Ctl)
  BY Marks DEF SendInv, TypeInv, TypeOK, MailStoreTypeOK, RecoveryTypeOK
<1>3. /\ pc \in {"write", "writing", "flush", "closeJournal"} => journal = cur
      /\ pc \in {"openJournal", "journalling"} => journal \notin Files
  BY Marks DEF Recoverable, JournalAtPoint
<1>4. /\ nand[Mbx] \in {backup[Mbx], NewMailbox, Torn}
      /\ nand[Ctl] \in {backup[Ctl], newIndex, Torn}
  BY <1>2, Marks DEF OneChange, NewMailbox, WritePoints
<1>5. /\ Settled[Mbx] \in {backup[Mbx], NewMailbox}
      /\ Settled[Ctl] \in {backup[Ctl], newIndex}
  <2>1. Settled[Mbx] # Torn /\ Settled[Ctl] # Torn
    BY SettledTypes, Marks DEF Version
  <2> QED
    BY <1>4, <2>1, SettledIs, Marks
<1>6. ASSUME NEW s \in Slots, NEW mailbox \in {backup[Mbx], NewMailbox},
             NEW index \in {backup[Ctl], newIndex}
      PROVE  \/ Spent(mailbox.holds[s])
             \/ s \notin sent /\ mailbox.holds[s] = backup[Mbx].holds[s] /\ s \in index.used
  BY <1>1 DEF BoxIsRetired, Spent
<1>7. ASSUME NEW s \in Slots, s \in sent, NEW mailbox \in {backup[Mbx], NewMailbox}
      PROVE  Spent(mailbox.holds[s])
  BY <1>1, <1>7 DEF BoxIsRetired, Spent
<1>8. ASSUME Whole(nand), NEW s \in Slots PROVE SameSlot(s)
  <2>1. nand[Mbx] \in {backup[Mbx], NewMailbox} /\ nand[Ctl] \in {backup[Ctl], newIndex}
    BY <1>4, <1>8 DEF Whole
  <2>2. CASE s \in sent
    BY <1>5, <1>7, <2>1, <2>2 DEF SameSlot
  <2>3. CASE s \notin sent
    <3>1. \A mailbox \in {backup[Mbx], NewMailbox} : mailbox.holds[s] = backup[Mbx].holds[s]
      BY <1>1, <2>3 DEF BoxIsRetired
    <3>2. \A index \in {backup[Ctl], newIndex} : s \in index.used <=> s \in backup[Ctl].used
      BY <1>1, <2>3 DEF BoxIsRetired
    <3>3. nand[Mbx].holds[s] = backup[Mbx].holds[s] /\ Settled[Mbx].holds[s] = backup[Mbx].holds[s]
      BY <1>5, <2>1, <3>1
    <3>4. s \in nand[Ctl].used <=> s \in backup[Ctl].used
      BY <2>1, <3>2
    <3>5. s \in Settled[Ctl].used <=> s \in backup[Ctl].used
      BY <1>5, <3>2
    <3> QED
      BY <3>3, <3>4, <3>5 DEF SameSlot
  <2> QED
    BY <2>2, <2>3
<1> QED
  BY <1>5, <1>6, <1>8 DEF SpentInv

\* Once nothing is written any more the box is what it settles to, or else was cut off.
LEMMA BoxNext ==
    ASSUME FaultsAreMasked, TypeInv, Recoverable, MailStep \/ MailOutside,
           pc' \notin WritePoints
    PROVE  \/ nand' = nand /\ (pc \in WritePoints => UNCHANGED <<backup, journal>>)
           \/ nand' = nand /\ pc' = "stored"
           \/ ~Whole(nand') /\ pc \notin WritePoints
           \/ pc' = "repaired" /\ pc \notin WritePoints
<1> DEFINE Goal ==
           \/ nand' = nand /\ (pc \in WritePoints => UNCHANGED <<backup, journal>>)
           \/ nand' = nand /\ pc' = "stored"
           \/ ~Whole(nand') /\ pc \notin WritePoints
           \/ pc' = "repaired" /\ pc \notin WritePoints
<1> SUFFICES Goal
  OBVIOUS
<1> USE Marks
     DEF TypeInv, TypeOK, MailStoreTypeOK, RecoveryTypeOK, StorageTypeOK, WritePoints,
         Goto, BeginWrite, FinishWrite, FlushVolume, mailVars, storageVars, Whole
<1>1. CASE NothingToRecover \/ DiscardJournal \/ CannotRecover \/ LoadRecovery
  BY <1>1 DEF NothingToRecover, DiscardJournal, CannotRecover, LoadRecovery
<1>2. CASE BeginRepair
  BY <1>2 DEF BeginRepair
<1>3. CASE FinishRepair \/ RepairFails \/ ForgetRepaired \/ UnmountRecovery
  BY <1>3 DEF FinishRepair, RepairFails, ForgetRepaired, UnmountRecovery
<1>4. CASE BackUpBox \/ Leave \/ EndJob
  BY <1>4 DEF BackUpBox, StartBackup, FinishBackup, BackupFails, Leave, EndJob
<1>5. CASE WriteBox
  BY <1>5 DEF WriteBox, CreateJournal, JournalFails, FillJournal, StartWrite, CompleteWrite,
       WriteFails, FlushWrite, EndWrite, FaultsAreMasked, CanFail
<1>6. CASE StartJob \/ RequestStop \/ ProcessEnds \/ Boot
  BY <1>6 DEF StartJob, RequestStop, ProcessEnds, Boot
<1>7. CASE PowerLoss
  BY <1>7 DEF PowerLoss, AfterPowerLoss, Recoverable
<1> HIDE DEF Goal
<1> QED
  BY <1>1, <1>2, <1>3, <1>4, <1>5, <1>6, <1>7 DEF MailStep, MailOutside, RecoverIfNeeded, Outside

LEMMA SpentMailNext ==
    ASSUME FaultsAreMasked, TypeInv, Recoverable, SendInv, SpentInv,
           MailStep \/ MailOutside, UNCHANGED sendVars
    PROVE  SpentInv'
<1>1. TypeInv' /\ Recoverable' /\ SendInv'
  BY MailTypeInv, RecoverableNext, SendMailNext DEF TypeInv, TypeOK
<1>2. accepted' = accepted /\ late' = late
  BY DEF sendVars
<1>3. CASE pc' \in WritePoints
  <2>1. pc \in WritePoints /\ backup' = backup
    BY <1>3, SettledNext DEF ChangeStays, TypeInv, TypeOK, SendInv
  <2>2. (\A s \in Slots : s \in backup[Ctl].used \/ Spent(backup[Mbx].holds[s]))'
    BY <1>2, <2>1 DEF SpentInv, Spent
  <2>3. WritingIsSpent'
    BY WritingStaysSpent, PTL
  <2> QED
    BY <1>1, <1>3, <2>2, <2>3 DEF WritingIsSpent
<1>4. ASSUME pc' \notin WritePoints, Settled' = Settled, nand' = nand PROVE SpentInv'
  BY <1>2, <1>4 DEF SpentInv, SameSlot, Spent, Whole
<1>5. ASSUME pc' \notin WritePoints, Settled' = Settled, ~Whole(nand') PROVE SpentInv'
  BY <1>2, <1>5 DEF SpentInv, SameSlot, Spent, Whole
<1>6. ASSUME pc' \notin WritePoints, Settled' = Settled,
             nand'[Mbx] = Settled'[Mbx], nand'[Ctl] = Settled'[Ctl]
      PROVE  SpentInv'
  BY <1>2, <1>6 DEF SpentInv, SameSlot, Spent
<1>7. ASSUME pc' \notin WritePoints, nand' = nand, Whole(nand),
             nand'[Mbx] = Settled'[Mbx], nand'[Ctl] = Settled'[Ctl]
      PROVE  SpentInv'
  <2>1. \A s \in Slots : s \in nand[Ctl].used \/ Spent(nand[Mbx].holds[s])
    BY <1>7 DEF SpentInv, SameSlot
  <2> QED
    BY <1>2, <1>7, <2>1 DEF SpentInv, SameSlot, Spent
<1>8. CASE pc \in WritePoints /\ pc' \notin WritePoints
  <2>1. CASE UNCHANGED <<nand, backup, journal>>
    BY <1>4, <1>8, <2>1 DEF Settled
  <2>2. CASE nand' = nand /\ pc' = "stored"
    <3>1. journal' = NoJournal
      BY <1>1, <2>2 DEF Recoverable, JournalAtPoint
    <3>2. Whole(nand)
      BY <1>1, <2>2, Marks DEF Recoverable, TornIsNamed, Whole
    <3> QED
      BY <1>7, <1>8, <2>2, <3>1, <3>2, SettledIs, Marks
  <2> QED
    BY <1>8, <2>1, <2>2, BoxNext
<1>9. CASE pc \notin WritePoints /\ pc' \notin WritePoints
  <2>1. Settled' = Settled
    BY <1>9, SettledNext DEF MailboxSettles, IndexSettles, WritePoints, TypeInv, TypeOK, SendInv
  <2>2. CASE pc' = "repaired"
    <3>1. journal' = cur' /\ nand'[cur'] = backup'[cur']
      BY <1>1, <2>2 DEF Recoverable, JournalAtPoint, RepairsFromBackup
    <3>2. nand'[Mbx] = Settled'[Mbx] /\ nand'[Ctl] = Settled'[Ctl]
      BY <3>1, SettledIs, Marks
    <3> QED
      BY <1>6, <1>9, <2>1, <3>2
  <2> QED
    BY <1>4, <1>5, <1>9, <2>1, <2>2, BoxNext
<1> QED
  BY <1>3, <1>8, <1>9

LEMMA SpentStepNext ==
    ASSUME TypeInv, Recoverable, SendInv, SpentInv, SendStep
    PROVE  SpentInv'
<1>1. UNCHANGED storageVars /\ late' = late
  BY DEF SendStep, NoSend, ReadOutbox, TooManyToSend, Send, SendFails, ClearFromOutbox,
         CannotClear, EndSend, sendVars
<1>2. Settled' = Settled /\ nand' = nand /\ backup' = backup
  BY <1>1 DEF Settled, storageVars
<1>3. accepted \subseteq accepted'
  BY SendStepNext
<1>4. \A m : Spent(m) => m \in accepted' \cup late' \cup {NoMessage}
  BY <1>1, <1>3 DEF Spent
<1>5. pc' \in WritePoints => pc = "clear"
  BY DEF SendStep, NoSend, ReadOutbox, TooManyToSend, Send, SendFails, ClearFromOutbox,
         CannotClear, EndSend, Goto, WritePoints
<1>6. ASSUME pc = "clear", NEW s \in Slots
      PROVE  s \in backup[Ctl].used \/ Spent(backup[Mbx].holds[s])
  <2>1. Settled = nand /\ backup = nand
    BY <1>6, SettledIsNand DEF Recoverable, JournalAtPoint, TypeInv, TypeOK, SendInv, SentIsAccepted
  <2> QED
    BY <2>1 DEF SpentInv
<1> QED
  BY <1>2, <1>4, <1>5, <1>6 DEF SpentInv, SameSlot, Spent, Whole

-----------------------------------------------------------------------------
(***************************************************************************)
(* What the console does while vWii runs.                                  *)
(***************************************************************************)

\* With no recovery due, the box is what it settles to, before and after.
LEMMA ConsoleBox ==
    ASSUME journal \notin Files, TypeInv, Recoverable, NEW box, ConsoleWrites(box), Whole(nand),
           UNCHANGED <<queued, sent>>
    PROVE  /\ Settled = nand
           /\ Settled'[Mbx] = box[Mbx] /\ Settled'[Ctl] = box[Ctl]
           /\ SendInv'
<1>1. /\ journal \in {NoJournal, Unreadable} /\ journal' = journal /\ pc' = "off" /\ nand' = box
  BY DEF ConsoleWrites, TypeInv, TypeOK, MailStoreTypeOK, RecoveryTypeOK, StorageTypeOK
<1>2. Settled = nand
  BY <1>1, SettledIsNand DEF TypeInv, TypeOK
<1>3. Settled'[Mbx] = box[Mbx] /\ Settled'[Ctl] = box[Ctl]
  BY <1>1, SettledIs, Marks
<1>4. SendInv'
  BY <1>1 DEF SendInv, OneChange, QueuedAsRead, SentIsAccepted, Retiring, WritePoints
<1> QED
  BY <1>2, <1>3, <1>4

\* What the console does to one slot changes one slot of what the box settles to.
OneSlotSettles(s) ==
    /\ \A t \in Slots \ {s} :
          /\ Settled'[Mbx].holds[t] = Settled[Mbx].holds[t]
          /\ t \in Settled'[Ctl].used <=> t \in Settled[Ctl].used
    /\ Settled[Mbx].holds[s] \in accepted' \cup late' \cup {NoMessage}
    /\ Settled'[Mbx].holds[s] \in accepted' \cup late' \cup {NoMessage}

LEMMA ConsoleSlot ==
    ASSUME TypeInv, Recoverable, SpentInv, journal \in Files, Whole(nand),
           NEW s \in Slots, NEW box, ConsoleWrites(box),
           \A t \in Slots \ {s} : /\ box[Mbx].holds[t] = nand[Mbx].holds[t]
                                  /\ t \in box[Ctl].used <=> t \in nand[Ctl].used,
           accepted \subseteq accepted', late \subseteq late',
           box[Mbx].holds[s] \in accepted' \cup late' \cup {NoMessage},
           Settled[Mbx].holds[s] \in accepted' \cup late' \cup {NoMessage},
           UNCHANGED <<queued, sent>>
    PROVE  OneSlotSettles(s) /\ SpentInv' /\ SendInv'
<1>1. nand' = box /\ pc' = "off" /\ UNCHANGED <<backup, journal>>
  BY DEF ConsoleWrites
<1>2. OneSlotSettles(s)
  BY <1>1, SettledIs, Marks DEF OneSlotSettles
<1>3. \A m : Spent(m) => m \in accepted' \cup late' \cup {NoMessage}
  BY DEF Spent
<1>4. ASSUME NEW t \in Slots PROVE (t \in Settled[Ctl].used \/ Spent(Settled[Mbx].holds[t]))'
  BY <1>2, <1>3 DEF SpentInv, OneSlotSettles, Spent
<1>5. ASSUME NEW t \in Slots PROVE SameSlot(t)'
  <2>1. CASE t = s
    BY <1>1, <1>2, <2>1 DEF OneSlotSettles, SameSlot, Spent
  <2>2. CASE t # s
    <3>1. SameSlot(t)
      BY DEF SpentInv
    <3>2. /\ nand'[Mbx].holds[t] = nand[Mbx].holds[t]
          /\ t \in nand'[Ctl].used <=> t \in nand[Ctl].used
          /\ Settled'[Mbx].holds[t] = Settled[Mbx].holds[t]
          /\ t \in Settled'[Ctl].used <=> t \in Settled[Ctl].used
      BY <1>1, <1>2, <2>2 DEF OneSlotSettles
    <3> QED
      BY <1>3, <3>1, <3>2 DEF SameSlot, Spent
  <2> QED
    BY <2>1, <2>2
<1>6. SendInv'
  BY <1>1 DEF SendInv, OneChange, QueuedAsRead, SentIsAccepted, Retiring, WritePoints
<1> QED
  BY <1>1, <1>2, <1>4, <1>5, <1>6 DEF SpentInv, WritePoints

\* With no recovery due, the console's box has nothing it does not list.
LEMMA ConsoleSpent ==
    ASSUME TypeInv, Recoverable, SpentInv, journal \notin Files, Whole(nand),
           NEW s \in Slots, NEW box, ConsoleWrites(box),
           \A t \in Slots \ {s} : /\ box[Mbx].holds[t] = nand[Mbx].holds[t]
                                  /\ t \in box[Ctl].used <=> t \in nand[Ctl].used,
           s \in box[Ctl].used \/ box[Mbx].holds[s] = NoMessage,
           accepted \subseteq accepted', late \subseteq late',
           UNCHANGED <<queued, sent>>
    PROVE  SpentInv'
<1>1. nand' = box /\ pc' = "off"
  BY DEF ConsoleWrites
<1>2. Settled = nand /\ Settled'[Mbx] = box[Mbx] /\ Settled'[Ctl] = box[Ctl]
  BY ConsoleBox
<1>3. \A t \in Slots : t \in box[Ctl].used \/ box[Mbx].holds[t] \in accepted' \cup late' \cup {NoMessage}
  BY <1>2 DEF SpentInv, Spent
<1> QED
  BY <1>1, <1>2, <1>3 DEF SpentInv, SameSlot, Spent, WritePoints

\* What is promised to the console: its messages without those written before a recovery.
Promised == Queue \ late
Taken == accepted \ late

\* A step that queues and forgets nothing but what the server has is one of the promise's.
LEMMA TransferFrom ==
    ASSUME NEW taken \in SUBSET Promised, Taken' = Taken \cup taken,
           Promised \ Promised' \subseteq Taken', Promised' \ Promised \subseteq Taken'
    PROVE  Abstract!Transfer
<1> DEFINE gone == Promised \ Promised'
           back == Promised' \ Promised
<1>1. gone \in SUBSET (Promised \cap Taken') /\ back \in SUBSET Taken'
  OBVIOUS
<1>2. Promised' = (Promised \ gone) \cup back
  OBVIOUS
<1> HIDE DEF gone, back
<1>3. \E g \in SUBSET (Promised \cap Taken'), b \in SUBSET Taken' : Promised' = (Promised \ g) \cup b
  BY <1>1, <1>2
<1>4. \E x \in SUBSET Promised : Taken' = Taken \cup x
  OBVIOUS
<1> QED
  BY <1>3, <1>4 DEF Abstract!Transfer, Promised, Taken

SettledListed ==
    TypeInv /\ Recoverable =>
        \A s : s \in Listed(Settled)
                <=> s \in Slots /\ s \in Settled[Ctl].used /\ Settled[Mbx].holds[s] # NoMessage

LEMMA SettledLists == SettledListed
BY SettledTypes, ListedWhole DEF SettledListed

\* What the console does to a slot the recovery is about to settle.
LEMMA OneSlotPromised ==
    ASSUME TypeInv, Recoverable, TypeInv', Recoverable', NEW s \in Slots, OneSlotSettles(s),
           late \subseteq late', Queue \cap late' \subseteq late
    PROVE  Promised \ Promised' \subseteq Taken' /\ Promised' \ Promised \subseteq Taken'
<1>1. \A t : t \in Listed(Settled)
              <=> t \in Slots /\ t \in Settled[Ctl].used /\ Settled[Mbx].holds[t] # NoMessage
  BY SettledLists DEF SettledListed
<1>2. \A t : t \in Listed(Settled)'
              <=> t \in Slots /\ t \in Settled'[Ctl].used /\ Settled'[Mbx].holds[t] # NoMessage
  <2>1. SettledListed'
    BY SettledLists, PTL
  <2> QED
    BY <2>1 DEF SettledListed
<1>3. ASSUME NEW t \in Listed(Settled), t # s PROVE Settled[Mbx].holds[t] \in Queue'
  BY <1>1, <1>2, <1>3 DEF OneSlotSettles, Queue
<1>4. ASSUME NEW t \in Listed(Settled)', t # s PROVE Settled'[Mbx].holds[t] \in Queue
  BY <1>1, <1>2, <1>4 DEF OneSlotSettles, Queue
<1>5. ASSUME NEW x \in Promised PROVE x \in Promised' \/ x \in Taken'
  <2>1. PICK t \in Listed(Settled) : x = Settled[Mbx].holds[t]
    BY DEF Promised, Queue
  <2>2. x \notin late'
    BY DEF Promised
  <2>3. CASE t = s
    BY <1>1, <2>1, <2>2, <2>3 DEF OneSlotSettles, Taken
  <2> QED
    BY <1>3, <2>1, <2>2, <2>3 DEF Promised
<1>6. ASSUME NEW x \in Promised' PROVE x \in Promised \/ x \in Taken'
  <2>1. PICK t \in Listed(Settled)' : x = Settled'[Mbx].holds[t]
    BY DEF Promised, Queue
  <2>2. x \notin late' /\ x \notin late
    BY DEF Promised
  <2>3. CASE t = s
    BY <1>2, <2>1, <2>2, <2>3 DEF OneSlotSettles, Taken
  <2> QED
    BY <1>4, <2>1, <2>2, <2>3 DEF Promised
<1> QED
  BY <1>5, <1>6

LEMMA QueueIsComposed ==
    ASSUME TypeInv, Recoverable
    PROVE  Queue \subseteq composed
<1>1. Settled[Mbx] \in Mailboxes
  BY SettledTypes
<1>2. Settled[Mbx] \in ComposedBoxes
  <2>1. Settled[Mbx] # Torn
    BY <1>1, Marks DEF Version
  <2>2. Settled[Mbx] # NoFile
    BY <1>1, Marks DEF Version
  <2> QED
    BY <2>1, <2>2, SettledIs DEF TypeInv, MailboxesIn
<1>3. \A s : s \in Listed(Settled) => s \in Slots /\ Settled[Mbx].holds[s] # NoMessage
  BY SettledLists DEF SettledListed
<1> QED
  BY <1>2, <1>3 DEF Queue, ComposedBoxes

\* A message that is composed joins the queue for the first time, or is one of the late ones.
LEMMA ComposesNext ==
    ASSUME FaultsAreMasked, TypeInv, Recoverable, SpentInv, NEW m \in Messages, NEW s \in Slots,
           ConsoleComposes(m, s)
    PROVE  SendInv' /\ SpentInv' /\ (Abstract!Compose \/ Abstract!Transfer)
<1> DEFINE box == BoxWith(nand, s, m)
<1>1. /\ m \notin composed /\ Whole(nand) /\ s \in FreeSlots(nand) /\ ConsoleWrites(box)
      /\ late' = late \cup {x \in {m} : journal \in Files}
      /\ UNCHANGED <<accepted, queued, sent>>
  BY DEF ConsoleComposes
<1>2. nand[Mbx] \in Mailboxes /\ nand[Ctl] \in Indexes
  BY <1>1, WholeBox
<1>3. /\ box[Mbx] \in Mailboxes /\ box[Ctl] \in Indexes
      /\ box[Mbx].holds = [t \in Slots |-> IF t = s THEN m ELSE nand[Mbx].holds[t]]
      /\ box[Ctl].used = nand[Ctl].used \cup {s}
  BY <1>2, BoxWithMessage
<1>4. s \notin nand[Ctl].used /\ m # NoMessage
  BY <1>1, MailStoreAssumption DEF FreeSlots, Whole
<1> HIDE DEF box
<1>5. m \notin Queue \cup accepted \cup late
  BY <1>1, QueueIsComposed DEF TypeInv, TypeOK
<1>6. TypeInv' /\ Recoverable'
  BY ComposesTypes, ConsoleRecoverable
<1>7. CASE journal \notin Files
  <2>1. late' = late
    BY <1>1, <1>7
  <2>2. Settled = nand /\ Settled'[Mbx] = box[Mbx] /\ Settled'[Ctl] = box[Ctl] /\ SendInv'
    BY <1>1, <1>7, ConsoleBox
  <2>3. SpentInv'
    BY <1>1, <1>3, <1>7, <2>1, ConsoleSpent
  <2>4. \A t : t \in Listed(Settled)
                <=> t \in Slots /\ t \in nand[Ctl].used /\ nand[Mbx].holds[t] # NoMessage
    BY <1>2, <2>2, ListedWhole
  <2>5. \A t : t \in Listed(Settled')
                <=> t \in Slots /\ t \in box[Ctl].used /\ box[Mbx].holds[t] # NoMessage
    BY <1>3, <2>2, ListedWhole
  <2>6. \A t : t \in Listed(Settled') <=> t \in Listed(Settled) \/ t = s
    BY <1>3, <1>4, <2>4, <2>5
  <2>7. \A t \in Listed(Settled) : Settled'[Mbx].holds[t] = Settled[Mbx].holds[t]
    BY <1>3, <1>4, <2>2, <2>4
  <2>8. Settled'[Mbx].holds[s] = m
    BY <1>3, <2>2
  <2>9. Queue' = Queue \cup {m}
    BY <2>6, <2>7, <2>8 DEF Queue
  <2>10. Abstract!Compose
    <3>1. m \in Messages \ (Promised \cup Taken)
      BY <1>5 DEF Promised, Taken
    <3>2. Promised' = Promised \cup {m} /\ Taken' = Taken
      BY <1>1, <1>5, <2>1, <2>9 DEF Promised, Taken
    <3> QED
      BY <3>1, <3>2 DEF Abstract!Compose, Promised, Taken
  <2> QED
    BY <2>2, <2>3, <2>10
<1>8. CASE journal \in Files
  <2>1. late' = late \cup {m}
    BY <1>1, <1>8
  <2>2. \A t \in Slots \ {s} : /\ box[Mbx].holds[t] = nand[Mbx].holds[t]
                               /\ t \in box[Ctl].used <=> t \in nand[Ctl].used
    BY <1>3
  <2>3. box[Mbx].holds[s] \in late'
    BY <1>3, <2>1
  <2>4. Settled[Mbx].holds[s] \in accepted' \cup late' \cup {NoMessage}
    BY <1>1, <1>4, <2>1 DEF SpentInv, SameSlot, Spent
  <2>5. OneSlotSettles(s) /\ SpentInv' /\ SendInv'
    BY <1>1, <1>8, <2>1, <2>2, <2>3, <2>4, ConsoleSlot
  <2>6. Queue \cap late' \subseteq late
    BY <1>5, <2>1
  <2>7. Promised \ Promised' \subseteq Taken' /\ Promised' \ Promised \subseteq Taken'
    BY <1>6, <2>1, <2>5, <2>6, OneSlotPromised
  <2>8. Taken' = Taken \cup {}
    BY <1>1, <1>5, <2>1 DEF Taken
  <2>9. Abstract!Transfer
    BY <2>7, <2>8, TransferFrom
  <2> QED
    BY <2>5, <2>9
<1> QED
  BY <1>7, <1>8

\* The console's own sending retires the message it has sent and no other.
LEMMA ConsoleSendsNext ==
    ASSUME FaultsAreMasked, TypeInv, Recoverable, SpentInv, NEW s \in Slots, ConsoleSends(s)
    PROVE  SendInv' /\ SpentInv' /\ Abstract!Transfer
<1> DEFINE box == BoxWithout(nand, {s}, s)
           sentNow == nand[Mbx].holds[s]
<1>1. /\ Whole(nand) /\ s \in Listed(nand) /\ ConsoleWrites(box)
      /\ accepted' = accepted \cup {sentNow}
      /\ UNCHANGED <<queued, sent, late>>
  BY DEF ConsoleSends, Listed
<1>2. nand[Mbx] \in Mailboxes /\ nand[Ctl] \in Indexes
  BY <1>1, WholeBox
<1>3. /\ box[Mbx] \in Mailboxes /\ box[Ctl] \in Indexes
      /\ \A t \in Slots : box[Mbx].holds[t] = IF t = s THEN NoMessage ELSE nand[Mbx].holds[t]
      /\ \A t : t \in box[Ctl].used <=> t \in nand[Ctl].used /\ t # s
  BY <1>2, BoxWithoutOne
<1>4. sentNow # NoMessage
  BY <1>1 DEF Listed
<1>5. box[Mbx].holds[s] = NoMessage
  BY <1>3
<1>6. \A t \in Slots \ {s} : /\ box[Mbx].holds[t] = nand[Mbx].holds[t]
                             /\ t \in box[Ctl].used <=> t \in nand[Ctl].used
  BY <1>3
<1> HIDE DEF box, sentNow
<1>7. TypeInv' /\ Recoverable'
  BY ConsoleSendsTypes, ConsoleRecoverable
<1>8. SameSlot(s)
  BY <1>1 DEF SpentInv
<1>9. \/ sentNow \in accepted \cup late
      \/ sentNow \in Queue /\ Settled[Mbx].holds[s] = sentNow
  <2>1. CASE Spent(nand[Mbx].holds[s])
    BY <1>4, <2>1 DEF Spent, sentNow
  <2>2. CASE /\ nand[Mbx].holds[s] = Settled[Mbx].holds[s]
             /\ s \in nand[Ctl].used /\ s \in Settled[Ctl].used
    <3>1. s \in Listed(Settled)
      BY <1>4, <2>2, SettledLists DEF SettledListed, sentNow
    <3> QED
      BY <2>2, <3>1 DEF Queue, sentNow
  <2> QED
    BY <1>8, <2>1, <2>2 DEF SameSlot
<1> DEFINE taken == Promised \cap {sentNow}
<1>10. taken \in SUBSET Promised /\ Taken' = Taken \cup taken
  BY <1>1, <1>9 DEF Promised, Taken
<1> HIDE DEF taken
<1>11. CASE journal \notin Files
  <2>1. Settled = nand /\ Settled'[Mbx] = box[Mbx] /\ Settled'[Ctl] = box[Ctl] /\ SendInv'
    BY <1>1, <1>11, ConsoleBox
  <2>2. SpentInv'
    BY <1>1, <1>5, <1>6, <1>11, ConsoleSpent
  <2>3. \A t : t \in Listed(Settled)
                <=> t \in Slots /\ t \in nand[Ctl].used /\ nand[Mbx].holds[t] # NoMessage
    BY <1>2, <2>1, ListedWhole
  <2>4. \A t : t \in Listed(Settled')
                <=> t \in Slots /\ t \in box[Ctl].used /\ box[Mbx].holds[t] # NoMessage
    BY <1>3, <2>1, ListedWhole
  <2>5. \A t : t \in Listed(Settled') <=> t \in Listed(Settled) /\ t # s
    BY <1>3, <2>3, <2>4
  <2>6. \A t \in Listed(Settled') : Settled'[Mbx].holds[t] = Settled[Mbx].holds[t]
    BY <1>3, <2>1, <2>4, <2>5
  <2>7. Queue' \subseteq Queue /\ Queue \ Queue' \subseteq {sentNow}
    BY <2>1, <2>5, <2>6 DEF Queue, sentNow
  <2>8. Promised \ Promised' \subseteq Taken' /\ Promised' \ Promised \subseteq Taken'
    BY <1>1, <2>7 DEF Promised, Taken
  <2> QED
    BY <1>10, <2>1, <2>2, <2>8, TransferFrom
<1>12. CASE journal \in Files
  <2>1. Settled[Mbx].holds[s] \in accepted' \cup late' \cup {NoMessage}
    BY <1>1, <1>8 DEF SameSlot, Spent, sentNow
  <2>2. OneSlotSettles(s) /\ SpentInv' /\ SendInv'
    BY <1>1, <1>5, <1>6, <1>12, <2>1, ConsoleSlot
  <2>3. Promised \ Promised' \subseteq Taken' /\ Promised' \ Promised \subseteq Taken'
    BY <1>1, <1>7, <2>2, OneSlotPromised
  <2> QED
    BY <1>10, <2>2, <2>3, TransferFrom
<1> QED
  BY <1>11, <1>12

OutboxInv == TypeInv /\ Recoverable /\ SendInv /\ SpentInv

LEMMA OutboxInvNext ==
    ASSUME FaultsAreMasked, OutboxInv, [Next]_vars
    PROVE  OutboxInv'
<1>1. TypeInv' /\ Recoverable'
  BY TypeInvNext, OutboxRecoverable DEF OutboxInv
<1>2. CASE (MailStep \/ MailOutside) /\ UNCHANGED sendVars
  BY <1>1, <1>2, SendMailNext, SpentMailNext DEF OutboxInv
<1>3. CASE SendStep
  BY <1>1, <1>3, SendStepNext, SpentStepNext DEF OutboxInv
<1>4. CASE \E s \in Slots : ConsoleSends(s) \/ \E m \in Messages : ConsoleComposes(m, s)
  BY <1>1, <1>4, ComposesNext, ConsoleSendsNext DEF OutboxInv
<1>5. CASE UNCHANGED vars
  <2> USE DEF OutboxInv, vars, recoveryVars, storageVars, mailVars, sendVars, WritePoints
  <2>1. OneChange'
    BY <1>5 DEF SendInv, OneChange
  <2>2. QueuedAsRead' /\ SentIsAccepted'
    BY <1>5 DEF SendInv, QueuedAsRead, SentIsAccepted, Listed, Whole
  <2>3. Retiring'
    BY <1>5 DEF SendInv, Retiring, NewMailbox, BoxWithout
  <2>4. SpentInv'
    BY <1>5 DEF SpentInv, SameSlot, Spent, Settled, Whole
  <2> QED
    BY <1>1, <2>1, <2>2, <2>3, <2>4 DEF SendInv
<1> QED
  BY <1>2, <1>3, <1>4, <1>5 DEF Next

\* The inductive invariant: boxes that can be recovered, a job whose memory is what the
\* box holds, and nothing in the box but what a recovery leaves, the spent messages aside.
THEOREM OutboxInvHolds ==
    ASSUME FaultsAreMasked
    PROVE  Spec => []OutboxInv
<1>1. Init => OutboxInv
  BY TypeInvInit, RecoverableInit, SendInvInit, SpentInvInit DEF Init, OutboxInv
<1>2. OutboxInv /\ [Next]_vars => OutboxInv'
  BY OutboxInvNext
<1> QED
  BY <1>1, <1>2, PTL DEF Spec

-----------------------------------------------------------------------------
(***************************************************************************)
(* The refinement of AtomicOutbox.                                         *)
(***************************************************************************)

\* NothingUnsentIsForgotten: whatever is cut off, rejected or rolled back, and whether or
\* not vWii runs before the recovery, a message is queued, at the latest once that recovery
\* is over, until the server has it; but for one written while the recovery was due.
THEOREM UnsentStaysQueued ==
    ASSUME FaultsAreMasked
    PROVE  Spec => NothingUnsentIsForgotten
<1>1. Init => Abstract!Init
  <2> SUFFICES ASSUME Init PROVE Abstract!Init
    OBVIOUS
  <2>1. Settled[Ctl].used = {}
    BY Marks DEF Init, MailStoreInit, Settled, EmptyBox
  <2>2. Queue = {}
    BY <2>1 DEF Queue, Listed
  <2> QED
    BY <2>2 DEF Init, Abstract!Init
<1>2. ASSUME OutboxInv, [Next]_vars PROVE [Abstract!Next]_(Abstract!vars)
  <2>1. CASE (MailStep \/ MailOutside) /\ UNCHANGED sendVars
    <3>1. Queue' \subseteq Queue /\ Queue \ Queue' \subseteq accepted
      BY <1>2, <2>1, QueueNext DEF OutboxInv
    <3>2. accepted' = accepted /\ late' = late
      BY <2>1 DEF sendVars
    <3>3. Taken' = Taken \cup {}
      BY <3>2 DEF Taken
    <3>4. Promised \ Promised' \subseteq Taken' /\ Promised' \ Promised \subseteq Taken'
      BY <3>1, <3>2 DEF Promised, Taken
    <3> QED
      BY <3>3, <3>4, TransferFrom DEF Abstract!Next
  <2>2. CASE SendStep
    <3>1. Settled' = Settled
      BY <1>2, <2>2, SendStepNext DEF OutboxInv
    <3>2. Queue' = Queue
      BY <3>1 DEF Queue, Listed, Whole
    <3>3. late' = late
      BY <2>2 DEF SendStep, NoSend, ReadOutbox, TooManyToSend, Send, SendFails, ClearFromOutbox,
             CannotClear, EndSend, sendVars
    <3>4. PICK taken \in SUBSET Queue : accepted' = accepted \cup taken
      BY <1>2, <2>2, SendStepNext DEF OutboxInv
    <3>5. Taken' = Taken \cup (taken \ late) /\ taken \ late \in SUBSET Promised
      BY <3>3, <3>4 DEF Taken, Promised
    <3>6. Promised' = Promised
      BY <3>2, <3>3 DEF Promised
    <3> QED
      BY <3>5, <3>6, TransferFrom DEF Abstract!Next
  <2>3. CASE \E s \in Slots : ConsoleSends(s) \/ \E m \in Messages : ConsoleComposes(m, s)
    BY <1>2, <2>3, ComposesNext, ConsoleSendsNext DEF OutboxInv, Abstract!Next
  <2>4. CASE UNCHANGED vars
    BY <2>4 DEF vars, recoveryVars, storageVars, sendVars, Settled, Queue, Listed, Whole, Abstract!vars
  <2> QED
    BY <1>2, <2>1, <2>2, <2>3, <2>4 DEF Next
<1> QED
  BY <1>1, <1>2, OutboxInvHolds, PTL DEF Spec, NothingUnsentIsForgotten, Abstract!Spec
=============================================================================
