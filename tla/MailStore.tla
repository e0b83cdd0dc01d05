----------------------------- MODULE MailStore -----------------------------
(***************************************************************************)
(* A mail box on the vWii NAND and what RunFetchMail and RunSendMail have  *)
(* in common (main.cpp, mail.cpp): the box is a pair of files, a mailbox   *)
(* of message bodies and an index of fixed slots. Both are backed up once, *)
(* and a change to the box is two journalled writes, mailbox first.        *)
(*                                                                         *)
(* The header's next_entry_id and next_entry_offset move in step, so a     *)
(* message's file name is its slot; number_of_mail is the number of slots  *)
(* in use.                                                                 *)
(***************************************************************************)
EXTENDS Recovery, Naturals

CONSTANTS
    Mbx, Ctl,    \* the two files
    Capacity,    \* MailEntryCount: 255 slots for received mail, 127 for sent
    Messages,
    NoMessage,   \* no file of that name in the mailbox
    VWiiFirst    \* vWii may be started while a recovery is due

Slots == 0 .. Capacity - 1
Mailboxes == [holds : [Slots -> Messages \cup {NoMessage}]]
Indexes == [used : SUBSET Slots, next : 0 .. Capacity]

ASSUME MailStoreAssumption ==
    /\ Mbx # Ctl
    /\ Files = {Mbx, Ctl}
    /\ Capacity \in Nat
    /\ NoMessage \notin Messages
    /\ VWiiFirst \in BOOLEAN
    /\ Content = Mailboxes \cup Indexes

VARIABLES
    newIndex,   \* the index to be written once the mailbox is
    written     \* the write at hand succeeded

mailVars == <<newIndex, written>>

MailPoints ==
    RecoveryPoints \cup
    {"idle", "off", "gate", "save", "saving", "transfer", "openJournal", "journalling",
     "write", "writing", "flush", "closeJournal", "stored", "leave", "done"}

MailStoreTypeOK ==
    /\ RecoveryTypeOK
    /\ newIndex \in Indexes \cup {Torn}
    /\ written \in BOOLEAN

EmptyBox ==
    [f \in Files |-> IF f = Mbx THEN [holds |-> [s \in Slots |-> NoMessage]]
                                ELSE [used |-> {}, next |-> 0]]

\* A new console's empty box.
MailStoreInit ==
    /\ nand = EmptyBox
    /\ flash = nand
    /\ backup = [f \in Files |-> NoFile]
    /\ journal = NoJournal
    /\ pc = "idle"
    /\ stop = FALSE
    /\ cur = Ctl
    /\ buffer = nand[Ctl]
    /\ newIndex = nand[Ctl]
    /\ written = FALSE

Whole(box) == box[Mbx] # Torn /\ box[Ctl] # Torn

\* The slots that the index says are in use and the mailbox has a message for, none
\* if one of the two files cannot be made sense of.
Listed(box) ==
    {s \in Slots : Whole(box) /\ s \in box[Ctl].used /\ box[Mbx].holds[s] # NoMessage}

-----------------------------------------------------------------------------
(***************************************************************************)
(* The backups, index first.                                               *)
(***************************************************************************)

StartBackup ==
    /\ pc = "save"
    /\ buffer' = nand[cur]
    /\ BeginSave(cur)
    /\ Goto("saving")
    /\ UNCHANGED <<nand, flash, journal, stop, cur, mailVars>>

FinishBackup ==
    /\ pc = "saving"
    /\ FinishSave(cur, buffer)
    /\ cur' = Mbx
    /\ Goto(IF cur = Ctl THEN "save" ELSE "transfer")
    /\ UNCHANGED <<nand, flash, journal, stop, buffer, mailVars>>

\* "could not back up": neither the server nor the box is touched.
BackupFails ==
    /\ \/ pc = "save" /\ CanFail("nandRead")
       \/ pc \in {"save", "saving"} /\ CanFail("sdSave")
    /\ Goto("leave")
    /\ UNCHANGED <<storageVars, stop, cur, buffer, mailVars>>

BackUpBox == StartBackup \/ FinishBackup \/ BackupFails

-----------------------------------------------------------------------------
(***************************************************************************)
(* The two writes, the same in DeliverRaw and ClearFromOutbox.             *)
(***************************************************************************)

\* The changed box is ready in memory, and its mailbox first in line.
MailboxFirst(box) ==
    /\ cur' = Mbx
    /\ buffer' = box[Mbx]
    /\ newIndex' = box[Ctl]
    /\ written' = FALSE
    /\ Goto("openJournal")

\* The write without its journal.
NoJournalNeeded ==
    /\ pc = "openJournal"
    /\ Goto("write")
    /\ UNCHANGED <<storageVars, stop, cur, buffer, mailVars>>

CreateJournal ==
    /\ pc = "openJournal"
    /\ TruncateJournal
    /\ Goto("journalling")
    /\ UNCHANGED <<nand, flash, backup, stop, cur, buffer, mailVars>>

\* The write at hand is not made, nor the one after it.
JournalFails ==
    /\ pc = "openJournal"
    /\ CanFail("journalOpen")
    /\ written' = FALSE
    /\ Goto("stored")
    /\ UNCHANGED <<storageVars, stop, cur, buffer, newIndex>>

FillJournal ==
    /\ pc = "journalling"
    /\ WriteJournal(cur)
    /\ Goto("write")
    /\ UNCHANGED <<nand, flash, backup, stop, cur, buffer, mailVars>>

StartWrite ==
    /\ pc = "write"
    /\ BeginWrite(cur)
    /\ Goto("writing")
    /\ UNCHANGED <<backup, journal, stop, cur, buffer, mailVars>>

CompleteWrite ==
    /\ pc = "writing"
    /\ FinishWrite(cur, buffer)
    /\ written' = TRUE
    /\ Goto("flush")
    /\ UNCHANGED <<backup, journal, stop, cur, buffer, newIndex>>

WriteFails ==
    /\ pc \in {"write", "writing"}
    /\ CanFail("nandWrite")
    /\ written' = FALSE
    /\ Goto("closeJournal")
    /\ UNCHANGED <<storageVars, stop, cur, buffer, newIndex>>

FlushWrite ==
    /\ pc = "flush"
    /\ TryToFlush
    /\ Goto("closeJournal")
    /\ UNCHANGED <<nand, backup, journal, stop, cur, buffer, mailVars>>

\* The journal goes before anyone looks at whether the write succeeded. After the
\* mailbox comes the index.
EndWrite ==
    /\ pc = "closeJournal"
    /\ CloseJournal
    /\ IF written /\ cur = Mbx
         THEN cur' = Ctl /\ buffer' = newIndex /\ Goto("openJournal")
         ELSE Goto("stored") /\ UNCHANGED <<cur, buffer>>
    /\ UNCHANGED <<nand, flash, backup, stop, mailVars>>

WriteBox ==
    \/ CreateJournal \/ JournalFails \/ FillJournal
    \/ StartWrite \/ CompleteWrite \/ WriteFails \/ FlushWrite \/ EndWrite

-----------------------------------------------------------------------------
\* RunFetchMail or RunSendMail returns: ~VwiiNand unmounts the volume.
Leave ==
    /\ pc = "leave"
    /\ FlushVolume
    /\ Goto("done")
    /\ UNCHANGED <<nand, backup, journal, stop, cur, buffer, mailVars>>

\* JobEntry returns. What AutorunJob does after the mail is in ContainerUpdate.
EndJob ==
    /\ pc = "done"
    /\ Goto("idle")
    /\ UNCHANGED <<storageVars, stop, cur, buffer, mailVars>>

MailStep ==
    \/ RecoverIfNeeded /\ UNCHANGED mailVars
    \/ BackUpBox \/ WriteBox \/ Leave \/ EndJob

MailOutside == (StartJob \/ Outside) /\ UNCHANGED mailVars

-----------------------------------------------------------------------------
(***************************************************************************)
(* Changes to a box. Out of a torn file comes a torn one, if anything can  *)
(* be made of it.                                                          *)
(***************************************************************************)

\* The slot that is next, unless it is occupied or past the last one.
FreeSlots(box) ==
    IF box[Ctl] = Torn THEN Slots ELSE {box[Ctl].next} \cap (Slots \ box[Ctl].used)

\* The slots counted from one.
BoxFromOne(box, s, m) ==
    [f \in Files |->
        IF box[f] = Torn THEN Torn
        ELSE IF f = Mbx THEN [box[Mbx] EXCEPT !.holds[s] = m]
        ELSE [used |-> box[Ctl].used \cup {s + 1}, next |-> s + 2]]

BoxWith(box, s, m) ==
    [f \in Files |->
        IF box[f] = Torn THEN Torn
        ELSE IF f = Mbx THEN [box[Mbx] EXCEPT !.holds[s] = m]
        ELSE [used |-> box[Ctl].used \cup {s}, next |-> s + 1]]

\* Retiring messages makes the last one's slot the next to be used.
BoxWithout(box, slots, last) ==
    [f \in Files |->
        IF box[f] = Torn THEN Torn
        ELSE IF f = Mbx
          THEN [holds |-> [s \in Slots |-> IF s \in slots THEN NoMessage ELSE box[Mbx].holds[s]]]
        ELSE [used |-> box[Ctl].used \ slots, next |-> last]]

\* The console, while vWii runs, changes a box that it can read.
ConsoleWrites(box) ==
    /\ pc = "off"
    /\ VWiiFirst \/ journal = NoJournal
    /\ Whole(nand)
    /\ nand' = box
    /\ flash' = box
    /\ UNCHANGED <<backup, journal, pc, stop, cur, buffer, mailVars>>
=============================================================================
