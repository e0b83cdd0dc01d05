------------------------------- MODULE Inbox -------------------------------
(***************************************************************************)
(* Fetching mail (RunFetchMail in main.cpp, mailfetch.cpp's Check and      *)
(* Receive, DeliverRaw in mail.cpp) with the recovery that precedes it.    *)
(*                                                                         *)
(* The server forgets a message as it sends it, so from Receive on the     *)
(* message is in the job's memory, then also in a copy on the SD card,     *)
(* then in the inbox: first its body in the mailbox, then the entry in the *)
(* index that points there.                                                *)
(***************************************************************************)
EXTENDS MailStore, Sequences, SequencesExt

CONSTANTS
    NoCopy,     \* wuc24_fetched_NN.msg does not exist
    MaxBatch    \* bound: the messages in one response

ASSUME InboxAssumption ==
    /\ NoCopy \notin Messages \cup {NoMessage}
    /\ MaxBatch \in Nat \ {0}

VARIABLES
    board,    \* the messages the console has put on its message board
    server,   \* the messages waiting at the server
    taken,    \* the messages Receive returned, the next to deliver first
    copies,   \* wuc24_fetched_NN.msg on the SD card
    copied,   \* how many of this batch's have been written
    batch,    \* history: the slots this fetch has delivered to
    exposed   \* history: the slots that a recovery may undo the message of, or has

fetchVars == <<board, server, taken, copies, copied>>
historyVars == <<batch, exposed>>
vars == <<recoveryVars, mailVars, fetchVars, historyVars>>

CopyNames == 1 .. MaxBatch

TypeOK ==
    /\ MailStoreTypeOK
    /\ pc \in MailPoints \cup {"copy", "deliver"}
    /\ board \subseteq Messages
    /\ server \subseteq Messages
    /\ taken \in BoundedSeq(Messages, MaxBatch)
    /\ copies \in [CopyNames -> Messages \cup {NoCopy}]
    /\ copied \in 0 .. MaxBatch
    /\ batch \subseteq Slots
    /\ exposed \subseteq Slots

Init ==
    /\ MailStoreInit
    /\ board = {}
    /\ server = Messages
    /\ taken = <<>>
    /\ copies = [i \in CopyNames |-> NoCopy]
    /\ copied = 0
    /\ batch = {} /\ exposed = {}

\* The slots the index says are in use and the mailbox has no message for.
Dangling(box) == {s \in Slots : Whole(box) /\ s \in box[Ctl].used \ Listed(box)}

-----------------------------------------------------------------------------
\* A stop was requested, mail is off, or Check says that nothing is waiting. When
\* Check fails RunFetchMail goes on as if something were.
NoFetch ==
    /\ pc = "gate"
    /\ stop \/ server = {} \/ CanFail("nandRead")
    /\ Goto("leave")
    /\ UNCHANGED <<storageVars, stop, cur, buffer, mailVars, fetchVars, historyVars>>

StartFetch ==
    /\ pc = "gate"
    /\ ~stop
    /\ server # {} \/ CanFail("download")
    /\ cur' = Ctl
    /\ Goto("save")
    /\ batch' = {}
    /\ exposed' = exposed \cap Dangling(nand)
    /\ UNCHANGED <<storageVars, stop, buffer, mailVars, fetchVars>>

\* receive.cgi: the server sends some of what is waiting and forgets it.
Receive ==
    /\ pc = "transfer"
    /\ taken' \in BoundedSeq(server, MaxBatch) \ {<<>>}
    /\ IsInjective(taken')
    /\ server' = server \ ToSet(taken')
    /\ copied' = 0
    /\ Goto("copy")
    /\ UNCHANGED <<storageVars, stop, cur, buffer, mailVars, board, copies, historyVars>>

\* The response is lost or makes no sense, perhaps with messages in it; or there
\* were none.
ReceiveFails ==
    /\ pc = "transfer"
    /\ \/ server = {} /\ UNCHANGED server
       \/ CanFail("download") /\ server' \in SUBSET server
    /\ Goto("leave")
    /\ UNCHANGED <<storageVars, stop, cur, buffer, mailVars, board, taken, copies, copied, historyVars>>

\* SaveToSd(wuc24_fetched_NN.msg) for each message; its result is not looked at.
KeepCopy ==
    /\ pc = "copy"
    /\ copied < Len(taken)
    /\ \/ copies' = [copies EXCEPT ![copied + 1] = taken[copied + 1]]
       \/ CanFail("sdSave") /\ copies' \in {copies, [copies EXCEPT ![copied + 1] = NoCopy]}
    /\ copied' = copied + 1
    /\ UNCHANGED <<storageVars, pc, stop, cur, buffer, mailVars, board, server, taken, historyVars>>

StartDelivery ==
    /\ pc = "copy"
    /\ copied = Len(taken)
    /\ Goto("deliver")
    /\ UNCHANGED <<storageVars, stop, cur, buffer, mailVars, fetchVars, historyVars>>

\* The backups a recovery would use are older than what this fetch has delivered so
\* far, which the writes for slot s put at risk.
Exposes(s) ==
    /\ batch' = batch \cup {s}
    /\ exposed' = (exposed \cup batch) \ {s}

\* DeliverRaw writing the index before the message it points at.
DeliverIndexFirst(m, s) ==
    /\ pc = "deliver"
    /\ taken # <<>> /\ m = Head(taken)
    /\ ~stop
    /\ s \in FreeSlots(nand)
    /\ MailboxFirst(BoxWith(nand, s, m))
    /\ nand' = [nand EXCEPT ![Ctl] = BoxWith(nand, s, m)[Ctl]]
    /\ flash' = [flash EXCEPT ![Ctl] = nand'[Ctl]]
    /\ Exposes(s)
    /\ UNCHANGED <<backup, journal, stop, fetchVars>>

\* DeliverRaw: the slot that is next is free, the message makes sense and fits in
\* the mailbox, and no stop was requested. Then both files are to be written.
Deliver(m, s) ==
    /\ pc = "deliver"
    /\ taken # <<>> /\ m = Head(taken)
    /\ ~stop
    /\ s \in FreeSlots(nand)
    /\ MailboxFirst(BoxWith(nand, s, m))
    /\ Exposes(s)
    /\ UNCHANGED <<storageVars, stop, fetchVars>>

\* In any other case: "failed to deliver one message".
CannotDeliver ==
    /\ pc = "deliver"
    /\ taken # <<>>
    /\ stop \/ ~Whole(nand) \/ FreeSlots(nand) = {} \/ CanFail("nandRead")
    /\ taken' = Tail(taken)
    /\ UNCHANGED <<storageVars, pc, stop, cur, buffer, mailVars, board,
                   server, copies, copied, historyVars>>

\* The same message over again.
DeliverAgain ==
    /\ pc = "stored"
    /\ Goto("deliver")
    /\ UNCHANGED <<storageVars, stop, cur, buffer, mailVars, fetchVars, historyVars>>

\* Delivered or not, the next message is taken on.
EndDelivery ==
    /\ pc = "stored"
    /\ taken' = Tail(taken)
    /\ Goto("deliver")
    /\ UNCHANGED <<storageVars, stop, cur, buffer, mailVars, board,
                   server, copies, copied, historyVars>>

EndFetch ==
    /\ pc = "deliver"
    /\ taken = <<>>
    /\ Goto("leave")
    /\ UNCHANGED <<storageVars, stop, cur, buffer, mailVars, fetchVars, historyVars>>

FetchStep ==
    \/ NoFetch \/ StartFetch
    \/ Receive \/ ReceiveFails \/ KeepCopy \/ StartDelivery
    \/ \E m \in Messages, s \in Slots : Deliver(m, s)
    \/ CannotDeliver \/ EndDelivery \/ EndFetch

\* The Wii Menu imports a message onto the message board and retires its entry. A
\* recovery that is due for the index will bring the entry back without the message.
ConsoleImports(s) ==
    /\ Whole(nand)
    /\ s \in nand[Ctl].used
    /\ ConsoleWrites(BoxWithout(nand, {s}, s))
    /\ board' = board \cup ({nand[Mbx].holds[s]} \ {NoMessage})
    /\ exposed' = IF journal = Ctl THEN exposed \cup {s} ELSE exposed \ {s}
    /\ UNCHANGED <<server, taken, copies, copied, batch>>

Next ==
    \/ (MailStep \/ MailOutside) /\ UNCHANGED <<fetchVars, historyVars>>
    \/ FetchStep
    \/ \E s \in Slots : ConsoleImports(s)

Spec == Init /\ [][Next]_vars

-----------------------------------------------------------------------------
(***************************************************************************)
(* Properties. What the box settles to is what it holds once the next      *)
(* recovery is over.                                                       *)
(***************************************************************************)

\* "A message body nothing points at" may be left by a cut ("harmless", in DeliverRaw's
\* words), but an index entry that points at nothing only by a recovery that undoes
\* more than the delivery it was for: at the slots this fetch delivered to before, and
\* at those vWii has emptied while it was due. No other entry ever loses its message.
OnlyExposedDangle == Dangling(Settled) \subseteq exposed

\* DeliverRaw's claim as it stands: a cut never leaves an entry that points at nothing.
IndexMatchesMailbox == Dangling(Settled) = {}

\* Whichever of the two files the journal names, a torn one has a whole backup.
TornIsRecoverable ==
    \A f \in Files : AtRisk(f) => journal = f /\ backup[f] \in Content

InboxOf(box) == [s \in box[Ctl].used |-> box[Mbx].holds[s]]

\* Seen through the index, a message gets into the inbox in one step, at most once,
\* only after the server handed it over, and every other message stays, but for the
\* exposed ones.
Abstract ==
    INSTANCE AtomicInbox WITH
        inbox <- InboxOf(Settled),
        waiting <- server,
        running <- (pc # "off")

\* The two writes of a delivery act as one, cut off or not, for every message of a
\* batch and whatever vWii did before a recovery.
AtomicDelivery == Abstract!Spec

\* The copy on SD of a message that could not be delivered is "the only remaining
\* copy": it is not overwritten.
OnlyCopyKept ==
    [][\A i \in CopyNames :
          copies[i] \in Messages /\ copies'[i] # copies[i]
              => \/ copies[i] \in board
                 \/ \E s \in Listed(nand) : nand[Mbx].holds[s] = copies[i]]_vars

\* Deliver "leaves NAND untouched unless every step succeeds": with one message in a
\* batch, a failed delivery leaves what was backed up just before.
FailureLeavesBoxAlone ==
    pc = "stored" /\ ~written => nand = backup
=============================================================================
