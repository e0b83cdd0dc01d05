------------------------------- MODULE Outbox -------------------------------
(***************************************************************************)
(* Sending mail (RunSendMail in main.cpp, Send in mailfetch.cpp,           *)
(* ReadOutbox and ClearFromOutbox in mail.cpp) with the recovery that      *)
(* precedes it.                                                            *)
(*                                                                         *)
(* The copies kept as wuc24_outbox_NN.msg are never read back and left out.*)
(***************************************************************************)
EXTENDS MailStore, FiniteSetsExt

CONSTANT MaxSend   \* the messages send.cgi takes at a time: 16

ASSUME OutboxAssumption == MaxSend \in Nat

VARIABLES
    composed,   \* the messages written on the console so far
    accepted,   \* the messages the server has taken
    queued,     \* what ReadOutbox returned: the message in each slot
    sent,       \* the slots the server's reply says it took
    late        \* history: the messages written while a recovery was due

sendVars == <<composed, accepted, queued, sent, late>>
vars == <<recoveryVars, mailVars, sendVars>>

TypeOK ==
    /\ MailStoreTypeOK
    /\ pc \in MailPoints \cup {"clear"}
    /\ composed \subseteq Messages
    /\ accepted \subseteq composed
    /\ DOMAIN queued \subseteq Slots
    /\ \A s \in DOMAIN queued : queued[s] \in Messages
    /\ sent \subseteq DOMAIN queued
    /\ late \subseteq composed

NothingQueued == [s \in {} |-> NoMessage]

Init ==
    /\ MailStoreInit
    /\ composed = {}
    /\ accepted = {}
    /\ queued = NothingQueued
    /\ sent = {}
    /\ late = {}

\* The server takes the messages of these slots.
Takes(slots) == accepted' = accepted \cup {queued[s] : s \in slots}

-----------------------------------------------------------------------------
\* A stop was requested, mail is off, the box cannot be read, or has nothing in it.
NoSend ==
    /\ pc = "gate"
    /\ stop \/ CanFail("nandRead") \/ Listed(nand) = {}
    /\ Goto("leave")
    /\ UNCHANGED <<storageVars, stop, cur, buffer, mailVars, sendVars>>

\* An entry whose message "is not there" is passed over.
ReadOutbox ==
    /\ pc = "gate"
    /\ ~stop
    /\ Listed(nand) # {}
    /\ queued' = [s \in Listed(nand) |-> nand[Mbx].holds[s]]
    /\ sent' = {}
    /\ cur' = Ctl
    /\ Goto("save")
    /\ UNCHANGED <<storageVars, stop, buffer, mailVars, composed, accepted, late>>

\* More messages than the server takes at a time: none is sent.
TooManyToSend ==
    /\ pc = "transfer"
    /\ Cardinality(DOMAIN queued) > MaxSend
    /\ Goto("leave")
    /\ UNCHANGED <<storageVars, stop, cur, buffer, mailVars, sendVars>>

\* send.cgi answers for each message whether the server took it.
Send ==
    /\ pc = "transfer"
    /\ Cardinality(DOMAIN queued) <= MaxSend
    /\ sent' \in IF CanFail("download") THEN SUBSET DOMAIN queued ELSE {DOMAIN queued}
    /\ Takes(sent')
    /\ Goto(IF sent' = {} THEN "leave" ELSE "clear")
    /\ UNCHANGED <<storageVars, stop, cur, buffer, mailVars, composed, queued, late>>

\* The request or the answer is lost: "everything stays queued".
SendFails ==
    /\ pc = "transfer"
    /\ Cardinality(DOMAIN queued) <= MaxSend
    /\ CanFail("download")
    /\ \E slots \in SUBSET DOMAIN queued : Takes(slots)
    /\ Goto("leave")
    /\ UNCHANGED <<storageVars, stop, cur, buffer, mailVars, composed, queued, sent, late>>

\* ClearFromOutbox retiring whatever was handed over.
ClearAllQueued ==
    /\ pc = "clear"
    /\ MailboxFirst(BoxWithout(nand, DOMAIN queued, Max(DOMAIN queued)))
    /\ UNCHANGED <<storageVars, stop, sendVars>>

\* ClearFromOutbox reads the box again and retires what was sent, in the order of the
\* slots and whether or not a stop was requested.
ClearFromOutbox ==
    /\ pc = "clear"
    /\ \E last \in sent :
          /\ \A s \in sent : s <= last
          /\ MailboxFirst(BoxWithout(nand, sent, last))
    /\ UNCHANGED <<storageVars, stop, sendVars>>

\* "the server took the mail but the outbox could not be updated"
CannotClear ==
    /\ pc = "clear"
    /\ CanFail("nandRead") \/ ~Whole(nand)
    /\ Goto("leave")
    /\ UNCHANGED <<storageVars, stop, cur, buffer, mailVars, sendVars>>

EndSend ==
    /\ pc = "stored"
    /\ Goto("leave")
    /\ UNCHANGED <<storageVars, stop, cur, buffer, mailVars, sendVars>>

SendStep ==
    \/ NoSend \/ ReadOutbox \/ TooManyToSend \/ Send \/ SendFails
    \/ ClearFromOutbox \/ CannotClear \/ EndSend

-----------------------------------------------------------------------------
\* A message is written on the message board and queued, in the box that a recovery
\* which is due will overwrite.
ConsoleComposes(m, s) ==
    /\ m \notin composed
    /\ Whole(nand)
    /\ s \in FreeSlots(nand)
    /\ ConsoleWrites(BoxWith(nand, s, m))
    /\ composed' = composed \cup {m}
    /\ late' = late \cup {x \in {m} : journal \in Files}
    /\ UNCHANGED <<accepted, queued, sent>>

\* The console's own WiiConnect24 sends a message and retires its entry.
ConsoleSends(s) ==
    /\ s \in Listed(nand)
    /\ accepted' = accepted \cup {nand[Mbx].holds[s]}
    /\ ConsoleWrites(BoxWithout(nand, {s}, s))
    /\ UNCHANGED <<composed, queued, sent, late>>

Next ==
    \/ (MailStep \/ MailOutside) /\ UNCHANGED sendVars
    \/ SendStep
    \/ \E s \in Slots : ConsoleSends(s) \/ \E m \in Messages : ConsoleComposes(m, s)

Spec == Init /\ [][Next]_vars

-----------------------------------------------------------------------------
(***************************************************************************)
(* Properties. What the box settles to is what it holds once the next      *)
(* recovery is over.                                                       *)
(***************************************************************************)

\* Whichever of the two files the journal names, a torn one has a whole backup.
TornIsRecoverable ==
    \A f \in Files : AtRisk(f) => journal = f /\ backup[f] \in Content

\* "Messages are only retired from the outbox once the server says it took them, so
\* a failure leaves them queued": whatever is cut off, rejected or rolled back, and
\* whenever vWii is started, a message is queued until the server has it. The exception
\* are the messages written on the console before a recovery that was due.
Queue == {Settled[Mbx].holds[s] : s \in Listed(Settled)}

Abstract ==
    INSTANCE AtomicOutbox WITH
        queue <- Queue \ late,
        accepted <- accepted \ late

NothingUnsentIsForgotten == Abstract!Spec

\* The server "already has these messages, so the console must forget them or it
\* will send them again": ClearFromOutbox does not look at the stop flag and asks "an
\* exit to wait for us", so that no message is taken twice.
SentOnce ==
    [][pc = "transfer" /\ pc' = "clear" => \A s \in sent' : queued[s] \notin accepted]_vars

\* The order in which the inbox is written must not "leave the index referring to a
\* message that is not there"; nor may the outbox's.
IndexMatchesMailbox ==
    Whole(Settled) => Settled[Ctl].used = Listed(Settled)

\* RunSendMail "sends whatever is sitting in the outbox": with a server that takes
\* everything, a run that gets that far sends something.
SendsWhatIsQueued == [][pc = "transfer" /\ pc' = "leave" => sent' # {}]_vars
=============================================================================
