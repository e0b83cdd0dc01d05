------------------------------ MODULE MCInbox ------------------------------
(***************************************************************************)
(* Inbox with three messages and slots, so that a batch of two can come on *)
(* top of a message that was there before. The runs differ in the faults,  *)
(* in how many messages come in one response and in when vWii is started.  *)
(***************************************************************************)
EXTENDS Inbox

CONSTANTS m1, m2, m3   \* messages

MCFiles == {Mbx, Ctl}
MCContent == Mailboxes \cup Indexes
MCMessages == {m1, m2, m3}
Symmetry == Permutations(MCMessages)

\* The faults the journal and the order of the two writes are there to mask, but
\* for "sdSave": a backup that fails leaves what one that is cut off leaves, and
\* the copies on SD, which it makes many of, bear on nothing here.
MaskedFaults == {"nandRead", "flush", "journalOpen", "download"}
=============================================================================
