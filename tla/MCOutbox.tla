------------------------------ MODULE MCOutbox ------------------------------
(***************************************************************************)
(* Outbox with a few messages and slots. The runs differ in the faults, in *)
(* how many messages the server takes at a time and in when vWii is        *)
(* started.                                                                *)
(***************************************************************************)
EXTENDS Outbox, TLC

CONSTANTS m1, m2, m3   \* messages

MCFiles == {Mbx, Ctl}
MCContent == Mailboxes \cup Indexes
MCMessages == {m1, m2, m3}

\* The faults the journal and the order of the two writes are there to mask.
MaskedFaults == {"nandRead", "flush", "sdSave", "journalOpen", "download"}

Symmetric == Permutations(MCMessages)
=============================================================================
