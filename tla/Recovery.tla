------------------------------ MODULE Recovery ------------------------------
(***************************************************************************)
(* What every run of the background job has in common: it is started, it   *)
(* looks for the journal of a write that was cut off and puts the backup   *)
(* back (guard::RecoverIfNeeded), and it can itself be asked to stop or be *)
(* cut off at any point.                                                   *)
(***************************************************************************)
EXTENDS Storage

VARIABLES
    pc,       \* where the job is; "idle" with no job, "off" with no process
    stop,     \* guard::s_stop
    cur,      \* the file it is at
    buffer    \* the bytes it is about to write there

recoveryVars == <<storageVars, pc, stop, cur, buffer>>

RecoveryPoints == {"recover", "repair", "repairing", "repaired", "unmount"}

RecoveryTypeOK ==
    /\ StorageTypeOK
    /\ stop \in BOOLEAN
    /\ cur \in Files
    /\ buffer \in Content \cup {Torn}

Goto(point) == pc' = point

-----------------------------------------------------------------------------
(***************************************************************************)
(* RecoverIfNeeded.                                                        *)
(***************************************************************************)

\* The normal case: no journal, so no interrupted write.
NothingToRecover ==
    /\ pc = "recover"
    /\ journal = NoJournal
    /\ Goto("unmount")
    /\ UNCHANGED <<storageVars, stop, cur, buffer>>

\* A journal without its two lines is removed.
DiscardJournal ==
    /\ pc = "recover"
    /\ journal = Unreadable
    /\ CloseJournal
    /\ Goto("unmount")
    /\ UNCHANGED <<nand, flash, backup, stop, cur, buffer>>

\* The backup is missing, empty or unreadable: the journal is left in place and
\* the job carries on.
CannotRecover ==
    /\ pc = "recover"
    /\ journal \in Files
    /\ ~Loadable(journal) \/ CanFail("sdLoad")
    /\ Goto("unmount")
    /\ UNCHANGED <<storageVars, stop, cur, buffer>>

\* A recovery that removes the journal before it has restored anything.
ForgetThenRepair ==
    /\ pc = "recover"
    /\ journal \in Files
    /\ Loadable(journal)
    /\ cur' = journal
    /\ buffer' = backup[journal]
    /\ CloseJournal
    /\ Goto("repair")
    /\ UNCHANGED <<nand, flash, backup, stop>>

LoadRecovery ==
    /\ pc = "recover"
    /\ journal \in Files
    /\ Loadable(journal)
    /\ cur' = journal
    /\ buffer' = backup[journal]
    /\ Goto("repair")
    /\ UNCHANGED <<storageVars, stop>>

\* The restoring write; there is no CriticalSection around it.
BeginRepair ==
    /\ pc = "repair"
    /\ BeginWrite(cur)
    /\ Goto("repairing")
    /\ UNCHANGED <<backup, journal, stop, cur, buffer>>

FinishRepair ==
    /\ pc = "repairing"
    /\ FinishWrite(cur, buffer)
    /\ Goto("repaired")
    /\ UNCHANGED <<backup, journal, stop, cur, buffer>>

\* "RESTORE FAILED": the journal stays and the job carries on.
RepairFails ==
    /\ pc \in {"repair", "repairing"}
    /\ CanFail("restoreWrite")
    /\ Goto("unmount")
    /\ UNCHANGED <<storageVars, stop, cur, buffer>>

\* The journal is removed as soon as the write has returned, without a Flush.
ForgetRepaired ==
    /\ pc = "repaired"
    /\ CloseJournal
    /\ Goto("unmount")
    /\ UNCHANGED <<nand, flash, backup, stop, cur, buffer>>

\* AutorunJob's block ends: ~VwiiNand unmounts the volume. What the job does next is
\* up to the module that EXTENDS this one.
UnmountRecovery ==
    /\ pc = "unmount"
    /\ FlushVolume
    /\ Goto("gate")
    /\ UNCHANGED <<nand, backup, journal, stop, cur, buffer>>

RecoverIfNeeded ==
    \/ NothingToRecover \/ DiscardJournal \/ CannotRecover \/ LoadRecovery
    \/ BeginRepair \/ FinishRepair \/ RepairFails \/ ForgetRepaired
    \/ UnmountRecovery

-----------------------------------------------------------------------------
(***************************************************************************)
(* What goes on around a job.                                              *)
(***************************************************************************)

\* autorun::Start: the flag of an earlier stop is cleared, the thread started.
StartJob ==
    /\ pc = "idle"
    /\ stop' = FALSE
    /\ Goto("recover")
    /\ UNCHANGED <<storageVars, cur, buffer>>

\* guard::RequestStop from one of the exit hooks.
RequestStop ==
    /\ pc \notin {"idle", "off"}
    /\ ~stop
    /\ stop' = TRUE
    /\ UNCHANGED <<storageVars, pc, cur, buffer>>

\* The title ends and takes the plugin's process with it, whether or not the job
\* has come to its end: Stop gives up waiting after its timeout.
ProcessEnds ==
    /\ pc # "off"
    /\ Goto("off")
    /\ UNCHANGED <<storageVars, stop, cur, buffer>>

PowerLoss ==
    /\ pc # "off"
    /\ nand' \in {left \in [Files -> UNION {AfterPowerLoss(f) : f \in Files}] :
                     \A f \in Files : left[f] \in AfterPowerLoss(f)}
    /\ flash' = nand'
    /\ Goto("off")
    /\ UNCHANGED <<backup, journal, stop, cur, buffer>>

\* The Wii U Menu is started: the plugin is loaded afresh.
Boot ==
    /\ pc = "off"
    /\ stop' = FALSE
    /\ Goto("idle")
    /\ UNCHANGED <<storageVars, cur, buffer>>

Outside == RequestStop \/ ProcessEnds \/ PowerLoss \/ Boot

-----------------------------------------------------------------------------
(***************************************************************************)
(* What a file will hold once the next recovery has had its way: its       *)
(* backup while the journal names it, else its bytes.                      *)
(***************************************************************************)
Settled == [f \in Files |-> IF journal = f THEN backup[f] ELSE nand[f]]
=============================================================================
