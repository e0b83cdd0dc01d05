-------------------------- MODULE ContainerUpdate --------------------------
(***************************************************************************)
(* The background job's way through the channels' containers: AutorunJob,  *)
(* RecoverIfNeeded, RunPipeline and RestoreContainer (main.cpp, guard.cpp),*)
(* cut off anywhere by a power loss or by the end of the process.          *)
(*                                                                         *)
(* pc names the statement the job is at. Each action is the code between   *)
(* two points where something outside the job can be seen to happen: the   *)
(* stop flag being raised, the power going, a NAND write being half done.  *)
(* Mail (Inbox, Outbox) and the menu's own actions are other modules.      *)
(***************************************************************************)
EXTENDS Recovery

VARIABLES
    todo,         \* the containers RunPipeline has not come to yet
    original,     \* original_bytes; buffer is the copy the downloads go into
    keepJournal   \* the failure being handled continues without CloseJournal

pipelineVars == <<todo, original, keepJournal>>
vars == <<recoveryVars, pipelineVars>>

(***************************************************************************)
(* The statements of the job, in order, by what they are about to do.      *)
(***************************************************************************)
ContainerPoints ==
    {"save", "saving", "build", "check", "openJournal", "journalling",
     "write", "writing", "flush", "verify",
     "restore", "restoreWrite", "restoring", "restoreFlush", "closeJournal"}
JobPoints == RecoveryPoints \cup {"gate", "next"} \cup ContainerPoints \cup {"done"}
Points == JobPoints \cup {"idle", "off"}

TypeOK ==
    /\ RecoveryTypeOK
    /\ pc \in Points
    /\ todo \subseteq Files
    /\ original \in Content \cup {Torn}
    /\ keepJournal \in BOOLEAN

Init ==
    /\ StorageInit
    /\ pc = "idle"
    /\ stop = FALSE
    /\ todo = {}
    /\ cur \in Files
    /\ original \in Content
    /\ buffer = original
    /\ keepJournal = FALSE

-----------------------------------------------------------------------------
(***************************************************************************)
(* RunPipeline: which containers, then one after the other.                *)
(***************************************************************************)

\* AutorunJob gives up before the pipeline if a stop was requested.
StopBeforePipeline ==
    /\ pc = "gate"
    /\ stop
    /\ Goto("done")
    /\ UNCHANGED <<storageVars, stop, todo, cur, original, buffer, keepJournal>>

\* BuildJobs: the containers of the eligible tasks whose channels are turned on,
\* each once; none if the NAND or the task list cannot be read.
StartPipeline ==
    /\ pc = "gate"
    /\ ~stop
    /\ todo' \in SUBSET Files
    /\ Goto("next")
    /\ UNCHANGED <<storageVars, stop, cur, original, buffer, keepJournal>>

\* The loop takes a container and reads it.
NextContainer(f) ==
    /\ pc = "next"
    /\ f \in todo
    /\ cur' = f
    /\ todo' = todo \ {f}
    /\ buffer' = nand[f]
    /\ original' = nand[f]
    /\ keepJournal' = FALSE
    /\ Goto("save")
    /\ UNCHANGED <<storageVars, stop>>

\* "could not read the container -- skipped"
SkipUnreadable(f) ==
    /\ pc = "next"
    /\ f \in todo
    /\ CanFail("nandRead")
    /\ todo' = todo \ {f}
    /\ UNCHANGED <<storageVars, pc, stop, cur, original, buffer, keepJournal>>

\* The loop is over: ~VwiiNand unmounts the volume.
FinishPipeline ==
    /\ pc = "next"
    /\ todo = {}
    /\ FlushVolume
    /\ Goto("done")
    /\ UNCHANGED <<nand, backup, journal,
                   stop, todo, cur, original, buffer, keepJournal>>

-----------------------------------------------------------------------------
(***************************************************************************)
(* RunPipeline: one container.                                             *)
(***************************************************************************)

\* A backup that is made only once.
BackUpOnce ==
    /\ pc = "save"
    /\ IF backup[cur] = NoFile THEN BeginSave(cur) ELSE UNCHANGED backup
    /\ pc' = IF backup[cur] = NoFile THEN "saving" ELSE "build"
    /\ UNCHANGED <<nand, flash, journal,
                   stop, todo, cur, original, buffer, keepJournal>>

\* SaveToSd truncates the previous backup before it writes the new one.
StartBackup ==
    /\ pc = "save"
    /\ BeginSave(cur)
    /\ Goto("saving")
    /\ UNCHANGED <<nand, flash, journal,
                   stop, todo, cur, original, buffer, keepJournal>>

FinishBackup ==
    /\ pc = "saving"
    /\ FinishSave(cur, original)
    /\ Goto("build")
    /\ UNCHANGED <<nand, flash, journal,
                   stop, todo, cur, original, buffer, keepJournal>>

\* Carrying on without a new backup.
IgnoreBackupFailure ==
    /\ pc \in {"save", "saving"}
    /\ CanFail("sdSave")
    /\ Goto("build")
    /\ UNCHANGED <<storageVars, stop, todo, cur, original, buffer, keepJournal>>

\* No card, no file, or a short write: "refusing to continue without a backup".
BackupFails ==
    /\ pc \in {"save", "saving"}
    /\ CanFail("sdSave")
    /\ Goto("next")
    /\ UNCHANGED <<storageVars, stop, todo, cur, original, buffer, keepJournal>>

\* Every file was downloaded, decoded and put into the in-memory copy, which
\* still mounts and has kept its size. What comes out of a torn container, if it
\* mounts at all, is still torn.
BuildContainer ==
    /\ pc = "build"
    /\ buffer' \in IF original = Torn THEN {Torn} ELSE Content
    /\ Goto("check")
    /\ UNCHANGED <<storageVars, stop, todo, cur, original, keepJournal>>

\* "container left untouched"
BuildFails ==
    /\ pc = "build"
    /\ CanFail("download")
    /\ Goto("next")
    /\ UNCHANGED <<storageVars, stop, todo, cur, original, buffer, keepJournal>>

\* The last point where quitting is free: the loop is left, not just this round.
StopBeforeWrite ==
    /\ pc = "check"
    /\ stop
    /\ FlushVolume
    /\ Goto("done")
    /\ UNCHANGED <<nand, backup, journal,
                   stop, todo, cur, original, buffer, keepJournal>>

SkipUnchanged ==
    /\ pc = "check"
    /\ ~stop
    /\ buffer = original
    /\ Goto("next")
    /\ UNCHANGED <<storageVars, stop, todo, cur, original, buffer, keepJournal>>

\* The write without its journal.
WriteUnjournalled ==
    /\ pc = "check"
    /\ ~stop
    /\ buffer # original \/ buffer = Torn
    /\ Goto("write")
    /\ UNCHANGED <<storageVars, stop, todo, cur, original, buffer, keepJournal>>

DecideToWrite ==
    /\ pc = "check"
    /\ ~stop
    /\ buffer # original \/ buffer = Torn
    /\ Goto("openJournal")
    /\ UNCHANGED <<storageVars, stop, todo, cur, original, buffer, keepJournal>>

\* OpenJournal replaces whatever journal there was.
CreateJournal ==
    /\ pc = "openJournal"
    /\ TruncateJournal
    /\ Goto("journalling")
    /\ UNCHANGED <<nand, flash, backup,
                   stop, todo, cur, original, buffer, keepJournal>>

\* "refusing to write without a recovery journal"
JournalFails ==
    /\ pc = "openJournal"
    /\ CanFail("journalOpen")
    /\ Goto("next")
    /\ UNCHANGED <<storageVars, stop, todo, cur, original, buffer, keepJournal>>

FillJournal ==
    /\ pc = "journalling"
    /\ WriteJournal(cur)
    /\ Goto("write")
    /\ UNCHANGED <<nand, flash, backup,
                   stop, todo, cur, original, buffer, keepJournal>>

StartWrite ==
    /\ pc = "write"
    /\ BeginWrite(cur)
    /\ Goto("writing")
    /\ UNCHANGED <<backup, journal,
                   stop, todo, cur, original, buffer, keepJournal>>

CompleteWrite ==
    /\ pc = "writing"
    /\ FinishWrite(cur, buffer)
    /\ Goto("flush")
    /\ UNCHANGED <<backup, journal,
                   stop, todo, cur, original, buffer, keepJournal>>

\* "WRITE FAILED -- restoring the original", at the open or after some chunks.
WriteFails ==
    /\ pc \in {"write", "writing"}
    /\ CanFail("nandWrite")
    /\ Goto("restore")
    /\ UNCHANGED <<storageVars, stop, todo, cur, original, buffer, keepJournal>>

FlushWrite ==
    /\ pc = "flush"
    /\ TryToFlush
    /\ Goto("verify")
    /\ UNCHANGED <<nand, backup, journal,
                   stop, todo, cur, original, buffer, keepJournal>>

VerifySucceeds ==
    /\ pc = "verify"
    /\ nand[cur] = buffer
    /\ Goto("closeJournal")
    /\ UNCHANGED <<storageVars, stop, todo, cur, original, buffer, keepJournal>>

\* Writing again until the container can be read back.
RetryWrite ==
    /\ pc = "verify"
    /\ CanFail("nandRead")
    /\ Goto("write")
    /\ UNCHANGED <<storageVars, stop, todo, cur, original, buffer, keepJournal>>

VerifyCannotRead ==
    /\ pc = "verify"
    /\ CanFail("nandRead")
    /\ Goto("restore")
    /\ UNCHANGED <<storageVars, stop, todo, cur, original, buffer, keepJournal>>

\* The size or the hash differs: this path goes on without CloseJournal.
VerifyMismatch ==
    /\ pc = "verify"
    /\ nand[cur] # buffer \/ CanFail("misread")
    /\ keepJournal' = TRUE
    /\ Goto("restore")
    /\ UNCHANGED <<storageVars, stop, todo, cur, original, buffer>>

\* Verified, or given up on: either way the journal goes.
EndWrite ==
    /\ pc = "closeJournal"
    /\ CloseJournal
    /\ Goto("next")
    /\ UNCHANGED <<nand, flash, backup,
                   stop, todo, cur, original, buffer, keepJournal>>

-----------------------------------------------------------------------------
(***************************************************************************)
(* RestoreContainer.                                                       *)
(***************************************************************************)
AfterRestore == IF keepJournal THEN "next" ELSE "closeJournal"

LoadBackup ==
    /\ pc = "restore"
    /\ Loadable(cur)
    /\ buffer' = backup[cur]
    /\ Goto("restoreWrite")
    /\ UNCHANGED <<storageVars, stop, todo, cur, original, keepJournal>>

StartRestore ==
    /\ pc = "restoreWrite"
    /\ BeginWrite(cur)
    /\ Goto("restoring")
    /\ UNCHANGED <<backup, journal,
                   stop, todo, cur, original, buffer, keepJournal>>

CompleteRestore ==
    /\ pc = "restoring"
    /\ FinishWrite(cur, buffer)
    /\ Goto("restoreFlush")
    /\ UNCHANGED <<backup, journal,
                   stop, todo, cur, original, buffer, keepJournal>>

FlushRestore ==
    /\ pc = "restoreFlush"
    /\ TryToFlush
    /\ Goto(AfterRestore)
    /\ UNCHANGED <<nand, backup, journal,
                   stop, todo, cur, original, buffer, keepJournal>>

\* "RESTORE FAILED": the caller is not told and goes on as if it had worked.
RestoreFails ==
    /\ \/ pc = "restore" /\ (~Loadable(cur) \/ CanFail("sdLoad"))
       \/ pc \in {"restoreWrite", "restoring"} /\ CanFail("restoreWrite")
    /\ Goto(AfterRestore)
    /\ UNCHANGED <<storageVars, stop, todo, cur, original, buffer, keepJournal>>

-----------------------------------------------------------------------------
\* JobEntry returns.
EndJob ==
    /\ pc = "done"
    /\ Goto("idle")
    /\ UNCHANGED <<storageVars, stop, todo, cur, original, buffer, keepJournal>>

Recover == RecoverIfNeeded /\ UNCHANGED pipelineVars

UpdateContainer ==
    \/ StartBackup \/ FinishBackup \/ BackupFails
    \/ BuildContainer \/ BuildFails
    \/ StopBeforeWrite \/ SkipUnchanged \/ DecideToWrite
    \/ CreateJournal \/ JournalFails \/ FillJournal
    \/ StartWrite \/ CompleteWrite \/ WriteFails \/ FlushWrite
    \/ VerifySucceeds \/ VerifyCannotRead \/ VerifyMismatch \/ EndWrite

RestoreContainer ==
    LoadBackup \/ StartRestore \/ CompleteRestore \/ FlushRestore \/ RestoreFails

\* A step of the background thread.
JobStep ==
    \/ Recover
    \/ StopBeforePipeline \/ StartPipeline
    \/ \E f \in Files : NextContainer(f) \/ SkipUnreadable(f)
    \/ FinishPipeline
    \/ UpdateContainer
    \/ RestoreContainer
    \/ EndJob

-----------------------------------------------------------------------------
\* The console runs vWii, and a channel saves something in its own container.
ChannelWrites(f) ==
    /\ pc = "off"
    /\ nand[f] \in Content
    /\ \E content \in Content :
           /\ nand' = [nand EXCEPT ![f] = content]
           /\ flash' = [flash EXCEPT ![f] = content]
    /\ UNCHANGED <<backup, journal, pc, stop, cur, buffer, pipelineVars>>

Next ==
    \/ StartJob /\ UNCHANGED pipelineVars
    \/ JobStep
    \/ Outside /\ UNCHANGED pipelineVars
    \/ \E f \in Files : ChannelWrites(f)

\* The thread has a lower priority than the Menu's but is never starved, and the
\* NAND and the card answer. The server may not: its sockets have no timeout, so
\* nothing is asked of the downloads.
Fairness == WF_vars(JobStep /\ pc # "build")

Spec == Init /\ [][Next]_vars /\ Fairness

-----------------------------------------------------------------------------
(***************************************************************************)
(* Properties.                                                             *)
(***************************************************************************)

\* A container that holds, or that a power loss now could leave holding, neither
\* its old nor its new version is the one the journal names, and its backup is
\* whole: main.cpp's "being interrupted does not leave a channel's data
\* half-written", over every interleaving of cuts, failed steps and reruns.
TornIsRecoverable ==
    \A f \in Files : AtRisk(f) => journal = f /\ backup[f] \in Content

\* Once RecoverIfNeeded is done and its volume unmounted, no container is left
\* torn: an interrupted write "is restored before anything else happens".
RepairedFirst ==
    pc = "gate" => \A f \in Files : ~AtRisk(f)

\* From the end of SaveToSd to the end of the write or of the restore, the backup
\* on SD is byte for byte what the container held when it was read, so what is
\* restored is what was there.
BackedUp ==
    {"build", "check", "openJournal", "journalling", "write", "writing", "flush",
     "verify", "restore", "restoreWrite", "restoring", "restoreFlush",
     "closeJournal"}
BackupIsOriginal == pc \in BackedUp => backup[cur] = original

\* A write to a container goes with a journal that names it.
WriteIsJournalled == pc = "writing" => journal = cur

\* A run that reached its end by itself leaves no journal, so that a journal
\* "at startup means a previous run was cut off mid-write".
RunLeavesNoJournal == pc = "done" => journal = NoJournal

\* "A write is never started once we know we are on the way out."
NoWriteAfterStop == [][pc = "write" /\ pc' = "writing" => ~stop]_vars

\* The journal of a container that is still torn is not given up for another or
\* removed: it is left in place "so this is not silently forgotten".
JournalNotForgotten ==
    [][\A f \in Files :
          journal = f /\ nand[f] = Torn /\ nand'[f] = Torn => journal' = f]_vars

\* A run that is not cut off comes to its end, whatever fails on the way, or waits
\* for ever for a server that neither answers nor hangs up.
RunEnds == pc \in JobPoints ~> pc \in {"idle", "off"} \/ [](pc = "build")

\* Seen as what it will settle to, a container changes in single steps, whole to
\* whole, and no cut changes it.
Abstract == INSTANCE AtomicContainers WITH value <- Settled, running <- (pc # "off")

\* The update of a container is atomic with respect to every failure the code
\* handles.
AtomicUpdate == Abstract!Spec
=============================================================================
