----------------------------- MODULE MenuTools -----------------------------
(***************************************************************************)
(* The tools of the settings menu (RunScan, RunMailConfig, RunMailCheck,   *)
(* RunDumpMail and RunRestore in main.cpp) beside the background job of    *)
(* ContainerUpdate. They run on the menu's own thread, take no lock and do *)
(* not ask whether the job is running.                                     *)
(*                                                                         *)
(* Each of them, like each part of the job, has a VwiiNand of its own, but *)
(* there is one volume: the first destructor takes it from all of them     *)
(* (nand.cpp). In the job's steps a NAND call fails when the volume is     *)
(* gone, and may fail once it was, its handles being of an earlier mount;  *)
(* it does not fail otherwise.                                             *)
(***************************************************************************)
EXTENDS ContainerUpdate

VARIABLES
    mounted,   \* the volume is attached
    tool,      \* the tool at work and, in RunRestore, the statement it is at
    left,      \* the containers RunRestore has not come to yet
    target,    \* the container it is at
    bytes,     \* what it loaded of that one's backup, NoFile outside the loop's round
    lost,      \* who has had the volume unmounted under his VwiiNand
    mixed,     \* the containers into which both the job and RunRestore are writing
    spoiled    \* history: the containers that got into a state the journal cannot cover

toolVars == <<tool, left, target, bytes>>
menuVars == <<vars, mounted, toolVars, lost, mixed, spoiled>>

Restoring == {"restoreNext", "restoreBegin", "restoreWriting"}

MenuInit ==
    /\ Init
    /\ mounted = FALSE
    /\ tool = "none"
    /\ left = {}
    /\ target = cur
    /\ bytes = NoFile
    /\ lost = {}
    /\ mixed = {}
    /\ spoiled = {}

-----------------------------------------------------------------------------
\* A part of the job holds a VwiiNand: RecoverIfNeeded's block, then RunPipeline.
JobHolds == pc \in JobPoints \ {"gate", "done"}
JobWrites == pc \in {"repairing", "writing", "restoring"}

\* The constructor: a volume that is already there counts as mounted.
Mount == mounted' = TRUE

\* The destructor unmounts by name, whoever else uses the volume; FSA may refuse
\* while files are open.
Unmount(others) ==
    /\ FlushVolume
    /\ mounted' \in IF others THEN BOOLEAN ELSE {FALSE}

-----------------------------------------------------------------------------
(***************************************************************************)
(* The job's steps by what they need of the volume.                        *)
(***************************************************************************)
OnVolume ==
    \/ (BeginRepair \/ FinishRepair) /\ UNCHANGED pipelineVars
    \/ \E f \in Files : NextContainer(f)
    \/ StartWrite \/ CompleteWrite \/ VerifySucceeds \/ VerifyMismatch
    \/ StartRestore \/ CompleteRestore

\* Decoding encrypted content reads the title's wc24pubk.mod.
NoVolume ==
    \/ RepairFails /\ UNCHANGED pipelineVars
    \/ \E f \in Files : SkipUnreadable(f)
    \/ BuildFails
    \/ WriteFails \/ VerifyCannotRead
    \/ pc # "restore" /\ RestoreFails

OffVolume ==
    \/ /\ \/ NothingToRecover \/ DiscardJournal \/ CannotRecover \/ LoadRecovery
          \/ ForgetRepaired
       /\ UNCHANGED pipelineVars
    \/ StopBeforePipeline
    \/ StartBackup \/ FinishBackup \/ BuildContainer \/ BuildFails \/ SkipUnchanged \/ DecideToWrite
    \/ CreateJournal \/ FillJournal \/ FlushWrite \/ EndWrite
    \/ LoadBackup \/ FlushRestore \/ (pc = "restore" /\ RestoreFails)
    \/ EndJob

\* RunRestore's chunks are among those the job wrote.
MixesIn ==
    /\ cur \in mixed
    /\ FinishWrite(cur, Torn)
    /\ \/ pc = "writing" /\ Goto("flush")
       \/ pc = "restoring" /\ Goto("restoreFlush")
       \/ pc = "repairing" /\ Goto("repaired")
    /\ UNCHANGED <<backup, journal, stop, cur, buffer, pipelineVars>>

JobUnmounts ==
    \/ UnmountRecovery /\ UNCHANGED pipelineVars
    \/ FinishPipeline \/ StopBeforeWrite

TheJob ==
    /\ \/ mounted /\ (OnVolume \/ MixesIn) /\ UNCHANGED mounted
       \/ "job" \in lost /\ NoVolume /\ UNCHANGED mounted
       \/ OffVolume /\ UNCHANGED mounted
       \/ StartPipeline /\ Mount
       \/ JobUnmounts /\ Unmount(tool # "none")
    /\ UNCHANGED toolVars

-----------------------------------------------------------------------------
(***************************************************************************)
(* The menu.                                                               *)
(***************************************************************************)
Open(t) ==
    /\ pc # "off"
    /\ tool = "none"
    /\ tool' = t
    /\ Mount

\* What the read-only tools do between the constructor and the destructor is read
\* the NAND and write to the log and to files on SD that nothing here reads.
OnlyRead ==
    /\ Open("reading")
    /\ UNCHANGED <<vars, left, target, bytes>>

RunScan == OnlyRead
RunMailConfig == OnlyRead
RunMailCheck == OnlyRead
RunDumpMail == OnlyRead

\* A restore that starts by removing the journal, everything being put back anyway.
RunRestoreForgetting ==
    /\ Open("restoreNext")
    /\ left' \in {Files} \cup IF JobHolds THEN {{}} ELSE {}
    /\ CloseJournal
    /\ UNCHANGED <<nand, flash, backup, pc, stop, cur, buffer, pipelineVars,
                   target, bytes>>

\* RunRestore asks BuildJobs for every container, also of channels turned off; none
\* if the task list cannot be read.
RunRestore ==
    /\ Open("restoreNext")
    /\ left' \in {Files} \cup IF JobHolds THEN {{}} ELSE {}
    /\ UNCHANGED <<vars, target, bytes>>

\* "no usable backup -- skipping"
SkipWithoutBackup(f) ==
    /\ tool = "restoreNext"
    /\ f \in left
    /\ ~Loadable(f)
    /\ left' = left \ {f}
    /\ UNCHANGED <<vars, mounted, tool, target, bytes>>

LoadForRestore(f) ==
    /\ tool = "restoreNext"
    /\ f \in left
    /\ Loadable(f)
    /\ target' = f
    /\ bytes' = backup[f]
    /\ left' = left \ {f}
    /\ tool' = "restoreBegin"
    /\ UNCHANGED <<vars, mounted>>

\* There is no journal, no CriticalSection, no Flush and no reading back.
RestoreBegins ==
    /\ tool = "restoreBegin"
    /\ mounted
    /\ BeginWrite(target)
    /\ tool' = "restoreWriting"
    /\ UNCHANGED <<backup, journal, pc, stop, cur, buffer, pipelineVars,
                   mounted, left, target, bytes>>

RestoreWrites ==
    /\ tool = "restoreWriting"
    /\ mounted
    /\ \E content \in {bytes} \cup IF target \in mixed THEN {Torn} ELSE {} :
           FinishWrite(target, content)
    /\ tool' = "restoreNext"
    /\ bytes' = NoFile
    /\ UNCHANGED <<backup, journal, pc, stop, cur, buffer, pipelineVars,
                   mounted, left, target>>

\* "FAILED to restore": on to the next container.
RestoreMisses ==
    /\ tool \in {"restoreBegin", "restoreWriting"}
    /\ "menu" \in lost
    /\ tool' = "restoreNext"
    /\ bytes' = NoFile
    /\ UNCHANGED <<vars, mounted, left, target>>

CloseTool ==
    /\ tool = "reading" \/ (tool = "restoreNext" /\ left = {})
    /\ tool' = "none"
    /\ Unmount(JobHolds)
    /\ UNCHANGED <<nand, backup, journal, pc, stop, cur, buffer, pipelineVars,
                   left, target, bytes>>

TheMenu ==
    \/ RunScan \/ RunMailConfig \/ RunMailCheck \/ RunDumpMail \/ RunRestore
    \/ \E f \in Files : SkipWithoutBackup(f) \/ LoadForRestore(f)
    \/ RestoreBegins \/ RestoreWrites \/ RestoreMisses
    \/ CloseTool

-----------------------------------------------------------------------------
\* The tools end with the process. The mount may outlive it: the next constructor
\* finds it there.
TheOutside ==
    /\ \/ StartJob /\ Mount /\ UNCHANGED toolVars
       \/ RequestStop /\ UNCHANGED <<mounted, toolVars>>
       \/ /\ ProcessEnds \/ PowerLoss
          /\ tool' = "none"
          /\ left' = {}
          /\ bytes' = NoFile
          /\ UNCHANGED <<mounted, target>>
       \/ Boot /\ UNCHANGED <<mounted, toolVars>>
    /\ UNCHANGED pipelineVars

ToolWrites == tool = "restoreWriting"

Holders ==
    (IF JobHolds THEN {"job"} ELSE {}) \cup (IF tool # "none" THEN {"menu"} ELSE {})

(***************************************************************************)
(* What can happen to a container that no journal covers.                  *)
(***************************************************************************)
\* RunRestore was cut off, or lost the volume, between its chunks.
RestoreIsCut == ToolWrites /\ (pc' = "off" \/ RestoreMisses)

\* RunRestore puts back a backup that is not whole.
RestoresTorn == RestoreBegins /\ bytes = Torn

\* The job lost the volume while it was putting a backup back, and goes on.
PutBackFails == RepairFails \/ (pc \in {"restoreWrite", "restoring"} /\ RestoreFails)

\* The job takes what is there between two chunks of RunRestore's for the container.
ReadsTorn(f) == NextContainer(f) /\ nand[f] = Torn

Spoils(f) ==
    \/ target = f /\ (RestoreIsCut \/ RestoresTorn)
    \/ cur = f /\ PutBackFails
    \/ ReadsTorn(f)
    \/ f \in mixed'

\* A backup put back whole, with neither the journal nor the job at that container,
\* makes it as good as new.
Heals(f) ==
    /\ RestoreWrites /\ target = f
    /\ nand'[f] \in Content
    /\ f \notin mixed
    /\ journal # f
    /\ ~(JobHolds /\ cur = f)

BothWrite(f) == JobWrites /\ cur = f /\ ToolWrites /\ target = f
EitherWrites(f) == (JobWrites /\ cur = f) \/ (ToolWrites /\ target = f)

Track ==
    /\ lost' = {h \in Holders' : h \in lost \/ ~mounted'}
    /\ mixed' = {f \in Files : BothWrite(f)' \/ (f \in mixed /\ EitherWrites(f)')}
    /\ spoiled' = {f \in Files : Spoils(f) \/ (f \in spoiled /\ ~Heals(f))}

MenuNext == (TheJob \/ TheMenu \/ TheOutside) /\ Track

MenuFairness == WF_menuVars(TheJob /\ pc # "build" /\ Track)

MenuSpec == MenuInit /\ [][MenuNext]_menuVars /\ MenuFairness

-----------------------------------------------------------------------------
(***************************************************************************)
(* Properties.                                                             *)
(***************************************************************************)

\* Whatever the tools and the job do beside each other, a container is torn only while
\* RunRestore is writing it or with a journal that names it and a whole backup, unless
\* one of four things has happened to it since it was last restored whole: RunRestore
\* was stopped between its chunks, it put back a torn backup, the job failed to put its
\* backup back because a tool had taken the volume away, or both wrote it or one read
\* it while the other wrote. Taking turns on a container, taking the volume from a
\* write, a read, a download's key or a verification: all of that is covered.
OnlySpoiledIsLost ==
    \A f \in Files \ spoiled :
        AtRisk(f) =>
            \/ journal = f /\ backup[f] \in Content
            \/ ToolWrites /\ target = f /\ bytes \in Content

\* A run whose volume is taken away comes to its end all the same.
RunEndsAnyway ==
    pc \in JobPoints ~> pc \in {"idle", "off"} \/ [](pc = "build")

\* "Read-only": the menu without RunRestore.
ReadersSpec == MenuInit /\ [][MenuNext /\ tool' \notin Restoring]_menuVars

\* Beside tools that only read, the job's writes stay recoverable.
ReadersDoNoHarm == TornIsRecoverable
=============================================================================
