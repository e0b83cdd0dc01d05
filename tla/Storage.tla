------------------------------ MODULE Storage ------------------------------
(***************************************************************************)
(* What survives the process: the files on the vWii NAND (nand.cpp), their *)
(* backups on the SD card (SaveToSd and LoadFromSd in main.cpp) and the    *)
(* recovery journal next to them (guard.cpp).                              *)
(*                                                                         *)
(* A file's bytes are one member of Content when they are a whole version, *)
(* and Torn when they are part of one version and part of another, which   *)
(* is what a write leaves until its last chunk is down.                    *)
(*                                                                         *)
(* This module holds the operations; the modules that EXTEND it say who    *)
(* calls them and in which order.                                          *)
(***************************************************************************)
EXTENDS FiniteSets

CONSTANTS
    Files,       \* the files that can be overwritten, each with one backup name
    Content,     \* the whole versions a file can hold
    Torn,        \* neither one version nor the other
    NoFile,      \* no backup, or one of zero bytes: LoadFromSd refuses both
    NoJournal,   \* there is no journal file
    Unreadable,  \* the journal file is there without its two lines
    Faults       \* the faults of the environment that can happen

(***************************************************************************)
(* A call into the environment fails only if its name is in Faults.        *)
(*   "nandRead"      VwiiNand::ReadFile returns false                      *)
(*   "nandWrite"     a write of new content fails, at the open or halfway  *)
(*   "restoreWrite"  a write of a backup fails, at the open or halfway     *)
(*   "misread"       the NAND reads back something else than was written   *)
(*   "flush"         FSAFlushVolume fails                                  *)
(*   "writeBack"     what was written reaches the flash at the flush only  *)
(*   "sdSave"        a backup cannot be written, or only part of it        *)
(*   "sdLoad"        a backup cannot be read                               *)
(*   "journalOpen"   the journal cannot be created                         *)
(*   "journalWrite"  the journal is created but its lines cannot be written*)
(*   "journalRemove" the journal cannot be removed                         *)
(*   "download"      a download, its decoding or the container update fails*)
(***************************************************************************)
AllFaults ==
    {"nandRead", "nandWrite", "restoreWrite", "misread", "flush", "writeBack",
     "sdSave", "sdLoad", "journalOpen", "journalWrite", "journalRemove", "download"}

ASSUME StorageAssumption ==
    /\ Torn \notin Content
    /\ NoFile \notin Content
    /\ NoFile # Torn
    /\ NoJournal \notin Files
    /\ Unreadable \notin Files
    /\ Unreadable # NoJournal
    /\ Faults \subseteq AllFaults

VARIABLES
    nand,     \* what a read of each file returns
    flash,    \* what of it has reached the flash and survives a power loss
    backup,   \* each file's backup on the SD card
    journal   \* the file the journal names, NoJournal or Unreadable

storageVars == <<nand, flash, backup, journal>>

CanFail(fault) == fault \in Faults

StorageTypeOK ==
    /\ nand \in [Files -> Content \cup {Torn}]
    /\ flash \in [Files -> Content \cup {Torn}]
    /\ backup \in [Files -> Content \cup {Torn, NoFile}]
    /\ journal \in Files \cup {NoJournal, Unreadable}

(***************************************************************************)
(* The console before the plugin's first run: every file is whole, the SD  *)
(* card holds nothing of ours.                                             *)
(***************************************************************************)
StorageInit ==
    /\ nand \in [Files -> Content]
    /\ flash = nand
    /\ backup = [f \in Files |-> NoFile]
    /\ journal = NoJournal

-----------------------------------------------------------------------------
(***************************************************************************)
(* The NAND.                                                               *)
(***************************************************************************)

\* Chunks go through to the flash at once unless the volume caches them.
ReachesFlash == IF CanFail("writeBack") THEN flash' = flash ELSE flash' = nand'

\* VwiiNand::WriteFile with the file open "r+" and the first chunk written: the
\* file is not truncated first, so it is now part new and part old.
BeginWrite(f) ==
    /\ nand' = [nand EXCEPT ![f] = Torn]
    /\ ReachesFlash

\* VwiiNand::WriteFile past its last chunk.
FinishWrite(f, content) ==
    /\ nand' = [nand EXCEPT ![f] = content]
    /\ ReachesFlash

\* VwiiNand::Flush, and the flush implied by unmounting the volume.
FlushVolume == flash' = nand

\* A Flush after a write: no caller looks at its result.
TryToFlush == FlushVolume \/ (CanFail("flush") /\ UNCHANGED flash)

\* A power loss keeps what reached the flash; a file whose newest bytes had not
\* may come back old, new or part of each.
AfterPowerLoss(f) ==
    IF nand[f] = flash[f] THEN {nand[f]} ELSE {nand[f], flash[f], Torn}

\* f holds, or a power loss now could leave it holding, neither version.
AtRisk(f) == Torn \in AfterPowerLoss(f)

-----------------------------------------------------------------------------
(***************************************************************************)
(* The SD card.                                                            *)
(***************************************************************************)

\* SaveToSd has opened the backup "wb", which empties it, and perhaps written
\* some of it.
BeginSave(f) ==
    \E partial \in {NoFile, Torn} : backup' = [backup EXCEPT ![f] = partial]

FinishSave(f, content) == backup' = [backup EXCEPT ![f] = content]

\* LoadFromSd without its look at the size.
AlwaysLoadable(f) == TRUE

\* LoadFromSd has a file with at least one byte to return. Nothing tells a
\* backup that was cut short from a whole one.
Loadable(f) == backup[f] # NoFile

\* guard::OpenJournal opens the journal "w", which empties it, then writes its
\* two lines; the results of fprintf, fflush and fclose are not looked at.
TruncateJournal == journal' = Unreadable

WriteJournal(f) ==
    \/ journal' = f
    \/ CanFail("journalWrite") /\ journal' = Unreadable

\* guard::CloseJournal, which does not look at what std::remove returns and does
\* nothing at all once the card is gone.
CloseJournal ==
    \/ journal' = NoJournal
    \/ CanFail("journalRemove") /\ UNCHANGED journal
=============================================================================
