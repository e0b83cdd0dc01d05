------------------------------- MODULE Image -------------------------------
(***************************************************************************)
(* vff::Image (vff.cpp): FAT files inside a container's bytes. FatFs and   *)
(* the image it works on are global, and two threads construct Images: the *)
(* background job for the containers and mailboxes it changes (RunPipeline *)
(* in main.cpp, DeliverRaw and ClearFromOutbox in mail.cpp), and the       *)
(* menu's "Copy mailboxes to SD" (RunDumpMail), which only lists.          *)
(***************************************************************************)
EXTENDS VffGeometry, FiniteSets

CONSTANTS
    Job, Tool,   \* the two threads
    None,        \* nullptr
    Gone,        \* a vector that has been destroyed
    Names,       \* the names of files inside a container
    Headers      \* the containers there are

Users == {Job, Tool}

ASSUME ImageAssumption ==
    /\ Job # Tool /\ None \notin Users \cup {Gone} /\ Gone \notin Users
    /\ None \notin Geometries /\ None \notin Names \X (Users \cup {Gone})
    /\ Headers \subseteq [vff : BOOLEAN, bigEndian : BOOLEAN, volume : Nat,
                          cluster : Nat, size : Nat]

VARIABLES
    mounted,   \* g_buf: whose buffer FatFs reads and writes
    volume,    \* g_fatfs once it is filled in, None while its fs_type is 0
    image,     \* each thread's Image: none, in its constructor, m_mounted or not
    stage,     \* what each thread has its Image for
    header,    \* the container in each thread's buffer
    files,     \* the files in each buffer
    units,     \* job.units, or `sent`: the files the job is to store, or to delete
    todo,      \* the ones it has not come to
    open,      \* the file it is writing and the buffer it was opened in
    all_ok,    \* all_ok
    access,    \* the buffer in which disk_read or disk_write of each thread found the sector
    refused,   \* history: the messages f_unlink failed to delete although it was mounted
    shared     \* history: another Image existed during the job's work on this buffer

sessionVars == <<stage, header, units, shared>>
writeVars == <<todo, open, all_ok, refused>>
vars == <<mounted, volume, image, files, access, sessionVars, writeVars>>

\* A file's state: what the container had, cut by a write that is not over, as
\* downloaded, or gone. All of a buffer's files may be harmed by a write meant for
\* another.
FileStates == {"before", "cut", "stored", "deleted", "harmed"}

TypeOK ==
    /\ mounted \in Users \cup {None}
    /\ volume \in Geometries \cup {None}
    /\ image \in [Users -> {"none", "checked", "mounting", "ok", "failed"}]
    /\ stage \in [Users -> {"idle", "list", "apply", "verify", "deliver", "retire", "commit"}]
    /\ header \in [Users -> Headers]
    /\ files \in [Users -> [Names -> FileStates]]
    /\ units \subseteq Names
    /\ todo \subseteq units
    /\ open \in (Names \X (Users \cup {Gone})) \cup {None}
    /\ all_ok \in BOOLEAN
    /\ access \in [Users -> Users \cup {Gone, None}]
    /\ refused \subseteq units
    /\ shared \in BOOLEAN

Untouched == [n \in Names |-> "before"]

Init ==
    /\ mounted = None /\ volume = None
    /\ image = [u \in Users |-> "none"]
    /\ stage = [u \in Users |-> "idle"]
    /\ header \in {[u \in Users |-> h] : h \in Headers}
    /\ files = [u \in Users |-> Untouched]
    /\ units = {} /\ todo = {} /\ open = None
    /\ all_ok = TRUE /\ refused = {} /\ shared = FALSE
    /\ access = [u \in Users |-> None]

-----------------------------------------------------------------------------
(***************************************************************************)
(* The code around the Images.                                             *)
(***************************************************************************)

\* The job has read a container, lists it first ("BEFORE") and then stores its units;
\* or a mailbox, and goes straight to storing one message or to deleting those that
\* were sent.
ReadContainer ==
    /\ stage[Job] = "idle"
    /\ \E h \in Headers, first \in {"list", "deliver", "retire"},
          names \in SUBSET Names \ {{}} :
           /\ first = "deliver" => Cardinality(names) = 1
           /\ stage' = [stage EXCEPT ![Job] = first]
           /\ header' = [header EXCEPT ![Job] = h]
           /\ units' = names /\ todo' = names
    /\ files' = [files EXCEPT ![Job] = Untouched]
    /\ all_ok' = TRUE
    /\ refused' = {}
    /\ shared' = (image[Tool] # "none")
    /\ UNCHANGED <<mounted, volume, image, open, access>>

\* RunDumpMail has read one of the two mailboxes.
ReadMailbox ==
    /\ stage[Tool] = "idle"
    /\ \E h \in Headers : header' = [header EXCEPT ![Tool] = h]
    /\ files' = [files EXCEPT ![Tool] = Untouched]
    /\ stage' = [stage EXCEPT ![Tool] = "list"]
    /\ UNCHANGED <<mounted, volume, image, access, units, shared, writeVars>>

\* A thread's vector is destroyed: an access on its way to it will find it gone.
Forget(u) == access' = [v \in Users |-> IF access[v] = u THEN Gone ELSE access[v]]

\* The buffer leaves for NAND.
Commit ==
    /\ stage[Job] = "commit"
    /\ stage' = [stage EXCEPT ![Job] = "idle"]
    /\ Forget(Job)
    /\ UNCHANGED <<mounted, volume, image, files, header, units, shared, writeVars>>

\* The next thing a thread does once its Image is gone: a container that could not
\* be mounted, or of which a unit failed, is left untouched; a message needs no
\* second mount.
AfterImage(u) ==
    IF u = Tool \/ (image[Job] = "failed" /\ stage[Job] # "list") \/ ~all_ok THEN "idle"
    ELSE IF stage[Job] = "list" THEN "apply"
    ELSE IF stage[Job] = "apply" THEN "verify"
    ELSE "commit"    \* verified, a message stored, or the sent ones retired

-----------------------------------------------------------------------------
(***************************************************************************)
(* Image::Image and Image::~Image.                                         *)
(***************************************************************************)

\* The constructors of two threads can interleave: between the look at g_buf,
Construct(u) ==
    /\ stage[u] \in {"list", "apply", "verify", "deliver", "retire"}
    /\ image[u] = "none"
    /\ image' = [image EXCEPT ![u] = IF mounted = None THEN "checked" ELSE "failed"]
    /\ shared' = (shared \/ (u = Tool /\ stage[Job] # "idle"))
    /\ UNCHANGED <<mounted, volume, stage, header, files, access, units, writeVars>>

\* the assignment to g_buf with the empty g_fatfs that f_mount registers,
Claim(u) ==
    /\ image[u] = "checked"
    /\ mounted' = u
    /\ volume' = None
    /\ image' = [image EXCEPT ![u] = "mounting"]
    /\ UNCHANGED <<files, access, sessionVars, writeVars>>

\* and PopulateFatFs with its outcome. f_unmount empties g_fatfs.
Mount(u) ==
    /\ image[u] = "mounting"
    /\ IF Accepts(header[u])
         THEN /\ volume' = Geometry(header[u])
              /\ image' = [image EXCEPT ![u] = "ok"]
              /\ UNCHANGED mounted
         ELSE /\ mounted' = None
              /\ volume' = None
              /\ image' = [image EXCEPT ![u] = "failed"]
    /\ UNCHANGED <<files, access, sessionVars, writeVars>>

\* Nothing is left for the Image to do: a listing may fail or not, units are stored
\* until one fails, messages are deleted to the last.
Finished(u) ==
    /\ image[u] \in {"ok", "failed"}
    /\ access[u] = None
    /\ stage[u] \in {"apply", "deliver", "retire"} /\ image[u] = "ok" =>
           open = None /\ (todo = {} \/ ~all_ok)

\* ~Image that gives the volume back and leaves g_buf.
DestroyVolume(u) ==
    /\ Finished(u)
    /\ volume' = IF image[u] = "ok" THEN None ELSE volume
    /\ image' = [image EXCEPT ![u] = "none"]
    /\ stage' = [stage EXCEPT ![u] = AfterImage(u)]
    /\ IF AfterImage(u) = "idle" THEN Forget(u) ELSE UNCHANGED access
    /\ UNCHANGED <<mounted, files, header, units, shared, writeVars>>

\* ~Image unmounts what it mounted, but clears g_buf whoever set it.
Destroy(u) ==
    /\ Finished(u)
    /\ volume' = IF image[u] = "ok" THEN None ELSE volume
    /\ mounted' = None
    /\ image' = [image EXCEPT ![u] = "none"]
    /\ stage' = [stage EXCEPT ![u] = AfterImage(u)]
    /\ IF AfterImage(u) = "idle" THEN Forget(u) ELSE UNCHANGED access
    /\ UNCHANGED <<files, header, units, shared, writeVars>>

-----------------------------------------------------------------------------
(***************************************************************************)
(* FatFs reads and writes sectors. disk_read and disk_write look at g_buf  *)
(* in SectorRange and copy afterwards, with no lock in between; the build  *)
(* loads g_buf for both at once, and one that did not could find it null.  *)
(***************************************************************************)

\* FatFs answers: disk_status finds a g_buf and fs_type is set. The volume has id 0
\* every time, so that a file opened before it changed still counts.
Ready == mounted # None /\ volume # None

Applying == stage[Job] \in {"apply", "deliver"} /\ image[Job] = "ok" /\ all_ok
Retiring == stage[Job] = "retire" /\ image[Job] = "ok"

\* SectorRange finds the sector in the buffer.
FindSector(u) ==
    /\ image[u] = "ok" /\ access[u] = None
    /\ \/ stage[u] \in {"list", "verify"}
       \/ u = Job /\ (Applying \/ Retiring) /\ todo # {}
    /\ Ready
    /\ access' = [access EXCEPT ![u] = mounted]
    /\ UNCHANGED <<mounted, volume, image, files, sessionVars, writeVars>>

\* disk_read copies from it, for the listing or before a write.
ReadSector(u) ==
    /\ access[u] # None
    /\ access' = [access EXCEPT ![u] = None]
    /\ UNCHANGED <<mounted, volume, image, files, sessionVars, writeVars>>

\* disk_write copies to it.
WriteSector == access[Job] # None /\ access' = [access EXCEPT ![Job] = None]

\* What a sector harms that was meant for another buffer. What was one that is gone can
\* be part of any by now, or of none.
Astray(b) ==
    LET Harmed(v) == [files EXCEPT ![v] = [n \in Names |-> "harmed"]]
    IN  IF b = Gone THEN {files} \cup {Harmed(v) : v \in Users} ELSE {Harmed(b)}

\* The same, where the buffer is there, for what becomes of one file in it.
Change(b, n, state) ==
    files' \in IF b = Gone THEN Astray(b) ELSE {[files EXCEPT ![b][n] = state]}

-----------------------------------------------------------------------------
(***************************************************************************)
(* Image::WriteFile.                                                       *)
(***************************************************************************)

\* f_open(FA_CREATE_ALWAYS) empties a file that is there.
OpenUnit(n) ==
    /\ Applying /\ open = None /\ n \in todo
    /\ WriteSector
    /\ Change(access[Job], n, "cut")
    /\ open' = <<n, access[Job]>>
    /\ UNCHANGED <<mounted, volume, image, sessionVars, todo, all_ok, refused>>

\* The sector at hand is in the buffer the file was opened in, with all of the file
\* that has been written so far.
InItsBuffer ==
    /\ access[Job] = open[2] /\ open[2] # Gone
    /\ files[open[2]][open[1]] = "cut"

\* A sector of one of f_write's chunks of 32K, or of f_close but for the last one.
\* The clusters are those of the image the file was opened in.
WriteChunk ==
    /\ Applying /\ open # None
    /\ WriteSector
    /\ files' \in IF InItsBuffer THEN {files} ELSE Astray(access[Job])
    /\ open' = IF InItsBuffer THEN open ELSE <<open[1], Gone>>
    /\ UNCHANGED <<mounted, volume, image, sessionVars, todo, all_ok, refused>>

\* The directory entry that f_close writes last.
StoreUnit ==
    /\ Applying /\ open # None
    /\ WriteSector
    /\ IF InItsBuffer THEN Change(access[Job], open[1], "stored")
                      ELSE files' \in Astray(access[Job])
    /\ todo' = todo \ {open[1]}
    /\ open' = None
    /\ UNCHANGED <<mounted, volume, image, sessionVars, all_ok, refused>>

\* A failed write taken for a short one.
IgnoreUnitFailure ==
    /\ Applying /\ access[Job] = None
    /\ todo' = todo \ (IF open = None THEN {} ELSE {open[1]})
    /\ open' = None
    /\ UNCHANGED <<mounted, volume, image, files, access, sessionVars, all_ok, refused>>

\* The download or the decoding fails, the file cannot be opened, or the volume is
\* full: the units stored so far and a file cut short stay in the buffer.
UnitFails ==
    /\ Applying /\ todo # {} /\ access[Job] = None
    /\ open' = None
    /\ all_ok' = FALSE
    /\ UNCHANGED <<mounted, volume, image, files, access, sessionVars, todo, refused>>

-----------------------------------------------------------------------------
(***************************************************************************)
(* Image::DeleteFile, whose result ClearFromOutbox does not look at.       *)
(***************************************************************************)

\* f_unlink in whatever FatFs is working on. A file that is not there is as good as
\* deleted.
DeleteFile(n) ==
    /\ Retiring /\ n \in todo
    /\ WriteSector
    /\ Change(access[Job], n, "deleted")
    /\ todo' = todo \ {n}
    /\ UNCHANGED <<mounted, volume, image, sessionVars, open, all_ok, refused>>

\* The volume does not answer, or f_unlink refuses: a file that is read-only, a chain
\* of clusters it cannot follow. The message stays and its entry goes all the same.
DeleteFails(n) ==
    /\ Retiring /\ n \in todo /\ access[Job] = None
    /\ todo' = todo \ {n}
    /\ refused' = refused \cup {m \in {n} : Ready}
    /\ UNCHANGED <<mounted, volume, image, files, access, sessionVars, open, all_ok>>

Next ==
    \/ ReadContainer \/ ReadMailbox \/ Commit
    \/ \E u \in Users :
          Construct(u) \/ Claim(u) \/ Mount(u) \/ Destroy(u) \/ FindSector(u) \/ ReadSector(u)
    \/ \E n \in Names : OpenUnit(n) \/ DeleteFile(n) \/ DeleteFails(n)
    \/ WriteChunk \/ StoreUnit \/ UnitFails

Spec == Init /\ [][Next]_vars

-----------------------------------------------------------------------------
(***************************************************************************)
(* Properties.                                                             *)
(***************************************************************************)

\* The buffer "must outlive the Image". Whatever order two threads' constructors and
\* destructors come in, g_buf is null or the buffer of an Image that exists; and no
\* access reaches a vector that is gone, unless both threads had an Image: ~Image of
\* the one takes away what disk_read or disk_write of the other has just found.
OnlySharedDangles ==
    /\ mounted # None => image[mounted] \in {"mounting", "ok"}
    /\ \A u \in Users : access[u] = Gone => shared

\* The same without the exception.
NeverDangles == \A u \in Users : access[u] # Gone

\* Whenever FatFs answers, the regions of the volume it has been given are a FAT
\* volume of the very buffer it reads and writes.
FitsItsBuffer == Ready => Fits(volume, header[mounted].size)

\* While a single Image exists, whatever the ones before it left in the globals, for
\* containers with clusters of whole sectors: with smaller ones, which PopulateFatFs
\* accepts, the FATs it makes room for can be shorter than their entries.
VolumeFits ==
    /\ \E u \in Users : image[u] = "none"
    /\ Ready => WholeSectors(header[mounted])
    => FitsItsBuffer

\* Every unit is stored, or every message that was sent is gone but for those that
\* f_unlink refused to delete.
Complete ==
    \/ \A n \in Names : files[Job][n] = IF n \in units THEN "stored" ELSE "before"
    \/ \A n \in Names : files[Job][n] = IF n \in units \ refused THEN "deleted" ELSE "before"

\* While no other Image existed, what leaves for NAND holds every unit, or none of the
\* messages the index forgets that could be deleted, and nothing else has changed: "any
\* failure abandons the whole container", which a deletion that fails does not.
CompleteWhenAlone == stage[Job] = "commit" /\ ~shared => Complete

\* The same with the menu's tool on its own thread.
CompleteWhenCommitted == stage[Job] = "commit" => Complete

\* Without the exception: the index forgets no message that the mailbox still holds.
RetiredAreGone == stage[Job] = "commit" /\ ~shared => refused = {}

\* "Only ONE Image may exist at a time."
OneImage == Cardinality({u \in Users : image[u] = "ok"}) <= 1

\* A write that fails leaves the buffer untouched.
FailedWriteLeavesBuffer ==
    [][all_ok /\ ~all_ok' => \A n \in todo : files'[Job][n] = "before"]_vars
=============================================================================
