# WUC24, specified

WUC24 is a Wii U plugin (Aroma/WUPS) that does WiiConnect24's work in the
background of the Wii U: it downloads the content of the Wii's channels, writes
it into their containers on the vWii NAND, fetches the mail of the virtual Wii
into its inbox and sends what waits in its outbox. The Wii U has no second copy of
these files, a title change or a power cut can end the plugin at any moment, and
no test on a development machine reaches that: the host tests (`src/tools/`) cover
parsing, images, AES and DNS packets. This directory states what the plugin promises
about those files, checks it with TLC and proves part of it with TLAPS.

Paths below are relative to `src/source/`.

## 1. The system

| part | state | operations | what makes it correct |
|---|---|---|---|
| channel pipeline, `main.cpp` `BuildJobs`, `RunPipeline`, `RestoreContainer` | container files on the NAND, a backup of each on SD, `buf`/`original_bytes` in memory | per container: read, back up, download and rebuild, compare, journal, write, flush, read back, restore on failure | whatever fails or is cut off, a container is whole in its old or its new version once the next recovery is over |
| journal and recovery, `guard.cpp` | the file `wuc24_write_journal.txt` on SD | `OpenJournal`, `CloseJournal`, `RecoverIfNeeded` | a torn file is named by the journal and has a whole backup; the repair comes before any other write |
| stop flag and critical section, `guard.cpp` | `s_stop`, `s_critical` | `RequestStop`, `ClearStop`, `CriticalSection`, `WaitForCriticalSection` | no write starts after the request but the one at hand; an exit waits for that one |
| background thread, `autorun.cpp` | `s_thread`, `s_running` | `Start`, `Stop`, `JobEntry` | one job at a time; a block is freed after its thread's end; an exit never hangs |
| hooks and menu, `main.cpp` | `s_autorun`, `s_lastRun` and their copies in WUPS storage | `INITIALIZE_PLUGIN`, `ON_APPLICATION_START`, `..._REQUESTS_EXIT`, `..._ENDS`, `DEINITIALIZE_PLUGIN`, "Update now", "Update at boot" | only a full run starts the cooldown; a cut write is repaired |
| inbox, `mail.cpp` `DeliverRaw`, `main.cpp` `RunFetchMail` | two files, the index `wc24recv.ctl` and the mailbox `wc24recv.mbx`; copies on SD | back both up, receive, copy to SD, deliver each message with two journalled writes | a cut leaves no entry without its message, but where a recovery undoes more than the write it is for; a message is delivered at most once |
| outbox, `mail.cpp` `ReadOutbox`, `ClearFromOutbox`, `main.cpp` `RunSendMail` | `wc24send.ctl`, `wc24send.mbx` | back up, read, send, clear what was taken with two journalled writes | a message stays queued until the server has it, and is sent once |
| mail server protocol, `mailfetch.cpp` | what the server keeps (outside) | `Check`, `Receive` (`receive.cgi` hands out and forgets), `Send` | a lost answer loses or repeats nothing the code could have kept; one that breaks off delivers at most one half message, its last |
| vWii NAND, `nand.cpp` | mount state of the one volume, the volume's cache | the constructor mounts, `ReadFile`, `WriteFile`, `Flush`, the destructor unmounts | what `WriteFile` reported is on the medium; whoever loses the volume comes to an end all the same |
| tools of the menu, `main.cpp` `RunScan`, `RunMailConfig`, `RunMailCheck`, `RunDumpMail`, `RunRestore` | a `VwiiNand` of their own; `RunRestore` writes containers | run on the menu's thread, without a lock, beside the job | the journal still covers what the job writes, unless the tool and the job get into each other's writes |
| job list, `tasks.cpp`, `main.cpp` `BuildJobs` | the channel switches `s_channels` | `ScanDlTasks`, `ExpandTask`, grouping by container | one job per container, each target once, every unit with its own task's flags |
| VFF images, `vff.cpp` | the mounted image, a global | `Image` reading and writing FAT files in a container's bytes | sectors map inside the image; one image at a time |
| message format, `mailmsg.cpp`, `wc24.h` | none | `BuildMessage`, `AnalyseMessage`, packed index fields, dates | an index entry says where its message is; what was built parses back |
| HTTP, `net.cpp` | sockets | request, then read until the peer closes | a connection that breaks is not taken for the end of a response; one that is closed early is, and damages no more than its last part |
| DNS, `dns.cpp` | - | query and answer | never reached: see section 5 |
| decoding, `wc24dec.cpp`, `aes.cpp` | none | strip the header, decrypt | only whole content in the clear gets into a container |
| configuration, notifications, log | - | reading a record; output | - |

Interactions. The hooks run on the title's own thread and share `s_thread`,
`s_running`, `s_stop` and `s_critical` with the job's thread. The job's parts run in
the order `RecoverIfNeeded`, `RunSendMail`, `RunFetchMail`, `RunPipeline`
(`AutorunJob`, `main.cpp:1133`). All of them share one journal, which names one file,
and each keeps its own backups. vWii, a different operating mode of the same
console, uses the same files whenever the Wii U side is not running.

What is hard here: a power cut or the end of the process between any two steps; a
stop that arrives between a check and the write it guards; two files that must change
together and are written one after the other; one step of several failing; backups
that have become old by the time a recovery uses them; vWii starting before the
recovery; a job that hangs in a download that has no timeout. `PROJECT.json` lists
each such hazard with its line and the properties that would show it going wrong.

## 2. The modules

```
Storage <- Recovery <- ContainerUpdate <- MCContainerUpdate, MenuTools <- MCMenuTools
                    \          |                             \- ContainerUpdate_proofs
                     \         \-> AtomicContainers (refined)
                      \- MailStore <- Inbox  <- MCInbox    -> AtomicInbox (refined)
                          |       \- Outbox <- MCOutbox   -> AtomicOutbox (refined)
                          \- MailStore_proofs <- Inbox_proofs, Outbox_proofs
Lifecycle <- MCLifecycle, Lifecycle_proofs
VffGeometry <- Image <- MCImage, Image_proofs
Transfer <- MCTransfer, Transfer_proofs    -> AtomicOutbox (refined)
JobList <- MCJobList, JobList_proofs
PackedField <- MailMessage <- MCMailMessage
            \- Inbox_proofs
```

**Storage** is the NAND and the SD card as the writers see them. `nand[f]` is what
reading file `f` returns, `flash[f]` what has reached the medium: `Content`, or `Torn`
for part of one version and part of another, which is what `WriteFile` leaves
between its first and last chunk because it opens the file `"r+"`. `backup[f]` is the file that
`SaveToSd` writes; it is opened `"wb"`, so it can be empty (`NoFile`) or short (`Torn`),
and `LoadFromSd` refuses only an empty one. `journal` names a file, or is `Unreadable`
(created and still empty), or absent; removing it may fail, which `CloseJournal` does not look at. The constant `Faults` says which operations may fail.

**Recovery** is `RecoverIfNeeded` step by step, the stop flag, and the environment:
`ProcessEnds` (the title is torn down, `Stop` having given up after its waits),
`PowerLoss`, `Boot`. It is the same recovery for containers and for mail.

**ContainerUpdate** is `RunPipeline`: one action per step that another process, a cut or a
failure can come between. Where the code goes on to the next container, so does the action; where
it removes or keeps the journal, so does the action. `ChannelWrites` is a channel
using its container in vWii while the plugin is off.
**AtomicContainers** is what it promises: a container changes in single steps, whole version to whole
version. The mapping (`Settled`) reads a file the journal names as its backup, and
every other file as itself: that is what the next recovery will make of it.

**MailStore** has what the inbox and the outbox share: a box of two files, its
backup, and the two journalled writes in a row (in either order: the inbox's
mailbox goes first, `mail.cpp:160`, and so does the outbox's, `mail.cpp:365`).
**Inbox** adds the server, the copies on SD and the delivery loop of
`RunFetchMail`; **Outbox** adds reading, sending and clearing. **AtomicInbox** and **AtomicOutbox**
are what the user is promised, in terms of messages only.

**Lifecycle** is the other view of the same job: the hooks, the menu, the thread and
the flags interleaved, with the job reduced to the order of its parts, where each looks at the stop flag, and how many NAND writes it makes in a row. A pipeline that gives up before its first container
(`main.cpp:421`) is a part of its own, after which `AutorunJob` goes on as after a full one. `thread`,
`running`, `stop` and `critical` are the variables of the source; `alive` and `allocated` are what the
operating system and the heap know of the threads.

**VffGeometry** is the arithmetic of `PopulateFatFs` and `SectorRange`, with `Fits`, what a
FAT volume inside a file of some size has to satisfy; FatFs checks none of it because the plugin fills in the
`FATFS` by hand. **Image** is `vff::Image` under the two threads that construct one: the job, for each container and
mailbox it changes, and the menu's "Copy mailboxes to SD". `mounted` is `g_buf`, `volume` is `g_fatfs`, and both
are globals. The constructor is three steps (the look at `g_buf`, taking it, filling in the volume), since the
job's thread has any core's affinity and no lock is taken. FatFs works sector by sector: `disk_read` and `disk_write`
first find the sector in `g_buf` (`FindSector`) and then copy (`ReadSector`, or one of the actions that write), and the other thread's destructor, or the end of its
vector, can come between (`access`, `Forget`). So `WriteFile` is the write that empties the file (`OpenUnit`), those of its chunks (`WriteChunk`, any
number of them) and the directory entry that `f_close` writes last (`StoreUnit`); it can fail before each. `DeleteFile` is one write, or
fails: because the volume does not answer, or because `f_unlink` refuses (`refused`); `ClearFromOutbox` (`mail.cpp:329`) looks at neither. A write that goes to a buffer
other than the one its file was opened in harms that buffer, and one that goes to a vector that is gone harms any or none.

**MenuTools** composes `ContainerUpdate` with the menu's one-shot tools. A `VwiiNand` mounts the volume in its constructor and
unmounts it by name in its destructor (`nand.cpp:16`, `nand.cpp:51`); there is one volume, whoever uses it. So each of
the job's actions is put into one of three groups: those that need the volume, those that are the outcome of not having it, and
those that use the SD card or memory only. An action of the second group is possible once the volume was taken from under the job; FSA may also
refuse to unmount while files are open, which `Unmount` leaves open. `RunRestore` is there statement by statement, with the
two halves of its `WriteFile`; the other tools only read. Building a container needs the volume too, as the key of encrypted content is read from the NAND (`wc24pubk.mod`).
`mixed` says that the job and `RunRestore` write chunks into the same file. `spoiled` is the set of containers to which something happened that
no journal covers (`Spoils` lists what), until one is restored whole (`Heals`).

**Transfer** is the inside of what `Outbox`, `Inbox` and `ContainerUpdate` take for one step, an exchange over HTTP, with the server and the connection at
the other end. A request is two pieces and an answer a sequence of pieces: the status line, then the lines or the parts of the body. The
connection can break after each, reported to the client (`recv` returns less than 0) or not (it returns 0, as at the end of an answer). What
`Check`, `Receive`, `Send` and `Decode` make of what was read are operators over it. An answer in chunks has a chunk's size where its body should begin; that a
size may also come in the middle of a line or a part is left out. Two history variables record what the client cannot know: `lost`, the messages on a connection when it ended or in
an answer in chunks, and `unheard`, the refused messages whose line an early close kept back. It refines `AtomicOutbox`, with what the server
took, or refused unheard, for `accepted`.

**JobList** is `ScanDlTasks` and `BuildJobs`, a step per entry, per task and per unit, since the menu's thread can turn a channel's
switch between any two. A file name is a stem and the numbers behind it; a title code is four bytes, because `"%.4s"` and the comparison of three
characters look at them. `ParentOf` is how `RunPipeline` finds a unit's task again.

**MailMessage** is `BuildMessage`, `AnalyseMessage`, and the entry that `DeliverRaw` makes of their spans. A text is a sequence of
tokens (the markers the parser looks for, and values), each with a width in bytes, so that searching is searching for a sequence and an
offset is a sum. `outcome` says what became of the text: indexed, refused, or the end of the process, for a header name one byte into the text makes
`AnalyseMessage` throw (`mailmsg.cpp:109`, `at - 2` wraps around) on a thread that catches nothing (`Abort`). The properties say where the values are by the lines of the header and the parts of the body, which the code never computes.
**PackedField** is the pair of macros that put an offset and a length into one 32-bit field of an entry (`wc24.h`).

`PROJECT.json` ("map") gives the lines behind every definition.

## 3. What is checked

| run | question | distinct states |
|---|---|---|
| `ContainerUpdate` | with every fault the code is built to mask, is the update atomic, does the recovery come first, does every run end? | 35 thousand |
| `ContainerUpdateFaults` | with every fault at once, is a backup still what the container held? | 82 thousand |
| `Lifecycle` | do exits complete, is nothing written once they are told the job is over, is at most the unit at hand written after the request, is a run that a stop interrupted tried again at the next boot? | 862 thousand |
| `Inbox` | with batches of two and vWii started at any time, is each delivery one step for both files, and which entries can a recovery leave without a message? | 706 thousand |
| `Outbox` | with vWii started at any time, is a message queued until the server has it, unless it was written while a recovery was due? | 1.47 million |
| `Image` | does it take two Images for FatFs to reach a buffer that is gone, does the volume fit its buffer, and does a job left alone store all its units, or delete all it sent that can be deleted, or none? | 1.2 million |
| `MenuTools` | with the tools beside the job at any time, which accidents alone can leave a torn container unrecoverable? does a run end that loses its volume? | 71 thousand |
| `Transfer` | wherever a connection breaks or is closed, with answers in chunks or not: which mail can be retired, delivered torn or lost, which content stored damaged? is only a silent server waited for? | 765 thousand |
| `JobList` | is there one job per container, one unit per file, the first of its providers, each with its own task; and is everything there that is on? | 365 thousand |
| `MailMessage` | are the fields and the body of an entry where the message has them, and does a built message parse back? | 32 thousand |

Two more runs are disagreements between the code and what its comments say
of it. Each checks the one property that states the comment, and TLC shows the run that breaks it:

- `LifecycleTwoThreads`: `JobEntry` lowers `s_running` before its thread has returned;
  "Update now" then frees that thread's block and starts another (`autorun.cpp:31`).
- `ImageShared`: while the job works on a mailbox or a container the menu copies the mailboxes. The first copy's `Image` is
  refused, but its destructor clears `g_buf` (`vff.cpp:249`). In the shortest run the job is retiring sent mail: its deletions
  fail, nobody looks, and the index forgets messages the mailbox keeps. In another, the menu's second `Image` is mounted and the
  file the job stores next goes into that copy; `WriteFile` reports success, the verification only lists, and the
  container is committed without the file.

### Further configurations

The runs are kept to one per question and component. Beside them there are configurations in which TLC finds a property violated
that the source promises somewhere; the comment at the property quotes it.

| configuration | property | what happens |
|---|---|---|
| `ContainerUpdateFailedRestore` | `TornIsRecoverable` | a write and its restore both fail; `RestoreContainer` returns nothing, so the journal is removed from a torn container (`main.cpp:639`) |
| `ContainerUpdateStaleJournal` | `RunLeavesNoJournal` | a container that reads back wrong is restored and the loop goes on without `CloseJournal` (`main.cpp:658`); the next run puts back a backup the container may have outgrown |
| `ContainerUpdateEmptyJournal` | `WriteIsJournalled` | a journal created on a full card stays empty and counts as opened (`guard.cpp:89`) |
| `LifecycleUnsafeToGo` | `SafeToGo` | the recovery writes outside any critical section |
| `LifecyclePostponed` | `PostponedMeansUntouched` | "nothing was modified" after mail was written, or a recovery |
| `InboxTwoMessages` | `IndexMatchesMailbox` | the backups are taken once per fetch; a cut in the second delivery brings back the mailbox from before the first, which the index still lists |
| `InboxFailedWrite` | `TornIsRecoverable` | `DeliverRaw` closes the journal before it looks at the result of the write (`mail.cpp:177`) |
| `InboxCopyOverwritten` | `OnlyCopyKept` | the next fetch reuses the names of the copies on SD (`main.cpp:779`) |
| `OutboxFull` | `SendsWhatIsQueued` | with more messages queued than one request takes none is ever sent |
| `MenuToolsReaders` | `ReadersDoNoHarm` | a "read-only" tool ends and unmounts the volume in the middle of the job's write; the restore fails as well (`nand.cpp:56`) |
| `TransferEarlyClose` | `NothingIsUnheard` | an answer that ends early lacks the lines that reject messages, and "a missing `cd<N>`" counts as accepted (`mailfetch.cpp:252`) |
| `MailMessageLong` | `FieldsPointAtValues` | a value of 2^12 bytes is packed with the length 0 |

Others differ from one that is there by a line or two and need no file of their own:

| like | with | property violated | what happens |
|---|---|---|---|
| `ContainerUpdate` | `Faults = {}` | `NoWriteAfterStop` | a stop after the last look at the flag does not keep the write from starting |
| `ContainerUpdate` | `Faults = {"restoreWrite"}` | `RepairedFirst` | a recovery whose write fails does not keep the job from carrying on |
| `ContainerUpdate` | `Faults = {"sdLoad"}` | `JournalNotForgotten` | a journal whose backup cannot be read is replaced by the next write's |
| `ContainerUpdate` | `Faults = {"writeBack"}` | `TornIsRecoverable` | the recovery removes its journal before what it restored is flushed |
| `LifecycleUnsafeToGo` | - | `MenuStartRepairs` | the cooldown keeps the Wii U Menu from repairing |
| `LifecycleUnsafeToGo` | - | `CountsOnlyFullRuns` | a pipeline that gave up before its first container starts the cooldown (`main.cpp:421`, `main.cpp:1182`) |
| `Inbox` | `Faults = {"journalOpen"}`, `MaxBatch = 1` | `FailureLeavesBoxAlone` | a delivery that fails between its two writes has changed the mailbox |
| `Inbox` | `Faults = {}`, `MaxBatch = 1` | `IndexMatchesMailbox` | vWii is started first, and the recovery of one file of the pair undoes what it did to both |
| `Outbox` | `Faults = {}`, `Capacity = 2` | `IndexMatchesMailbox` | the mailbox is cleared before the index, which `mail.cpp:168` calls the harmful order |
| `Outbox` | `Faults = {}` | `SentOnce` | an exit between the answer and the first write leaves a message queued that the server has |
| `Outbox` | `Faults = {"nandWrite", "download"}` | `NothingUnsentIsForgotten` | clearing fails halfway and takes the rejected messages with it |
| `Image` | no `SYMMETRY` | `FailedWriteLeavesBuffer` | a `WriteFile` that finds no room has emptied the file |
| `Image` | - | `FitsItsBuffer` | two constructors at once leave one buffer with the other's geometry |
| `Image` | - | `NeverDangles` | the menu's Image is destroyed between the job's check of `g_buf` and its copy of the sector, or the other way round (`vff.cpp:93`) |
| `Image` | - | `RetiredAreGone` | `f_unlink` refuses, `ClearFromOutbox` does not look (`mail.cpp:329`), and the index forgets a message the mailbox still holds |
| `TransferEarlyClose` | - | `NothingTornIsDelivered` | the last part of an answer that is closed early is taken up to the end of what came (`mailfetch.cpp:162`) |
| `MailMessage` | `Fetched <- QuotingBody`, `Written <- NoTexts` | `FieldsPointAtValues` | the name of a header only inside a header line lets the search go on to the first line of the body (`mailmsg.cpp:110`) |
| `MailMessage` | `Fetched <- MarkInText`, `Written <- NoTexts` | `BodyIsThePart` | a text that has the mark of the message-board body in it is shown instead of the part that is marked (`mailmsg.cpp:163`) |
| `MailMessage` | `Fetched <- NoTexts`, `Written <- SubjectWithBoundary` | `ParsesBack` | "boundary=" in a subject is taken for the boundary |
| `MailMessage` | `Fetched <- NoTexts`, `Written <- BodyWithBoundary` | `ParsesBack` | a body with the boundary in it ends there |

### Bounds

- Two containers and two versions: the journal can name the container at hand or
  another one, a backup can be of the version before or of the one now, and nothing
  in the code compares more than two.
- Two thread blocks: `Start` can find the old thread's block still in use; a
  third adds nothing since `s_thread` is a single variable. `Cooldown = 1` and a clock
  up to 2 let a start fall inside the cooldown, after it, and after the clock was set back.
- `MaxUnits = 2`: a stop can come before, in and after a unit that is not the last.
- Mail: three slots and three messages. In the inbox `MaxBatch = 2`, so that a delivery can be undone by a later one of the same fetch and a third message
  comes in a fetch of its own; slots are reused. In the outbox `MaxSend = 2` (the source's 16): batches of one and of two, partly accepted ones, and one that
  is too large all occur. Messages are interchangeable (symmetry). `OutboxFull` does with two slots and `MaxSend = 1`.
- `VWiiFirst = TRUE` in `Inbox` and `Outbox`: vWii may be started while a recovery is due, as nothing keeps the user from it. `InboxTwoMessages` has `FALSE`, so
  that the batch alone is to blame for what it shows. `ContainerUpdate` has no such constant: a channel may always write its container while a recovery is due.
  What it wrote is then lost to the recovery, which the abstract specification allows, and no container is torn by it.
- `MenuTools`: one container, as the journal's naming of another one is `ContainerUpdate`'s question; two versions; the job's NAND
  calls fail for want of the volume only (`VolumeFaults` enables them, `TheJob` guards them).
- `Transfer`: two messages each way, so that an answer can accept one and reject the other, or break between two parts or within one. `AllFaults` are all the failures of the module, at once.
- `JobList`: three entries, which is what it takes for two tasks of a container with another's between them, or for an unused one before two
  providers of a file. An entry's index is its place in the file, as in the console's. The titles differ in region, in their number and in a channel
  without a switch; files in subtasks, in name and in host.
- `MailMessage`: three header lines of seven kinds and up to two parts, whole or broken off; built messages with
  fields that are empty, short and one byte below the limit. `Offsets` and `Lengths` are 1024 and 64 for the source's 2^20 and 2^12:
  nothing but `PackField` depends on them, and that is proved for all values.
- `Image`: two file names, so that a write can fail after another was stored. The containers are those at which
  `PopulateFatFs` decides: too few clusters for the system area and one more, 4084 and 4085 (FAT12 to FAT16), 65524 and 65525 (too many), a volume that
  does not end with a cluster, two sectors and half a sector to the cluster, and headers that are refused. Half a sector is accepted by the code, and
  `VolumeFits` leaves such volumes out (`WholeSectors`): the FATs made room for can then be shorter than their entries. No known container has one.

### Faults

A fault is masked when the code has an answer to it: a backup that cannot be saved, a journal
that cannot be opened, a NAND read or container write that fails, a flush, a download, a verification that fails.
In the mail modules a NAND write that fails is not masked either (`InboxFailedWrite`). For containers five have no answer, and
the atomicity results exclude them: a restore that fails too (`restoreWrite`, `sdLoad`), a journal created on a
full card whose lines are not written (`journalWrite`), one that cannot be removed (`journalRemove`), and a volume that
caches what it was told to write (`writeBack`). The last matters since `RecoverIfNeeded`
removes its journal without a flush. `ContainerUpdateFaults` allows all of them. `Transfer` allows every fault of the network, and `MenuTools` every call that fails for want of the volume.

Where the code has no answer and the run goes through it all the same, a history variable names what may then go wrong, and the property says that nothing else does: `exposed` (Inbox), `late`
(Outbox), `shared` and `refused` (Image), `spoiled` (MenuTools), `lost` and `unheard` (Transfer). What they excuse, the code does not prevent.

### Fairness

`ContainerUpdate` assumes weak fairness of each step of the job except the download
(`build`): the job's thread is scheduled while the title runs, but the HTTP sockets have no timeout
(`net.cpp:46`). So `RunEnds` says that a run ends or waits in a download for ever. `Lifecycle` assumes weak
fairness of the hook's own steps and of a thread's return once it has left the job, and
nothing of the job: `ExitCompletes` therefore holds even if the job hangs. `MenuTools` assumes of the job what
`ContainerUpdate` does and nothing of the menu. `Transfer` assumes weak fairness of the client and nothing of the server and the network, so
`WaitsOnlyForSilence` has the server that never closes as its one exception. Inbox and Outbox check safety only.

## 4. What is proved

TLC answers for the small instances of section 3, the theorems for every value of the constants. Every safety property that a passing
run checks is a theorem. The assumptions below are about the constants, and the configuration of the run
meets them; what happens without those about faults is among the further configurations. The history variables that a property excepts are
part of its statement, and so is `WholeSectors` in `VolumeFits`.

| module | assumption | theorem | property |
|---|---|---|---|
| `ContainerUpdate_proofs` | - | `TypeCorrect`, `BackupsAreOriginal` | `TypeOK`, `BackupIsOriginal` |
| | `FaultsAreMasked` | `TornContainersAreRecoverable`, `RecoveryComesFirst`, `UpdatesAreAtomic` | `TornIsRecoverable`, `RepairedFirst`, `AtomicUpdate` |
| | `JournalIsReliable` | `OnlySpoiledContainersAreLost` | `OnlySpoiledIsLost` |
| `Lifecycle_proofs` | - | `LifecycleTypeCorrect`, `OverrunIsBounded`, `FinishedJobsDoNotWrite`, `RunningJobsKeepTheirStack`, `InterruptedRunsAreRetriedAtBoot` | `TypeOK`, `BoundedOverrun`, `FinishedMeansNoWrite`, `JobKeepsItsStack`, `InterruptedRunsAreRetried` |
| `Inbox_proofs` | - | `InboxTypeCorrect` | `TypeOK` |
| | `FaultsAreMasked` | `InboxIsRecoverable`, `OnlyExposedLoseTheirMessage`, `DeliveryIsAtomic` | `TornIsRecoverable`, `OnlyExposedDangle`, `AtomicDelivery` |
| | - | `PackedFieldsComeApart` | (`PackedField`'s operators) |
| | (in the theorem) | `HeaderValuesAreFound` | (`MailMessage`'s operators) |
| | `HeadersAreClear` | `FieldsAreWhereTheySay` | `FieldsPointAtValues` |
| | `PartsAreClear` | `ShownBodyIsThePart` | `BodyIsThePart` |
| | `WrittenIsClear` | `BuiltMessagesParseBack` | `ParsesBack` |
| `Outbox_proofs` | - | `OutboxTypeCorrect` | `TypeOK` |
| | `FaultsAreMasked` | `OutboxIsRecoverable`, `UnsentStaysQueued` | `TornIsRecoverable`, `NothingUnsentIsForgotten` |
| `Transfer_proofs` | - | `OnlyTakenMailIsRetired`, `OnlyTheLastPartIsTorn`, `OnlyWholeContentIsStored`, `MailIsLostOnlyInTransit` | `RetiresOnlyTaken`, `OnlyTheLastIsTorn`, `StoresWholeContent`, `LostOnlyInTransit` |
| `Image_proofs` | - | `ImageTypeCorrect`, `BufferOutlivesImage`, `MountedVolumeFits`, `AloneMeansComplete` | `TypeOK`, `OnlySharedDangles`, `VolumeFits`, `CompleteWhenAlone` |
| | `WholeSectors(h)` (in the theorem) | `AcceptedGeometryFits` | (`VffGeometry`'s operators) |
| `JobList_proofs` | `TitleAssumption` | `ContainersHaveOneJob`, `FilesHaveOneUnit`, `NothingWantedIsMissed` | `OneJobPerContainer`, `NoFileTwice`, `CoversWhatIsOn` |
| | and `IndexesDiffer` | `UnitsFollowTheirTasks`, `TheFirstIsKept` | `UnitsHaveTheirParent`, `KeepsTheFirst` |

### ContainerUpdate and the tools of the menu

For any set of containers and any set of versions. `BackupIsOriginal` is inductive relative to `TypeOK`, with any faults.

The three results from `FaultsAreMasked` (none of the five faults of section 3) rest on `InvHolds`, `Spec => []Inv`.
`TornIsRecoverable` alone is not inductive:
before the write starts nothing is torn, and nothing in it says that the
journal and the backup are already in place. `Inv` adds what the pipeline knows
at each point:

- `NothingCached`: nothing written waits for a flush, so a power cut changes no file;
- `JournalCoversTorn`: a named file has a whole backup, a torn file is the named one;
- `WholeThere`: where every container is whole;
- `RepairsTheTorn`: the recovery writes the backup of the file the journal names;
- `JournalIsDealtWith`: a journal left by a failed verification names a container this run is
  done with, whose bytes equal its backup, so overwriting that journal loses nothing;
- `JournalNamesCurrent`: from the write on it names the container at hand;
- `BuffersAreWhole` and `BackupIsOriginal`: what is about to be written or restored
  is whole and what was read.

`UpdatesAreAtomic` then shows that each step leaves `Settled` alone or is an `Update`
of the abstract specification.

`OnlySpoiledContainersAreLost` is about `MenuSpec`, where the tools run beside the job. Its invariant `MenuInv` says of each container that is not spoiled
(`Sound`): it is torn only while `RunRestore` writes it or where the job has it in hand under a journal (`TornIsInHand`), the journal names it only with a whole backup
(`JournalIsSound`), and what the job and the tool have in memory of it is whole (`AtHandIsSound`, `RestoreIsSound`). Container by container is what makes it inductive: an accident
in one leaves the others sound. `JobIsOrderly` holds whatever was spoiled, and `Heals` is where a container comes back. The assumption is weaker than for
the job alone, as a backup that cannot be put back is one of the accidents (`JournalIsReliable`: the journal's lines get written, it is removed when it is to be, a
backup can be read, and nothing waits for a flush).

### Lifecycle

For any threads, any cooldown, any number of units, with or without memory for a thread. `BoundedOverrun` says that at most two writes are begun after
the request; it needs `OverrunIsAhead`, a budget: what has been written since the request plus what the part at hand writes in a row
before it looks at the flag again stays within the bound. Parts that do not look at the flag at all, the recovery and the sending, must
therefore start with nothing written. `FinishedMeansNoWrite` and `JobKeepsItsStack` need `JobHasThread`: `s_running` is up exactly while there is a job, and `s_thread` then
has its block, whose thread exists. `InterruptedRunsAreRetried` goes over many runs, cuts and settings of the clock. The title's start gets the job running or finds no memory for its thread (`refused`), unless a full run was recorded within the cooldown. It needs `MissedMeansStop`, that what was passed over for the flag keeps the
flag up until the job is over, which a `Start` in between could spoil by clearing it, and `RecordedAreFull`, that the time of the last run, in memory or
in the storage, is that of a run that passed nothing over.

### Inbox and outbox

For any set of messages, any number of slots, fetches of any size, and vWii started at any time. `MailStore_proofs` has what
both need of their common steps. Here `FaultsAreMasked` excludes failing NAND writes as well, since `DeliverRaw` and `ClearFromOutbox` put nothing back.
`Recoverable` is the counterpart of `Inv`: no journal is left past the recovery but the one of the write at hand (`JournalAtPoint`), a
journal names a file with a whole backup (`JournalIsBacked`), a torn file is the one being written or named (`TornIsNamed`), and both files are backed
up before either is written (`BackedUpFirst`). `InboxTwoMessages` shows the index to go wrong, never a torn file.

What the two files say together needs more:

- in the inbox (`FetchInv`): while slot `s` is written (`Writing`), the box differs from its backups at the slots of this batch only, all of which but `s` are
  exposed, and what is written is the backed-up box with the batch so far and the message at hand. So whichever of the two files a recovery brings back, and whichever is as written, an entry
  without a message is exposed (`Covers`, `BackupIsCovered`). `HandedOverOnce`: no message is both in a mailbox and still to be delivered.
  `DeliveryIsAtomic` follows: of the two writes only the index's changes what slot `s` settles to, and it adds the message at hand.
- in the outbox (`SendInv`): the messages in memory are those in the box (`QueuedAsRead`), the server has what it said it took (`SentIsAccepted`), and
  retiring writes the backed-up box without them (`Retiring`). `SpentInv` is what vWii before a recovery adds: the box and what it settles to have the same
  message in each slot, listed in both, or else only messages that are spent, accepted by the server or written late. For `UnsentStaysQueued` the mailbox's write is the step that takes messages off the
  queue: the index may then still list slots that are empty, which the mapping leaves out.

### Message texts

`FieldsAreWhereTheySay` is about any texts, fetched or built, of any length. `HeaderValuesAreFound` shows
the search through the whole text (`FindHeaderValue`) to agree with the definition by header lines (`ValueOf`): what the search finds is the
least position of one or two tokens, and of those before the end of the headers it is the first header line that begins with the name. That a set of
positions has a least one would be an induction; it follows instead from the well-foundedness of the strict subset relation on finite sets.
`HeadersAreClear` excludes the two cases in which the entry points elsewhere: there is no such header line and the first line of the body begins with the name
(`QuotingBody`), or the value does not fit its packed field (`MailMessageLong`). TLC finds it true of the texts of `MailMessage.cfg`.
`PackedFieldsComeApart`, for any widths of a packed field's halves, follows from the uniqueness of quotient and remainder.

`ShownBodyIsThePart` is about texts with any boundary, of any number of tokens, and any number of parts. The parser looks for the mark first and goes back to
the boundary before it, the definition (`BodyOf`) goes through the parts. They agree under `PartsAreClear`: no part starts among the headers of
another, and every mark after the header of the message is among the headers of a part (`MarkInText` has one in a text). An entry's length in bytes is
compared with that of the same span of the text, so that no sum has to be taken apart.

`BuiltMessagesParseBack` is about fields and bodies of any length. `HeaderText` follows the concatenation of `Before` piece by piece; `HeaderLaid`, `PartLaid` and
`TailLaid` say of the result what the searches need: where each token is, and before it no other that a search would stop at
(`LaidTextIsAnalysed`). `WrittenIsClear` is that no field has a line end or `boundary=` in it, that the body has not the boundary that
`BuildMessage` chooses, and that `From: ` is not one byte wide; without the first two, `SubjectWithBoundary` and `BodyWithBoundary` show what happens. TLC finds
`PartsAreClear` and `WrittenIsClear` true of the texts and messages of `MailMessage.cfg`.

### Transfer

For any finite set of messages, any order of them in an answer and any faults of the network. The lemmas on sequences say what a body contains after
framing, concatenation and truncation. The invariant has three parts besides the types: the server answers only requests it
has all of (`InPhase`); what a connection that was closed kept back is in `unheard` or `lost` (`ClosedIsAccountedFor`); and what an answer says is true of the server as
long as the exchange lasts, that is, every message that was not taken is objected to, every message's end comes right behind its beginning, content is whole
unless it is in chunks (`AnswersAreSound`). A client that takes what it read for an answer has read all that was sent, a prefix of such an answer. That prefix ends inside one message at
most, which is `OnlyTheLastIsTorn`, and lacks only objections that are on the records, which is `RetiresOnlyTaken`. `LostOnlyInTransit` needs in addition
where a message is that nobody has: in the answer of the exchange under way (`OnItsWay`).

### Image

For any containers, whatever their headers, and any file names.

`AcceptedGeometryFits`: for every header with clusters of whole sectors that `PopulateFatFs` accepts, the FATs have an entry
for each cluster, the regions follow one another and every sector is in the file. The lemmas under it say what
rounding up to sectors does and that the table it rounds up is large enough, for FAT12 and FAT16. `PopulateFatFs` does not look at whether
clusters are whole sectors: it accepts a cluster field of 16 and then counts half-sector clusters as sectors.

`VolumeFits` needs `VolumeIsMounted`: as long as one thread has no Image, the other one's
`g_fatfs` and `g_buf` come from the same constructor. It is inductive because a destructor clears `g_buf` whoever set it,
the very thing that `ImageShared` shows to be harmful otherwise. `OnlySharedDangles` needs `AccessIsKnown` besides: a thread finds a sector in its own buffer, which it does not
give up before the access is over, unless both threads had an Image. `CompleteWhenAlone` needs `AloneInv`: as long as no other Image came into being
the job's own has the globals to itself (`JobIsAlone`), a file is open only while units are being stored (`OpenWhileApplying`), and the buffer is
as far as the units that are left say (`WorkIsKnown`): every file that was dealt with is stored, or deleted if it was not refused, the open one is cut, the others are as they were read.

### JobList

For any list of any entries, any channels and any turning of their switches. `TitleAssumption` is that no title code
has a NUL byte, as `"%.4s"` would stop there. `IndexesDiffer` is that no two entries in use have the same index: `ScanDlTasks` copies the
entry's own field (`tasks.cpp:42`) and `RunPipeline` finds a unit's task by it (`main.cpp:513`), but nothing in the code looks at whether it is the entry's place. In
the console's file it is.

- `OneJobPerContainer`: `PathsDiffer` alone is inductive for the
  containers; the backups need `BackupsFollowPaths`, that a job's backup is named after its container's title.
- `NoFileTwice` is inductive together with the types.
- `CoversWhatIsOn` needs `TasksAreCovered`: the tasks before the one at hand have all their files in a job of their container, the one at hand those that are not left. It
  is inductive because what is in a job stays in it (`ProvidedStays`), and because a switch that is turned can only excuse a task, never make it
  wanted after it was passed over (`WantedOnlyShrinks`).
- `UnitsHaveTheirParent` needs `UnitsComeFromTasks`, which speaks of some task with the job's path, and `TasksDiffer`, by which there is only one with its index.
- `KeepsTheFirst` rests on coverage as well: a file that an earlier wanted task provides is already in the job, so `AddUnit` does not add another.

### Only model-checked

- `RunEnds`, `RunEndsAnyway`, `ExitCompletes` and `WaitsOnlyForSilence`: liveness under fairness, which the prover does not do.
- That the bytes of two spans side by side add up, and that an offset is a number at all: sums over the tokens of a text are defined by recursion, and what they
  compute takes an induction whose rules in the library cannot be instantiated by the provers at hand. The theorems on messages
  therefore compare positions in tokens, and `HeadersAreClear` says of the values that they fit.

## 5. Not modelled

Left out of the modules above: the bytes of containers and messages; what the SD log
and the notifications say; the copies of what was sent; dates, Base64 and UTF-16 in messages. The Wii Menu, channels and WiiConnect24
inside vWii, the mail server and the network are external, modelled from how this code uses their
files and answers. AES and FatFs (vendored) stay out: byte arithmetic
that test vectors cover, and third-party code. In `Image`, FatFs's one-sector window shared by a file and a listing and the job's Images that only
read a mailbox (`ReadOutbox`, the look at what was delivered) are left out: each can only add to what `ImageShared` and `FitsItsBuffer` show. `disk_read` and `disk_write` name `g_buf` twice, in
`SectorRange` and for the copy; an optimising compiler loads it once, and a null in between is left out with it. Notifications, logging and
the reading of `nwc24msg.cfg` keep no state.

The DNS client is never reached: `INITIALIZE_PLUGIN` calls `SetDnsServer(nullptr)` (`main.cpp:1345`), nothing else sets a server, and
`ResolveViaDns` returns at once without one. `mail::Deliver`, and `BuildMessage` with it, is called by the tests only; it is modelled because its
agreement with the parser is what they promise.

## 6. Plan

What is left for the proofs: the properties of the further configurations that do hold under stronger assumptions (`WriteIsJournalled` and `RunLeavesNoJournal` of
ContainerUpdate without the faults that break them, `PostponedMeansUntouched` of Lifecycle for a job that has no mail).
