------------------------------ MODULE JobList ------------------------------
(***************************************************************************)
(* What a run is going to do: the download tasks of the vWii               *)
(* (ScanDlTasks, tasks.cpp), gathered into one job for each container with *)
(* the files that go into it (BuildJobs, main.cpp). ContainerUpdate and    *)
(* MenuTools take its result, containers with a job and a backup each, for *)
(* granted.                                                                *)
(*                                                                         *)
(* The settings menu turns channels off and on while the list is built.    *)
(*                                                                         *)
(* The name of a file is a stem and the numbers behind it, of which        *)
(* ExpandTask adds one; so is a URL, with a host for a stem. A title is    *)
(* the four bytes of its code and a number for the kind of title it is.    *)
(***************************************************************************)
EXTENDS Integers, Sequences, FiniteSets

CONSTANTS
    Entry,      \* the entries nwc24dl.bin can have
    Lists,      \* the lists of entries that it can be
    Channels,   \* those the menu has a switch for, each with the bytes it goes by
    DeadHosts,  \* the host names that have a replacement
    NUL         \* the byte that ends a string

ASSUME EntryAssumption ==
    \A e \in Entry :
        /\ e.index \in Nat
        /\ e.used \in BOOLEAN
        /\ e.high \in Seq(STRING) /\ Len(e.high) = 4
        /\ e.filename \in [stem : STRING, ids : Seq(Nat)]
        /\ e.url \in [plain : BOOLEAN, host : STRING, ids : Seq(Nat)]
        /\ e.subtasks \in SUBSET (0 .. 31)

ASSUME ListAssumption == Lists \subseteq Seq(Entry)

\* A title's code is four letters or digits.
ASSUME TitleAssumption == \A e \in Entry : \A i \in 1 .. 4 : e.high[i] # NUL

VARIABLES
    mode,      \* "update", or "restore" for which the switches do not matter
    at,        \* "scan", "build", "expand", "done", "aborted"
    n,         \* the entry or the task that is looked at
    tasks,     \* the entries in use
    jobs,      \* the jobs so far
    job,       \* the job that the task at n adds to
    left,      \* the ids of the units it has yet to add
    off,       \* the channels that are turned off
    flipped,   \* history: those that the menu turned since the run began
    list       \* nwc24dl.bin

vars == <<mode, at, n, tasks, jobs, job, left, off, flipped, list>>

Init ==
    /\ mode \in {"update", "restore"}
    /\ at = "scan" /\ n = 1 /\ tasks = <<>> /\ jobs = <<>> /\ job = 0 /\ left = {}
    /\ off \in SUBSET Channels /\ flipped = {}
    /\ list \in Lists

-----------------------------------------------------------------------------
(***************************************************************************)
(* Tasks.                                                                  *)
(***************************************************************************)
Plain == -1   \* stands for the one unit of a task that has no subtasks

\* The path has the number and all four bytes in hexadecimal.
VffPath(t) == <<t.low, t.high>>

\* "%.4s" prints the bytes before the first NUL.
Printed(high) ==
    IF \E i \in 1 .. 4 : high[i] = NUL
      THEN SubSeq(high, 1, CHOOSE i \in 0 .. 3 :
                               high[i + 1] = NUL /\ \A k \in 1 .. i : high[k] # NUL)
      ELSE high

BackupNameFor(t) == <<t.low, Printed(t.high)>>

IsEligible(t) == t.filename.stem # "" /\ t.url.plain

\* The first three characters; the fourth is the region.
FindChannel(t) == {c \in Channels : c = SubSeq(t.high, 1, 3)}

ChannelEnabled(t) == FindChannel(t) \cap off = {}

Wanted(t) == IsEligible(t) /\ (mode = "update" => ChannelEnabled(t))

ApplyHostOverrides(url) ==
    IF url.host \in DOMAIN DeadHosts THEN [url EXCEPT !.host = DeadHosts[@]] ELSE url

\* ExpandTask: a bit for each subtask, or no bit at all.
Ids(t) == IF t.subtasks = {} THEN {Plain} ELSE t.subtasks

Suffix(id) == IF id = Plain THEN <<>> ELSE <<id>>

Filename(t, id) == [t.filename EXCEPT !.ids = @ \o Suffix(id)]

\* The position in the list of tasks, where the entry's own index is meant.
UnitByPosition(t, id) ==
    [entry_index |-> n - 1,
     url |-> [ApplyHostOverrides(t.url) EXCEPT !.ids = @ \o Suffix(id)],
     filename |-> Filename(t, id)]

Unit(t, id) ==
    [entry_index |-> t.index,
     url |-> [ApplyHostOverrides(t.url) EXCEPT !.ids = @ \o Suffix(id)],
     filename |-> Filename(t, id)]

-----------------------------------------------------------------------------
(***************************************************************************)
(* ScanDlTasks.                                                            *)
(***************************************************************************)

\* The file cannot be read, or has another size or magic number.
ScanFails ==
    /\ at = "scan" /\ n = 1
    /\ at' = "aborted"
    /\ UNCHANGED <<mode, n, tasks, jobs, job, left, off, flipped, list>>

ScanEntry ==
    /\ at = "scan"
    /\ n <= Len(list)
    /\ n' = n + 1
    /\ tasks' = IF list[n].used THEN Append(tasks, list[n]) ELSE tasks
    /\ UNCHANGED <<mode, at, jobs, job, left, off, flipped, list>>

ScanDone ==
    /\ at = "scan"
    /\ n > Len(list)
    /\ at' = "build" /\ n' = 1
    /\ UNCHANGED <<mode, tasks, jobs, job, left, off, flipped, list>>

(***************************************************************************)
(* BuildJobs.                                                              *)
(***************************************************************************)

\* Only the last job is compared.
JobsOfNeighbour(t) == {j \in DOMAIN jobs : j = Len(jobs) /\ jobs[j].vff_path = VffPath(t)}

JobsOf(t) == {j \in DOMAIN jobs : jobs[j].vff_path = VffPath(t)}

Skip ==
    /\ at = "build" /\ n <= Len(tasks)
    /\ ~Wanted(tasks[n])
    /\ n' = n + 1
    /\ UNCHANGED <<mode, at, tasks, jobs, job, left, off, flipped, list>>

\* The task's container has a job already, or gets one.
FindJob ==
    LET t == tasks[n] IN
    IF JobsOf(t) # {}
      THEN job' \in JobsOf(t) /\ jobs' = jobs
      ELSE /\ jobs' = Append(jobs, [vff_path |-> VffPath(t),
                                    backup_name |-> BackupNameFor(t),
                                    units |-> <<>>])
           /\ job' = Len(jobs) + 1

Take ==
    /\ at = "build" /\ n <= Len(tasks)
    /\ Wanted(tasks[n])
    /\ FindJob
    /\ left' = Ids(tasks[n])
    /\ at' = "expand"
    /\ UNCHANGED <<mode, n, tasks, off, flipped, list>>

NeverDuplicate(filename) == FALSE

\* The files of other containers count as well.
DuplicateAnywhere(filename) ==
    \E j \in DOMAIN jobs : \E u \in DOMAIN jobs[j].units : jobs[j].units[u].filename = filename

Duplicate(filename) == \E u \in DOMAIN jobs[job].units : jobs[job].units[u].filename = filename

\* A later unit takes the place of an earlier one with its name.
KeepTheLast ==
    /\ at = "expand" /\ left # {}
    /\ \E id \in left :
          /\ \A other \in left : id <= other
          /\ left' = left \ {id}
          /\ jobs' = [jobs EXCEPT ![job].units =
                          Append(SelectSeq(@, LAMBDA u : u.filename # Filename(tasks[n], id)),
                                 Unit(tasks[n], id))]
    /\ UNCHANGED <<mode, at, n, tasks, job, off, flipped, list>>

\* "Keep the first."
AddUnit ==
    /\ at = "expand" /\ left # {}
    /\ \E id \in left :
          /\ \A other \in left : id <= other
          /\ left' = left \ {id}
          /\ jobs' = IF Duplicate(Filename(tasks[n], id)) THEN jobs
                       ELSE [jobs EXCEPT ![job].units = Append(@, Unit(tasks[n], id))]
    /\ UNCHANGED <<mode, at, n, tasks, job, off, flipped, list>>

TaskDone ==
    /\ at = "expand" /\ left = {}
    /\ at' = "build" /\ n' = n + 1
    /\ UNCHANGED <<mode, tasks, jobs, job, left, off, flipped, list>>

BuildDone ==
    /\ at = "build" /\ n > Len(tasks)
    /\ at' = "done"
    /\ UNCHANGED <<mode, n, tasks, jobs, job, left, off, flipped, list>>

Run == ScanFails \/ ScanEntry \/ ScanDone \/ Skip \/ Take \/ AddUnit \/ TaskDone \/ BuildDone

\* The menu's switch for a channel, on the thread that draws it.
Toggle(c) ==
    /\ at \notin {"done", "aborted"}
    /\ off' = IF c \in off THEN off \ {c} ELSE off \cup {c}
    /\ flipped' = flipped \cup {c}
    /\ UNCHANGED <<mode, at, n, tasks, jobs, job, left, list>>

\* The list is done with: the job updates its containers, or Restore rewrites them.
Finished == at \in {"done", "aborted"} /\ UNCHANGED vars

Next == Run \/ (\E c \in Channels : Toggle(c)) \/ Finished

Spec == Init /\ [][Next]_vars

-----------------------------------------------------------------------------
(***************************************************************************)
(* What the rest of the program relies on.                                 *)
(***************************************************************************)

\* A unit without a parent fails its job.
HasParent(u) == \E k \in DOMAIN tasks : tasks[k].index = u.entry_index

\* The flags and the key a unit's content is decoded with are those of the last task
\* with its index.
ParentOf(u) ==
    CHOOSE k \in DOMAIN tasks :
        /\ tasks[k].index = u.entry_index
        /\ \A m \in k + 1 .. Len(tasks) : tasks[m].index # u.entry_index

JobUnits(j) == {jobs[j].units[u] : u \in DOMAIN jobs[j].units}

\* "They must be applied together in a single read/modify/write, or the later write
\* would undo the earlier one": no container is in two jobs, and no two containers
\* share the backup that a failed write is put back from.
OneJobPerContainer ==
    \A i, j \in DOMAIN jobs :
        i # j => /\ jobs[i].vff_path # jobs[j].vff_path
                 /\ jobs[i].backup_name # jobs[j].backup_name

\* No file of a container is downloaded twice, so that which of two contents it gets
\* does not depend on their order.
NoFileTwice ==
    \A j \in DOMAIN jobs : \A u, v \in DOMAIN jobs[j].units :
        u # v => jobs[j].units[u].filename # jobs[j].units[v].filename

\* A unit is decoded with the flags and the key of the task that it came from, and
\* that task's title has the container.
UnitsHaveTheirParent ==
    \A j \in DOMAIN jobs : \A u \in JobUnits(j) :
        /\ HasParent(u)
        /\ jobs[j].vff_path = VffPath(tasks[ParentOf(u)])
        /\ \E id \in Ids(tasks[ParentOf(u)]) : u = Unit(tasks[ParentOf(u)], id)

\* Whichever switches are turned while the list is built, a channel that is left
\* alone has all its files in it: those of every eligible task, if it is on or if
\* everything is to be restored.
CoversWhatIsOn ==
    at = "done" =>
        \A k \in DOMAIN tasks :
            LET t == tasks[k] IN
            Wanted(t) /\ (mode = "restore" \/ FindChannel(t) \cap flipped = {})
                => \A id \in Ids(t) : \E j \in JobsOf(t) :
                       \E u \in JobUnits(j) : u.filename = Filename(t, id)

\* Of the tasks that provide a file the first is kept, and nothing is downloaded for a
\* channel that has been off all along.
KeepsTheFirst ==
    \A j \in DOMAIN jobs : \A u \in JobUnits(j) : \A k \in 1 .. ParentOf(u) :
        LET t == tasks[k] IN
        FindChannel(t) \cap flipped = {} =>
            IF k = ParentOf(u) THEN Wanted(t)
              ELSE Wanted(t) /\ jobs[j].vff_path = VffPath(t)
                     => \A id \in Ids(t) : Filename(t, id) # u.filename
=============================================================================
