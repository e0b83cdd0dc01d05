--------------------------- MODULE JobList_proofs ---------------------------
(***************************************************************************)
(* Theorems about JobList, for any list of any entries: one job for each   *)
(* container, one unit for each file. They are what ContainerUpdate takes  *)
(* for granted when it gives every container a turn and a backup of its    *)
(* own.                                                                    *)
(*                                                                         *)
(* A job's path and backup are those of one and the same title, and titles *)
(* can be told apart by either: that is the part of the invariant that     *)
(* does not speak of positions in a list. The rest follows from what each  *)
(* element was compared with before it was appended.                       *)
(***************************************************************************)
EXTENDS JobList, TLAPS

UnitSet == UNION {{Unit(t, id) : id \in -1 .. 31} : t \in Entry}

JobSet == [vff_path : {VffPath(t) : t \in Entry},
           backup_name : {BackupNameFor(t) : t \in Entry},
           units : Seq(UnitSet)]

TypeOK ==
    /\ at \in {"scan", "build", "expand", "done", "aborted"}
    /\ n \in Nat \ {0}
    /\ list \in Seq(Entry)
    /\ tasks \in Seq(Entry)
    /\ jobs \in Seq(JobSet)
    /\ left \in SUBSET (-1 .. 31)
    /\ at = "expand" => n \in DOMAIN tasks /\ job \in DOMAIN jobs

\* The backup goes with the container.
BackupsFollowPaths ==
    \A j \in DOMAIN jobs : jobs[j].backup_name = jobs[j].vff_path

\* No two jobs have the same path.
PathsDiffer ==
    \A i, j \in DOMAIN jobs : i # j => jobs[i].vff_path # jobs[j].vff_path

IInv == TypeOK /\ BackupsFollowPaths /\ PathsDiffer /\ NoFileTwice

-----------------------------------------------------------------------------
(***************************************************************************)
(* The conversions.                                                        *)
(***************************************************************************)

\* "%.4s" prints a title's code in full, so that a backup is named after the same
\* number and bytes as the container's path.
LEMMA BackupNamesAreInjective ==
    ASSUME NEW t \in Entry
    PROVE  BackupNameFor(t) = VffPath(t)
  BY TitleAssumption DEF BackupNameFor, VffPath, Printed

\* A task expands into the units of its ids.
LEMMA IdsType ==
    ASSUME NEW t \in Entry
    PROVE  Ids(t) \in SUBSET (-1 .. 31)
<1>1. t.subtasks \subseteq 0 .. 31
  BY EntryAssumption
<1>2. 0 .. 31 \subseteq -1 .. 31 /\ {Plain} \subseteq -1 .. 31
  BY DEF Plain
<1> QED
  BY <1>1, <1>2 DEF Ids

\* A unit has the name ExpandTask gave it.
LEMMA UnitFilename ==
    ASSUME NEW t, NEW id
    PROVE  Unit(t, id).filename = Filename(t, id)
  BY DEF Unit

-----------------------------------------------------------------------------
(***************************************************************************)
(* The steps that change the jobs.                                         *)
(***************************************************************************)

\* A job is added only for a container that has none.
LEMMA TakePreserves ==
    ASSUME IInv, Take
    PROVE  IInv'
<1> DEFINE t == tasks[n]
<1>1. n \in DOMAIN tasks /\ t \in Entry
  BY DEF IInv, TypeOK, Take
<1>2. left' \in SUBSET (-1 .. 31)
  BY <1>1, IdsType DEF Take
<1>3. CASE JobsOf(t) # {}
  <2>1. jobs' = jobs /\ job' \in DOMAIN jobs
    BY <1>3 DEF Take, FindJob, JobsOf
  <2> QED
    BY <1>1, <1>2, <2>1 DEF IInv, TypeOK, BackupsFollowPaths, PathsDiffer, NoFileTwice, Take
<1>4. CASE JobsOf(t) = {}
  <2> DEFINE new == [vff_path |-> VffPath(t), backup_name |-> BackupNameFor(t), units |-> <<>>]
  <2>1. jobs' = Append(jobs, new) /\ job' = Len(jobs) + 1
    BY <1>4 DEF Take, FindJob
  <2>2. new \in JobSet
    BY <1>1 DEF JobSet
  <2>3. jobs \in Seq(JobSet)
    BY DEF IInv, TypeOK
  <2> HIDE DEF new
  <2>4. /\ jobs' \in Seq(JobSet)
        /\ DOMAIN jobs' = 1 .. Len(jobs) + 1
        /\ \A j \in DOMAIN jobs : jobs'[j] = jobs[j]
        /\ jobs'[Len(jobs) + 1] = new
        /\ DOMAIN jobs = 1 .. Len(jobs)
    BY <2>1, <2>2, <2>3
  <2>5. new.vff_path = VffPath(t) /\ new.backup_name = VffPath(t) /\ new.units = <<>>
    BY <1>1, BackupNamesAreInjective DEF new
  <2>6. \A j \in DOMAIN jobs : jobs[j].vff_path # VffPath(t)
    BY <1>4 DEF JobsOf
  <2>7. TypeOK'
    BY <1>1, <1>2, <2>1, <2>3, <2>4 DEF IInv, TypeOK, Take
  <2>8. BackupsFollowPaths'
    BY <2>3, <2>4, <2>5 DEF IInv, BackupsFollowPaths
  <2>9. PathsDiffer'
    BY <2>3, <2>4, <2>5, <2>6 DEF IInv, PathsDiffer
  <2>10. NoFileTwice'
    BY <2>3, <2>4, <2>5 DEF IInv, NoFileTwice
  <2> QED
    BY <2>7, <2>8, <2>9, <2>10 DEF IInv
<1> QED
  BY <1>3, <1>4

\* A unit is added only for a file that the job does not have.
LEMMA AddUnitPreserves ==
    ASSUME IInv, AddUnit
    PROVE  IInv'
<1>1. PICK id \in left :
          /\ left' = left \ {id}
          /\ jobs' = IF Duplicate(Filename(tasks[n], id)) THEN jobs
                       ELSE [jobs EXCEPT ![job].units = Append(@, Unit(tasks[n], id))]
  BY DEF AddUnit
<1>2. /\ at = "expand" /\ n \in DOMAIN tasks /\ job \in DOMAIN jobs
      /\ tasks[n] \in Entry /\ jobs \in Seq(JobSet) /\ id \in -1 .. 31
  BY DEF AddUnit, IInv, TypeOK
<1>3. CASE Duplicate(Filename(tasks[n], id))
  BY <1>1, <1>3 DEF IInv, TypeOK, BackupsFollowPaths, PathsDiffer, NoFileTwice, AddUnit
<1>4. CASE ~Duplicate(Filename(tasks[n], id))
  <2> DEFINE new == Unit(tasks[n], id)
             old == jobs[job].units
  <2> HIDE DEF new
  <2>1. new \in UnitSet /\ new.filename = Filename(tasks[n], id)
    <3>1. new = Unit(tasks[n], id)
      BY DEF new
    <3>2. new.filename = Filename(tasks[n], id)
      BY <3>1, UnitFilename
    <3>3. new \in UnitSet
      <4>1. \A t \in Entry : \A i \in -1 .. 31 : Unit(t, i) \in UnitSet
        BY DEF UnitSet
      <4>2. tasks[n] \in Entry /\ id \in -1 .. 31
        BY <1>2
      <4> QED
        BY <3>1, <4>1, <4>2
    <3> QED
      BY <3>2, <3>3
  <2>2. jobs[job] \in JobSet /\ old \in Seq(UnitSet)
    <3>1. jobs[job] \in JobSet
      BY <1>2
    <3> QED
      BY <3>1 DEF JobSet
  <2>3. jobs' = [jobs EXCEPT ![job].units = Append(@, new)]
    BY <1>1, <1>4 DEF new
  <2>4. \A u \in DOMAIN old : old[u].filename # new.filename
    BY <1>4, <2>1 DEF Duplicate
  <2>5. /\ Append(old, new) \in Seq(UnitSet)
        /\ DOMAIN Append(old, new) = 1 .. Len(old) + 1
        /\ DOMAIN old = 1 .. Len(old)
        /\ \A u \in DOMAIN old : Append(old, new)[u] = old[u]
        /\ Append(old, new)[Len(old) + 1] = new
    BY <2>1, <2>2
  <2>6. /\ DOMAIN jobs' = DOMAIN jobs
        /\ \A j \in DOMAIN jobs : j # job => jobs'[j] = jobs[j]
        /\ jobs'[job] = [jobs[job] EXCEPT !.units = Append(old, new)]
    BY <1>2, <2>3
  <2>7. /\ jobs'[job] \in JobSet
        /\ jobs'[job].units = Append(old, new)
        /\ jobs'[job].vff_path = jobs[job].vff_path
        /\ jobs'[job].backup_name = jobs[job].backup_name
    BY <2>2, <2>5, <2>6 DEF JobSet
  <2>8. jobs' \in Seq(JobSet)
    BY <1>2, <2>3, <2>6, <2>7
  <2>9. TypeOK'
    BY <1>1, <1>2, <2>6, <2>8 DEF IInv, TypeOK, AddUnit
  <2>10. BackupsFollowPaths' /\ PathsDiffer'
    <3>1. \A j \in DOMAIN jobs : /\ jobs'[j].vff_path = jobs[j].vff_path
                                /\ jobs'[j].backup_name = jobs[j].backup_name
      BY <2>6, <2>7
    <3> QED
      BY <2>6, <3>1 DEF IInv, BackupsFollowPaths, PathsDiffer
  <2>11. NoFileTwice'
    <3> SUFFICES ASSUME NEW j \in DOMAIN jobs,
                        NEW u \in DOMAIN jobs'[j].units, NEW v \in DOMAIN jobs'[j].units,
                        u # v
                 PROVE  jobs'[j].units[u].filename # jobs'[j].units[v].filename
      BY <2>6 DEF NoFileTwice
    <3>1. CASE j # job
      BY <2>6, <3>1 DEF IInv, NoFileTwice
    <3>2. CASE j = job /\ u \in DOMAIN old /\ v \in DOMAIN old
      BY <1>2, <2>5, <2>7, <3>2 DEF IInv, NoFileTwice
    <3>3. CASE j = job /\ (u = Len(old) + 1 \/ v = Len(old) + 1)
      <4>1. /\ jobs'[j].units = Append(old, new)
            /\ u \in 1 .. Len(old) + 1 /\ v \in 1 .. Len(old) + 1
        BY <2>5, <2>7, <3>3
      <4>2. CASE u = Len(old) + 1
        <5>1. v \in DOMAIN old
          BY <2>2, <2>5, <4>1, <4>2
        <5> QED
          BY <2>4, <2>5, <4>1, <4>2, <5>1
      <4>3. CASE v = Len(old) + 1
        <5>1. u \in DOMAIN old
          BY <2>2, <2>5, <4>1, <4>3
        <5> QED
          BY <2>4, <2>5, <4>1, <4>3, <5>1
      <4> QED
        BY <3>3, <4>2, <4>3
    <3> QED
      BY <2>2, <2>5, <2>7, <3>1, <3>2, <3>3
  <2> QED
    BY <2>9, <2>10, <2>11 DEF IInv
<1> QED
  BY <1>3, <1>4

-----------------------------------------------------------------------------
LEMMA InitEstablishes == Init => IInv
  BY ListAssumption DEF Init, IInv, TypeOK, BackupsFollowPaths, PathsDiffer, NoFileTwice

LEMMA NextPreserves == IInv /\ [Next]_vars => IInv'
<1> SUFFICES ASSUME IInv, [Next]_vars
             PROVE  IInv'
  OBVIOUS
<1> USE DEF IInv, TypeOK, BackupsFollowPaths, PathsDiffer, NoFileTwice
<1>1. CASE ScanFails
  BY <1>1 DEF ScanFails
<1>2. CASE ScanEntry
  <2>1. n \in DOMAIN list /\ list[n] \in Entry
    BY <1>2 DEF ScanEntry
  <2> QED
    BY <1>2, <2>1 DEF ScanEntry
<1>3. CASE ScanDone
  BY <1>3 DEF ScanDone
<1>4. CASE Skip
  BY <1>4 DEF Skip
<1>5. CASE Take
  BY <1>5, TakePreserves
<1>6. CASE AddUnit
  BY <1>6, AddUnitPreserves
<1>7. CASE TaskDone
  BY <1>7 DEF TaskDone
<1>8. CASE BuildDone
  BY <1>8 DEF BuildDone
<1>9. CASE \E c \in Channels : Toggle(c)
  BY <1>9 DEF Toggle
<1>10. CASE Finished \/ UNCHANGED vars
  <2>1. UNCHANGED vars
    BY <1>10 DEF Finished
  <2> QED
    BY <2>1 DEF vars
<1> QED
  BY <1>1, <1>2, <1>3, <1>4, <1>5, <1>6, <1>7, <1>8, <1>9, <1>10 DEF Next, Run

LEMMA Invariance == Spec => []IInv
  BY InitEstablishes, NextPreserves, PTL DEF Spec

\* No container is in two jobs and no two containers share a backup, whatever the list
\* holds and whichever switches are turned meanwhile.
THEOREM ContainersHaveOneJob == Spec => []OneJobPerContainer
<1>1. IInv => OneJobPerContainer
  BY DEF IInv, BackupsFollowPaths, PathsDiffer, OneJobPerContainer
<1> QED
  BY <1>1, Invariance, PTL

\* No file of a container is downloaded twice.
THEOREM FilesHaveOneUnit == Spec => []NoFileTwice
<1>1. IInv => NoFileTwice
  BY DEF IInv
<1> QED
  BY <1>1, Invariance, PTL

-----------------------------------------------------------------------------
(***************************************************************************)
(* Where a job's units come from.                                          *)
(***************************************************************************)

\* Nothing is built while the list is scanned.
ScanBuildsNothing == at = "scan" => jobs = <<>>

\* A unit is one that a task with the job's path expands into.
UnitsComeFromTasks ==
    \A j \in DOMAIN jobs : \A u \in JobUnits(j) : \E k \in DOMAIN tasks :
        /\ jobs[j].vff_path = VffPath(tasks[k])
        /\ \E id \in Ids(tasks[k]) : u = Unit(tasks[k], id)

\* A task is expanded into the job of its container.
ExpandsIntoItsJob ==
    at = "expand" => /\ jobs[job].vff_path = VffPath(tasks[n])
                     /\ left \subseteq Ids(tasks[n])

Origin == ScanBuildsNothing /\ UnitsComeFromTasks /\ ExpandsIntoItsJob

\* The index that nwc24dl.bin has in an entry is the entry's own: the task that a
\* unit belongs to is looked up by it.
IndexesDiffer ==
    \A l \in Lists : \A i, j \in DOMAIN l :
        l[i].used /\ l[j].used /\ l[i].index = l[j].index => i = j

\* The tasks are entries of the list that have been looked at.
TasksAreEntries ==
    /\ list \in Lists
    /\ at = "scan" =>
           \A k \in DOMAIN tasks : \E i \in DOMAIN list :
               i < n /\ list[i].used /\ tasks[k] = list[i]

TasksDiffer ==
    \A k, m \in DOMAIN tasks : tasks[k].index = tasks[m].index => k = m

-----------------------------------------------------------------------------
(***************************************************************************)
(* What the tasks so far have put into the jobs.                           *)
(***************************************************************************)

Provided(t, id) ==
    \E j \in JobsOf(t) : \E u \in JobUnits(j) : u.filename = Filename(t, id)

\* No switch was turned that decides whether the task is wanted.
LeftAlone(t) == mode = "restore" \/ FindChannel(t) \cap flipped = {}

Covered(k) ==
    Wanted(tasks[k]) /\ LeftAlone(tasks[k])
        => \A id \in Ids(tasks[k]) : Provided(tasks[k], id)

\* The tasks that are done with have all their files in a job, the one that is being
\* expanded those that are not left.
TasksAreCovered ==
    /\ at \in {"build", "expand", "done"} => \A k \in DOMAIN tasks : k < n => Covered(k)
    /\ at = "expand" => \A id \in Ids(tasks[n]) \ left : Provided(tasks[n], id)
    /\ at = "done" => n > Len(tasks)

\* The task that is expanded is wanted, unless its switch has been turned since.
ExpandsWanted ==
    at = "expand" /\ FindChannel(tasks[n]) \cap flipped = {} => Wanted(tasks[n])

-----------------------------------------------------------------------------
(***************************************************************************)
(* What a step does to the jobs and to the switches.                       *)
(***************************************************************************)

LEMMA DuplicateIsInJob ==
    ASSUME NEW f
    PROVE  Duplicate(f) <=> \E u \in JobUnits(job) : u.filename = f
  BY DEF Duplicate, JobUnits

\* A new job has no units, and the job found is the container's.
LEMMA TakeAddsNoUnit ==
    ASSUME IInv, Take
    PROVE  /\ \A j \in DOMAIN jobs : j \in DOMAIN jobs' /\ jobs'[j] = jobs[j]
           /\ \A j \in DOMAIN jobs' : j \notin DOMAIN jobs => jobs'[j].units = <<>>
           /\ job' \in DOMAIN jobs' /\ jobs'[job'].vff_path = VffPath(tasks[n])
<1> DEFINE t == tasks[n]
<1>1. jobs \in Seq(JobSet)
  BY DEF IInv, TypeOK
<1>2. CASE JobsOf(t) # {}
  BY <1>2 DEF Take, FindJob, JobsOf
<1>3. CASE JobsOf(t) = {}
  <2> DEFINE new == [vff_path |-> VffPath(t), backup_name |-> BackupNameFor(t), units |-> <<>>]
  <2>1. jobs' = Append(jobs, new) /\ job' = Len(jobs) + 1
    BY <1>3 DEF Take, FindJob
  <2>2. new.vff_path = VffPath(t) /\ new.units = <<>>
    OBVIOUS
  <2> HIDE DEF new
  <2>3. /\ DOMAIN jobs' = 1 .. Len(jobs) + 1
        /\ DOMAIN jobs = 1 .. Len(jobs)
        /\ \A j \in DOMAIN jobs : jobs'[j] = jobs[j]
        /\ jobs'[Len(jobs) + 1] = new
    BY <1>1, <2>1
  <2> QED
    BY <1>1, <2>1, <2>2, <2>3
<1> QED
  BY <1>2, <1>3

\* A task's next file is added to its job, unless the job has it.
LEMMA AddUnitAddsOne ==
    ASSUME IInv, AddUnit
    PROVE  \E id \in left :
               /\ left' = left \ {id}
               /\ DOMAIN jobs' = DOMAIN jobs
               /\ \A j \in DOMAIN jobs : jobs'[j].vff_path = jobs[j].vff_path
               /\ \A j \in DOMAIN jobs : j # job => jobs'[j] = jobs[j]
               /\ {jobs'[job].units[u] : u \in DOMAIN jobs'[job].units} =
                      IF Duplicate(Filename(tasks[n], id)) THEN JobUnits(job)
                        ELSE JobUnits(job) \cup {Unit(tasks[n], id)}
<1>1. PICK id \in left :
          /\ left' = left \ {id}
          /\ jobs' = IF Duplicate(Filename(tasks[n], id)) THEN jobs
                       ELSE [jobs EXCEPT ![job].units = Append(@, Unit(tasks[n], id))]
  BY DEF AddUnit
<1>2. job \in DOMAIN jobs /\ jobs \in Seq(JobSet)
  BY DEF AddUnit, IInv, TypeOK
<1>3. CASE Duplicate(Filename(tasks[n], id))
  BY <1>1, <1>2, <1>3 DEF JobUnits
<1>4. CASE ~Duplicate(Filename(tasks[n], id))
  <2> DEFINE new == Unit(tasks[n], id)
             old == jobs[job].units
  <2> HIDE DEF new
  <2>1. jobs[job] \in JobSet /\ old \in Seq(UnitSet)
    <3>1. jobs[job] \in JobSet
      BY <1>2
    <3> QED
      BY <3>1 DEF JobSet
  <2>2. jobs' = [jobs EXCEPT ![job].units = Append(old, new)]
    BY <1>1, <1>4 DEF new
  <2>3. /\ DOMAIN jobs' = DOMAIN jobs
        /\ \A j \in DOMAIN jobs : j # job => jobs'[j] = jobs[j]
        /\ jobs'[job] = [jobs[job] EXCEPT !.units = Append(old, new)]
    BY <1>2, <2>2
  <2>4. jobs'[job].units = Append(old, new) /\ jobs'[job].vff_path = jobs[job].vff_path
    BY <2>1, <2>3 DEF JobSet
  <2>5. /\ DOMAIN Append(old, new) = 1 .. Len(old) + 1
        /\ DOMAIN old = 1 .. Len(old)
        /\ \A u \in DOMAIN old : Append(old, new)[u] = old[u]
        /\ Append(old, new)[Len(old) + 1] = new
        /\ Len(old) \in Nat
    BY <2>1
  <2>6. {jobs'[job].units[u] : u \in DOMAIN jobs'[job].units} = JobUnits(job) \cup {new}
    BY <2>4, <2>5 DEF JobUnits
  <2> QED
    BY <1>1, <1>4, <2>3, <2>4, <2>6 DEF new
<1> QED
  BY <1>3, <1>4

\* A switch that the menu leaves alone wants what it wanted.
LEMMA ToggleKeepsTheRest ==
    ASSUME NEW c \in Channels, Toggle(c), NEW t, FindChannel(t) \cap flipped' = {}
    PROVE  FindChannel(t) \cap flipped = {} /\ (Wanted(t)' <=> Wanted(t))
<1>1. flipped' = flipped \cup {c} /\ c \notin FindChannel(t) /\ mode' = mode
  BY DEF Toggle
<1>2. FindChannel(t) \cap off' = FindChannel(t) \cap off
  BY <1>1 DEF Toggle
<1>3. Wanted(t)' <=> IsEligible(t) /\ (mode' = "update" => FindChannel(t) \cap off' = {})
  BY DEF Wanted, ChannelEnabled, IsEligible, FindChannel
<1> QED
  BY <1>1, <1>2, <1>3 DEF Wanted, ChannelEnabled

-----------------------------------------------------------------------------
(***************************************************************************)
(* The invariants.                                                         *)
(***************************************************************************)
LEMMA OriginIsPreserved ==
    ASSUME IInv, Origin, [Next]_vars
    PROVE  Origin'
<1> USE DEF Origin, ScanBuildsNothing, UnitsComeFromTasks, ExpandsIntoItsJob
<1>1. CASE UNCHANGED <<at, n, tasks, jobs, job, left>>
  <2>1. ScanBuildsNothing' /\ ExpandsIntoItsJob'
    BY <1>1
  <2>2. UnitsComeFromTasks'
    <3>1. jobs' = jobs /\ tasks' = tasks
      BY <1>1
    <3>2. ASSUME NEW j
          PROVE  JobUnits(j)' = JobUnits(j)
      BY <3>1 DEF JobUnits
    <3> QED
      BY <3>1, <3>2
  <2> QED
    BY <2>1, <2>2
<1>2. CASE ScanFails
  BY <1>2 DEF ScanFails, JobUnits
<1>3. CASE ScanEntry
  BY <1>3 DEF ScanEntry
<1>4. CASE ScanDone
  BY <1>4 DEF ScanDone
<1>5. CASE Skip \/ TaskDone \/ BuildDone
  <2>1. UNCHANGED <<tasks, jobs>> /\ at' \in {"build", "done"}
    BY <1>5 DEF Skip, TaskDone, BuildDone
  <2> QED
    BY <2>1 DEF JobUnits
<1>6. CASE Take
  <2>1. at' = "expand" /\ UNCHANGED <<n, tasks>> /\ left' = Ids(tasks[n])
    BY <1>6 DEF Take
  <2>2. ExpandsIntoItsJob'
    BY <1>6, <2>1, TakeAddsNoUnit
  <2>3. UnitsComeFromTasks'
    <3> SUFFICES ASSUME NEW j \in DOMAIN jobs', NEW u \in JobUnits(j)'
                 PROVE  \E k \in DOMAIN tasks :
                            /\ jobs'[j].vff_path = VffPath(tasks[k])
                            /\ \E id \in Ids(tasks[k]) : u = Unit(tasks[k], id)
      BY <2>1
    <3>1. u \in {jobs'[j].units[x] : x \in DOMAIN jobs'[j].units}
      BY DEF JobUnits
    <3>2. j \in DOMAIN jobs /\ jobs'[j] = jobs[j]
      BY <1>6, <3>1, TakeAddsNoUnit
    <3>3. u \in JobUnits(j)
      BY <3>1, <3>2 DEF JobUnits
    <3> QED
      BY <3>2, <3>3
  <2> QED
    BY <2>1, <2>2, <2>3
<1>7. CASE AddUnit
  <2>1. at = "expand" /\ at' = "expand" /\ UNCHANGED <<n, tasks, job>>
    BY <1>7 DEF AddUnit
  <2>2. PICK id \in left :
            /\ left' = left \ {id}
            /\ DOMAIN jobs' = DOMAIN jobs
            /\ \A j \in DOMAIN jobs : jobs'[j].vff_path = jobs[j].vff_path
            /\ \A j \in DOMAIN jobs : j # job => jobs'[j] = jobs[j]
            /\ {jobs'[job].units[u] : u \in DOMAIN jobs'[job].units} =
                   IF Duplicate(Filename(tasks[n], id)) THEN JobUnits(job)
                     ELSE JobUnits(job) \cup {Unit(tasks[n], id)}
    BY <1>7, AddUnitAddsOne
  <2>3. job \in DOMAIN jobs /\ n \in DOMAIN tasks
    BY <2>1 DEF IInv, TypeOK
  <2>4. ExpandsIntoItsJob'
    BY <2>1, <2>2, <2>3
  <2>5. UnitsComeFromTasks'
    <3> SUFFICES ASSUME NEW j \in DOMAIN jobs', NEW u \in JobUnits(j)'
                 PROVE  \E k \in DOMAIN tasks :
                            /\ jobs'[j].vff_path = VffPath(tasks[k])
                            /\ \E i \in Ids(tasks[k]) : u = Unit(tasks[k], i)
      BY <2>1
    <3>1. u \in {jobs'[j].units[x] : x \in DOMAIN jobs'[j].units}
      BY DEF JobUnits
    <3>2. CASE u \in JobUnits(j)
      BY <2>2, <3>2
    <3>3. CASE u \notin JobUnits(j)
      <4>1. j = job
        BY <2>2, <3>1, <3>3 DEF JobUnits
      <4>2. u = Unit(tasks[n], id)
        BY <2>2, <3>1, <3>3, <4>1
      <4> QED
        BY <2>1, <2>2, <2>3, <4>1, <4>2
    <3> QED
      BY <3>2, <3>3
  <2> QED
    BY <2>1, <2>4, <2>5
<1>8. CASE \E c \in Channels : Toggle(c)
  BY <1>1, <1>8 DEF Toggle
<1>9. CASE Finished \/ UNCHANGED vars
  BY <1>1, <1>9 DEF Finished, vars
<1> QED
  BY <1>2, <1>3, <1>4, <1>5, <1>6, <1>7, <1>8, <1>9 DEF Next, Run

LEMMA OriginInvariance == Spec => [](IInv /\ Origin)
<1>1. Init => Origin
  BY DEF Init, Origin, ScanBuildsNothing, UnitsComeFromTasks, ExpandsIntoItsJob
<1> QED
  BY <1>1, Invariance, OriginIsPreserved, PTL DEF Spec

LEMMA TasksDifferIsPreserved ==
    ASSUME IndexesDiffer, IInv, TasksAreEntries, TasksDiffer, [Next]_vars
    PROVE  TasksAreEntries' /\ TasksDiffer'
<1> USE DEF TasksAreEntries, TasksDiffer
<1>1. CASE ScanEntry
  <2>1. /\ at = "scan" /\ n \in DOMAIN list /\ n' = n + 1 /\ list' = list /\ at' = at
        /\ n \in Nat /\ tasks \in Seq(Entry)
        /\ DOMAIN list \subseteq Nat
    BY <1>1 DEF ScanEntry, IInv, TypeOK
  <2>2. CASE ~list[n].used
    <3>1. tasks' = tasks
      BY <1>1, <2>2 DEF ScanEntry
    <3>2. \A i \in DOMAIN list : i < n => i < n + 1
      BY <2>1
    <3> QED
      BY <2>1, <3>1, <3>2
  <2>3. CASE list[n].used
    <3>1. tasks' = Append(tasks, list[n])
      BY <1>1, <2>3 DEF ScanEntry
    <3>2. /\ DOMAIN tasks' = 1 .. Len(tasks) + 1
          /\ DOMAIN tasks = 1 .. Len(tasks)
          /\ \A k \in DOMAIN tasks : tasks'[k] = tasks[k]
          /\ tasks'[Len(tasks) + 1] = list[n]
          /\ \A k \in DOMAIN tasks' : k \notin DOMAIN tasks => k = Len(tasks) + 1
      BY <2>1, <3>1
    <3>3. \A k \in DOMAIN tasks : \E i \in DOMAIN list :
              i < n /\ i # n /\ list[i].used /\ tasks[k] = list[i]
      BY <2>1
    <3>4. \A k \in DOMAIN tasks : tasks[k].index # list[n].index
      BY <2>1, <2>3, <3>3 DEF IndexesDiffer
    <3>5. TasksDiffer'
      BY <3>2, <3>4
    <3>6. \A i \in DOMAIN list : i < n => i < n + 1
      BY <2>1
    <3>7. \A k \in DOMAIN tasks' : \E i \in DOMAIN list :
              i < n + 1 /\ list[i].used /\ tasks'[k] = list[i]
      <4> SUFFICES ASSUME NEW k \in DOMAIN tasks'
                   PROVE  \E i \in DOMAIN list :
                              i < n + 1 /\ list[i].used /\ tasks'[k] = list[i]
        OBVIOUS
      <4>1. CASE k \in DOMAIN tasks
        BY <3>2, <3>3, <3>6, <4>1
      <4>2. CASE k \notin DOMAIN tasks
        BY <2>1, <2>3, <3>2, <4>2
      <4> QED
        BY <4>1, <4>2
    <3> QED
      BY <2>1, <3>5, <3>7
  <2> QED
    BY <2>2, <2>3
<1>2. CASE UNCHANGED <<list, tasks>> /\ (at' = "scan" => at = "scan" /\ n' = n)
  BY <1>2
<1>3. CASE Run /\ ~ScanEntry
  BY <1>2, <1>3 DEF Run, ScanFails, ScanDone, Skip, Take, AddUnit, TaskDone, BuildDone
<1>4. CASE \E c \in Channels : Toggle(c)
  BY <1>2, <1>4 DEF Toggle
<1>5. CASE Finished \/ UNCHANGED vars
  BY <1>2, <1>5 DEF Finished, vars
<1> QED
  BY <1>1, <1>3, <1>4, <1>5 DEF Next

LEMMA TasksDifferInvariance ==
    ASSUME IndexesDiffer
    PROVE  Spec => [](IInv /\ Origin /\ TasksAreEntries /\ TasksDiffer)
<1>1. Init => TasksAreEntries /\ TasksDiffer
  BY DEF Init, TasksAreEntries, TasksDiffer
<1>2. IInv /\ TasksAreEntries /\ TasksDiffer /\ [Next]_vars
          => TasksAreEntries' /\ TasksDiffer'
  BY TasksDifferIsPreserved, IndexesDiffer
<1> QED
  BY <1>1, <1>2, OriginInvariance, PTL DEF Spec

\* The only task with a unit's index is its parent.
LEMMA ParentIsTheTask ==
    ASSUME IInv, TasksDiffer, NEW k \in DOMAIN tasks, NEW id
    PROVE  ParentOf(Unit(tasks[k], id)) = k
<1> DEFINE u == Unit(tasks[k], id)
           IsParent(m) == /\ tasks[m].index = u.entry_index
                          /\ \A l \in m + 1 .. Len(tasks) : tasks[l].index # u.entry_index
<1>1. u.entry_index = tasks[k].index
  BY DEF Unit
<1> HIDE DEF u
<1>2. DOMAIN tasks = 1 .. Len(tasks) /\ Len(tasks) \in Nat
  BY DEF IInv, TypeOK
<1>3. \A m \in DOMAIN tasks : tasks[m].index = tasks[k].index => m = k
  BY DEF TasksDiffer
<1>4. IsParent(k)
  <2>1. \A l \in k + 1 .. Len(tasks) : l \in DOMAIN tasks /\ l # k
    BY <1>2
  <2> QED
    BY <1>1, <1>3, <2>1
<1>5. \A m \in DOMAIN tasks : IsParent(m) => m = k
  BY <1>1, <1>3
<1>6. ParentOf(u) = CHOOSE m \in DOMAIN tasks : IsParent(m)
  BY DEF ParentOf
<1> HIDE DEF IsParent
<1>7. ParentOf(u) = k
  BY <1>4, <1>5, <1>6
<1> QED
  BY <1>7 DEF u

\* A unit is decoded with the flags and the key of the task it came from, and goes
\* into the container of that task's title, if no two entries have the same index.
THEOREM UnitsFollowTheirTasks ==
    ASSUME IndexesDiffer
    PROVE  Spec => []UnitsHaveTheirParent
<1>1. IInv /\ Origin /\ TasksDiffer => UnitsHaveTheirParent
  <2> SUFFICES ASSUME IInv, Origin, TasksDiffer,
                      NEW j \in DOMAIN jobs, NEW u \in JobUnits(j)
               PROVE  /\ HasParent(u)
                      /\ jobs[j].vff_path = VffPath(tasks[ParentOf(u)])
                      /\ \E id \in Ids(tasks[ParentOf(u)]) : u = Unit(tasks[ParentOf(u)], id)
    BY DEF UnitsHaveTheirParent
  <2>1. PICK k \in DOMAIN tasks :
            /\ jobs[j].vff_path = VffPath(tasks[k])
            /\ \E id \in Ids(tasks[k]) : u = Unit(tasks[k], id)
    BY DEF Origin, UnitsComeFromTasks
  <2>2. PICK id \in Ids(tasks[k]) : u = Unit(tasks[k], id)
    BY <2>1
  <2>3. ParentOf(u) = k
    BY <2>2, ParentIsTheTask
  <2>4. HasParent(u)
    BY <2>2 DEF HasParent, Unit
  <2> QED
    BY <2>1, <2>2, <2>3, <2>4
<1>2. Spec => [](IInv /\ Origin /\ TasksAreEntries /\ TasksDiffer)
  BY TasksDifferInvariance, IndexesDiffer
<1> QED
  BY <1>1, <1>2, PTL

-----------------------------------------------------------------------------
(***************************************************************************)
(* Coverage.                                                               *)
(***************************************************************************)

\* What is in a job stays in it.
LEMMA ProvidedStays ==
    ASSUME IInv, NEW t, NEW id, Provided(t, id), at # "scan", [Next]_vars
    PROVE  Provided(t, id)'
<1>1. PICK j \in JobsOf(t) : \E u \in JobUnits(j) : u.filename = Filename(t, id)
  BY DEF Provided
<1>2. PICK u \in JobUnits(j) : u.filename = Filename(t, id)
  BY <1>1
<1>3. j \in DOMAIN jobs /\ jobs[j].vff_path = VffPath(t)
  BY <1>1 DEF JobsOf
<1>4. j \in DOMAIN jobs' /\ jobs'[j].vff_path = VffPath(t) /\ u \in JobUnits(j)'
  <2>1. CASE jobs' = jobs
    BY <1>2, <1>3, <2>1 DEF JobUnits
  <2>2. CASE Take
    BY <1>2, <1>3, <2>2, TakeAddsNoUnit DEF JobUnits
  <2>3. CASE AddUnit
    <3>1. PICK i \in left :
              /\ DOMAIN jobs' = DOMAIN jobs
              /\ \A k \in DOMAIN jobs : jobs'[k].vff_path = jobs[k].vff_path
              /\ \A k \in DOMAIN jobs : k # job => jobs'[k] = jobs[k]
              /\ {jobs'[job].units[x] : x \in DOMAIN jobs'[job].units} =
                     IF Duplicate(Filename(tasks[n], i)) THEN JobUnits(job)
                       ELSE JobUnits(job) \cup {Unit(tasks[n], i)}
      BY <2>3, AddUnitAddsOne
    <3>2. CASE j = job
      BY <1>2, <1>3, <3>1, <3>2 DEF JobUnits
    <3>3. CASE j # job
      BY <1>2, <1>3, <3>1, <3>3 DEF JobUnits
    <3> QED
      BY <3>2, <3>3
  <2>4. jobs' = jobs \/ Take \/ AddUnit
    BY DEF Next, Run, ScanFails, ScanEntry, ScanDone, Skip, TaskDone, BuildDone, Toggle,
           Finished, vars
  <2> QED
    BY <2>1, <2>2, <2>3, <2>4
<1>5. j \in JobsOf(t)'
  BY <1>4 DEF JobsOf, VffPath
<1> QED
  BY <1>2, <1>4, <1>5 DEF Provided, Filename, Suffix

\* No step but a switch decides anew what is wanted, and a switch that was turned
\* excuses its tasks.
LEMMA WantedOnlyShrinks ==
    ASSUME [Next]_vars, NEW t, Wanted(t)', LeftAlone(t)'
    PROVE  Wanted(t) /\ LeftAlone(t)
<1>1. CASE UNCHANGED <<mode, off, flipped>>
  BY <1>1 DEF Wanted, LeftAlone, IsEligible, ChannelEnabled, FindChannel
<1>2. CASE \E c \in Channels : Toggle(c)
  <2>1. PICK c \in Channels : Toggle(c)
    BY <1>2
  <2>2. mode' = mode
    BY <2>1 DEF Toggle
  <2>3. CASE mode = "restore"
    BY <2>2, <2>3 DEF Wanted, LeftAlone, IsEligible
  <2>4. CASE mode # "restore"
    <3>1. FindChannel(t) \cap flipped' = {}
      BY <2>2, <2>4 DEF LeftAlone, FindChannel
    <3> QED
      BY <2>1, <3>1, ToggleKeepsTheRest DEF LeftAlone
  <2> QED
    BY <2>3, <2>4
<1>3. CASE Run \/ Finished \/ UNCHANGED vars
  BY <1>1, <1>3 DEF Run, ScanFails, ScanEntry, ScanDone, Skip, Take, AddUnit, TaskDone,
                    BuildDone, Finished, vars
<1> QED
  BY <1>2, <1>3 DEF Next

LEMMA CoveredStays ==
    ASSUME IInv, at # "scan", [Next]_vars, NEW k, Covered(k)
    PROVE  Covered(k)'
<1>1. tasks' = tasks
  BY DEF Next, Run, ScanFails, ScanEntry, ScanDone, Skip, Take, AddUnit, TaskDone, BuildDone,
         Toggle, Finished, vars
<1>2. ASSUME NEW t, t = tasks[k], Wanted(t)', LeftAlone(t)', NEW id \in Ids(t)
      PROVE  Provided(t, id)'
  <2>1. Wanted(t) /\ LeftAlone(t)
    BY <1>2, WantedOnlyShrinks
  <2>2. Provided(t, id)
    BY <1>2, <2>1 DEF Covered
  <2> QED
    BY <2>2, ProvidedStays
<1>3. PICK t : t = tasks[k]
  OBVIOUS
<1>4. Covered(k)' <=> (Wanted(t)' /\ LeftAlone(t)' => \A id \in Ids(t) : Provided(t, id)')
  <2>1. tasks'[k] = t
    BY <1>1, <1>3
  <2>2. Wanted(tasks[k])' <=> Wanted(t)'
    BY <2>1 DEF Wanted, ChannelEnabled
  <2>3. LeftAlone(tasks[k])' <=> LeftAlone(t)'
    BY <2>1 DEF LeftAlone
  <2>4. Ids(tasks[k])' = Ids(t)
    BY <2>1
  <2>5. ASSUME NEW id
        PROVE  Provided(tasks[k], id)' <=> Provided(t, id)'
    BY <2>1 DEF Provided, JobsOf
  <2> QED
    BY <2>2, <2>3, <2>4, <2>5 DEF Covered
<1> QED
  BY <1>2, <1>3, <1>4

LEMMA CoverageIsPreserved ==
    ASSUME IInv, Origin, TasksAreCovered, [Next]_vars
    PROVE  TasksAreCovered'
<1>1. ASSUME at # "scan", n' = n, tasks' = tasks, NEW k \in DOMAIN tasks, k < n,
             at \in {"build", "expand", "done"}
      PROVE  Covered(k)'
  BY <1>1, CoveredStays DEF TasksAreCovered
<1>2. n \in Nat
  BY DEF IInv, TypeOK
<1>3. CASE at' \in {"scan", "aborted"}
  BY <1>3 DEF TasksAreCovered
<1>4. CASE ScanDone
  <2>1. at' = "build" /\ n' = 1 /\ tasks' = tasks /\ tasks \in Seq(Entry)
    BY <1>4 DEF ScanDone, IInv, TypeOK
  <2>2. \A k \in DOMAIN tasks : ~(k < 1)
    BY <2>1
  <2> QED
    BY <2>1, <2>2 DEF TasksAreCovered
<1>5. CASE Skip \/ TaskDone
  <2>1. /\ at \in {"build", "expand"} /\ at' = "build" /\ n' = n + 1
        /\ tasks' = tasks /\ tasks \in Seq(Entry)
    BY <1>5 DEF Skip, TaskDone, IInv, TypeOK
  <2>2. ASSUME NEW k \in DOMAIN tasks, k < n + 1
        PROVE  Covered(k)
    <3>1. CASE k < n
      BY <2>1, <3>1 DEF TasksAreCovered
    <3>2. CASE ~(k < n)
      <4>1. k = n
        BY <1>2, <2>1, <2>2, <3>2
      <4>2. CASE Skip
        BY <4>1, <4>2 DEF Skip, Covered
      <4>3. CASE TaskDone
        BY <4>1, <4>3 DEF TaskDone, Covered, TasksAreCovered
      <4> QED
        BY <1>5, <4>2, <4>3
    <3> QED
      BY <3>1, <3>2
  <2>3. ASSUME NEW k \in DOMAIN tasks, k < n + 1
        PROVE  Covered(k)'
    BY <2>1, <2>2, <2>3, CoveredStays
  <2> QED
    BY <2>1, <2>3 DEF TasksAreCovered
<1>6. CASE Take
  <2>1. /\ at = "build" /\ at' = "expand" /\ n' = n /\ tasks' = tasks
        /\ left' = Ids(tasks[n])
    BY <1>6 DEF Take
  <2>2. \A k \in DOMAIN tasks : k < n => Covered(k)'
    BY <1>1, <2>1
  <2>3. \A id \in Ids(tasks[n])' \ left' : Provided(tasks[n], id)'
    BY <2>1
  <2> QED
    BY <2>1, <2>2, <2>3 DEF TasksAreCovered
<1>7. CASE AddUnit
  <2>1. at = "expand" /\ at' = "expand" /\ UNCHANGED <<n, tasks, job>>
    BY <1>7 DEF AddUnit
  <2>2. \A k \in DOMAIN tasks : k < n => Covered(k)'
    BY <1>1, <2>1
  <2>3. PICK id \in left :
            /\ left' = left \ {id}
            /\ DOMAIN jobs' = DOMAIN jobs
            /\ \A j \in DOMAIN jobs : jobs'[j].vff_path = jobs[j].vff_path
            /\ {jobs'[job].units[u] : u \in DOMAIN jobs'[job].units} =
                   IF Duplicate(Filename(tasks[n], id)) THEN JobUnits(job)
                     ELSE JobUnits(job) \cup {Unit(tasks[n], id)}
    BY <1>7, AddUnitAddsOne
  <2>4. PICK t : t = tasks[n]
    OBVIOUS
  <2>5. job \in DOMAIN jobs' /\ jobs'[job].vff_path = VffPath(t)
    BY <2>1, <2>3, <2>4 DEF IInv, TypeOK, Origin, ExpandsIntoItsJob
  <2>6. \E u \in JobUnits(job)' : u.filename = Filename(t, id)
    <3>1. JobUnits(job)' = {jobs'[job].units[u] : u \in DOMAIN jobs'[job].units}
      BY <2>1 DEF JobUnits
    <3>2. CASE Duplicate(Filename(t, id))
      BY <2>3, <2>4, <3>1, <3>2, DuplicateIsInJob
    <3>3. CASE ~Duplicate(Filename(t, id))
      BY <2>3, <2>4, <3>1, <3>3, UnitFilename
    <3> QED
      BY <3>2, <3>3
  <2>7. Provided(t, id)'
    <3>1. PICK j : j = job
      OBVIOUS
    <3>2. JobUnits(job)' = JobUnits(j)'
      BY <2>1, <3>1 DEF JobUnits
    <3>3. j \in JobsOf(t)'
      BY <2>5, <3>1 DEF JobsOf
    <3> QED
      BY <2>6, <3>2, <3>3 DEF Provided
  <2>8. \A i \in Ids(t) \ left : Provided(t, i)'
    BY <2>1, <2>4, ProvidedStays DEF TasksAreCovered
  <2>9. \A i \in Ids(t) \ left' : Provided(t, i)'
    BY <2>3, <2>7, <2>8
  <2>10. \A i \in Ids(tasks[n])' \ left' : Provided(tasks[n], i)'
    <3>1. tasks'[n'] = t
      BY <2>1, <2>4
    <3>2. Ids(tasks[n])' = Ids(t)
      BY <3>1
    <3>3. ASSUME NEW i
          PROVE  Provided(tasks[n], i)' <=> Provided(t, i)'
      BY <3>1 DEF Provided, JobsOf
    <3> QED
      BY <2>9, <3>2, <3>3
  <2> QED
    BY <2>1, <2>2, <2>10 DEF TasksAreCovered
<1>8. CASE BuildDone
  <2>1. /\ at = "build" /\ at' = "done" /\ UNCHANGED <<n, tasks>> /\ n > Len(tasks)
    BY <1>8 DEF BuildDone
  <2> QED
    BY <1>1, <2>1 DEF TasksAreCovered
<1>9. CASE UNCHANGED <<at, n, tasks, left, jobs>> /\ at # "scan"
  <2>1. \A k \in DOMAIN tasks : at \in {"build", "expand", "done"} /\ k < n => Covered(k)'
    BY <1>1, <1>9
  <2>2. PICK t : t = tasks[n]
    OBVIOUS
  <2>3. at = "expand" => \A i \in Ids(t) \ left : Provided(t, i)'
    BY <1>9, <2>2, ProvidedStays DEF TasksAreCovered
  <2>4. tasks'[n'] = t
    BY <1>9, <2>2
  <2>5. Ids(tasks[n])' = Ids(t)
    BY <2>4
  <2>6. ASSUME NEW i
        PROVE  Provided(tasks[n], i)' <=> Provided(t, i)'
    BY <2>4 DEF Provided, JobsOf
  <2> QED
    BY <1>9, <2>1, <2>3, <2>5, <2>6 DEF TasksAreCovered
<1>10. CASE (\E c \in Channels : Toggle(c)) \/ Finished \/ UNCHANGED vars
  <2>1. UNCHANGED <<at, n, tasks, left, jobs>>
    BY <1>10 DEF Toggle, Finished, vars
  <2> QED
    BY <1>3, <1>9, <2>1
<1>11. CASE ScanFails \/ ScanEntry
  BY <1>3, <1>11 DEF ScanFails, ScanEntry
<1> QED
  BY <1>4, <1>5, <1>6, <1>7, <1>8, <1>10, <1>11 DEF Next, Run

LEMMA CoverageInvariance == Spec => [](IInv /\ Origin /\ TasksAreCovered)
<1>1. Init => TasksAreCovered
  BY DEF Init, TasksAreCovered
<1>2. IInv /\ Origin /\ TasksAreCovered /\ [Next]_vars => TasksAreCovered'
  BY CoverageIsPreserved
<1> QED
  BY <1>1, <1>2, OriginInvariance, PTL DEF Spec

\* However the switches are turned while the list is built, every file of an eligible
\* task whose channel is on and was left alone is in a job of its container, and in a
\* restore every file of an eligible task.
THEOREM NothingWantedIsMissed == Spec => []CoversWhatIsOn
<1>1. IInv /\ TasksAreCovered => CoversWhatIsOn
  <2> SUFFICES ASSUME IInv, TasksAreCovered, at = "done", NEW k \in DOMAIN tasks,
                      Wanted(tasks[k]), LeftAlone(tasks[k]), NEW id \in Ids(tasks[k])
               PROVE  Provided(tasks[k], id)
    BY DEF CoversWhatIsOn, LeftAlone, Provided
  <2>1. k < n
    BY DEF TasksAreCovered, IInv, TypeOK
  <2> QED
    BY <2>1 DEF TasksAreCovered, Covered
<1> QED
  BY <1>1, CoverageInvariance, PTL

-----------------------------------------------------------------------------
(***************************************************************************)
(* The first task that provides a file keeps it.                           *)
(***************************************************************************)

\* Of the tasks with this path, none before the unit's own provides its file.
IsFirst(path, u) ==
    \A k \in 1 .. ParentOf(u) :
        FindChannel(tasks[k]) \cap flipped = {} =>
            IF k = ParentOf(u) THEN Wanted(tasks[k])
              ELSE Wanted(tasks[k]) /\ path = VffPath(tasks[k])
                     => \A id \in Ids(tasks[k]) : Filename(tasks[k], id) # u.filename

LEMMA FirstStaysFirst ==
    ASSUME at # "scan", [Next]_vars, NEW path, NEW u, IsFirst(path, u)
    PROVE  IsFirst(path, u)'
<1>1. tasks' = tasks
  BY DEF Next, Run, ScanFails, ScanEntry, ScanDone, Skip, Take, AddUnit, TaskDone, BuildDone,
         Toggle, Finished, vars
<1>2. PICK parent : parent = ParentOf(u)
  OBVIOUS
<1>3. ParentOf(u)' = parent
  BY <1>1, <1>2 DEF ParentOf
<1>4. ASSUME NEW t, FindChannel(t) \cap flipped' = {}
      PROVE  FindChannel(t) \cap flipped = {} /\ (Wanted(t)' <=> Wanted(t))
  <2>1. CASE \E c \in Channels : Toggle(c)
    BY <1>4, <2>1, ToggleKeepsTheRest
  <2>2. CASE UNCHANGED <<mode, off, flipped>>
    BY <1>4, <2>2 DEF Wanted, ChannelEnabled
  <2>3. CASE Run \/ Finished \/ UNCHANGED vars
    BY <2>2, <2>3 DEF Run, ScanFails, ScanEntry, ScanDone, Skip, Take, AddUnit, TaskDone,
                      BuildDone, Finished, vars
  <2> QED
    BY <2>1, <2>3 DEF Next
<1>5. ASSUME NEW k \in 1 .. parent, FindChannel(tasks[k])' \cap flipped' = {}
      PROVE  IF k = parent THEN Wanted(tasks[k])'
               ELSE Wanted(tasks[k])' /\ path = VffPath(tasks[k])'
                      => \A id \in Ids(tasks[k])' : Filename(tasks[k], id)' # u.filename
  <2>1. PICK t : t = tasks[k]
    OBVIOUS
  <2>2. tasks'[k] = t
    BY <1>1, <2>1
  <2>3. FindChannel(t) \cap flipped' = {}
    BY <1>5, <2>2
  <2>4. FindChannel(t) \cap flipped = {} /\ (Wanted(t)' <=> Wanted(t))
    BY <1>4, <2>3
  <2>5. Wanted(tasks[k])' <=> Wanted(t)'
    BY <2>2 DEF Wanted, ChannelEnabled
  <2>6. IF k = parent THEN Wanted(t)
          ELSE Wanted(t) /\ path = VffPath(t) => \A id \in Ids(t) : Filename(t, id) # u.filename
    BY <1>2, <2>1, <2>4 DEF IsFirst
  <2> QED
    BY <2>2, <2>4, <2>5, <2>6
<1> QED
  BY <1>3, <1>5 DEF IsFirst

\* A file that an earlier task provides is a duplicate, since that task is covered.
LEMMA NewUnitIsFirst ==
    ASSUME IInv, Origin, TasksDiffer, TasksAreCovered, ExpandsWanted, at = "expand",
           NEW id \in left, ~Duplicate(Filename(tasks[n], id))
    PROVE  IsFirst(VffPath(tasks[n]), Unit(tasks[n], id))
<1> DEFINE path == VffPath(tasks[n])
           u == Unit(tasks[n], id)
<1>1. n \in DOMAIN tasks /\ job \in DOMAIN jobs /\ tasks \in Seq(Entry)
  BY DEF IInv, TypeOK
<1>2. ParentOf(u) = n
  BY <1>1, ParentIsTheTask
<1>3. u.filename = Filename(tasks[n], id)
  BY UnitFilename
<1>4. jobs[job].vff_path = path
  BY DEF Origin, ExpandsIntoItsJob
<1> HIDE DEF u, path
<1> SUFFICES ASSUME NEW k \in 1 .. n, FindChannel(tasks[k]) \cap flipped = {}
             PROVE  IF k = n THEN Wanted(tasks[k])
                      ELSE Wanted(tasks[k]) /\ path = VffPath(tasks[k])
                             => \A i \in Ids(tasks[k]) : Filename(tasks[k], i) # u.filename
  BY <1>2 DEF IsFirst, path, u
<1>5. CASE k = n
  BY <1>5 DEF ExpandsWanted
<1>6. CASE k # n
  <2> SUFFICES ASSUME Wanted(tasks[k]), path = VffPath(tasks[k]), NEW i \in Ids(tasks[k]),
                      Filename(tasks[k], i) = u.filename
               PROVE  FALSE
    BY <1>6
  <2>1. k \in DOMAIN tasks /\ k < n
    BY <1>1, <1>6
  <2>2. Provided(tasks[k], i)
    BY <2>1 DEF TasksAreCovered, Covered, LeftAlone
  <2>3. PICK j \in JobsOf(tasks[k]) : \E v \in JobUnits(j) : v.filename = Filename(tasks[k], i)
    BY <2>2 DEF Provided
  <2>4. j \in DOMAIN jobs /\ jobs[j].vff_path = path
    BY <2>3 DEF JobsOf
  <2>5. j = job
    BY <1>1, <1>4, <2>4 DEF IInv, PathsDiffer
  <2> QED
    BY <1>3, <2>3, <2>5, DuplicateIsInJob
<1> QED
  BY <1>5, <1>6

FirstKept == \A j \in DOMAIN jobs : \A u \in JobUnits(j) : IsFirst(jobs[j].vff_path, u)

LEMMA FirstKeptIsPreserved ==
    ASSUME IInv, Origin, TasksDiffer, TasksAreCovered, ExpandsWanted, FirstKept, [Next]_vars
    PROVE  FirstKept'
<1>1. ASSUME at # "scan", NEW path, NEW u, IsFirst(path, u)
      PROVE  IsFirst(path, u)'
  BY <1>1, FirstStaysFirst
<1>2. ASSUME NEW j \in DOMAIN jobs', NEW u \in JobUnits(j)'
      PROVE  IsFirst(jobs[j].vff_path, u)'
  <2>1. u \in {jobs'[j].units[x] : x \in DOMAIN jobs'[j].units}
    BY DEF JobUnits
  <2>2. at # "scan"
    <3>1. at = "scan" => jobs' = <<>>
      BY DEF Origin, ScanBuildsNothing, Next, Run, ScanFails, ScanEntry, ScanDone, Skip, Take,
             AddUnit, TaskDone, BuildDone, Toggle, Finished, vars
    <3> QED
      BY <3>1
  <2>3. PICK path : path = jobs'[j].vff_path
    OBVIOUS
  <2>4. IsFirst(path, u)
    <3>1. CASE jobs' = jobs
      BY <2>1, <2>3, <3>1 DEF FirstKept, JobUnits
    <3>2. CASE Take
      <4>1. j \in DOMAIN jobs /\ jobs'[j] = jobs[j]
        BY <2>1, <3>2, TakeAddsNoUnit
      <4>2. u \in JobUnits(j)
        BY <2>1, <4>1 DEF JobUnits
      <4> QED
        BY <2>3, <4>1, <4>2 DEF FirstKept
    <3>3. CASE AddUnit
      <4>1. PICK id \in left :
                /\ DOMAIN jobs' = DOMAIN jobs
                /\ \A k \in DOMAIN jobs : jobs'[k].vff_path = jobs[k].vff_path
                /\ \A k \in DOMAIN jobs : k # job => jobs'[k] = jobs[k]
                /\ {jobs'[job].units[x] : x \in DOMAIN jobs'[job].units} =
                       IF Duplicate(Filename(tasks[n], id)) THEN JobUnits(job)
                         ELSE JobUnits(job) \cup {Unit(tasks[n], id)}
        BY <3>3, AddUnitAddsOne
      <4>2. at = "expand" /\ job \in DOMAIN jobs
        BY <3>3 DEF AddUnit, IInv, TypeOK
      <4>3. CASE u \in JobUnits(j)
        BY <2>3, <4>1, <4>3 DEF FirstKept
      <4>4. CASE u \notin JobUnits(j)
        <5>1. j = job
          BY <2>1, <4>1, <4>4 DEF JobUnits
        <5>2. u = Unit(tasks[n], id) /\ ~Duplicate(Filename(tasks[n], id))
          BY <2>1, <4>1, <4>4, <5>1
        <5>3. path = VffPath(tasks[n])
          BY <2>3, <4>1, <4>2, <5>1 DEF Origin, ExpandsIntoItsJob
        <5> QED
          BY <4>2, <5>2, <5>3, NewUnitIsFirst
      <4> QED
        BY <4>3, <4>4
    <3>4. jobs' = jobs \/ Take \/ AddUnit
      BY DEF Next, Run, ScanFails, ScanEntry, ScanDone, Skip, TaskDone, BuildDone, Toggle,
             Finished, vars
    <3> QED
      BY <3>1, <3>2, <3>3, <3>4
  <2>5. IsFirst(path, u)'
    BY <1>1, <2>2, <2>4
  <2> QED
    BY <2>3, <2>5 DEF IsFirst
<1> QED
  BY <1>2 DEF FirstKept

LEMMA ExpandsWantedIsPreserved ==
    ASSUME ExpandsWanted, [Next]_vars
    PROVE  ExpandsWanted'
<1> SUFFICES ASSUME at' = "expand", NEW t, t = tasks'[n'], FindChannel(t) \cap flipped' = {}
             PROVE  Wanted(t)'
  <2>1. PICK t : t = tasks'[n']
    OBVIOUS
  <2>2. Wanted(tasks[n])' <=> Wanted(t)'
    BY <2>1 DEF Wanted, ChannelEnabled
  <2> QED
    BY <2>1, <2>2 DEF ExpandsWanted
<1>1. CASE Take
  <2>1. t = tasks[n] /\ Wanted(tasks[n]) /\ UNCHANGED <<mode, off>>
    BY <1>1 DEF Take
  <2> QED
    BY <2>1 DEF Wanted, ChannelEnabled
<1>2. CASE at = "expand" /\ UNCHANGED <<n, tasks, mode, off, flipped>>
  <2>1. Wanted(t)
    BY <1>2 DEF ExpandsWanted
  <2> QED
    BY <1>2, <2>1 DEF Wanted, ChannelEnabled
<1>3. CASE \E c \in Channels : Toggle(c)
  <2>1. at = "expand" /\ t = tasks[n]
    BY <1>3 DEF Toggle
  <2> QED
    BY <1>3, <2>1, ToggleKeepsTheRest DEF ExpandsWanted
<1>4. CASE (Run /\ ~Take) \/ Finished \/ UNCHANGED vars
  BY <1>2, <1>4 DEF Run, ScanFails, ScanEntry, ScanDone, Skip, AddUnit, TaskDone, BuildDone,
                    Finished, vars
<1> QED
  BY <1>1, <1>3, <1>4 DEF Next

\* Of the tasks that provide a file of a container the first is kept, and a unit's task
\* was wanted, unless their switches have been turned since the run began.
THEOREM TheFirstIsKept ==
    ASSUME IndexesDiffer
    PROVE  Spec => []KeepsTheFirst
<1> DEFINE Known == IInv /\ Origin /\ TasksDiffer /\ TasksAreCovered
<1>1. Init => ExpandsWanted /\ FirstKept
  BY DEF Init, ExpandsWanted, FirstKept
<1>2. Known /\ ExpandsWanted /\ FirstKept /\ [Next]_vars => ExpandsWanted' /\ FirstKept'
  BY FirstKeptIsPreserved, ExpandsWantedIsPreserved
<1>3. FirstKept => KeepsTheFirst
  BY DEF FirstKept, IsFirst, KeepsTheFirst
<1>4. Spec => [](IInv /\ Origin /\ TasksAreEntries /\ TasksDiffer)
  BY TasksDifferInvariance, IndexesDiffer
<1> QED
  BY <1>1, <1>2, <1>3, <1>4, CoverageInvariance, PTL DEF Spec
=============================================================================
