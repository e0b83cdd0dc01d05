-------------------------- MODULE Lifecycle_proofs --------------------------
(***************************************************************************)
(* Proofs about Lifecycle for any threads, any cooldown and any number of  *)
(* messages and containers, with or without memory for a thread: how much  *)
(* is still written after a stop was requested, what the exit hooks may    *)
(* conclude from a thread that is gone, that a running job keeps its       *)
(* stack, and that an interrupted run is retried.                          *)
(***************************************************************************)
EXTENDS Lifecycle, TLAPS

-----------------------------------------------------------------------------
(***************************************************************************)
(* The inductive invariant.                                                *)
(***************************************************************************)

\* The hooks that are still to call Stop.
StopsLeft ==
    hook \in {"start", "ui", "stop", "waitCritical", "waitRunning"} => calls > 0

\* s_running is up exactly while there is a job, and s_thread then has its block: no
\* hook can take a job for finished by a pointer that is null.
JobHasThread ==
    /\ running <=> part # "none"
    /\ running => thread # None
    /\ running => thread \in allocated /\ thread \in alive

\* Where each part of the job can be.
WritingParts == {"recover", "send", "fetch", "channels"}
StepsOfParts ==
    /\ step = "work" => part \in {"send", "fetch", "channels"}
    /\ step \in {"write", "writing"} => part \in WritingParts
    /\ step = "write" => writes > 0

\* What the writes ahead may still add to those begun since the request. SendMail
\* and the recovery do not look at the flag, so nothing may have been written when
\* they start.
OverrunIsAhead ==
    /\ overrun <= 2
    /\ running /\ ~stop => overrun = 0
    /\ part = "recover" /\ step = "enter" => overrun = 0
    /\ part = "send" /\ step = "work" => overrun = 0
    /\ step = "write" => overrun + writes <= 2
    /\ step = "writing" => overrun + writes <= 3

\* What was passed over because of the flag keeps the flag up until the job is over:
\* a Start in between does not clear it. So what is recorded as the last run, here
\* or in the storage, passed nothing over.
MissedMeansStop == running /\ missed => stop
RecordedAreFull ==
    /\ lastRun > 0 => lastRun \in fullRuns
    /\ stored.lastRun > 0 => stored.lastRun \in fullRuns

Inv ==
    /\ TypeOK
    /\ StopsLeft
    /\ JobHasThread
    /\ StepsOfParts
    /\ OverrunIsAhead
    /\ MissedMeansStop
    /\ RecordedAreFull

-----------------------------------------------------------------------------
(***************************************************************************)
(* Two groups of TypeOK's conjuncts, because a step that assigns a flag    *)
(* and a number needs a different prover for each.                         *)
(***************************************************************************)
FlagsOK ==
    /\ atMenu \in BOOLEAN /\ running \in BOOLEAN /\ stop \in BOOLEAN
    /\ autorun \in BOOLEAN /\ journal \in BOOLEAN /\ wrote \in BOOLEAN
    /\ missed \in BOOLEAN /\ refused \in BOOLEAN

ValuesOK ==
    /\ hook \in {"off", "start", "ui", "stop", "waitCritical", "waitRunning", "dying"}
    /\ calls \in 0 .. 3 /\ now \in Times
    /\ thread \in Threads \cup {None} /\ alive \subseteq Threads /\ allocated \subseteq Threads
    /\ critical \in {0, 1} /\ part \in Parts /\ step \in {"enter", "work", "write", "writing"}
    /\ left \in 0 .. MaxUnits /\ writes \in 0 .. 2 /\ overrun \in Nat
    /\ lastRun \in 0 .. MaxTime /\ fullRuns \subseteq Times

StoredOK == stored \in [autorun : BOOLEAN, lastRun : 0 .. MaxTime]

LEMMA TypeGroups ==
    /\ FlagsOK /\ ValuesOK /\ StoredOK => TypeOK
    /\ FlagsOK' /\ ValuesOK' /\ StoredOK' => TypeOK'
BY Zenon DEF TypeOK, FlagsOK, ValuesOK, StoredOK

\* Without a process there is no job and nothing to stop.
LEMMA InvInit == Init => Inv
<1> SUFFICES ASSUME Init PROVE Inv
  OBVIOUS
<1>1. FlagsOK
  BY DEF Init, FlagsOK
<1>2. ValuesOK
  BY LifecycleAssumption DEF Init, ValuesOK, Times, Parts
<1>3. StoredOK
  BY LifecycleAssumption DEF Init, StoredOK
<1>4. StopsLeft /\ JobHasThread /\ StepsOfParts /\ OverrunIsAhead /\ MissedMeansStop /\ RecordedAreFull
  BY DEF Init, StopsLeft, JobHasThread, StepsOfParts, WritingParts, OverrunIsAhead,
         MissedMeansStop, RecordedAreFull
<1> QED
  BY <1>1, <1>2, <1>3, <1>4, TypeGroups DEF Inv

\* A job that is started has everything ahead of it.
LEMMA StartKeeps ==
    ASSUME Inv, Start, hook' \in {"start", "ui"}, UNCHANGED <<calls, atMenu, now, settingVars, journal>>, calls > 0
    PROVE  Inv'
<1>1. ASSUME NEW t \in Threads, StartOn(t) PROVE Inv'
  <2>1. FlagsOK' /\ StoredOK'
    BY <1>1, Zenon DEF StartOn, Inv, TypeOK, FlagsOK, StoredOK, settingVars
  <2>2. ValuesOK'
    BY <1>1, LifecycleAssumption
       DEF StartOn, Inv, TypeOK, ValuesOK, Times, Parts, settingVars
  <2>3. /\ StopsLeft' /\ JobHasThread' /\ StepsOfParts' /\ OverrunIsAhead'
        /\ MissedMeansStop' /\ RecordedAreFull'
    BY <1>1, LifecycleAssumption
       DEF StartOn, Inv, StopsLeft, JobHasThread, StepsOfParts, WritingParts, OverrunIsAhead,
           MissedMeansStop, RecordedAreFull, settingVars
  <2> QED
    BY <2>1, <2>2, <2>3, TypeGroups DEF Inv
<1> USE LifecycleAssumption
     DEF Inv, TypeOK, Times, Parts, StopsLeft, JobHasThread, StepsOfParts, WritingParts,
         OverrunIsAhead, MissedMeansStop, RecordedAreFull, settingVars
<1>2. CASE StartFails
  BY <1>2 DEF StartFails, jobVars, historyVars, runHistory
<1>3. CASE running /\ UNCHANGED <<threadVars, guardVars, jobVars, historyVars>>
  BY <1>3 DEF threadVars, guardVars, jobVars, historyVars, runHistory
<1> HIDE DEF Inv
<1> QED
  BY <1>1, <1>2, <1>3 DEF Start

\* The title's thread: it raises the flag but starts no write.
LEMMA TitleKeeps ==
    ASSUME Inv,
           \/ LoadPlugin \/ HookStep \/ RunNow \/ ToggleAutorun \/ TimePasses
           \/ ExitRequested \/ PowerLoss
    PROVE  Inv'
<1>1. CASE ApplicationStarts
  <2>1. ASSUME Start PROVE Inv'
    <3>1. /\ hook = "start" /\ hook' = "ui"
          /\ UNCHANGED <<calls, atMenu, now, settingVars, journal>>
      BY <1>1 DEF ApplicationStarts
    <3>2. calls > 0
      BY <3>1 DEF Inv, StopsLeft
    <3> QED
      BY <2>1, <3>1, <3>2, StartKeeps
  <2>2. CASE UNCHANGED <<threadVars, guardVars, jobVars, historyVars>>
    BY <1>1, <2>2
       DEF ApplicationStarts, Inv, TypeOK, Times, Parts, StopsLeft, JobHasThread,
           StepsOfParts, WritingParts, OverrunIsAhead, MissedMeansStop, RecordedAreFull,
           threadVars, guardVars, jobVars, settingVars, historyVars, runHistory
  <2> QED
    BY <1>1, <2>1, <2>2 DEF ApplicationStarts
<1>2. CASE RunNow
  <2>1. calls > 0
    BY <1>2 DEF RunNow, Inv, StopsLeft
  <2> QED
    BY <1>2, <2>1, StartKeeps DEF RunNow, titleVars
<1>3. CASE LoadPlugin
  <2>1. FlagsOK' /\ StoredOK'
    BY <1>3 DEF LoadPlugin, Inv, TypeOK, FlagsOK, StoredOK
  <2>2. ValuesOK'
    BY <1>3, LifecycleAssumption DEF LoadPlugin, Inv, TypeOK, ValuesOK, Times, Parts
  <2>3. /\ StopsLeft' /\ JobHasThread' /\ StepsOfParts' /\ OverrunIsAhead'
        /\ MissedMeansStop' /\ RecordedAreFull'
    BY <1>3 DEF LoadPlugin, Inv, StopsLeft, JobHasThread, StepsOfParts, WritingParts,
       OverrunIsAhead, MissedMeansStop, RecordedAreFull
  <2> QED
    BY <2>1, <2>2, <2>3, TypeGroups DEF Inv
<1>4. CASE ToggleAutorun
  <2>1. FlagsOK' /\ StoredOK'
    BY <1>4, Zenon DEF ToggleAutorun, Inv, TypeOK, FlagsOK, StoredOK, titleVars, threadVars,
       guardVars, jobVars, historyVars, runHistory
  <2>2. ValuesOK'
    BY <1>4 DEF ToggleAutorun, Inv, TypeOK, ValuesOK, Times, Parts, titleVars, threadVars,
       guardVars, jobVars, historyVars, runHistory
  <2>3. /\ StopsLeft' /\ JobHasThread' /\ StepsOfParts' /\ OverrunIsAhead'
        /\ MissedMeansStop' /\ RecordedAreFull'
    BY <1>4 DEF ToggleAutorun, Inv, StopsLeft, JobHasThread, StepsOfParts, WritingParts,
       OverrunIsAhead, MissedMeansStop, RecordedAreFull, titleVars, threadVars, guardVars,
       jobVars, historyVars, runHistory
  <2> QED
    BY <2>1, <2>2, <2>3, TypeGroups DEF Inv
<1> USE LifecycleAssumption
     DEF Inv, TypeOK, Times, Parts, StopsLeft, JobHasThread, StepsOfParts, WritingParts,
         OverrunIsAhead, MissedMeansStop, RecordedAreFull,
         threadVars, guardVars, jobVars, settingVars, historyVars, runHistory
<1>5. CASE TimePasses
  BY <1>5 DEF TimePasses
<1>6. CASE ExitRequested
  BY <1>6 DEF ExitRequested
<1>7. CASE NothingToStop
  BY <1>7 DEF NothingToStop, StopReturns
<1>8. CASE RequestStop
  BY <1>8 DEF RequestStop
<1>9. CASE CriticalSectionAwaited
  BY <1>9 DEF CriticalSectionAwaited
<1>10. CASE JoinThread
  BY <1>10 DEF JoinThread, StopReturns
<1>11. CASE GiveUp
  BY <1>11 DEF GiveUp, StopReturns
<1>12. CASE Die
  BY <1>12 DEF Die
<1> HIDE DEF Inv
<1> QED
  BY <1>1, <1>2, <1>3, <1>4, <1>5, <1>6, <1>7, <1>8, <1>9, <1>10, <1>11, <1>12
     DEF HookStep, Stop, ProcessEnds, PowerLoss

\* The job and its thread.
LEMMA JobKeeps ==
    ASSUME Inv, JobStep \/ ThreadsExit
    PROVE  Inv'
<1>14. CASE JobReturns
  <2>1. FlagsOK' /\ StoredOK'
    BY <1>14, Zenon DEF JobReturns, Inv, TypeOK, FlagsOK, StoredOK, titleVars, guardVars,
       settingVars, historyVars, runHistory
  <2>2. ValuesOK'
    BY <1>14, LifecycleAssumption
       DEF JobReturns, NextPart, Inv, TypeOK, ValuesOK, Times, Parts, titleVars, guardVars,
           settingVars, historyVars, runHistory
  <2>3. /\ StopsLeft' /\ JobHasThread' /\ StepsOfParts' /\ OverrunIsAhead'
        /\ MissedMeansStop' /\ RecordedAreFull'
    BY <1>14 DEF JobReturns, NextPart, Inv, StopsLeft, JobHasThread, StepsOfParts,
       WritingParts, OverrunIsAhead, MissedMeansStop, RecordedAreFull, titleVars, guardVars,
       settingVars, historyVars, runHistory
  <2> QED
    BY <2>1, <2>2, <2>3, TypeGroups DEF Inv
<1> USE LifecycleAssumption
     DEF Inv, TypeOK, Times, Parts, StopsLeft, JobHasThread, StepsOfParts, WritingParts,
         OverrunIsAhead, MissedMeansStop, RecordedAreFull,
         titleVars, threadVars, guardVars, jobVars, settingVars, historyVars,
         runHistory,
         JobVarsOnly, PassesOver, InJob, NextPart, Write
<1>1. CASE RecoverFirst
  BY <1>1 DEF RecoverFirst
<1>2. CASE EnterSend
  BY <1>2 DEF EnterSend
<1>3. CASE SendMail
  BY <1>3 DEF SendMail
<1>4. CASE EnterFetch
  BY <1>4 DEF EnterFetch
<1>5. CASE DeliverMessage
  BY <1>5 DEF DeliverMessage
<1>6. CASE EndFetch
  BY <1>6 DEF EndFetch
<1>7. CASE Gate
  BY <1>7 DEF Gate
<1>16. CASE StartPipeline
  BY <1>16 DEF StartPipeline
<1>17. CASE PipelineAborts
  BY <1>17 DEF PipelineAborts
<1>8. CASE UpdateContainer
  BY <1>8 DEF UpdateContainer
<1>9. CASE BreakOff
  BY <1>9 DEF BreakOff
<1>10. CASE EndChannels
  BY <1>10 DEF EndChannels
<1>11. CASE EndRun
  BY <1>11 DEF EndRun
<1>12. CASE BeginWrite
  BY <1>12 DEF BeginWrite
<1>13. CASE EndWrite
  <2>1. PICK more \in {0, writes - 1} :
            /\ journal' \in CASE part = "channels" /\ more > 0 -> {TRUE}
                              [] part \in {"recover", "channels"} -> BOOLEAN
                              [] OTHER -> {FALSE}
            /\ IF more > 0 THEN Write(more) /\ UNCHANGED <<part, left>>
               ELSE IF part \in {"fetch", "channels"}
                      THEN step' = "work" /\ writes' = 0 /\ UNCHANGED <<part, left>>
               ELSE NextPart(IF part = "recover" THEN "send" ELSE "fetch")
    BY <1>13 DEF EndWrite
  <2>2. journal' \in BOOLEAN
    BY <2>1
  <2>3. CASE more > 0
    BY <1>13, <2>1, <2>2, <2>3 DEF EndWrite
  <2>4. CASE ~(more > 0) /\ part \in {"fetch", "channels"}
    BY <1>13, <2>1, <2>2, <2>4 DEF EndWrite
  <2>5. CASE ~(more > 0) /\ part \in {"recover", "send"}
    BY <1>13, <2>1, <2>2, <2>5 DEF EndWrite
  <2>6. part \in WritingParts
    BY <1>13 DEF EndWrite
  <2> HIDE DEF Inv
  <2> QED
    BY <2>3, <2>4, <2>5, <2>6
<1>15. ASSUME NEW t \in Threads, ThreadExits(t) PROVE Inv'
  BY <1>15 DEF ThreadExits
<1> HIDE DEF Inv
<1> QED
  BY <1>1, <1>2, <1>3, <1>4, <1>5, <1>6, <1>7, <1>8, <1>9, <1>10, <1>11, <1>12, <1>13,
     <1>14, <1>15, <1>16, <1>17 DEF JobStep, ThreadsExit

LEMMA InvNext == Inv /\ [Next]_vars => Inv'
<1> SUFFICES ASSUME Inv, [Next]_vars PROVE Inv'
  OBVIOUS
<1>1. CASE UNCHANGED vars
  BY <1>1 DEF vars, titleVars, threadVars, guardVars, jobVars, settingVars, historyVars,
         runHistory,
     Inv, TypeOK, Times, Parts, StopsLeft, JobHasThread, StepsOfParts, WritingParts,
     OverrunIsAhead, MissedMeansStop, RecordedAreFull
<1> QED
  BY <1>1, TitleKeeps, JobKeeps DEF Next

THEOREM InvHolds == Spec => []Inv
BY InvInit, InvNext, PTL DEF Spec

-----------------------------------------------------------------------------
(***************************************************************************)
(* What it is for.                                                         *)
(***************************************************************************)

\* TypeOK; in particular the three hooks' calls of Stop are never more than three.
THEOREM LifecycleTypeCorrect == Spec => []TypeOK
BY InvHolds, PTL DEF Inv

\* BoundedOverrun: wherever the request falls among the looks at the flag, at most two
\* writes are begun after it.
THEOREM OverrunIsBounded == Spec => []BoundedOverrun
<1>1. Inv => BoundedOverrun
  BY DEF Inv, OverrunIsAhead, BoundedOverrun
<1> QED
  BY <1>1, InvHolds, PTL

\* FinishedMeansNoWrite: once Stop has dropped the thread, nothing is being written,
\* although neither of its waits asks for both conditions at once.
THEOREM FinishedJobsDoNotWrite == Spec => []FinishedMeansNoWrite
<1>1. Inv => FinishedMeansNoWrite
  BY DEF Inv, JobHasThread, StepsOfParts, WritingParts, FinishedMeansNoWrite
<1> QED
  BY <1>1, InvHolds, PTL

\* JobKeepsItsStack: no Stop that gives up and no Start that comes upon a running job
\* frees the block it runs on.
THEOREM RunningJobsKeepTheirStack == Spec => []JobKeepsItsStack
<1>1. Inv => JobKeepsItsStack
  BY DEF Inv, JobHasThread, JobKeepsItsStack
<1> QED
  BY <1>1, InvHolds, PTL

\* InterruptedRunsAreRetried: at the menu, only a run that passed nothing over can keep
\* the job from being started, through any stops, cuts and changes of the clock.
THEOREM InterruptedRunsAreRetriedAtBoot == Spec => InterruptedRunsAreRetried
<1> DEFINE P == hook = "start" /\ hook' = "ui" /\ atMenu /\ autorun /\ ~HeldBack
                 => running' \/ refused'
<1>1. Inv /\ [Next]_vars => [P]_vars
  <2> SUFFICES ASSUME Inv, [Next]_vars, hook = "start", hook' = "ui", atMenu, autorun,
                      ~HeldBack
               PROVE  running' \/ refused'
    BY DEF vars
  <2>1. ApplicationStarts
    BY DEF Next, LoadPlugin, HookStep, Stop, NothingToStop,
       RequestStop, CriticalSectionAwaited, JoinThread, GiveUp, StopReturns, ProcessEnds, Die,
       RunNow, ToggleAutorun, TimePasses, ExitRequested, PowerLoss, JobStep, JobVarsOnly,
       PassesOver, RecoverFirst, EnterSend, SendMail, EnterFetch, DeliverMessage, EndFetch,
       Gate, StartPipeline, PipelineAborts, UpdateContainer, BreakOff, EndChannels, EndRun,
       BeginWrite, EndWrite, JobReturns, ThreadsExit, ThreadExits, titleVars, vars
  <2>2. ~CoolingDown
    BY DEF Inv, RecordedAreFull, CoolingDown, HeldBack
  <2>3. Start
    BY <2>1, <2>2 DEF ApplicationStarts
  <2> QED
    BY <2>3 DEF Start, StartOn, StartFails, threadVars
<1> QED
  BY <1>1, InvHolds, PTL DEF Spec, InterruptedRunsAreRetried
=============================================================================
