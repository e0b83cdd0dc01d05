----------------------------- MODULE Lifecycle -----------------------------
(***************************************************************************)
(* When the background job runs and how it is brought to an end: the       *)
(* plugin's hooks and the menu (main.cpp) on the title's own thread,       *)
(* autorun.cpp's thread, and guard.cpp's stop flag and critical section.   *)
(*                                                                         *)
(* Of what the job does this keeps the order of AutorunJob's parts, where  *)
(* each looks at the stop flag, and the NAND writes each makes in a row.   *)
(***************************************************************************)
EXTENDS Integers, FiniteSets

CONSTANTS
    Threads,     \* the thread blocks (OSThread and stack) malloc can hand out
    None,        \* nullptr
    Cooldown,    \* kCooldownSeconds
    OutOfMemory, \* malloc or OSCreateThread can fail
    MaxTime,     \* bound: the last value of the clock
    MaxUnits     \* bound: the messages or containers one part comes across

ASSUME LifecycleAssumption ==
    /\ None \notin Threads
    /\ Cooldown \in Nat
    /\ OutOfMemory \in BOOLEAN
    /\ MaxTime \in Nat \ {0}
    /\ MaxUnits \in Nat

VARIABLES
    hook,        \* where the title's thread is; "off" without a process
    calls,       \* the calls of autorun::Stop still to be made by the exit hooks
    atMenu,      \* IsWiiUMenu
    now,         \* std::time
    thread,      \* s_thread
    running,     \* s_running
    alive,       \* the threads that have not come to their end
    allocated,   \* the thread blocks that are not free
    stop,        \* s_stop
    critical,    \* s_critical
    part,        \* the part of AutorunJob the job is in; "none" without a job
    step,        \* where in that part
    left,        \* messages or containers this part has not come to yet
    writes,      \* NAND writes to be made before the flag is looked at again
    autorun,     \* s_autorun
    lastRun,     \* s_lastRun; 0 for never
    stored,      \* both as WUPS storage has them
    journal,     \* there is a recovery journal on the SD card
    overrun,     \* history: the writes begun since the stop was requested
    wrote,       \* history: this run has begun a write
    missed,      \* history: this run has passed something over because of a stop
    fullRuns,    \* history: when the runs ended that passed nothing over
    refused      \* history: the last Start had no memory for a thread

titleVars == <<hook, calls, atMenu, now>>
threadVars == <<thread, running, alive, allocated, refused>>
guardVars == <<stop, critical>>
jobVars == <<part, step, left, writes>>
settingVars == <<autorun, lastRun, stored>>
runHistory == <<overrun, wrote, missed>>
historyVars == <<runHistory, fullRuns>>
vars == <<titleVars, threadVars, guardVars, jobVars, settingVars, journal, historyVars>>

Times == 1 .. MaxTime
Parts == {"none", "recover", "send", "fetch", "gate", "channels", "aborted", "end", "return"}

TypeOK ==
    /\ hook \in {"off", "start", "ui", "stop", "waitCritical", "waitRunning", "dying"}
    /\ calls \in 0 .. 3
    /\ atMenu \in BOOLEAN
    /\ now \in Times
    /\ thread \in Threads \cup {None}
    /\ running \in BOOLEAN
    /\ alive \subseteq Threads
    /\ allocated \subseteq Threads
    /\ stop \in BOOLEAN
    /\ critical \in {0, 1}
    /\ part \in Parts
    /\ step \in {"enter", "work", "write", "writing"}
    /\ left \in 0 .. MaxUnits
    /\ writes \in 0 .. 2
    /\ autorun \in BOOLEAN
    /\ lastRun \in 0 .. MaxTime
    /\ stored \in [autorun : BOOLEAN, lastRun : 0 .. MaxTime]
    /\ journal \in BOOLEAN
    /\ overrun \in Nat
    /\ wrote \in BOOLEAN
    /\ missed \in BOOLEAN
    /\ fullRuns \subseteq Times
    /\ refused \in BOOLEAN

Init ==
    /\ hook = "off"
    /\ calls = 0
    /\ atMenu = FALSE
    /\ now = 1
    /\ thread = None /\ running = FALSE /\ alive = {} /\ allocated = {}
    /\ stop = FALSE /\ critical = 0
    /\ part = "none" /\ step = "enter" /\ left = 0 /\ writes = 0
    /\ autorun = TRUE /\ lastRun = 0
    /\ stored = [autorun |-> TRUE, lastRun |-> 0]
    /\ journal = FALSE
    /\ overrun = 0 /\ wrote = FALSE /\ missed = FALSE
    /\ fullRuns = {} /\ refused = FALSE

-----------------------------------------------------------------------------
(***************************************************************************)
(* autorun::Start.                                                         *)
(***************************************************************************)

\* Start past its first check: the previous thread's block is freed, the flag
\* cleared, and a block t handed out and started on JobEntry.
StartOn(t) ==
    /\ ~running
    /\ t \notin allocated \cup alive
    /\ thread' = t
    /\ allocated' = (allocated \ {thread}) \cup {t}
    /\ alive' = alive \cup {t}
    /\ running' = TRUE
    /\ refused' = FALSE
    /\ stop' = FALSE
    /\ part' = "recover" /\ step' = "enter" /\ left' = 0 /\ writes' = 0
    /\ overrun' = 0 /\ wrote' = FALSE /\ missed' = FALSE
    /\ UNCHANGED <<critical, fullRuns>>

\* malloc or OSCreateThread fails.
StartFails ==
    /\ OutOfMemory
    /\ ~running
    /\ thread' = None
    /\ allocated' = allocated \ {thread}
    /\ refused' = TRUE
    /\ stop' = FALSE
    /\ UNCHANGED <<running, alive, critical, jobVars, historyVars>>

\* Start cleaning up before it looks whether a job is running.
CleansUpFirst ==
    \/ \E t \in Threads : StartOn(t)
    \/ StartFails
    \/ /\ running
       /\ thread' = None
       /\ allocated' = allocated \ {thread}
       /\ UNCHANGED <<running, alive, refused, guardVars, jobVars, historyVars>>

Start ==
    \/ \E t \in Threads : StartOn(t)
    \/ StartFails
    \/ running /\ UNCHANGED <<threadVars, guardVars, jobVars, historyVars>>

-----------------------------------------------------------------------------
(***************************************************************************)
(* The title's thread: the plugin's hooks and the configuration menu.      *)
(***************************************************************************)

\* A title starts, and the plugin is loaded afresh: INITIALIZE_PLUGIN. The clock
\* may have been set to anything in between.
LoadPlugin ==
    /\ hook = "off"
    /\ hook' = "start"
    /\ calls' = 3
    /\ atMenu' \in BOOLEAN
    /\ now' \in Times
    /\ thread' = None /\ running' = FALSE /\ alive' = {} /\ allocated' = {}
    /\ stop' = FALSE /\ critical' = 0
    /\ part' = "none" /\ step' = "enter" /\ left' = 0 /\ writes' = 0
    /\ autorun' = stored.autorun /\ lastRun' = stored.lastRun
    /\ overrun' = 0 /\ wrote' = FALSE /\ missed' = FALSE /\ refused' = FALSE
    /\ UNCHANGED <<stored, journal, fullRuns>>

CoolingDown ==
    /\ lastRun > 0
    /\ now - lastRun \in 0 .. Cooldown - 1

\* ON_APPLICATION_START
ApplicationStarts ==
    /\ hook = "start"
    /\ hook' = "ui"
    /\ IF autorun /\ atMenu /\ ~CoolingDown
         THEN Start
         ELSE UNCHANGED <<threadVars, guardVars, jobVars, historyVars>>
    /\ UNCHANGED <<calls, atMenu, now, settingVars, journal>>

\* "Update now": the cooldown does not apply, nor does it matter which title runs.
\* With a job running neither the callback nor Start does anything.
RunNow ==
    /\ hook = "ui"
    /\ Start
    /\ UNCHANGED <<titleVars, settingVars, journal>>

\* "Update at boot", stored by the time the menu is closed.
ToggleAutorun ==
    /\ hook = "ui"
    /\ autorun' = ~autorun
    /\ stored' = [stored EXCEPT !.autorun = ~autorun]
    /\ UNCHANGED <<titleVars, threadVars, guardVars, jobVars, lastRun, journal, historyVars>>

TimePasses ==
    /\ hook = "ui"
    /\ now < MaxTime
    /\ now' = now + 1
    /\ UNCHANGED <<hook, calls, atMenu, threadVars, guardVars, jobVars, settingVars,
                   journal, historyVars>>

\* The title is on its way out: ON_APPLICATION_REQUESTS_EXIT, ON_APPLICATION_ENDS
\* and DEINITIALIZE_PLUGIN each call Stop.
ExitRequested ==
    /\ hook = "ui"
    /\ hook' = "stop"
    /\ UNCHANGED <<calls, atMenu, now, threadVars, guardVars, jobVars, settingVars,
                   journal, historyVars>>

\* Stop returns: on to the next hook, or to the end of the process.
StopReturns ==
    /\ calls' = calls - 1
    /\ hook' = IF calls > 1 THEN "stop" ELSE "dying"
    /\ UNCHANGED <<atMenu, now>>

-----------------------------------------------------------------------------
(***************************************************************************)
(* autorun::Stop.                                                          *)
(***************************************************************************)

NothingToStop ==
    /\ hook = "stop"
    /\ thread = None
    /\ StopReturns
    /\ UNCHANGED <<threadVars, guardVars, jobVars, settingVars, journal, historyVars>>

RequestStop ==
    /\ hook = "stop"
    /\ thread # None
    /\ stop' = TRUE
    /\ hook' = "waitCritical"
    /\ UNCHANGED <<calls, atMenu, now, threadVars, critical, jobVars, settingVars,
                   journal, historyVars>>

\* WaitForCriticalSection sees no critical section, or has waited long enough:
\* Stop carries on alike.
CriticalSectionAwaited ==
    /\ hook = "waitCritical"
    /\ hook' = "waitRunning"
    /\ UNCHANGED <<calls, atMenu, now, threadVars, guardVars, jobVars, settingVars,
                   journal, historyVars>>

\* The job has finished: OSJoinThread waits for its thread, Cleanup frees it.
JoinThread ==
    /\ hook = "waitRunning"
    /\ ~running
    /\ thread \notin alive
    /\ thread' = None
    /\ allocated' = allocated \ {thread}
    /\ StopReturns
    /\ UNCHANGED <<running, alive, refused, guardVars, jobVars, settingVars, journal,
                   historyVars>>

\* Stop freeing the thread's block whether or not it has finished.
FreesOnTimeout ==
    /\ hook = "waitRunning"
    /\ running
    /\ thread' = None
    /\ allocated' = allocated \ {thread}
    /\ StopReturns
    /\ UNCHANGED <<running, alive, refused, guardVars, jobVars, settingVars, journal,
                   historyVars>>

\* Stop polling s_running without a limit.
NeverGivesUp == FALSE

\* "job did not stop": Stop returns false after its timeout.
GiveUp ==
    /\ hook = "waitRunning"
    /\ running
    /\ StopReturns
    /\ UNCHANGED <<threadVars, guardVars, jobVars, settingVars, journal, historyVars>>

Stop ==
    NothingToStop \/ RequestStop \/ CriticalSectionAwaited \/ JoinThread \/ GiveUp

\* The process is gone, with whatever was running in it.
Die ==
    /\ hook' = "off"
    /\ UNCHANGED <<calls, atMenu, now, threadVars, guardVars, jobVars, settingVars,
                   journal, historyVars>>

ProcessEnds == hook = "dying" /\ Die
PowerLoss == hook # "off" /\ Die

-----------------------------------------------------------------------------
(***************************************************************************)
(* AutorunJob on the job's thread.                                         *)
(***************************************************************************)
JobVarsOnly == UNCHANGED <<titleVars, threadVars, guardVars, settingVars, journal, historyVars>>

\* The same for a step that may pass something over because of a stop.
PassesOver(something) ==
    /\ missed' = (missed \/ something)
    /\ UNCHANGED <<titleVars, threadVars, guardVars, settingVars, journal, overrun, wrote,
                   fullRuns>>

InJob(p, s) == hook # "off" /\ running /\ part = p /\ step = s

NextPart(p) == part' = p /\ step' = "enter" /\ left' = 0 /\ writes' = 0

Write(n) == step' = "write" /\ writes' = n

\* RecoverIfNeeded writes the backup if a journal is left and all goes well. Without
\* the NAND the job ends here.
RecoverFirst ==
    /\ InJob("recover", "enter")
    /\ \/ NextPart("return")
       \/ NextPart("send")
       \/ journal /\ Write(1) /\ UNCHANGED <<part, left>>
    /\ JobVarsOnly

\* The mail parts are entered with s_autoMail on and no stop requested.
EnterSend ==
    /\ InJob("send", "enter")
    /\ \/ ~stop /\ step' = "work" /\ UNCHANGED <<part, left, writes>>
       \/ NextPart("fetch")
    /\ PassesOver(stop)

\* The server took some messages, so the outbox's two files must be written: "no
\* StopRequested() check here". Or there was nothing to send.
SendMail ==
    /\ InJob("send", "work")
    /\ \/ Write(2) /\ UNCHANGED <<part, left>>
       \/ NextPart("fetch")
    /\ JobVarsOnly

EnterFetch ==
    /\ InJob("fetch", "enter")
    /\ \/ ~stop /\ step' = "work" /\ left' \in 0 .. MaxUnits /\ UNCHANGED <<part, writes>>
       \/ NextPart("gate")
    /\ PassesOver(stop)

\* DeliverRaw without its look at the flag.
DeliverAnyway ==
    /\ InJob("fetch", "work")
    /\ left > 0
    /\ left' = left - 1
    /\ Write(2) \/ UNCHANGED <<step, writes>>
    /\ UNCHANGED part
    /\ JobVarsOnly

\* DeliverRaw looks at the flag, then writes the inbox's two files.
DeliverMessage ==
    /\ InJob("fetch", "work")
    /\ left > 0
    /\ left' = left - 1
    /\ \/ ~stop /\ Write(2)
       \/ UNCHANGED <<step, writes>>
    /\ UNCHANGED part
    /\ PassesOver(stop)

EndFetch ==
    /\ InJob("fetch", "work")
    /\ left = 0
    /\ NextPart("gate")
    /\ JobVarsOnly

\* "postponed", or on to RunPipeline.
Gate ==
    /\ InJob("gate", "enter")
    /\ IF stop THEN NextPart("return")
       ELSE /\ part' = "channels" /\ step' = "enter"
            /\ UNCHANGED <<left, writes>>
    /\ PassesOver(stop)

\* RunPipeline goes on to its containers,
StartPipeline ==
    /\ InJob("channels", "enter")
    /\ step' = "work"
    /\ left' \in 1 .. MaxUnits
    /\ UNCHANGED <<part, writes>>
    /\ JobVarsOnly

\* or gives up before the first: no NAND, no task list, or "nothing eligible". Its
\* caller is not told.
PipelineAborts ==
    /\ InJob("channels", "enter")
    /\ NextPart("aborted")
    /\ JobVarsOnly

\* A container that needs no write, cannot have one, or gets one -- and another
\* when the first fails and the original is restored.
UpdateContainer ==
    /\ InJob("channels", "work")
    /\ left > 0
    /\ left' = left - 1
    /\ \/ ~stop /\ \E n \in {1, 2} : Write(n)
       \/ UNCHANGED <<step, writes>>
    /\ UNCHANGED part
    /\ JobVarsOnly

\* The pipeline finds the flag raised before a write and leaves its loop.
BreakOff ==
    /\ InJob("channels", "work")
    /\ left > 0
    /\ stop
    /\ part' = "end" /\ step' = "enter"
    /\ UNCHANGED <<left, writes>>
    /\ PassesOver(TRUE)

EndChannels ==
    /\ InJob("channels", "work")
    /\ left = 0
    /\ NextPart("end")
    /\ JobVarsOnly

\* Every run is recorded.
RecordAnyRun ==
    /\ InJob("end", "enter") \/ InJob("aborted", "enter")
    /\ lastRun' = now
    /\ stored' = [stored EXCEPT !.lastRun = now]
    /\ part' = "return"
    /\ fullRuns' = IF missed THEN fullRuns ELSE fullRuns \cup {now}
    /\ UNCHANGED <<titleVars, threadVars, guardVars, step, left, writes, autorun,
                   journal, runHistory>>

\* Only a run that was not asked to stop is recorded.
EndRun ==
    /\ InJob("end", "enter") \/ InJob("aborted", "enter")
    /\ IF stop THEN UNCHANGED <<lastRun, stored>>
       ELSE /\ lastRun' = now
            /\ stored' = [stored EXCEPT !.lastRun = now]
    /\ part' = "return"
    /\ fullRuns' = IF missed THEN fullRuns ELSE fullRuns \cup {now}
    /\ UNCHANGED <<titleVars, threadVars, guardVars, step, left, writes, autorun,
                   journal, runHistory>>

\* A journalled NAND write begins, in a CriticalSection but for the recovery's.
BeginWrite ==
    /\ hook # "off" /\ step = "write"
    /\ step' = "writing"
    /\ critical' = IF part = "recover" THEN critical ELSE 1
    /\ journal' = TRUE
    /\ overrun' = IF stop THEN overrun + 1 ELSE overrun
    /\ wrote' = TRUE
    /\ UNCHANGED <<titleVars, threadVars, stop, part, left, writes, settingVars, missed,
                   fullRuns>>

\* A write that leaves a critical section it has not entered.
UnbalancedEndWrite ==
    /\ hook # "off" /\ step = "writing"
    /\ critical' = critical - 1
    /\ journal' = FALSE
    /\ NextPart(IF part = "recover" THEN "send" ELSE "fetch")
    /\ UNCHANGED <<titleVars, threadVars, stop, settingVars, historyVars>>

\* It ends, well or not: after a failure the second write may not be made. The
\* journal is still there for a container's restore, and after a failed recovery
\* or a container that reads back wrong.
EndWrite ==
    /\ hook # "off" /\ step = "writing"
    /\ critical' = 0
    /\ \E more \in {0, writes - 1} :
         /\ journal' \in CASE part = "channels" /\ more > 0 -> {TRUE}
                           [] part \in {"recover", "channels"} -> BOOLEAN
                           [] OTHER -> {FALSE}
         /\ IF more > 0 THEN Write(more) /\ UNCHANGED <<part, left>>
            ELSE IF part \in {"fetch", "channels"}
                   THEN step' = "work" /\ writes' = 0 /\ UNCHANGED <<part, left>>
            ELSE NextPart(IF part = "recover" THEN "send" ELSE "fetch")
    /\ UNCHANGED <<titleVars, threadVars, stop, settingVars, historyVars>>

\* JobEntry: s_running goes down while the thread still has to return.
JobReturns ==
    /\ hook # "off" /\ running /\ part = "return"
    /\ running' = FALSE
    /\ NextPart("none")
    /\ UNCHANGED <<titleVars, thread, alive, allocated, refused, guardVars, settingVars,
                   journal, historyVars>>

ThreadExits(t) ==
    /\ hook # "off"
    /\ t \in alive
    /\ ~(running /\ t = thread)
    /\ alive' = alive \ {t}
    /\ UNCHANGED <<titleVars, thread, running, allocated, refused, guardVars, jobVars,
                   settingVars, journal, historyVars>>

JobStep ==
    \/ RecoverFirst \/ EnterSend \/ SendMail \/ EnterFetch \/ DeliverMessage
    \/ EndFetch \/ Gate \/ StartPipeline \/ PipelineAborts \/ UpdateContainer
    \/ BreakOff \/ EndChannels \/ EndRun \/ BeginWrite \/ EndWrite \/ JobReturns

ThreadsExit == \E t \in Threads : ThreadExits(t)

\* What the title's thread does without anyone asking.
HookStep == ApplicationStarts \/ Stop \/ ProcessEnds

Next ==
    \/ LoadPlugin \/ HookStep \/ RunNow \/ ToggleAutorun \/ TimePasses
    \/ ExitRequested \/ PowerLoss
    \/ JobStep \/ ThreadsExit

\* A hook's own steps are never put off for ever, and neither is a thread's return
\* once it has left the job. Nothing is asked of the job: its HTTP sockets have no
\* timeout, so a download may hang.
HookFairness == WF_vars(HookStep) /\ WF_vars(ThreadsExit)

Spec == Init /\ [][Next]_vars /\ HookFairness

-----------------------------------------------------------------------------
(***************************************************************************)
(* Properties.                                                             *)
(***************************************************************************)

\* However the request falls among the job's checks and writes, no more than the
\* unit at hand is still written: the two files of one mailbox, or a container
\* and its restore.
BoundedOverrun == overrun <= 2

\* "Only a run that got all the way through counts, so an interrupted one is retried
\* rather than being locked out by the cooldown": with "Update at boot" on, a Wii U
\* Menu that starts gets the job running, or fails for want of memory, unless a run
\* that passed nothing over because of a stop ended less than a cooldown ago by the
\* clock as it is now set. It holds over any runs, stops and cuts in between and for
\* a clock that was set back.
HeldBack == \E t \in fullRuns : now - t \in 0 .. Cooldown - 1
InterruptedRunsAreRetried ==
    [][hook = "start" /\ hook' = "ui" /\ atMenu /\ autorun /\ ~HeldBack
          => running' \/ refused']_vars

\* "Got all the way through": a run whose pipeline gave up before its first container
\* does not count.
CountsOnlyFullRuns == [][part = "aborted" => UNCHANGED lastRun]_vars

\* The block of a running job is never given back, by a Stop that gives up on it or a
\* Start that comes upon it, and its thread exists until s_running is down.
JobKeepsItsStack == running => thread \in allocated \cap alive

\* A critical section is held by a running job only, so that the hooks' two waits,
\* for the section and for s_running, cannot miss a protected write: a Stop that
\* saw the job finished leaves no write in flight.
FinishedMeansNoWrite ==
    hook \in {"stop", "dying"} /\ thread = None => step # "writing"

\* The exit never hangs, not even on a job that does.
ExitCompletes == hook = "stop" ~> hook = "off"

\* "Does nothing if one is already running": at most one thread exists.
OneThread == Cardinality(alive) <= 1

\* WaitForCriticalSection sees no section and returns true, "it is safe to go":
\* no NAND write is in progress then.
SafeToGo ==
    [][hook = "waitCritical" /\ hook' = "waitRunning" /\ critical = 0
          => step # "writing"]_vars

\* "Nothing was written": a job that postpones itself before the pipeline has not
\* begun a write.
PostponedMeansUntouched ==
    [][part = "gate" /\ part' = "return" => ~wrote]_vars

\* "The journal will repair it on the next boot if it is cut off": with "Update at
\* boot" on, a Wii U Menu that starts with a journal on the card starts the job.
MenuStartRepairs ==
    [][hook = "start" /\ hook' = "ui" /\ atMenu /\ autorun /\ journal => running']_vars
=============================================================================
