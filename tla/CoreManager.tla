---------------------------- MODULE CoreManager ----------------------------
(***************************************************************************)
(* The lifecycle of the proxy core: core/manager.go, manager_start.go,     *)
(* manager_takeover.go, runtime_state.go and desired_state.go.             *)
(*                                                                         *)
(* CoreManager is one object shared by the HTTP handlers, one              *)
(* monitorProcess goroutine per launched core, one monitorPID goroutine,   *)
(* one monitorStartupNotifications goroutine per launch and the restart    *)
(* goroutines of handleProcessExit.  A mutex serialises start, stop and    *)
(* restart, which hold it for as long as the core takes to come up or die; *)
(* the goroutines read monitoring, pid and isRunning (atomics) without it. *)
(* A critical section other goroutines can look into is split into         *)
(* phases of the variable lock; every other one is a single action.        *)
(***************************************************************************)
EXTENDS Integers, FiniteSets

CONSTANTS
    MaxPid,            \* bound: core processes created in a behaviour
    MaxCrashRestarts,  \* maxCrashRestarts
    MaxRetries,        \* start attempts of one restart goroutine
    MaxRequests,       \* bound: start/stop/restart requests
    MaxServiceCrashes, \* bound: deaths of the service process
    JobController,     \* TRUE: job object (Windows); FALSE: the no-op controller (Unix)
    StopCanFail,       \* TRUE: Controller.Stop may time out with the core alive
    DieWithService     \* TRUE: the core dies with the service (job object, Pdeathsig)

ASSUME CoreManagerAssumption ==
    /\ MaxPid \in Nat /\ MaxCrashRestarts \in Nat /\ MaxRetries \in Nat \ {0}
    /\ MaxRequests \in Nat /\ MaxServiceCrashes \in Nat
    /\ JobController \in BOOLEAN /\ StopCanFail \in BOOLEAN /\ DieWithService \in BOOLEAN
    \* Closing the last handle of the job (the service's death included) kills it.
    /\ JobController => DieWithService /\ ~StopCanFail

Pid == 1..MaxPid
Nil == 0
PidOrNil == 0..MaxPid
Restarter == 1..MaxCrashRestarts

Mon(p) == <<"mon", p>>       \* monitorProcess of the core launched as p
Ntf(p) == <<"ntf", p>>       \* monitorStartupNotifications of that launch
Poller == <<"poll", 0>>      \* monitorPID; pidPolling allows one at a time
Thread == ({"mon", "ntf"} \X Pid) \cup {Poller}

VARIABLES
    proc,         \* the operating system: state of every process
    job,          \* the launch (its first pid) a process belongs to
    notified,     \* launches whose readyNotify channel holds a notification
    isRunning, monitoring,
    stopChan,     \* cm.stopChan # nil; it is open exactly then
    pid,          \* cm.pid
    cmd,          \* cm.cmd, as the pid it was started with
    launch,       \* cm.launch and cm.controller, which are set and cleared
                  \* together, named by the pid the launch started with
    lock,         \* the mutex: the phase of its holder, the restart goroutine it is
                  \* (0: a request or boot), and what a stop is followed by
    pc, cap,      \* goroutines: control state and the values read so far
    pollClosed,   \* the stopChan monitorPID was started with is closed
    attempts,     \* restartAttempts
    retry,        \* start attempts left of every restart goroutine
    gaveUp,       \* restart_failed was the outcome of the last recovery
    desired,      \* desired_state.json: core_should_be_running
    record,       \* runtime.json: the pid it names, Nil without the file
    service,      \* "up", "down" or booting
    request,      \* the last request a client sent
    requestsLeft, crashesLeft,
    survivors,    \* history: cores runtime.json named when a service left them alive
    unidentified  \* history: live cores whose record a boot dropped

procVars == <<proc, job, notified>>
mgrVars  == <<isRunning, monitoring, stopChan, pid, cmd, launch>>
thrVars  == <<pc, cap, pollClosed>>
recVars  == <<attempts, retry, gaveUp>>
diskVars == <<desired, record>>
svcVars  == <<service, request, requestsLeft, crashesLeft, survivors, unidentified>>
vars == <<procVars, mgrVars, lock, thrVars, recVars, diskVars, svcVars>>

----------------------------------------------------------------------------
ProcState == {"none", "alive", "exited", "crashed"}
Phase == {"free", "launch", "startup", "persist", "kill", "cleanup"}
ThreadState == {"none", "wait", "check", "finish", "done", "off", "idle", "read",
                "look", "again", "scan", "adopt", "stat", "write", "handle"}
Captured == [pid : PidOrNil, launch : PidOrNil, new : PidOrNil]
Nothing == [pid |-> Nil, launch |-> Nil, new |-> Nil]
Free == [phase |-> "free", by |-> 0, then |-> "return"]
InPhase(ph) == [phase |-> ph, by |-> lock.by, then |-> lock.then]

Alive(p) == p \in Pid /\ proc[p] = "alive"
Dead(p)  == p \in Pid /\ proc[p] \in {"exited", "crashed"}
Unlocked == lock.phase = "free"
Idle == pid = Nil /\ launch = Nil /\ ~isRunning

ProcType == proc \in [Pid -> ProcState] /\ job \in [Pid -> PidOrNil] /\ notified \in SUBSET Pid
FlagType == isRunning \in BOOLEAN /\ monitoring \in BOOLEAN /\ stopChan \in BOOLEAN
CoreType == pid \in PidOrNil /\ cmd \in PidOrNil /\ launch \in PidOrNil
LockType == lock \in [phase : Phase, by : 0..MaxCrashRestarts, then : {"return", "start"}]
PcType   == pc \in [Thread -> ThreadState] /\ cap \in [Thread -> Captured] /\ pollClosed \in BOOLEAN
RecType  == attempts \in Nat /\ retry \in [Restarter -> 0..MaxRetries] /\ gaveUp \in BOOLEAN
DiskType == desired \in BOOLEAN /\ record \in PidOrNil
SvcType  == /\ service \in {"up", "down", "reconciled"} /\ request \in {"none", "start", "stop"}
            /\ requestsLeft \in 0..MaxRequests /\ crashesLeft \in 0..MaxServiceCrashes
            /\ survivors \in SUBSET Pid /\ unidentified \in SUBSET Pid
TypeOK == /\ ProcType /\ FlagType /\ CoreType /\ LockType
          /\ PcType /\ RecType /\ DiskType /\ SvcType

NoThreads == [t \in Thread |-> IF t = Poller THEN "off" ELSE "none"]

Init ==
    /\ proc = [p \in Pid |-> "none"] /\ job = [p \in Pid |-> Nil]
    /\ notified = {}
    /\ isRunning = FALSE /\ monitoring = FALSE /\ stopChan = FALSE
    /\ pid = Nil /\ cmd = Nil /\ launch = Nil /\ lock = Free
    /\ pc = NoThreads /\ cap = [t \in Thread |-> Nothing] /\ pollClosed = FALSE
    /\ attempts = 0 /\ retry = [r \in Restarter |-> 0] /\ gaveUp = FALSE
    /\ desired = FALSE /\ record = Nil
    /\ service = "up" /\ request = "none"
    /\ requestsLeft = MaxRequests /\ crashesLeft = MaxServiceCrashes
    /\ survivors = {} /\ unidentified = {}

----------------------------------------------------------------------------
(* Parts the operations share. *)

\* The next process the operating system creates.
Fresh(p) == p \in Pid /\ proc[p] = "none" /\ \A q \in Pid : q < p => proc[q] # "none"

\* signalStopLocked: closes the channel monitorPID and monitorStartupNotifications select on.
SignalStop == stopChan' = FALSE /\ pollClosed' = (pc[Poller] # "off")

\* Mutant: closing the job leaves its processes alone.
CloseControllerKeepsJob(pr, l) == pr

\* The processes left when job l is closed: KILL_ON_JOB_CLOSE, nothing on Unix.
CloseController(pr, l) ==
    [p \in Pid |-> IF JobController /\ pr[p] = "alive" /\ job[p] = l THEN "exited" ELSE pr[p]]

\* Controller.Stop: what may be left of the processes after stopping q of launch l.
StopResults(l, q) ==
    LET stopped == [p \in Pid |-> IF p = q /\ proc[p] = "alive" THEN "exited" ELSE proc[p]]
    IN  {CloseController(stopped, l)} \cup (IF StopCanFail THEN {proc} ELSE {})

\* cleanupLocked, applied to the processes left in pr.
Cleanup(pr) ==
    /\ proc' = CloseController(pr, launch)
    /\ launch' = Nil /\ cmd' = Nil /\ pid' = Nil /\ isRunning' = FALSE
    /\ record' = Nil

\* Mutant: the launch ends but monitoring stays on.
TeardownKeepsMonitoring(pr) == UNCHANGED monitoring /\ SignalStop /\ Cleanup(pr)

\* monitoring.Store(false), signalStopLocked, cleanupLocked: how every recovery path ends a launch.
Teardown(pr) == monitoring' = FALSE /\ SignalStop /\ Cleanup(pr)

\* startCoreLocked up to the call of startProcessLocked, by API, boot (0) or restart goroutine b.
BeginStart(b) ==
    /\ isRunning' = TRUE /\ stopChan' = TRUE
    /\ lock' = [phase |-> "launch", by |-> b, then |-> "return"]

\* A restart goroutine whose start failed gives up after its last attempt.
AttemptFailed(b) ==
    /\ retry' = IF b = 0 THEN retry ELSE [retry EXCEPT ![b] = @ - 1]
    /\ gaveUp' = (gaveUp \/ (b # 0 /\ retry[b] = 1))

\* What a goroutine returns to when its handler is over.
Return(t) == IF t = Poller THEN "idle" ELSE IF t[1] = "mon" THEN "done" ELSE "wait"
Goto(t, s) == pc' = [pc EXCEPT ![t] = s]
Capture(t, p, l, q) == cap' = [cap EXCEPT ![t] = [pid |-> p, launch |-> l, new |-> q]]
Leave(t) == Goto(t, Return(t)) /\ cap' = [cap EXCEPT ![t] = Nothing]

----------------------------------------------------------------------------
(* The core process. *)

\* The core ends by itself: with an exit code, or by a signal or a panic.
CoreDies(p, how) ==
    /\ Alive(p) /\ proc' = [proc EXCEPT ![p] = how]
    /\ UNCHANGED <<job, notified, mgrVars, lock, thrVars, recVars, diskVars, svcVars>>

\* On Windows a core that restarts itself spawns its successor, inside the same
\* job; the successor's post-up hook writes a startup notification.
CoreRespawns(p, q) ==
    /\ JobController /\ Alive(p) /\ Fresh(q)
    /\ proc' = [proc EXCEPT ![q] = "alive"]
    /\ job' = [job EXCEPT ![q] = job[p]]
    /\ notified' = notified \cup {l \in Pid : l = job[p] /\ pc[Ntf(l)] # "done"}
    /\ UNCHANGED <<mgrVars, lock, thrVars, recVars, diskVars, svcVars>>

----------------------------------------------------------------------------
(* StartCoreWithProfile, StopCore and RestartCoreWithProfile. *)

Request(r) ==
    /\ Unlocked /\ service = "up" /\ requestsLeft > 0
    /\ requestsLeft' = requestsLeft - 1 /\ request' = r
    /\ UNCHANGED <<service, crashesLeft, survivors, unidentified>>

ApiStart ==
    /\ Request("start")
    /\ IF isRunning THEN UNCHANGED <<isRunning, stopChan, lock>> ELSE BeginStart(0)
    /\ UNCHANGED <<procVars, monitoring, pid, cmd, launch, thrVars, recVars, diskVars>>

\* stopCoreLocked of an idle manager: for a restart, the start follows at once.
StopIdle(next) ==
    /\ Idle /\ desired' = FALSE
    /\ IF next = "start" THEN BeginStart(0) ELSE UNCHANGED <<isRunning, stopChan, lock>>
    /\ UNCHANGED <<procVars, monitoring, pid, cmd, launch, thrVars, recVars, record>>

StopBegin(next) ==
    /\ ~Idle
    /\ monitoring' = FALSE /\ SignalStop
    /\ lock' = [phase |-> "kill", by |-> 0, then |-> next]
    /\ UNCHANGED <<procVars, isRunning, pid, cmd, launch, pc, cap, recVars, diskVars>>

ApiStop    == Request("stop") /\ (StopIdle("return") \/ StopBegin("return"))
ApiRestart == Request("start") /\ (StopIdle("start") \/ StopBegin("start"))

\* stopProcessLocked: the core dies, or Stop returns an error.
StopProcess ==
    /\ lock.phase = "kill" /\ lock' = InPhase("cleanup")
    /\ proc' \in StopResults(launch, pid)
    /\ UNCHANGED <<job, notified, mgrVars, thrVars, recVars, diskVars, svcVars>>

\* cleanupLocked and clearDesiredState, whether or not Stop failed; a restart
\* goes on to start under the same lock.
StopCleanup ==
    /\ lock.phase = "cleanup"
    /\ proc' = CloseController(proc, launch)
    /\ launch' = Nil /\ cmd' = Nil /\ pid' = Nil /\ record' = Nil /\ desired' = FALSE
    /\ IF lock.then = "start" THEN BeginStart(0)
       ELSE isRunning' = FALSE /\ lock' = Free /\ UNCHANGED stopChan
    /\ UNCHANGED <<job, notified, monitoring, thrVars, recVars, svcVars>>

\* startProcessLocked fails before the launch is recorded in the manager: no
\* session, no command, no process, or a process that could not be attached
\* and was killed.
LaunchFail ==
    /\ lock.phase = "launch" /\ lock' = Free
    /\ monitoring' = FALSE /\ SignalStop /\ isRunning' = FALSE
    /\ AttemptFailed(lock.by)
    /\ UNCHANGED <<procVars, pid, cmd, launch, pc, cap, attempts, diskVars, svcVars>>

Launch(p) ==
    /\ lock.phase = "launch" /\ lock' = InPhase("startup")
    /\ Fresh(p) /\ proc' = [proc EXCEPT ![p] = "alive"] /\ job' = [job EXCEPT ![p] = p]
    /\ cmd' = p /\ launch' = p /\ pid' = p
    /\ UNCHANGED <<notified, isRunning, monitoring, stopChan, thrVars, recVars, diskVars, svcVars>>

\* waitForStartup or hardenLaunchControllerEndpoint failed.
StartupFail ==
    /\ lock.phase = "startup" /\ lock' = Free
    /\ \E left \in StopResults(launch, pid) : Teardown(left)
    /\ AttemptFailed(lock.by)
    /\ UNCHANGED <<job, notified, pc, cap, attempts, desired, svcVars>>

\* The core reported that it is up.  It may die between that report and here;
\* writeRuntimeRecord then finds no process and writes nothing.
StartupOk ==
    /\ lock.phase = "startup" /\ lock' = InPhase("persist")
    /\ monitoring' = TRUE
    /\ record' = IF Alive(pid) THEN pid ELSE record
    /\ pc' = [pc EXCEPT ![Mon(pid)] = "wait",
                        ![Ntf(pid)] = IF JobController THEN "wait" ELSE "none"]
    /\ gaveUp' = FALSE
    /\ UNCHANGED <<procVars, isRunning, stopChan, pid, cmd, launch, cap, pollClosed,
                   attempts, retry, desired, svcVars>>

\* persistDesiredState(true), the last step of startCoreLocked.
Persist ==
    /\ lock.phase = "persist" /\ lock' = Free
    /\ desired' = TRUE
    /\ retry' = IF lock.by = 0 THEN retry ELSE [retry EXCEPT ![lock.by] = 0]
    /\ UNCHANGED <<procVars, mgrVars, thrVars, attempts, gaveUp, record, svcVars>>

----------------------------------------------------------------------------
(* monitorProcess *)

\* processDone delivers; monitoring is read without the lock.
MonWake(p) ==
    /\ pc[Mon(p)] = "wait" /\ Dead(p)
    /\ Goto(Mon(p), IF monitoring THEN "check" ELSE "done")
    /\ UNCHANGED <<procVars, mgrVars, lock, cap, pollClosed, recVars, diskVars, svcVars>>

\* Mutant: an exit that is no crash is only logged.
MonCheckIgnoresExit(p) ==
    /\ pc[Mon(p)] = "check" /\ Unlocked
    /\ Goto(Mon(p), IF cmd = p /\ proc[p] = "crashed" THEN "look" ELSE "done")
    /\ UNCHANGED <<procVars, mgrVars, lock, cap, pollClosed, recVars, diskVars, svcVars>>

\* Only the goroutine of the current command goes on: to recovery after a
\* crash, to finishExpectedProcessExit (on Windows after a takeover) otherwise.
MonCheck(p) ==
    /\ pc[Mon(p)] = "check" /\ Unlocked
    /\ Goto(Mon(p), IF cmd # p THEN "done"
                    ELSE IF proc[p] = "crashed" \/ JobController THEN "look" ELSE "finish")
    /\ UNCHANGED <<procVars, mgrVars, lock, cap, pollClosed, recVars, diskVars, svcVars>>

\* Mutant: desired_state.json is cleared for whichever core runs by now.
FinishClearsAnyDesired(p) ==
    /\ pc[Mon(p)] = "finish" /\ Unlocked /\ Leave(Mon(p)) /\ desired' = FALSE
    /\ IF cmd = p THEN Teardown(proc) ELSE UNCHANGED <<proc, mgrVars, pollClosed, record>>
    /\ UNCHANGED <<job, notified, lock, recVars, svcVars>>

FinishExpectedProcessExit(p) ==
    /\ pc[Mon(p)] = "finish" /\ Unlocked /\ Leave(Mon(p))
    /\ IF cmd = p THEN Teardown(proc) /\ desired' = FALSE
       ELSE UNCHANGED <<proc, mgrVars, pollClosed, diskVars>>
    /\ UNCHANGED <<job, notified, lock, recVars, svcVars>>

----------------------------------------------------------------------------
(* takeoverRestartedProcess, run by monitorProcess and monitorPID *)

\* What follows a takeover that returns false.
NotTaken(t) == IF t = Poller \/ proc[t[2]] = "crashed" THEN "handle" ELSE "finish"

\* The head of the loop: read pid, controller and launch under the lock.
TakeoverLook(t) ==
    /\ pc[t] \in {"look", "again"} /\ Unlocked
    /\ IF ~monitoring \/ ~isRunning \/ launch = Nil
       THEN Goto(t, NotTaken(t)) /\ UNCHANGED cap
       ELSE /\ Goto(t, "scan")
            /\ Capture(t, pid, launch, Nil)
    /\ UNCHANGED <<procVars, mgrVars, lock, pollClosed, recVars, diskVars, svcVars>>

\* findManagedCorePID: live processes of the job other than the old one; a
\* no-op controller reports none.
Candidates(c) ==
    {q \in Pid : JobController /\ Alive(q) /\ job[q] = c.launch /\ q # c.pid}
Newest(q, S) == q \in S /\ \A r \in S : r <= q

\* Mutant: the takeover loop has no deadline.
TakeoverNeverTimesOut(t) == FALSE /\ UNCHANGED vars

\* takeoverGracePeriod is over: the loop ends, after at least one iteration that
\* found nothing.
TakeoverTimeout(t) ==
    /\ pc[t] = "again" \/ (pc[t] = "scan" /\ t[1] # "ntf" /\ Candidates(cap[t]) = {})
    /\ Goto(t, NotTaken(t))
    /\ UNCHANGED <<procVars, mgrVars, lock, cap, pollClosed, recVars, diskVars, svcVars>>

ScanNone(t) ==
    /\ pc[t] = "scan" /\ t[1] # "ntf" /\ Candidates(cap[t]) = {} /\ Goto(t, "again")
    /\ UNCHANGED <<procVars, mgrVars, lock, cap, pollClosed, recVars, diskVars, svcVars>>

ScanFound(t) ==
    /\ pc[t] = "scan" /\ Goto(t, "adopt")
    /\ \E q \in Pid : Newest(q, Candidates(cap[t])) /\ Capture(t, cap[t].pid, cap[t].launch, q)
    /\ UNCHANGED <<procVars, mgrVars, lock, pollClosed, recVars, diskVars, svcVars>>

\* Hardening the successor failed: it is stopped without the lock.
ScanRefused(t) ==
    /\ pc[t] = "scan" /\ t[1] # "ntf" /\ Goto(t, NotTaken(t))
    /\ \E q \in Pid : Newest(q, Candidates(cap[t])) /\ proc' \in StopResults(cap[t].launch, q)
    /\ UNCHANGED <<job, notified, mgrVars, lock, cap, pollClosed, recVars, diskVars, svcVars>>

\* Back under the lock: install the successor if the launch is still the same,
\* and start monitorPID unless one is still running (startPIDPollingLocked).
Adopt(t) ==
    /\ pc[t] = "adopt" /\ Unlocked
    /\ IF monitoring /\ launch = cap[t].launch
       THEN /\ cmd' = Nil /\ pid' = cap[t].new
            /\ IF pc[Poller] = "off"
               THEN pc' = [pc EXCEPT ![t] = "stat", ![Poller] = "idle"] /\ pollClosed' = FALSE
               ELSE Goto(t, "stat") /\ UNCHANGED pollClosed
       ELSE /\ Goto(t, IF t[1] = "ntf" THEN "wait" ELSE NotTaken(t))
            /\ UNCHANGED <<cmd, pid, pollClosed>>
    /\ UNCHANGED <<procVars, isRunning, monitoring, stopChan, launch, lock, cap, recVars,
                   diskVars, svcVars>>

\* writeRuntimeRecord after the unlock: look the process up, then write the file.
RecordStat(t) ==
    /\ pc[t] = "stat"
    /\ IF Alive(cap[t].new) THEN Goto(t, "write") /\ UNCHANGED cap ELSE Leave(t)
    /\ UNCHANGED <<procVars, mgrVars, lock, pollClosed, recVars, diskVars, svcVars>>

RecordWrite(t) ==
    /\ pc[t] = "write" /\ Leave(t) /\ record' = cap[t].new
    /\ UNCHANGED <<procVars, mgrVars, lock, pollClosed, recVars, desired, svcVars>>

\* Mutant: the crashed launch is cleaned up and nobody restarts it.
HandleProcessExitNoRestart(t) ==
    /\ pc[t] = "handle" /\ Unlocked /\ Leave(t)
    /\ IF Idle THEN UNCHANGED <<proc, mgrVars, pollClosed, attempts, record>>
       ELSE Teardown(proc) /\ attempts' = attempts + 1
    /\ UNCHANGED <<job, notified, lock, retry, gaveUp, desired, svcVars>>

\* handleProcessExit once no successor was found: end the launch and, within
\* the budget, start a restart goroutine.
HandleProcessExit(t) ==
    /\ pc[t] = "handle" /\ Unlocked /\ Leave(t)
    /\ IF Idle THEN UNCHANGED <<proc, mgrVars, pollClosed, recVars, record>>
       ELSE /\ Teardown(proc)
            /\ attempts' = attempts + 1
            /\ IF attempts < MaxCrashRestarts
               THEN retry' = [retry EXCEPT ![attempts + 1] = MaxRetries] /\ UNCHANGED gaveUp
               ELSE gaveUp' = TRUE /\ UNCHANGED retry
    /\ UNCHANGED <<job, notified, lock, desired, svcVars>>

\* One attempt of restart goroutine r; a manager that runs a core by now
\* answers with an error, which counts as a failed attempt.
RetryStart(r) ==
    /\ retry[r] > 0 /\ Unlocked
    /\ IF isRunning THEN AttemptFailed(r) /\ UNCHANGED <<isRunning, stopChan, lock>>
       ELSE BeginStart(r) /\ UNCHANGED <<retry, gaveUp>>
    /\ UNCHANGED <<procVars, monitoring, pid, cmd, launch, thrVars, attempts, diskVars, svcVars>>

----------------------------------------------------------------------------
(* monitorPID: a tick reads monitoring, then pid, without the lock *)

PollTick ==
    /\ pc[Poller] = "idle"
    /\ \/ /\ ~monitoring /\ Goto(Poller, "off") /\ pollClosed' = FALSE /\ UNCHANGED cap
       \/ /\ monitoring /\ pid # Nil /\ Goto(Poller, "read")
          /\ Capture(Poller, pid, Nil, Nil) /\ UNCHANGED pollClosed
    /\ UNCHANGED <<procVars, mgrVars, lock, recVars, diskVars, svcVars>>

\* process.Exists of the pid read, then isRunning, as it is by now.
PollVerdict ==
    /\ pc[Poller] = "read"
    /\ IF Dead(cap[Poller].pid) /\ isRunning THEN Goto(Poller, "look") /\ UNCHANGED cap
       ELSE Leave(Poller)
    /\ UNCHANGED <<procVars, mgrVars, lock, pollClosed, recVars, diskVars, svcVars>>

PollStop ==
    /\ pc[Poller] = "idle" /\ pollClosed /\ Goto(Poller, "off") /\ pollClosed' = FALSE
    /\ UNCHANGED <<procVars, mgrVars, lock, cap, recVars, diskVars, svcVars>>

----------------------------------------------------------------------------
(* monitorStartupNotifications and handleStartupNotification.  Without a job *)
(* controller the handler finds no other process and changes no state, so    *)
(* the goroutine is modelled for job controllers only.                       *)

NtfTake(p) ==
    /\ pc[Ntf(p)] = "wait" /\ p \in notified /\ Unlocked
    /\ notified' = notified \ {p}
    /\ IF ~monitoring \/ ~isRunning \/ launch # p THEN UNCHANGED <<pc, cap>>
       ELSE /\ Goto(Ntf(p), "scan")
            /\ Capture(Ntf(p), pid, p, Nil)
    /\ UNCHANGED <<proc, job, mgrVars, lock, pollClosed, recVars, diskVars, svcVars>>

\* No other process: the core reported ready again under its old pid.
NtfSame(p) ==
    /\ pc[Ntf(p)] = "scan" /\ Candidates(cap[Ntf(p)]) = {} /\ Leave(Ntf(p))
    /\ UNCHANGED <<procVars, mgrVars, lock, pollClosed, recVars, diskVars, svcVars>>

\* The stopChan of launch p is closed.
NtfStop(p) ==
    /\ pc[Ntf(p)] = "wait" /\ (launch # p \/ ~stopChan) /\ Goto(Ntf(p), "done")
    /\ notified' = notified \ {p}
    /\ UNCHANGED <<proc, job, mgrVars, lock, cap, pollClosed, recVars, diskVars, svcVars>>

----------------------------------------------------------------------------
(* The service process: death, and Start of route/server.go *)

\* What outlives the service: no core on Linux (Pdeathsig), on Windows only one
\* that is in no job yet.
Left(pr) ==
    [p \in Pid |-> IF DieWithService /\ pr[p] = "alive" /\ (JobController => job[p] # Nil)
                   THEN "crashed" ELSE pr[p]]

\* Between the start of a core and its Attach the core is in no job.
ServiceDies ==
    /\ service # "down" /\ crashesLeft > 0 /\ crashesLeft' = crashesLeft - 1 /\ service' = "down"
    /\ \/ proc' = Left(proc)
       \/ /\ JobController /\ lock.phase = "launch"
          /\ \E p \in Pid : Fresh(p) /\ proc' = Left([proc EXCEPT ![p] = "alive"])
    /\ survivors' = survivors \cup {p \in Pid : p = record /\ proc'[p] = "alive"}
    /\ isRunning' = FALSE /\ monitoring' = FALSE /\ stopChan' = FALSE
    /\ pid' = Nil /\ cmd' = Nil /\ launch' = Nil /\ lock' = Free
    /\ pc' = NoThreads /\ cap' = [t \in Thread |-> Nothing] /\ pollClosed' = FALSE
    /\ attempts' = 0 /\ retry' = [r \in Restarter |-> 0] /\ gaveUp' = FALSE
    /\ notified' = {}
    /\ UNCHANGED <<job, diskVars, request, requestsLeft, unidentified>>

\* Mutant: nothing polls the adopted core.
AdoptWithoutPolling ==
    /\ Alive(record)
    /\ launch' = record /\ cmd' = Nil /\ pid' = record
    /\ stopChan' = TRUE /\ isRunning' = TRUE /\ monitoring' = TRUE
    /\ UNCHANGED <<procVars, thrVars, diskVars>>

\* adoptRuntimeRecord: the recorded core lives and its controller endpoint answers.
AdoptRecord ==
    /\ Alive(record)
    /\ launch' = record /\ cmd' = Nil /\ pid' = record
    /\ stopChan' = TRUE /\ isRunning' = TRUE /\ monitoring' = TRUE
    /\ job' = [job EXCEPT ![record] = record]
    /\ Goto(Poller, "idle") /\ pollClosed' = FALSE
    /\ UNCHANGED <<proc, notified, cap, diskVars>>

\* A live core that the boot does not recognise: its creation time or executable
\* cannot be read, or the path it runs from, links resolved, is not the recorded
\* one.  It is taken for a stranger: the record goes and the core stays.
ForgetRecord ==
    /\ Alive(record) /\ record' = Nil /\ unidentified' = unidentified \cup {record}
    /\ UNCHANGED proc

\* Mutant: what cannot be adopted is only forgotten.
CleanRecordNeverKills ==
    /\ record # Nil /\ record' = Nil
    /\ UNCHANGED <<procVars, mgrVars, thrVars, desired, unidentified>>

\* A recorded core that is alive but cannot be adopted is terminated, which
\* may time out; the record of a dead one is removed.
CleanRecord ==
    /\ record # Nil
    /\ \/ /\ proc' = [proc EXCEPT ![record] = IF @ = "alive" THEN "crashed" ELSE @] /\ record' = Nil
          /\ UNCHANGED unidentified
       \/ StopCanFail /\ Alive(record) /\ UNCHANGED <<proc, record, unidentified>>
       \/ ForgetRecord
    /\ UNCHANGED <<job, notified, mgrVars, thrVars, desired>>

\* Mutant: a record that cannot be adopted stops the boot.
ReconcileOnlyAdopts ==
    /\ service = "down" /\ service' = "reconciled"
    /\ \/ AdoptRecord
       \/ record = Nil /\ UNCHANGED <<procVars, mgrVars, thrVars, diskVars>>
    /\ UNCHANGED <<lock, recVars, request, requestsLeft, crashesLeft, survivors, unidentified>>

ReconcileRuntimeState ==
    /\ service = "down" /\ service' = "reconciled"
    /\ \/ AdoptRecord /\ UNCHANGED unidentified
       \/ CleanRecord
       \/ record = Nil /\ UNCHANGED <<procVars, mgrVars, thrVars, diskVars, unidentified>>
    /\ UNCHANGED <<lock, recVars, request, requestsLeft, crashesLeft, survivors>>

RestoreDesiredState ==
    /\ service = "reconciled" /\ service' = "up" /\ Unlocked
    /\ IF desired /\ ~isRunning THEN BeginStart(0) ELSE UNCHANGED <<isRunning, stopChan, lock>>
    /\ UNCHANGED <<procVars, monitoring, pid, cmd, launch, thrVars, recVars, diskVars,
                   request, requestsLeft, crashesLeft, survivors, unidentified>>

----------------------------------------------------------------------------
CoreStep == \E p \in Pid : \/ \E how \in {"exited", "crashed"} : CoreDies(p, how)
                           \/ \E q \in Pid : CoreRespawns(p, q)
ApiStep == ApiStart \/ ApiStop \/ ApiRestart
LockedStep == \/ StopProcess \/ StopCleanup \/ LaunchFail \/ StartupFail \/ StartupOk
              \/ Persist \/ \E p \in Pid : Launch(p)
HandlerStep(t) == \/ TakeoverLook(t) \/ ScanNone(t) \/ ScanFound(t) \/ ScanRefused(t)
                  \/ Adopt(t) \/ RecordStat(t) \/ RecordWrite(t) \/ HandleProcessExit(t)
MonStep(p) == MonWake(p) \/ MonCheck(p) \/ FinishExpectedProcessExit(p)
NtfStep(p) == NtfTake(p) \/ NtfSame(p) \/ NtfStop(p)
PollStep == PollTick \/ PollVerdict \/ PollStop
BootStep == ReconcileRuntimeState \/ RestoreDesiredState

Next == \/ CoreStep \/ ApiStep \/ LockedStep
        \/ \E t \in Thread : HandlerStep(t) \/ TakeoverTimeout(t)
        \/ \E p \in Pid : MonStep(p) \/ NtfStep(p)
        \/ PollStep
        \/ \E r \in Restarter : RetryStart(r)
        \/ ServiceDies \/ BootStep

Spec == Init /\ [][Next]_vars

\* The Go scheduler runs every goroutine that can run, sync.Mutex starves no
\* waiter, takeoverGracePeriod is a deadline, a start and a stop are bounded by
\* timeouts, and select does not ignore a closed channel for ever.  Nothing is
\* assumed of the core, of the clients or of the service's own death.
Fairness ==
    /\ WF_vars(LockedStep) /\ WF_vars(BootStep)
    /\ WF_vars(PollTick \/ PollVerdict) /\ SF_vars(PollStop)
    /\ \A p \in Pid : WF_vars(MonStep(p)) /\ WF_vars(NtfStep(p))
    /\ \A t \in Thread : WF_vars(HandlerStep(t)) /\ WF_vars(TakeoverTimeout(t))
    /\ \A r \in Restarter : WF_vars(RetryStart(r))

FairSpec == Spec /\ Fairness
----------------------------------------------------------------------------
(* Properties *)

\* Whenever the mutex is free the fields of CoreManager agree: isRunning,
\* monitoring, an open stopChan, a pid and a launch with its controller come
\* together or not at all, whatever path the last start, stop, takeover, crash
\* handler or boot took, and cmd is the launch's own command or nil.
Coherent ==
    Unlocked => /\ isRunning = (pid # Nil) /\ isRunning = (launch # Nil)
                /\ isRunning = monitoring /\ isRunning = stopChan
                /\ cmd \in {Nil, launch}

\* process.go: the controller owns the launched core's process group or job
\* object.  No live core that was ever attached is outside the controller the
\* manager holds; the cores excepted are those a service started and died
\* before it attached them (and what they spawned).
NoOrphan == Unlocked => \A p \in Pid : Alive(p) /\ job[p] # Nil => launch # Nil /\ job[p] = launch

\* A running core always has a goroutine that will notice its death: its own
\* monitorProcess or handler, or, once cmd is nil, a monitorPID whose channel
\* is still open.
Watched ==
    Unlocked /\ isRunning =>
        IF cmd # Nil THEN pc[Mon(cmd)] \notin {"none", "done"}
        ELSE pc[Poller] # "off" /\ ~pollClosed

\* runtime.json names the live core the manager holds at every moment but
\* while it is being started, so that a service that dies now finds it again
\* at its next start: the window in which a core can be lost is waitForStartup.
RecordCovers == Alive(pid) /\ lock.phase # "startup" => record = pid

\* A core that is being served is neither unwatched nor unrecorded: its death is
\* noticed while the service lives, and it is found again when the service dies.
Tracked == Watched /\ RecordCovers

\* No start, at boot or later, happens over a live core that runtime.json names
\* or named when a service died: ReconcileRuntimeState has adopted or terminated
\* it, and an adopted one is dead by the time another start gets that far.  The
\* one exception is a core the boot took for a stranger (ForgetRecord).
NoStartOverSurvivor ==
    lock.phase = "launch" => ~Alive(record) /\ \A p \in survivors \ unidentified : ~Alive(p)

\* desired_state.json asks for a core whenever one runs: a service that dies
\* now starts it again (RestoreDesiredState).
DesiredCovers == Unlocked /\ isRunning => desired

\* README, /core/stop: after a stop was answered, and until a client asks for a
\* start or a restart, no core runs.
StopIsFinal == Unlocked /\ request = "stop" => ~isRunning

\* README: crash recovery.  A core that died while it was tracked is replaced
\* by a live one, or restart_failed is published, or nobody wants a core any more.
Recovery ==
    (isRunning /\ Dead(pid)) ~> (Unlocked /\ ((isRunning /\ Alive(pid)) \/ gaveUp \/ ~desired))

\* A handler that enters the takeover loop always leaves it and comes to an
\* end, and whoever takes the mutex for a start or a stop gives it back.
HandlersEnd ==
    /\ \A t \in Thread : (pc[t] = "look") ~> (pc[t] \in {"done", "off", "idle", "none"})
    /\ (lock.phase # "free") ~> Unlocked

\* A service that dies is able to serve again once it is started: boot always
\* gets past ReconcileRuntimeState and RestoreDesiredState.
BootServes == (service = "down") ~> (service = "up" /\ Unlocked)
=============================================================================
