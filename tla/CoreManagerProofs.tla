------------------------- MODULE CoreManagerProofs -------------------------
(***************************************************************************)
(* Theorems about CoreManager, for every number of processes, restarts,    *)
(* requests and service deaths and for every kind of process controller.   *)
(***************************************************************************)
EXTENDS CoreManager, TLAPS

\* The names of the goroutines are threads, and what a handler goes on to is a control state.
LEMMA ThreadType ==
    /\ Poller \in Thread
    /\ \A p \in Pid : Mon(p) \in Thread /\ Ntf(p) \in Thread
    /\ \A t : Return(t) \in ThreadState /\ NotTaken(t) \in ThreadState
BY DEF Poller, Thread, Mon, Ntf, Return, NotTaken, ThreadState

\* Closing a controller and stopping a core yield process states again.
LEMMA ProcResults ==
    ProcType =>
        \A l, q : /\ \A pr \in [Pid -> ProcState] : CloseController(pr, l) \in [Pid -> ProcState]
                  /\ \A pr \in StopResults(l, q) : pr \in [Pid -> ProcState]
<1>1. \A pr \in [Pid -> ProcState] : \A l : CloseController(pr, l) \in [Pid -> ProcState]
  BY DEF CloseController, ProcState
<1>2. ProcType => \A l, q : \A pr \in StopResults(l, q) : pr \in [Pid -> ProcState]
  BY <1>1 DEF StopResults, ProcType, ProcState
<1> QED BY <1>1, <1>2

\* Nil and every pid are legal values of a field that names a process.
LEMMA PidTypes == Nil \in PidOrNil /\ Pid \subseteq PidOrNil /\ 0 \in 0..MaxCrashRestarts /\ Restarter \subseteq 0..MaxCrashRestarts
BY CoreManagerAssumption DEF Nil, Pid, PidOrNil, Restarter

\* Every initial state of the manager has the types.
LEMMA InitType == Init => TypeOK
<1> SUFFICES ASSUME Init PROVE TypeOK
  OBVIOUS
<1> USE DEF Init
<1>0. /\ Nil \in PidOrNil /\ 0 \in 0..MaxRetries /\ 0 \in 0..MaxCrashRestarts
      /\ MaxRequests \in 0..MaxRequests /\ MaxServiceCrashes \in 0..MaxServiceCrashes
  BY CoreManagerAssumption DEF Nil, PidOrNil
<1>1. ProcType
  <2>1. proc \in [Pid -> ProcState] /\ notified \in SUBSET Pid
    BY DEF ProcState
  <2>2. job \in [Pid -> PidOrNil]
    BY <1>0
  <2> QED BY <2>1, <2>2 DEF ProcType
<1>2. FlagType /\ CoreType /\ DiskType /\ SvcType
  BY <1>0 DEF FlagType, CoreType, DiskType, SvcType
<1>3. LockType
  BY <1>0 DEF LockType, Free, Phase
<1>4. PcType
  <2>1. pc \in [Thread -> ThreadState]
    BY DEF NoThreads, ThreadState
  <2>2. Nothing \in Captured
    BY <1>0 DEF Nothing, Captured
  <2>3. cap \in [Thread -> Captured]
    BY <2>2
  <2> QED BY <2>1, <2>3 DEF PcType
<1>5. RecType
  <2>1. retry \in [Restarter -> 0..MaxRetries]
    BY <1>0
  <2> QED BY <2>1 DEF RecType
<1> QED BY <1>1, <1>2, <1>3, <1>4, <1>5 DEF TypeOK

\* The variables of the operating system stay well-typed.
LEMMA ProcTypeStep == TypeOK /\ [Next]_vars => ProcType'
<1> SUFFICES ASSUME TypeOK, [Next]_vars PROVE ProcType'
  OBVIOUS
<1> USE DEF TypeOK, ProcType
<1>0. \A l, q : /\ \A pr \in [Pid -> ProcState] : CloseController(pr, l) \in [Pid -> ProcState]
                /\ \A pr \in StopResults(l, q) : pr \in [Pid -> ProcState]
  BY ProcResults
<1>1. CASE CoreStep
  <2>1. ASSUME NEW p \in Pid, NEW how \in {"exited", "crashed"}, CoreDies(p, how) PROVE ProcType'
    BY <2>1 DEF CoreDies, ProcState
  <2>2. ASSUME NEW p \in Pid, NEW q \in Pid, CoreRespawns(p, q) PROVE ProcType'
    BY <2>2 DEF CoreRespawns, ProcState
  <2> QED BY <1>1, <2>1, <2>2 DEF CoreStep
<1>2. CASE ApiStep
  BY <1>2 DEF ApiStep, ApiStart, ApiStop, ApiRestart, StopIdle, StopBegin, procVars
<1>3. CASE LockedStep
  BY <1>0, <1>3, PidTypes DEF LockedStep, StopProcess, StopCleanup, LaunchFail, StartupFail, StartupOk, Persist,
     Launch, Fresh, Teardown, Cleanup, procVars, ProcState
<1>4. ASSUME NEW t \in Thread, HandlerStep(t) \/ TakeoverTimeout(t) PROVE ProcType'
  BY <1>0, <1>4 DEF HandlerStep, TakeoverLook, TakeoverTimeout, ScanNone, ScanFound, ScanRefused, Adopt,
     RecordStat, RecordWrite, HandleProcessExit, Teardown, Cleanup, procVars
<1>5. ASSUME NEW p \in Pid, MonStep(p) \/ NtfStep(p) PROVE ProcType'
  BY <1>0, <1>5 DEF MonStep, MonWake, MonCheck, FinishExpectedProcessExit, NtfStep, NtfTake, NtfSame, NtfStop,
     Teardown, Cleanup, procVars
<1>6. CASE PollStep
  BY <1>6 DEF PollStep, PollTick, PollVerdict, PollStop, procVars
<1>7. ASSUME NEW r \in Restarter, RetryStart(r) PROVE ProcType'
  BY <1>7 DEF RetryStart, procVars
<1>8. CASE ServiceDies
  BY <1>8 DEF ServiceDies, Left, ProcState
<1>9. CASE BootStep
  BY <1>9 DEF BootStep, ReconcileRuntimeState, AdoptRecord, CleanRecord, ForgetRecord, RestoreDesiredState, Alive, Nil,
     DiskType, PidOrNil, Pid, ProcState, procVars
<1>10. CASE UNCHANGED vars
  BY <1>10 DEF vars, procVars
<1> QED BY <1>1, <1>2, <1>3, <1>4, <1>5, <1>6, <1>7, <1>8, <1>9, <1>10 DEF Next

\* The flags stay Boolean.
LEMMA FlagTypeStep == TypeOK /\ [Next]_vars => FlagType'
<1> SUFFICES ASSUME TypeOK, [Next]_vars PROVE FlagType'
  OBVIOUS
<1> USE DEF TypeOK, FlagType
<1>1. CASE CoreStep
  BY <1>1 DEF CoreStep, CoreDies, CoreRespawns,
     mgrVars
<1>2. CASE ApiStep
  BY <1>2 DEF ApiStep, ApiStart, ApiStop, ApiRestart, Request, StopIdle, StopBegin, BeginStart, SignalStop,
     mgrVars
<1>3. CASE LockedStep
  BY <1>3 DEF LockedStep, StopProcess, StopCleanup, LaunchFail, StartupFail, StartupOk, Persist,
     Launch, Fresh, Teardown, Cleanup, SignalStop, BeginStart, AttemptFailed,
     mgrVars
<1>4. ASSUME NEW t \in Thread, HandlerStep(t) \/ TakeoverTimeout(t) PROVE FlagType'
  BY <1>4 DEF HandlerStep, TakeoverLook, TakeoverTimeout, ScanNone, ScanFound, ScanRefused, Adopt,
     RecordStat, RecordWrite, HandleProcessExit, Teardown, Cleanup, SignalStop,
     mgrVars
<1>5. ASSUME NEW p \in Pid, MonStep(p) \/ NtfStep(p) PROVE FlagType'
  BY <1>5 DEF MonStep, MonWake, MonCheck, FinishExpectedProcessExit, NtfStep, NtfTake, NtfSame,
     NtfStop, Teardown, Cleanup, SignalStop,
     mgrVars
<1>6. CASE PollStep
  BY <1>6 DEF PollStep, PollTick, PollVerdict, PollStop,
     mgrVars
<1>7. ASSUME NEW r \in Restarter, RetryStart(r) PROVE FlagType'
  BY <1>7 DEF RetryStart, BeginStart, AttemptFailed,
     mgrVars
<1>8. CASE ServiceDies
  BY <1>8 DEF ServiceDies,
     mgrVars
<1>9. CASE BootStep
  BY <1>9 DEF BootStep, ReconcileRuntimeState, AdoptRecord, CleanRecord, ForgetRecord, RestoreDesiredState,
     BeginStart,
     mgrVars
<1>10. CASE UNCHANGED vars
  BY <1>10 DEF vars,
     mgrVars
<1> QED BY <1>1, <1>2, <1>3, <1>4, <1>5, <1>6, <1>7, <1>8, <1>9, <1>10 DEF Next

\* pid, cmd and launch name processes.
LEMMA CoreTypeStep == TypeOK /\ [Next]_vars => CoreType'
<1> SUFFICES ASSUME TypeOK, [Next]_vars PROVE CoreType'
  OBVIOUS
<1> USE PidTypes DEF TypeOK, CoreType
<1>1. CASE CoreStep
  BY <1>1 DEF CoreStep, CoreDies, CoreRespawns,
     mgrVars
<1>2. CASE ApiStep
  BY <1>2 DEF ApiStep, ApiStart, ApiStop, ApiRestart, Request, StopIdle, StopBegin, BeginStart, SignalStop,
     mgrVars
<1>3. CASE LockedStep
  BY <1>3 DEF LockedStep, StopProcess, StopCleanup, LaunchFail, StartupFail, StartupOk, Persist,
     Launch, Fresh, Teardown, Cleanup, SignalStop, BeginStart, AttemptFailed,
     mgrVars
<1>4. ASSUME NEW t \in Thread, HandlerStep(t) \/ TakeoverTimeout(t) PROVE CoreType'
  BY <1>4 DEF HandlerStep, TakeoverLook, TakeoverTimeout, ScanNone, ScanFound, ScanRefused, Adopt,
     RecordStat, RecordWrite, HandleProcessExit, Teardown, Cleanup, SignalStop, PcType, Captured,
     mgrVars
<1>5. ASSUME NEW p \in Pid, MonStep(p) \/ NtfStep(p) PROVE CoreType'
  BY <1>5 DEF MonStep, MonWake, MonCheck, FinishExpectedProcessExit, NtfStep, NtfTake, NtfSame,
     NtfStop, Teardown, Cleanup, SignalStop,
     mgrVars
<1>6. CASE PollStep
  BY <1>6 DEF PollStep, PollTick, PollVerdict, PollStop,
     mgrVars
<1>7. ASSUME NEW r \in Restarter, RetryStart(r) PROVE CoreType'
  BY <1>7 DEF RetryStart, BeginStart, AttemptFailed,
     mgrVars
<1>8. CASE ServiceDies
  BY <1>8 DEF ServiceDies,
     mgrVars
<1>9. CASE BootStep
  BY <1>9 DEF BootStep, ReconcileRuntimeState, AdoptRecord, CleanRecord, ForgetRecord, RestoreDesiredState,
     BeginStart, DiskType,
     mgrVars
<1>10. CASE UNCHANGED vars
  BY <1>10 DEF vars,
     mgrVars
<1> QED BY <1>1, <1>2, <1>3, <1>4, <1>5, <1>6, <1>7, <1>8, <1>9, <1>10 DEF Next

\* The mutex has a legal holder.
LEMMA LockTypeStep == TypeOK /\ [Next]_vars => LockType'
<1> SUFFICES ASSUME TypeOK, [Next]_vars PROVE LockType'
  OBVIOUS
<1> USE PidTypes DEF TypeOK, LockType, Free, InPhase, Phase
<1>1. CASE CoreStep
  BY <1>1 DEF CoreStep, CoreDies, CoreRespawns,
     mgrVars
<1>2. CASE ApiStep
  BY <1>2 DEF ApiStep, ApiStart, ApiStop, ApiRestart, Request, StopIdle, StopBegin, BeginStart, SignalStop,
     mgrVars
<1>3. CASE LockedStep
  BY <1>3 DEF LockedStep, StopProcess, StopCleanup, LaunchFail, StartupFail, StartupOk, Persist,
     Launch, Fresh, Teardown, Cleanup, SignalStop, BeginStart, AttemptFailed,
     mgrVars
<1>4. ASSUME NEW t \in Thread, HandlerStep(t) \/ TakeoverTimeout(t) PROVE LockType'
  BY <1>4 DEF HandlerStep, TakeoverLook, TakeoverTimeout, ScanNone, ScanFound, ScanRefused, Adopt,
     RecordStat, RecordWrite, HandleProcessExit, Teardown, Cleanup, SignalStop,
     mgrVars
<1>5. ASSUME NEW p \in Pid, MonStep(p) \/ NtfStep(p) PROVE LockType'
  BY <1>5 DEF MonStep, MonWake, MonCheck, FinishExpectedProcessExit, NtfStep, NtfTake, NtfSame,
     NtfStop, Teardown, Cleanup, SignalStop,
     mgrVars
<1>6. CASE PollStep
  BY <1>6 DEF PollStep, PollTick, PollVerdict, PollStop,
     mgrVars
<1>7. ASSUME NEW r \in Restarter, RetryStart(r) PROVE LockType'
  BY <1>7 DEF RetryStart, BeginStart, AttemptFailed,
     mgrVars
<1>8. CASE ServiceDies
  BY <1>8 DEF ServiceDies,
     mgrVars
<1>9. CASE BootStep
  BY <1>9 DEF BootStep, ReconcileRuntimeState, AdoptRecord, CleanRecord, ForgetRecord, RestoreDesiredState,
     BeginStart,
     mgrVars
<1>10. CASE UNCHANGED vars
  BY <1>10 DEF vars,
     mgrVars
<1> QED BY <1>1, <1>2, <1>3, <1>4, <1>5, <1>6, <1>7, <1>8, <1>9, <1>10 DEF Next

\* The restart goroutine that holds the mutex has an attempt to spend.
RetryHeld == /\ Unlocked => lock.by = 0
             /\ lock.by # 0 => retry[lock.by] > 0

\* A failed attempt of a goroutine that has one left keeps the counters in range.
LEMMA AttemptFailedType ==
    ASSUME RecType, NEW b \in 0..MaxCrashRestarts, b # 0 => retry[b] > 0, AttemptFailed(b)
    PROVE  retry' \in [Restarter -> 0..MaxRetries] /\ gaveUp' \in BOOLEAN
<1>1. CASE b = 0
  BY <1>1 DEF AttemptFailed, RecType
<1>2. CASE b # 0
  <2>1. b \in Restarter /\ retry[b] - 1 \in 0..MaxRetries
    BY <1>2, CoreManagerAssumption DEF RecType, Restarter
  <2>2. retry' \in [Restarter -> 0..MaxRetries]
    BY <1>2, <2>1 DEF AttemptFailed, RecType
  <2>3. gaveUp' \in BOOLEAN
    BY DEF AttemptFailed
  <2> QED BY <2>2, <2>3
<1> QED BY <1>1, <1>2

\* A restart goroutine may have no attempt left.
LEMMA ZeroRetries == 0 \in 0..MaxRetries
BY CoreManagerAssumption

\* The restart counters stay in range.
LEMMA RecTypeStep == TypeOK /\ RetryHeld /\ [Next]_vars => RecType'
<1> SUFFICES ASSUME TypeOK, RetryHeld, [Next]_vars PROVE RecType'
  OBVIOUS
<1> USE DEF TypeOK, RecType
<1>1. CASE CoreStep
  BY <1>1 DEF CoreStep, CoreDies, CoreRespawns,
     recVars
<1>2. CASE ApiStep
  BY <1>2 DEF ApiStep, ApiStart, ApiStop, ApiRestart, Request, StopIdle, StopBegin, BeginStart, SignalStop,
     recVars
<1>3. CASE LockedStep
  <2>1. CASE StopProcess
    BY <2>1 DEF StopProcess, recVars
  <2>2. CASE StopCleanup
    BY <2>2 DEF StopCleanup, recVars
  <2>3. CASE LaunchFail
    <3>1. AttemptFailed(lock.by) /\ UNCHANGED attempts
      BY <2>3 DEF LaunchFail
    <3> QED BY <3>1, AttemptFailedType DEF RecType, RetryHeld, LockType
  <2>4. CASE StartupFail
    <3>1. AttemptFailed(lock.by) /\ UNCHANGED attempts
      BY <2>4 DEF StartupFail
    <3> QED BY <3>1, AttemptFailedType DEF RecType, RetryHeld, LockType
  <2>5. CASE StartupOk
    BY <2>5 DEF StartupOk
  <2>6. CASE Persist
    BY <2>6, ZeroRetries DEF Persist
  <2>7. ASSUME NEW p \in Pid, Launch(p) PROVE RecType'
    BY <2>7 DEF Launch, recVars
  <2> QED BY <1>3, <2>1, <2>2, <2>3, <2>4, <2>5, <2>6, <2>7 DEF LockedStep
<1>4. ASSUME NEW t \in Thread, HandlerStep(t) \/ TakeoverTimeout(t) PROVE RecType'
  <2>1. CASE HandleProcessExit(t)
    <3>1. CASE ~Idle /\ attempts < MaxCrashRestarts
      <4>1. attempts + 1 \in Nat /\ MaxRetries \in 0..MaxRetries
        BY CoreManagerAssumption
      <4>2. /\ attempts' = attempts + 1 /\ gaveUp' = gaveUp
            /\ retry' = [retry EXCEPT ![attempts + 1] = MaxRetries]
        BY <2>1, <3>1 DEF HandleProcessExit
      <4> QED BY <4>1, <4>2
    <3>2. CASE Idle \/ ~(attempts < MaxCrashRestarts)
      <4>1. CASE Idle
        BY <2>1, <4>1 DEF HandleProcessExit, recVars
      <4>2. CASE ~Idle
        <5>1. attempts' = attempts + 1 /\ gaveUp' = TRUE /\ retry' = retry
          BY <2>1, <3>2, <4>2 DEF HandleProcessExit
        <5> QED BY <5>1
      <4> QED BY <4>1, <4>2
    <3> QED BY <3>1, <3>2
  <2> QED BY <1>4, <2>1 DEF HandlerStep, TakeoverLook, TakeoverTimeout, ScanNone, ScanFound, ScanRefused,
     Adopt, RecordStat, RecordWrite, recVars
<1>5. ASSUME NEW p \in Pid, MonStep(p) \/ NtfStep(p) PROVE RecType'
  BY <1>5 DEF MonStep, MonWake, MonCheck, FinishExpectedProcessExit, NtfStep, NtfTake, NtfSame,
     NtfStop, Teardown, Cleanup, SignalStop,
     recVars
<1>6. CASE PollStep
  BY <1>6 DEF PollStep, PollTick, PollVerdict, PollStop,
     recVars
<1>7. ASSUME NEW r \in Restarter, RetryStart(r) PROVE RecType'
  <2>1. CASE isRunning
    <3>1. AttemptFailed(r) /\ UNCHANGED attempts /\ retry[r] > 0
      BY <1>7, <2>1 DEF RetryStart
    <3> QED BY <3>1, PidTypes, AttemptFailedType
  <2>2. CASE ~isRunning
    BY <1>7, <2>2 DEF RetryStart
  <2> QED BY <2>1, <2>2
<1>8. CASE ServiceDies
  BY <1>8, ZeroRetries DEF ServiceDies,
     recVars
<1>9. CASE BootStep
  BY <1>9 DEF BootStep, ReconcileRuntimeState, AdoptRecord, CleanRecord, ForgetRecord, RestoreDesiredState,
     BeginStart,
     recVars
<1>10. CASE UNCHANGED vars
  BY <1>10 DEF vars,
     recVars
<1> QED BY <1>1, <1>2, <1>3, <1>4, <1>5, <1>6, <1>7, <1>8, <1>9, <1>10 DEF Next

\* Nobody but the holder of the mutex spends its attempts.
LEMMA RetryHeldStep == TypeOK /\ RetryHeld /\ [Next]_vars => RetryHeld'
<1> SUFFICES ASSUME TypeOK, RetryHeld, [Next]_vars PROVE RetryHeld'
  OBVIOUS
<1> USE PidTypes DEF TypeOK, RetryHeld, Free, InPhase, Unlocked
<1>1. CASE CoreStep
  BY <1>1 DEF CoreStep, CoreDies, CoreRespawns,
     recVars
<1>2. CASE ApiStep
  BY <1>2 DEF ApiStep, ApiStart, ApiStop, ApiRestart, Request, StopIdle, StopBegin, BeginStart, SignalStop, Unlocked,
     recVars
<1>3. CASE LockedStep
  BY <1>3 DEF LockedStep, StopProcess, StopCleanup, LaunchFail, StartupFail, StartupOk, Persist,
     Launch, Fresh, Teardown, Cleanup, SignalStop, BeginStart, AttemptFailed,
     recVars
<1>4. ASSUME NEW t \in Thread, HandlerStep(t) \/ TakeoverTimeout(t) PROVE RetryHeld'
  BY <1>4, CoreManagerAssumption DEF HandlerStep, TakeoverLook, TakeoverTimeout, ScanNone, ScanFound, ScanRefused, Adopt,
     RecordStat, RecordWrite, HandleProcessExit, Teardown, Cleanup, SignalStop, Unlocked, LockType, RecType, Restarter,
     recVars
<1>5. ASSUME NEW p \in Pid, MonStep(p) \/ NtfStep(p) PROVE RetryHeld'
  BY <1>5 DEF MonStep, MonWake, MonCheck, FinishExpectedProcessExit, NtfStep, NtfTake, NtfSame,
     NtfStop, Teardown, Cleanup, SignalStop,
     recVars
<1>6. CASE PollStep
  BY <1>6 DEF PollStep, PollTick, PollVerdict, PollStop,
     recVars
<1>7. ASSUME NEW r \in Restarter, RetryStart(r) PROVE RetryHeld'
  BY <1>7 DEF RetryStart, BeginStart, AttemptFailed, Unlocked,
     recVars
<1>8. CASE ServiceDies
  BY <1>8 DEF ServiceDies,
     recVars
<1>9. CASE BootStep
  BY <1>9 DEF BootStep, ReconcileRuntimeState, AdoptRecord, CleanRecord, ForgetRecord, RestoreDesiredState,
     BeginStart,
     recVars
<1>10. CASE UNCHANGED vars
  BY <1>10 DEF vars,
     recVars
<1> QED BY <1>1, <1>2, <1>3, <1>4, <1>5, <1>6, <1>7, <1>8, <1>9, <1>10 DEF Next

\* The state files stay well-formed.
LEMMA DiskTypeStep == TypeOK /\ [Next]_vars => DiskType'
<1> SUFFICES ASSUME TypeOK, [Next]_vars PROVE DiskType'
  OBVIOUS
<1> USE PidTypes DEF TypeOK, DiskType
<1>1. CASE CoreStep
  BY <1>1 DEF CoreStep, CoreDies, CoreRespawns,
     diskVars
<1>2. CASE ApiStep
  BY <1>2 DEF ApiStep, ApiStart, ApiStop, ApiRestart, Request, StopIdle, StopBegin, BeginStart, SignalStop,
     diskVars
<1>3. CASE LockedStep
  BY <1>3 DEF LockedStep, StopProcess, StopCleanup, LaunchFail, StartupFail, StartupOk, Persist,
     Launch, Fresh, Teardown, Cleanup, SignalStop, BeginStart, AttemptFailed, CoreType,
     diskVars
<1>4. ASSUME NEW t \in Thread, HandlerStep(t) \/ TakeoverTimeout(t) PROVE DiskType'
  BY <1>4 DEF HandlerStep, TakeoverLook, TakeoverTimeout, ScanNone, ScanFound, ScanRefused, Adopt,
     RecordStat, RecordWrite, HandleProcessExit, Teardown, Cleanup, SignalStop, PcType, Captured,
     diskVars
<1>5. ASSUME NEW p \in Pid, MonStep(p) \/ NtfStep(p) PROVE DiskType'
  BY <1>5 DEF MonStep, MonWake, MonCheck, FinishExpectedProcessExit, NtfStep, NtfTake, NtfSame,
     NtfStop, Teardown, Cleanup, SignalStop,
     diskVars
<1>6. CASE PollStep
  BY <1>6 DEF PollStep, PollTick, PollVerdict, PollStop,
     diskVars
<1>7. ASSUME NEW r \in Restarter, RetryStart(r) PROVE DiskType'
  BY <1>7 DEF RetryStart, BeginStart, AttemptFailed,
     diskVars
<1>8. CASE ServiceDies
  BY <1>8 DEF ServiceDies,
     diskVars
<1>9. CASE BootStep
  BY <1>9 DEF BootStep, ReconcileRuntimeState, AdoptRecord, CleanRecord, ForgetRecord, RestoreDesiredState,
     BeginStart,
     diskVars
<1>10. CASE UNCHANGED vars
  BY <1>10 DEF vars,
     diskVars
<1> QED BY <1>1, <1>2, <1>3, <1>4, <1>5, <1>6, <1>7, <1>8, <1>9, <1>10 DEF Next

\* The service's state and the budgets stay in range.
LEMMA SvcTypeStep == TypeOK /\ [Next]_vars => SvcType'
<1> SUFFICES ASSUME TypeOK, [Next]_vars PROVE SvcType'
  OBVIOUS
<1> USE CoreManagerAssumption DEF TypeOK, SvcType
<1>1. CASE CoreStep
  BY <1>1 DEF CoreStep, CoreDies, CoreRespawns,
     svcVars
<1>2. CASE ApiStep
  BY <1>2 DEF ApiStep, ApiStart, ApiStop, ApiRestart, Request, StopIdle, StopBegin, BeginStart, SignalStop,
     svcVars
<1>3. CASE LockedStep
  BY <1>3 DEF LockedStep, StopProcess, StopCleanup, LaunchFail, StartupFail, StartupOk, Persist,
     Launch, Fresh, Teardown, Cleanup, SignalStop, BeginStart, AttemptFailed,
     svcVars
<1>4. ASSUME NEW t \in Thread, HandlerStep(t) \/ TakeoverTimeout(t) PROVE SvcType'
  BY <1>4 DEF HandlerStep, TakeoverLook, TakeoverTimeout, ScanNone, ScanFound, ScanRefused, Adopt,
     RecordStat, RecordWrite, HandleProcessExit, Teardown, Cleanup, SignalStop,
     svcVars
<1>5. ASSUME NEW p \in Pid, MonStep(p) \/ NtfStep(p) PROVE SvcType'
  BY <1>5 DEF MonStep, MonWake, MonCheck, FinishExpectedProcessExit, NtfStep, NtfTake, NtfSame,
     NtfStop, Teardown, Cleanup, SignalStop,
     svcVars
<1>6. CASE PollStep
  BY <1>6 DEF PollStep, PollTick, PollVerdict, PollStop,
     svcVars
<1>7. ASSUME NEW r \in Restarter, RetryStart(r) PROVE SvcType'
  BY <1>7 DEF RetryStart, BeginStart, AttemptFailed,
     svcVars
<1>8. CASE ServiceDies
  BY <1>8 DEF ServiceDies,
     svcVars
<1>9. CASE BootStep
  <2>1. Alive(record) => record \in Pid
    BY DEF Alive
  <2> QED BY <1>9, <2>1 DEF BootStep, ReconcileRuntimeState, AdoptRecord, CleanRecord, ForgetRecord,
     RestoreDesiredState, svcVars
<1>10. CASE UNCHANGED vars
  BY <1>10 DEF vars,
     svcVars
<1> QED BY <1>1, <1>2, <1>3, <1>4, <1>5, <1>6, <1>7, <1>8, <1>9, <1>10 DEF Next

\* Every goroutine stays in a legal state.
LEMMA PcTypeStep == TypeOK /\ [Next]_vars => PcType'
<1> SUFFICES ASSUME TypeOK, [Next]_vars PROVE PcType'
  OBVIOUS
<1>0. /\ Nothing \in Captured
      /\ \A p, l, q \in PidOrNil : [pid |-> p, launch |-> l, new |-> q] \in Captured
  BY PidTypes DEF Nothing, Captured
<1> USE <1>0, PidTypes, ThreadType DEF TypeOK, PcType, Goto, Leave, Capture, ThreadState
<1>1. CASE CoreStep
  BY <1>1 DEF CoreStep, CoreDies, CoreRespawns,
     thrVars
<1>2. CASE ApiStep
  BY <1>2 DEF ApiStep, ApiStart, ApiStop, ApiRestart, Request, StopIdle, StopBegin, BeginStart, SignalStop,
     thrVars
<1>3. CASE LockedStep
  <2>1. CASE StopProcess
    BY <2>1 DEF StopProcess, thrVars
  <2>2. CASE StopCleanup
    BY <2>2 DEF StopCleanup, thrVars
  <2>3. CASE LaunchFail
    BY <2>3 DEF LaunchFail, SignalStop
  <2>4. CASE StartupFail
    BY <2>4 DEF StartupFail, Teardown, SignalStop
  <2>5. CASE StartupOk
    BY <2>5 DEF StartupOk
  <2>6. CASE Persist
    BY <2>6 DEF Persist, thrVars
  <2>7. ASSUME NEW p \in Pid, Launch(p) PROVE PcType'
    BY <2>7 DEF Launch, thrVars
  <2> QED BY <1>3, <2>1, <2>2, <2>3, <2>4, <2>5, <2>6, <2>7 DEF LockedStep
<1>4. ASSUME NEW t \in Thread, HandlerStep(t) \/ TakeoverTimeout(t) PROVE PcType'
  <2>1. CASE TakeoverLook(t)
    BY <2>1 DEF TakeoverLook, CoreType
  <2>2. CASE TakeoverTimeout(t)
    BY <2>2 DEF TakeoverTimeout
  <2>3. CASE ScanNone(t)
    BY <2>3 DEF ScanNone
  <2>4. CASE ScanFound(t)
    BY <2>4 DEF ScanFound, Captured
  <2>5. CASE ScanRefused(t)
    BY <2>5 DEF ScanRefused
  <2>6. CASE Adopt(t)
    BY <2>6 DEF Adopt
  <2>7. CASE RecordStat(t)
    BY <2>7 DEF RecordStat
  <2>8. CASE RecordWrite(t)
    BY <2>8 DEF RecordWrite
  <2>9. CASE HandleProcessExit(t)
    BY <2>9 DEF HandleProcessExit, Teardown, SignalStop
  <2> QED BY <1>4, <2>1, <2>2, <2>3, <2>4, <2>5, <2>6, <2>7, <2>8, <2>9 DEF HandlerStep
<1>5. ASSUME NEW p \in Pid, MonStep(p) \/ NtfStep(p) PROVE PcType'
  <2>1. CASE MonWake(p)
    BY <2>1 DEF MonWake
  <2>2. CASE MonCheck(p)
    BY <2>2 DEF MonCheck
  <2>3. CASE FinishExpectedProcessExit(p)
    BY <2>3 DEF FinishExpectedProcessExit, Teardown, SignalStop
  <2>4. CASE NtfStep(p)
    BY <2>4 DEF NtfStep, NtfTake, NtfSame, NtfStop, CoreType
  <2> QED BY <1>5, <2>1, <2>2, <2>3, <2>4 DEF MonStep
<1>6. CASE PollStep
  <2>1. CASE PollTick
    <3>1. \/ pc' = [pc EXCEPT ![Poller] = "off"] /\ pollClosed' = FALSE /\ cap' = cap
          \/ /\ pc' = [pc EXCEPT ![Poller] = "read"] /\ pollClosed' = pollClosed
             /\ Capture(Poller, pid, Nil, Nil)
      BY <2>1 DEF PollTick
    <3>2. [pid |-> pid, launch |-> Nil, new |-> Nil] \in Captured
      BY DEF CoreType
    <3> QED BY <3>1, <3>2
  <2>2. CASE PollVerdict
    BY <2>2 DEF PollVerdict
  <2>3. CASE PollStop
    BY <2>3 DEF PollStop
  <2> QED BY <1>6, <2>1, <2>2, <2>3 DEF PollStep
<1>7. ASSUME NEW r \in Restarter, RetryStart(r) PROVE PcType'
  BY <1>7 DEF RetryStart, BeginStart, AttemptFailed,
     thrVars
<1>8. CASE ServiceDies
  BY <1>8 DEF ServiceDies, NoThreads,
     thrVars
<1>9. CASE BootStep
  BY <1>9 DEF BootStep, ReconcileRuntimeState, AdoptRecord, CleanRecord, ForgetRecord, RestoreDesiredState,
     BeginStart,
     thrVars
<1>10. CASE UNCHANGED vars
  BY <1>10 DEF vars,
     thrVars
<1> QED BY <1>1, <1>2, <1>3, <1>4, <1>5, <1>6, <1>7, <1>8, <1>9, <1>10 DEF Next

\* The inductive invariant behind type correctness.
TypeInv == TypeOK /\ RetryHeld

\* Every variable of the lifecycle keeps its type, the attempt counters of the
\* restart goroutines and the request budgets included (core/manager.go).
THEOREM TypeCorrect == Spec => []TypeOK
<1>1. Init => TypeInv
  <2>1. Init => RetryHeld
    BY DEF Init, Free, RetryHeld
  <2> QED BY InitType, <2>1 DEF TypeInv
<1>2. TypeInv /\ [Next]_vars => TypeInv'
  BY ProcTypeStep, FlagTypeStep, CoreTypeStep, LockTypeStep, PcTypeStep, RecTypeStep, DiskTypeStep,
     SvcTypeStep, RetryHeldStep DEF TypeInv, TypeOK
<1>3. TypeInv => TypeOK
  BY DEF TypeInv
<1> QED BY <1>1, <1>2, <1>3, PTL DEF Spec

----------------------------------------------------------------------------
\* What the fields of CoreManager hold in every phase of the critical sections:
\* Coherent for a free mutex, and for a held one what its holder has set so far.
PhaseInv ==
    /\ Coherent
    /\ lock.phase = "launch" =>
           isRunning /\ ~monitoring /\ stopChan /\ pid = Nil /\ launch = Nil /\ cmd = Nil
    /\ lock.phase = "startup" =>
           isRunning /\ ~monitoring /\ stopChan /\ pid # Nil /\ launch = pid /\ cmd = pid
    /\ lock.phase = "persist" =>
           isRunning /\ monitoring /\ stopChan /\ pid # Nil /\ launch # Nil /\ cmd = launch
    /\ lock.phase \in {"kill", "cleanup"} =>
           isRunning /\ ~monitoring /\ ~stopChan /\ pid # Nil /\ launch # Nil
    /\ service = "down" => Unlocked /\ Idle /\ \A r \in Restarter : retry[r] = 0

\* A goroutine about to install a successor has found one.
FoundInv == \A t \in Thread : pc[t] = "adopt" => cap[t].new # Nil

\* Nil names no process.
LEMMA PidNotNil == Nil \notin Pid
BY DEF Nil, Pid

\* Every step keeps the fields as the phase of the mutex says.
LEMMA PhaseStep == TypeOK /\ PhaseInv /\ FoundInv /\ [Next]_vars => PhaseInv'
<1> SUFFICES ASSUME TypeOK, PhaseInv, FoundInv, [Next]_vars PROVE PhaseInv'
  OBVIOUS
<1> USE PidNotNil DEF PhaseInv, Coherent, Unlocked, Idle, Free, InPhase, mgrVars, svcVars, recVars,
       TypeOK, FlagType
<1>1. CASE CoreStep
  BY <1>1 DEF CoreStep, CoreDies, CoreRespawns
<1>2. CASE ApiStart
  BY <1>2 DEF ApiStart, Request, BeginStart
<1>3. CASE ApiStop
  BY <1>3 DEF ApiStop, Request, StopIdle, StopBegin, SignalStop
<1>4. CASE ApiRestart
  BY <1>4 DEF ApiRestart, Request, StopIdle, StopBegin, BeginStart, SignalStop
<1>5. CASE StopProcess
  BY <1>5 DEF StopProcess
<1>6. CASE StopCleanup
  <2>1. CASE lock.then = "start"
    <3>1. /\ launch' = Nil /\ cmd' = Nil /\ pid' = Nil /\ isRunning' = TRUE /\ stopChan' = TRUE
          /\ lock'.phase = "launch" /\ monitoring' = monitoring /\ service' = service
          /\ retry' = retry /\ ~monitoring /\ service # "down"
      BY <1>6, <2>1 DEF StopCleanup, BeginStart
    <3> QED BY <3>1
  <2>2. CASE lock.then # "start"
    <3>1. /\ launch' = Nil /\ cmd' = Nil /\ pid' = Nil /\ isRunning' = FALSE /\ lock' = Free
          /\ stopChan' = stopChan /\ monitoring' = monitoring /\ service' = service
          /\ retry' = retry /\ ~stopChan /\ ~monitoring /\ service # "down"
      BY <1>6, <2>2 DEF StopCleanup
    <3> QED BY <3>1
  <2> QED BY <2>1, <2>2
<1>7. CASE LaunchFail
  BY <1>7 DEF LaunchFail, SignalStop
<1>8. CASE StartupFail
  BY <1>8 DEF StartupFail, Teardown, Cleanup, SignalStop
<1>9. CASE StartupOk
  BY <1>9 DEF StartupOk
<1>10. CASE Persist
  BY <1>10 DEF Persist
<1>11. CASE ServiceDies
  BY <1>11 DEF ServiceDies
<1>12. CASE ReconcileRuntimeState
  BY <1>12 DEF ReconcileRuntimeState, AdoptRecord, CleanRecord, ForgetRecord, Alive
<1>13. CASE RestoreDesiredState
  BY <1>13 DEF RestoreDesiredState, BeginStart
<1>14. CASE PollStep
  BY <1>14 DEF PollStep, PollTick, PollVerdict, PollStop
<1>15. CASE UNCHANGED vars
  BY <1>15 DEF vars
<1>16. ASSUME NEW p \in Pid, Launch(p) PROVE PhaseInv'
  BY <1>16 DEF Launch
<1>17. ASSUME NEW p \in Pid, MonStep(p) \/ NtfStep(p) PROVE PhaseInv'
  <2>1. CASE FinishExpectedProcessExit(p)
    <3>1. CASE cmd = p
      <4>1. service # "down"
        BY <3>1
      <4>2. /\ launch' = Nil /\ cmd' = Nil /\ pid' = Nil /\ isRunning' = FALSE /\ stopChan' = FALSE
            /\ monitoring' = FALSE /\ lock' = lock /\ service' = service /\ Unlocked
        BY <2>1, <3>1 DEF FinishExpectedProcessExit, Teardown, Cleanup, SignalStop
      <4> QED BY <4>1, <4>2
    <3>2. CASE cmd # p
      BY <2>1, <3>2 DEF FinishExpectedProcessExit
    <3> QED BY <3>1, <3>2
  <2>2. CASE UNCHANGED <<mgrVars, lock, svcVars, recVars>>
    BY <2>2
  <2> QED BY <1>17, <2>1, <2>2 DEF MonStep, MonWake, MonCheck, NtfStep, NtfTake, NtfSame, NtfStop
<1>18. ASSUME NEW r \in Restarter, RetryStart(r) PROVE PhaseInv'
  BY <1>18 DEF RetryStart, BeginStart
<1>19. ASSUME NEW t \in Thread, HandlerStep(t) \/ TakeoverTimeout(t) PROVE PhaseInv'
  <2>1. CASE Adopt(t)
    BY <2>1 DEF Adopt, FoundInv
  <2>2. CASE HandleProcessExit(t)
    BY <2>2 DEF HandleProcessExit, Teardown, Cleanup, SignalStop
  <2>3. CASE UNCHANGED <<mgrVars, lock, svcVars, recVars>>
    BY <2>3
  <2> QED BY <1>19, <2>1, <2>2, <2>3 DEF HandlerStep, TakeoverLook, TakeoverTimeout, ScanNone, ScanFound,
     ScanRefused, RecordStat, RecordWrite
<1> QED BY <1>1, <1>2, <1>3, <1>4, <1>5, <1>6, <1>7, <1>8, <1>9, <1>10, <1>11, <1>12, <1>13, <1>14, <1>15, <1>16, <1>17, <1>18, <1>19
     DEF Next, ApiStep, LockedStep, BootStep

\* A goroutine reaches "adopt" only from a scan that found a process.
LEMMA FoundStep == TypeOK /\ FoundInv /\ [Next]_vars => FoundInv'
<1> SUFFICES ASSUME TypeOK, FoundInv, [Next]_vars, NEW u \in Thread, pc'[u] = "adopt"
             PROVE  cap'[u].new # Nil
  BY DEF FoundInv
<1> DEFINE Kept == pc'[u] = "adopt" => pc[u] = "adopt" /\ cap'[u] = cap[u]
<1> USE DEF TypeOK, PcType, Goto, Leave, Capture, thrVars
<1>0. \A t : Return(t) # "adopt" /\ NotTaken(t) # "adopt"
  BY DEF Return, NotTaken
<1>1. CASE UNCHANGED <<pc, cap>>
  BY <1>1 DEF FoundInv
<1>2. CASE StartupOk
  <2>1. Kept
    BY <1>2 DEF StartupOk
  <2> QED BY <2>1 DEF FoundInv
<1>3. ASSUME NEW t \in Thread, HandlerStep(t) \/ TakeoverTimeout(t) PROVE cap'[u].new # Nil
  <2>1. CASE ScanFound(t) /\ t = u
    BY <2>1, PidNotNil DEF ScanFound
  <2>2. CASE ScanFound(t) /\ t # u
    <3>1. Kept
      BY <2>2 DEF ScanFound
    <3> QED BY <3>1 DEF FoundInv
  <2>3. CASE Adopt(t)
    <3>1. Kept
      BY <2>3, <1>0, ThreadType DEF Adopt
    <3> QED BY <3>1 DEF FoundInv
  <2>4. CASE \/ TakeoverLook(t) \/ ScanNone(t) \/ ScanRefused(t) \/ RecordStat(t) \/ RecordWrite(t)
             \/ HandleProcessExit(t) \/ TakeoverTimeout(t)
    <3>1. Kept
      BY <2>4, <1>0 DEF TakeoverLook, ScanNone, ScanRefused, RecordStat, RecordWrite, HandleProcessExit,
         TakeoverTimeout
    <3> QED BY <3>1 DEF FoundInv
  <2> QED BY <1>3, <2>1, <2>2, <2>3, <2>4 DEF HandlerStep
<1>4. ASSUME NEW p \in Pid, MonStep(p) \/ NtfStep(p) PROVE cap'[u].new # Nil
  <2>1. Kept
    BY <1>4, <1>0, ThreadType DEF MonStep, MonWake, MonCheck, FinishExpectedProcessExit, NtfStep, NtfTake,
       NtfSame, NtfStop
  <2> QED BY <2>1 DEF FoundInv
<1>5. CASE PollStep
  <2>1. Kept
    BY <1>5, <1>0, ThreadType DEF PollStep, PollTick, PollVerdict, PollStop
  <2> QED BY <2>1 DEF FoundInv
<1>6. CASE ServiceDies
  BY <1>6 DEF ServiceDies, NoThreads
<1>7. CASE ReconcileRuntimeState
  <2>1. Kept
    BY <1>7 DEF ReconcileRuntimeState, AdoptRecord, CleanRecord, ForgetRecord
  <2> QED BY <2>1 DEF FoundInv
<1>8. CoreStep \/ ApiStep \/ RestoreDesiredState => UNCHANGED <<pc, cap>>
  BY DEF CoreStep, CoreDies, CoreRespawns, ApiStep, ApiStart, ApiStop, ApiRestart, StopIdle, StopBegin,
     RestoreDesiredState
<1>9. LockedStep => StartupOk \/ UNCHANGED <<pc, cap>>
  BY DEF LockedStep, StopProcess, StopCleanup, LaunchFail, StartupFail, Persist, Launch
<1>10. \A r \in Restarter : RetryStart(r) => UNCHANGED <<pc, cap>>
  BY DEF RetryStart
<1>11. UNCHANGED vars => UNCHANGED <<pc, cap>>
  BY DEF vars
<1> QED BY <1>1, <1>2, <1>3, <1>4, <1>5, <1>6, <1>7, <1>8, <1>9, <1>10, <1>11 DEF Next, BootStep

\* Whenever the mutex of CoreManager is free its fields agree (Coherent), on
\* every path through start, stop, restart, takeover, crash handling and boot.
THEOREM CoherentAlways == Spec => []Coherent
<1>1. Init => PhaseInv /\ FoundInv
  <2> SUFFICES ASSUME Init PROVE PhaseInv /\ FoundInv
    OBVIOUS
  <2>1. PhaseInv
    BY DEF Init, PhaseInv, Coherent, Unlocked, Idle, Free
  <2>2. FoundInv
    BY DEF Init, FoundInv, NoThreads
  <2> QED BY <2>1, <2>2
<1>2. TypeOK /\ PhaseInv /\ FoundInv /\ [Next]_vars => PhaseInv' /\ FoundInv'
  BY PhaseStep, FoundStep
<1>3. PhaseInv => Coherent
  BY DEF PhaseInv
<1> QED BY <1>1, <1>2, <1>3, TypeCorrect, PTL DEF Spec

----------------------------------------------------------------------------
\* With a job controller every live process that is in a job is in that of the
\* current launch, at every moment and not only while the mutex is free.
JobInv ==
    JobController => \A p \in Pid : proc[p] = "alive" /\ job[p] # Nil => launch # Nil /\ job[p] = launch

\* Closing the job of the current launch leaves no live process.
LEMMA CloseKillsAll ==
    ASSUME JobController, NEW pr \in [Pid -> ProcState], NEW l, NEW p \in Pid,
           pr[p] = "alive" => job[p] = l
    PROVE  CloseController(pr, l)[p] # "alive"
BY DEF CloseController

\* Stopping a process creates none.
LEMMA StopCreatesNone ==
    ASSUME ProcType, NEW l, NEW q, NEW pr \in StopResults(l, q), NEW p \in Pid, pr[p] = "alive"
    PROVE  proc[p] = "alive"
BY DEF ProcType, StopResults, CloseController

\* Every step keeps every live process in the job of the current launch.
LEMMA JobStep == TypeOK /\ PhaseInv /\ JobInv /\ [Next]_vars => JobInv'
<1> SUFFICES ASSUME TypeOK, PhaseInv, JobInv, [Next]_vars, JobController, NEW p \in Pid, proc'[p] = "alive",
                    job'[p] # Nil
             PROVE  launch' # Nil /\ job'[p] = launch'
  BY DEF JobInv
<1> USE PidNotNil DEF JobInv, TypeOK, ProcType
<1>0. \A pr \in [Pid -> ProcState] : \A l :
         (pr[p] = "alive" => job[p] = l) => CloseController(pr, l)[p] # "alive"
  BY CloseKillsAll
<1>1. CASE UNCHANGED <<proc, job, launch>>
  BY <1>1
<1>2. CASE CoreStep
  BY <1>2 DEF CoreStep, CoreDies, CoreRespawns, Alive, mgrVars
<1>3. CASE StopProcess
  BY <1>3, StopCreatesNone DEF StopProcess, mgrVars
<1>4. CASE StopCleanup
  BY <1>4, <1>0 DEF StopCleanup
<1>5. CASE StartupFail
  BY <1>5, <1>0, StopCreatesNone, ProcResults DEF StartupFail, Teardown, Cleanup
<1>6. ASSUME NEW q \in Pid, Launch(q) PROVE launch' # Nil /\ job'[p] = launch'
  BY <1>6 DEF Launch, PhaseInv
<1>7. ASSUME NEW t \in Thread, HandleProcessExit(t) PROVE launch' # Nil /\ job'[p] = launch'
  BY <1>7, <1>0 DEF HandleProcessExit, Teardown, Cleanup, mgrVars
<1>8. ASSUME NEW t \in Thread, ScanRefused(t) PROVE launch' # Nil /\ job'[p] = launch'
  BY <1>8, StopCreatesNone DEF ScanRefused, mgrVars
<1>9. ASSUME NEW q \in Pid, FinishExpectedProcessExit(q) PROVE launch' # Nil /\ job'[p] = launch'
  BY <1>9, <1>0 DEF FinishExpectedProcessExit, Teardown, Cleanup, mgrVars
<1>10. CASE ServiceDies
  BY <1>10, CoreManagerAssumption DEF ServiceDies, Left
<1>11. CASE ReconcileRuntimeState
  <2>1. service = "down" /\ launch = Nil
    BY <1>11 DEF ReconcileRuntimeState, PhaseInv, Idle
  <2>2. \A q \in Pid : proc[q] = "alive" => job[q] = Nil
    BY <2>1
  <2> QED BY <1>11, <2>1, <2>2 DEF ReconcileRuntimeState, AdoptRecord, CleanRecord, ForgetRecord, Alive, procVars
<1>12. ApiStep \/ PollStep \/ RestoreDesiredState \/ (\E r \in Restarter : RetryStart(r))
          => UNCHANGED <<proc, job, launch>>
  BY DEF ApiStep, ApiStart, ApiStop, ApiRestart, StopIdle, StopBegin, PollStep, PollTick, PollVerdict, PollStop,
     RestoreDesiredState, RetryStart, procVars, mgrVars
<1>13. LaunchFail \/ StartupOk \/ Persist \/ UNCHANGED vars => UNCHANGED <<proc, job, launch>>
  BY DEF LaunchFail, StartupOk, Persist, vars, procVars, mgrVars
<1>14. \A t \in Thread :
         \/ TakeoverLook(t) \/ ScanNone(t) \/ ScanFound(t) \/ Adopt(t) \/ RecordStat(t) \/ RecordWrite(t)
         \/ TakeoverTimeout(t)
         => UNCHANGED <<proc, job, launch>>
  BY DEF TakeoverLook, ScanNone, ScanFound, Adopt, RecordStat, RecordWrite, TakeoverTimeout, procVars, mgrVars
<1>15. \A q \in Pid : MonWake(q) \/ MonCheck(q) \/ NtfStep(q) => UNCHANGED <<proc, job, launch>>
  BY DEF MonWake, MonCheck, NtfStep, NtfTake, NtfSame, NtfStop, procVars, mgrVars
<1> QED BY <1>1, <1>2, <1>3, <1>4, <1>5, <1>6, <1>7, <1>8, <1>9, <1>10, <1>11, <1>12, <1>13, <1>14, <1>15
     DEF Next, LockedStep, HandlerStep, MonStep, BootStep

\* With a job object (process_control_windows.go) no core that was attached ever
\* escapes its controller, in spite of the crash handlers that clean up a launch they did
\* not look at: closing the controller kills what is left of the launch.
THEOREM JobOwnsEveryCore == ASSUME JobController PROVE Spec => []NoOrphan
<1>1. Init => JobInv /\ PhaseInv /\ FoundInv
  <2> SUFFICES ASSUME Init PROVE JobInv /\ PhaseInv /\ FoundInv
    OBVIOUS
  <2>1. PhaseInv
    BY DEF Init, PhaseInv, Coherent, Unlocked, Idle, Free
  <2>2. JobInv /\ FoundInv
    BY DEF Init, JobInv, FoundInv, NoThreads
  <2> QED BY <2>1, <2>2
<1>2. TypeOK /\ PhaseInv /\ FoundInv /\ JobInv /\ [Next]_vars => PhaseInv' /\ FoundInv' /\ JobInv'
  BY PhaseStep, FoundStep, JobStep
<1>3. JobInv => NoOrphan
  BY DEF JobInv, NoOrphan, Alive
<1> QED BY <1>1, <1>2, <1>3, TypeCorrect, PTL DEF Spec

----------------------------------------------------------------------------
\* A process that is or was in a job.
Owned(q) == q \in Pid => proc[q] # "none" /\ job[q] # Nil

\* With a job controller every process the manager or a goroutine deals with, and the
\* one runtime.json names, is in a job: the service's death kills it.
OwnedInv ==
    JobController =>
        /\ Owned(record) /\ survivors = {}
        /\ lock.phase = "startup" => Owned(pid)
        /\ \A t \in Thread : /\ pc[t] = "scan" => cap[t].launch # Nil
                             /\ pc[t] \in {"adopt", "stat", "write"} => Owned(cap[t].new)

\* No step takes a process back or out of its job.
LEMMA CreatedStays ==
    TypeOK /\ [Next]_vars =>
        \A q \in Pid : proc[q] # "none" => proc'[q] # "none" /\ (job[q] # Nil => job'[q] # Nil)
<1> SUFFICES ASSUME TypeOK, [Next]_vars, NEW q \in Pid, proc[q] # "none"
             PROVE  proc'[q] # "none" /\ (job[q] # Nil => job'[q] # Nil)
  OBVIOUS
<1> DEFINE Stays == proc'[q] # "none" /\ (job[q] # Nil => job'[q] # Nil)
<1> USE PidNotNil DEF TypeOK, ProcType
<1>0. /\ \A pr \in [Pid -> ProcState] : \A l : pr[q] # "none" => CloseController(pr, l)[q] # "none"
      /\ \A l, x : \A pr \in StopResults(l, x) : pr[q] # "none" /\ pr \in [Pid -> ProcState]
  BY ProcResults DEF CloseController, StopResults
<1>1. CASE CoreStep
  BY <1>1 DEF CoreStep, CoreDies, CoreRespawns, Fresh
<1>2. CASE StopProcess \/ StopCleanup
  BY <1>0, <1>2 DEF StopProcess, StopCleanup
<1>3. CASE StartupFail
  BY <1>0, <1>3 DEF StartupFail, Teardown, Cleanup
<1>4. ASSUME NEW p \in Pid, Launch(p) PROVE Stays
  BY <1>4 DEF Launch, Fresh
<1>5. ASSUME NEW t \in Thread, HandleProcessExit(t) \/ ScanRefused(t) PROVE Stays
  BY <1>0, <1>5 DEF HandleProcessExit, ScanRefused, Teardown, Cleanup
<1>6. ASSUME NEW p \in Pid, FinishExpectedProcessExit(p) PROVE Stays
  BY <1>0, <1>6 DEF FinishExpectedProcessExit, Teardown, Cleanup
<1>7. CASE ServiceDies
  BY <1>7 DEF ServiceDies, Left, Fresh
<1>8. CASE ReconcileRuntimeState
  BY <1>8 DEF ReconcileRuntimeState, AdoptRecord, CleanRecord, ForgetRecord, Alive, procVars
<1>9. CASE UNCHANGED <<proc, job>>
  BY <1>9
<1>10. ApiStep \/ PollStep \/ RestoreDesiredState \/ (\E r \in Restarter : RetryStart(r)) => UNCHANGED <<proc, job>>
  BY DEF ApiStep, ApiStart, ApiStop, ApiRestart, StopIdle, StopBegin, PollStep, PollTick, PollVerdict, PollStop,
     RestoreDesiredState, RetryStart, procVars
<1>11. LaunchFail \/ StartupOk \/ Persist \/ UNCHANGED vars => UNCHANGED <<proc, job>>
  BY DEF LaunchFail, StartupOk, Persist, vars, procVars
<1>12. \A t \in Thread :
         \/ TakeoverLook(t) \/ ScanNone(t) \/ ScanFound(t) \/ Adopt(t) \/ RecordStat(t) \/ RecordWrite(t)
         \/ TakeoverTimeout(t)
         => UNCHANGED <<proc, job>>
  BY DEF TakeoverLook, ScanNone, ScanFound, Adopt, RecordStat, RecordWrite, TakeoverTimeout, procVars
<1>13. \A p \in Pid : MonWake(p) \/ MonCheck(p) \/ NtfStep(p) => UNCHANGED <<proc, job>>
  BY DEF MonWake, MonCheck, NtfStep, NtfTake, NtfSame, NtfStop, procVars
<1> QED BY <1>1, <1>2, <1>3, <1>4, <1>5, <1>6, <1>7, <1>8, <1>9, <1>10, <1>11, <1>12, <1>13
     DEF Next, LockedStep, HandlerStep, MonStep, BootStep

\* What is in a job stays there.
LEMMA OwnedStays == ASSUME TypeOK, [Next]_vars, NEW q, Owned(q) PROVE Owned(q)'
BY CreatedStays DEF Owned

\* Every goroutine deals with processes of a job only.
LEMMA OwnedThreads ==
    TypeOK /\ OwnedInv /\ [Next]_vars /\ JobController =>
        \A u \in Thread : /\ pc'[u] = "scan" => cap'[u].launch # Nil
                          /\ pc'[u] \in {"adopt", "stat", "write"} => Owned(cap[u].new)'
<1> DEFINE Good(u) == /\ pc'[u] = "scan" => cap'[u].launch # Nil
                      /\ pc'[u] \in {"adopt", "stat", "write"} => Owned(cap[u].new)'
           Busy == {"scan", "adopt", "stat", "write"}
           Kept(u) == pc'[u] \in Busy => pc[u] = pc'[u] /\ cap'[u] = cap[u]
<1> SUFFICES ASSUME TypeOK, OwnedInv, [Next]_vars, JobController, NEW u \in Thread PROVE Good(u)
  OBVIOUS
<1>0. \A q : Owned(q) => Owned(q)'
  BY OwnedStays
<1>a. /\ pc[u] = "scan" => cap[u].launch # Nil
      /\ pc[u] \in {"adopt", "stat", "write"} => Owned(cap[u].new)
  <2>1. \A t \in Thread : pc[t] = "scan" => cap[t].launch # Nil
    BY DEF OwnedInv
  <2>2. \A t \in Thread : pc[t] \in {"adopt", "stat", "write"} => Owned(cap[t].new)
    BY DEF OwnedInv
  <2>3. pc[u] \in {"adopt", "stat", "write"} => Owned(cap[u].new)
    BY <2>2 DEF Owned
  <2> QED BY <2>1, <2>3
<1>b. Kept(u) => Good(u)
  BY <1>0, <1>a DEF Owned
<1>c. \A t : Return(t) \notin Busy /\ NotTaken(t) \notin Busy
  BY DEF Return, NotTaken
<1>d. pc \in [Thread -> ThreadState] /\ cap \in [Thread -> Captured]
  BY DEF TypeOK, PcType
<1> USE <1>d DEF Goto, Leave, Capture, thrVars
<1>1. CASE UNCHANGED <<pc, cap>>
  BY <1>1, <1>b
<1>2. CASE StartupOk
  BY <1>2, <1>b DEF StartupOk
<1>3. ASSUME NEW t \in Thread, HandlerStep(t) \/ TakeoverTimeout(t) PROVE Good(u)
  <2>0. CASE t # u
    <3>1. Kept(u)
      BY <1>3, <2>0, <1>c, ThreadType DEF HandlerStep, TakeoverLook, ScanNone, ScanFound, ScanRefused, Adopt,
         RecordStat, RecordWrite, HandleProcessExit, TakeoverTimeout
    <3> QED BY <3>1, <1>b
  <2>1. CASE t = u /\ TakeoverLook(t)
    BY <2>1, <1>c DEF TakeoverLook
  <2>2. CASE t = u /\ ScanFound(t)
    <3>1. PICK q \in Pid : Newest(q, Candidates(cap[u])) /\ Capture(u, cap[u].pid, cap[u].launch, q)
      BY <2>2 DEF ScanFound
    <3>2. proc[q] = "alive" /\ job[q] = cap[u].launch /\ cap[u].launch # Nil
      BY <2>2, <3>1, <1>a DEF ScanFound, Newest, Candidates, Alive
    <3>3. Owned(q)
      BY <3>2 DEF Owned
    <3>4. pc'[u] = "adopt" /\ cap'[u].new = q
      BY <2>2, <3>1 DEF ScanFound
    <3> QED BY <3>3, <3>4, <1>0 DEF Owned
  <2>3. CASE t = u /\ (Adopt(t) \/ RecordStat(t))
    <3>1. cap'[u] = cap[u] \/ pc'[u] \notin Busy
      BY <2>3, <1>c DEF Adopt, RecordStat
    <3>2. pc'[u] \in Busy => pc'[u] \in {"stat", "write"} /\ pc[u] \in {"adopt", "stat"}
      BY <2>3, <1>c, ThreadType DEF Adopt, RecordStat
    <3> QED BY <3>1, <3>2, <1>0, <1>a DEF Owned
  <2>4. CASE t = u /\ (\/ ScanNone(t) \/ ScanRefused(t) \/ RecordWrite(t) \/ HandleProcessExit(t)
                      \/ TakeoverTimeout(t))
    <3>1. Kept(u)
      BY <2>4, <1>c DEF ScanNone, ScanRefused, RecordWrite, HandleProcessExit, TakeoverTimeout
    <3> QED BY <3>1, <1>b
  <2> QED BY <1>3, <2>0, <2>1, <2>2, <2>3, <2>4 DEF HandlerStep
<1>4. ASSUME NEW p \in Pid, MonStep(p) \/ NtfStep(p) PROVE Good(u)
  <2>1. CASE NtfTake(p) /\ u = Ntf(p)
    BY <2>1, PidNotNil DEF NtfTake
  <2>2. CASE ~(NtfTake(p) /\ u = Ntf(p))
    <3>1. Kept(u)
      BY <1>4, <2>2, <1>c, ThreadType DEF MonStep, MonWake, MonCheck, FinishExpectedProcessExit, NtfStep, NtfTake,
         NtfSame, NtfStop
    <3> QED BY <3>1, <1>b
  <2> QED BY <2>1, <2>2
<1>5. CASE PollStep
  <2>1. Kept(u)
    BY <1>5, <1>c, ThreadType DEF PollStep, PollTick, PollVerdict, PollStop
  <2> QED BY <2>1, <1>b
<1>6. CASE ServiceDies
  BY <1>6 DEF ServiceDies, NoThreads
<1>7. CASE ReconcileRuntimeState
  <2>1. Kept(u)
    BY <1>7, ThreadType DEF ReconcileRuntimeState, AdoptRecord, CleanRecord, ForgetRecord
  <2> QED BY <2>1, <1>b
<1>8. CoreStep \/ ApiStep \/ RestoreDesiredState => UNCHANGED <<pc, cap>>
  BY DEF CoreStep, CoreDies, CoreRespawns, ApiStep, ApiStart, ApiStop, ApiRestart, StopIdle, StopBegin,
     RestoreDesiredState
<1>9. LockedStep => StartupOk \/ UNCHANGED <<pc, cap>>
  BY DEF LockedStep, StopProcess, StopCleanup, LaunchFail, StartupFail, Persist, Launch
<1>10. \A r \in Restarter : RetryStart(r) => UNCHANGED <<pc, cap>>
  BY DEF RetryStart
<1>11. UNCHANGED vars => UNCHANGED <<pc, cap>>
  BY DEF vars
<1> QED BY <1>1, <1>2, <1>3, <1>4, <1>5, <1>6, <1>7, <1>8, <1>9, <1>10, <1>11 DEF Next, BootStep

\* The record names processes of a job only, and so no core it names survives a service.
LEMMA OwnedStep == TypeOK /\ OwnedInv /\ [Next]_vars => OwnedInv'
<1> SUFFICES ASSUME TypeOK, OwnedInv, [Next]_vars, JobController
             PROVE  /\ Owned(record)' /\ survivors' = {}
                    /\ lock'.phase = "startup" => Owned(pid)'
  BY OwnedThreads DEF OwnedInv, Owned
<1> DEFINE Safe == Owned(record)' /\ survivors' = {} /\ (lock'.phase = "startup" => Owned(pid)')
<1>0. \A q : Owned(q) => Owned(q)'
  BY OwnedStays
<1>a. Owned(record) /\ survivors = {} /\ (lock.phase = "startup" => Owned(pid)) /\ Owned(Nil)
  BY PidNotNil DEF OwnedInv, Owned
<1>b. (record' = record \/ record' = Nil) /\ survivors' = survivors
         /\ (lock'.phase = "startup" => lock.phase = "startup" /\ pid' = pid) => Safe
  BY <1>0, <1>a DEF Owned
<1> USE DEF mgrVars, diskVars, svcVars, Free, InPhase, BeginStart
<1>1. CASE CoreStep \/ PollStep \/ UNCHANGED vars
  BY <1>1, <1>b DEF CoreStep, CoreDies, CoreRespawns, PollStep, PollTick, PollVerdict, PollStop, vars
<1>2. CASE ApiStep
  BY <1>2, <1>b DEF ApiStep, ApiStart, ApiStop, ApiRestart, Request, StopIdle, StopBegin
<1>3. CASE RestoreDesiredState \/ (\E r \in Restarter : RetryStart(r))
  BY <1>3, <1>b DEF RestoreDesiredState, RetryStart
<1>4. CASE StopProcess \/ StopCleanup \/ LaunchFail \/ StartupFail \/ Persist
  BY <1>4, <1>b DEF StopProcess, StopCleanup, LaunchFail, StartupFail, Persist, Teardown, Cleanup, TypeOK, LockType
<1>5. ASSUME NEW p \in Pid, Launch(p) PROVE Safe
  <2>1. record' = record /\ survivors' = survivors /\ pid' = p /\ proc'[p] = "alive" /\ job'[p] = p
    BY <1>5 DEF Launch, TypeOK, ProcType
  <2>2. Owned(pid)'
    BY <2>1, PidNotNil DEF Owned
  <2> QED BY <2>1, <2>2, <1>0, <1>a DEF Owned
<1>6. CASE StartupOk
  <2>1. /\ survivors' = survivors /\ lock'.phase = "persist" /\ Owned(pid) /\ (record' = pid \/ record' = record)
    BY <1>6, <1>a DEF StartupOk
  <2> QED BY <2>1, <1>0, <1>a DEF Owned
<1>7. ASSUME NEW t \in Thread, HandlerStep(t) \/ TakeoverTimeout(t) PROVE Safe
  <2>1. CASE RecordWrite(t)
    <3>1. Owned(cap[t].new) /\ record' = cap[t].new /\ UNCHANGED <<survivors, lock, pid>>
      BY <2>1 DEF RecordWrite, OwnedInv
    <3> QED BY <3>1, <1>0, <1>a DEF Owned
  <2>2. CASE Adopt(t)
    <3>1. Unlocked /\ UNCHANGED <<survivors, lock, record>>
      BY <2>2 DEF Adopt
    <3> QED BY <3>1, <1>b DEF Unlocked
  <2>3. CASE HandleProcessExit(t)
    <3>1. Unlocked /\ UNCHANGED <<survivors, lock>> /\ (record' = record \/ record' = Nil)
      BY <2>3 DEF HandleProcessExit, Teardown, Cleanup
    <3> QED BY <3>1, <1>b DEF Unlocked
  <2>4. CASE \/ TakeoverLook(t) \/ ScanNone(t) \/ ScanFound(t) \/ ScanRefused(t) \/ RecordStat(t)
             \/ TakeoverTimeout(t)
    BY <2>4, <1>b DEF TakeoverLook, ScanNone, ScanFound, ScanRefused, RecordStat, TakeoverTimeout
  <2> QED BY <1>7, <2>1, <2>2, <2>3, <2>4 DEF HandlerStep
<1>8. ASSUME NEW p \in Pid, MonStep(p) \/ NtfStep(p) PROVE Safe
  <2>1. CASE FinishExpectedProcessExit(p)
    <3>1. Unlocked /\ UNCHANGED <<survivors, lock>> /\ (record' = record \/ record' = Nil)
      BY <2>1 DEF FinishExpectedProcessExit, Teardown, Cleanup
    <3> QED BY <3>1, <1>b DEF Unlocked
  <2>2. CASE MonWake(p) \/ MonCheck(p) \/ NtfStep(p)
    BY <2>2, <1>b DEF MonWake, MonCheck, NtfStep, NtfTake, NtfSame, NtfStop
  <2> QED BY <1>8, <2>1, <2>2 DEF MonStep
<1>9. CASE ServiceDies
  <2>1. record' = record /\ lock'.phase = "free"
    BY <1>9 DEF ServiceDies
  <2>2. \A p \in Pid : p = record => proc'[p] # "alive"
    BY <1>9, <1>a, CoreManagerAssumption DEF ServiceDies, Left, Fresh, Owned, TypeOK, ProcType
  <2>3. survivors' = {}
    BY <1>9, <2>2, <1>a DEF ServiceDies
  <2> QED BY <2>1, <2>3, <1>0, <1>a DEF Owned
<1>10. CASE ReconcileRuntimeState
  <2>1. UNCHANGED <<survivors, lock>> /\ (record' = record \/ record' = Nil)
    BY <1>10 DEF ReconcileRuntimeState, AdoptRecord, CleanRecord, ForgetRecord
  <2>2. lock.phase = "startup" => Owned(pid')
    BY <1>10, <2>1, <1>a DEF ReconcileRuntimeState, AdoptRecord, CleanRecord, ForgetRecord
  <2> QED BY <2>1, <2>2, <1>0, <1>a DEF Owned
<1> QED BY <1>1, <1>2, <1>3, <1>4, <1>5, <1>6, <1>7, <1>8, <1>9, <1>10 DEF Next, LockedStep, BootStep

----------------------------------------------------------------------------
\* A service that is down has no goroutines.
DownInv == service = "down" => pc = NoThreads

\* Nothing but the boot touches the record or the goroutines of a service that is down.
LEMMA DownQuiet ==
    TypeOK /\ PhaseInv /\ DownInv /\ [Next]_vars /\ service = "down" =>
        ReconcileRuntimeState \/ UNCHANGED <<pc, cap, record, service, survivors, unidentified, pid, cmd>>
<1> SUFFICES ASSUME TypeOK, PhaseInv, DownInv, [Next]_vars, service = "down", ~ReconcileRuntimeState
             PROVE  UNCHANGED <<pc, cap, record, service, survivors, unidentified, pid, cmd>>
  OBVIOUS
<1>0. /\ \A t \in Thread : pc[t] \in {"none", "off"}
      /\ Unlocked /\ \A r \in Restarter : ~(retry[r] > 0)
  BY DEF DownInv, NoThreads, PhaseInv
<1>1. CASE CoreStep \/ UNCHANGED vars
  BY <1>1 DEF CoreStep, CoreDies, CoreRespawns, vars, mgrVars, thrVars, diskVars, svcVars
<1>2. ~ApiStep /\ ~LockedStep /\ ~ServiceDies /\ ~RestoreDesiredState /\ ~\E r \in Restarter : RetryStart(r)
  BY <1>0 DEF ApiStep, ApiStart, ApiStop, ApiRestart, Request, LockedStep, StopProcess, StopCleanup, LaunchFail,
     StartupFail, StartupOk, Persist, Launch, ServiceDies, RestoreDesiredState, RetryStart, Unlocked
<1>3. \A t \in Thread : ~HandlerStep(t) /\ ~TakeoverTimeout(t)
  BY <1>0 DEF HandlerStep, TakeoverLook, TakeoverTimeout, ScanNone, ScanFound, ScanRefused, Adopt, RecordStat,
     RecordWrite, HandleProcessExit
<1>4. \A p \in Pid : ~MonStep(p) /\ ~NtfStep(p)
  BY <1>0, ThreadType DEF MonStep, MonWake, MonCheck, FinishExpectedProcessExit, NtfStep, NtfTake, NtfSame, NtfStop
<1>5. ~PollStep
  BY <1>0, ThreadType DEF PollStep, PollTick, PollVerdict, PollStop
<1> QED BY <1>1, <1>2, <1>3, <1>4, <1>5 DEF Next, BootStep

\* A service is down because it died in this step or before.
LEMMA OnlyDeath == [Next]_vars /\ service' = "down" => ServiceDies \/ service = "down"
BY DEF Next, vars, svcVars, CoreStep, CoreDies, CoreRespawns, ApiStep, ApiStart, ApiStop, ApiRestart, Request,
     LockedStep, StopProcess, StopCleanup, LaunchFail, StartupFail, StartupOk, Persist, Launch, HandlerStep,
     TakeoverLook, ScanNone, ScanFound, ScanRefused, Adopt, RecordStat, RecordWrite, HandleProcessExit,
     TakeoverTimeout, MonStep, MonWake, MonCheck, FinishExpectedProcessExit, NtfStep, NtfTake, NtfSame, NtfStop,
     PollStep, PollTick, PollVerdict, PollStop, RetryStart, BootStep, ReconcileRuntimeState, RestoreDesiredState

\* The goroutines of a service die with it.
LEMMA DownStep == TypeOK /\ PhaseInv /\ DownInv /\ [Next]_vars => DownInv'
<1> SUFFICES ASSUME TypeOK, PhaseInv, DownInv, [Next]_vars, service' = "down" PROVE pc' = NoThreads
  BY DEF DownInv
<1>1. CASE ServiceDies
  BY <1>1 DEF ServiceDies
<1>2. CASE service = "down"
  BY <1>2, DownQuiet DEF DownInv, ReconcileRuntimeState
<1>3. ~ServiceDies => service = "down"
  BY OnlyDeath
<1> QED BY <1>1, <1>2, <1>3

----------------------------------------------------------------------------
\* The no-op controller of Unix reports no processes: no goroutine ever takes a
\* successor over.
NoTakeover == ~JobController => \A t \in Thread : pc[t] \notin {"adopt", "stat", "write"}

\* Watched, and also while a start is at its last step.
WatchInv ==
    ~JobController /\ lock.phase \in {"free", "persist"} /\ isRunning =>
        IF cmd # Nil THEN pc[Mon(cmd)] \notin {"none", "done"}
        ELSE pc[Poller] # "off" /\ ~pollClosed

\* The goroutines are different ones.
LEMMA ThreadNames ==
    /\ \A p \in Pid : Mon(p) # Poller /\ Ntf(p) # Poller
    /\ \A p, q \in Pid : Mon(p) # Ntf(q) /\ (Mon(p) = Mon(q) => p = q)
BY DEF Mon, Ntf, Poller

\* Without a job controller a scan finds nothing.
LEMMA NoTakeoverStep == TypeOK /\ NoTakeover /\ [Next]_vars => NoTakeover'
<1> SUFFICES ASSUME TypeOK, NoTakeover, [Next]_vars, ~JobController, NEW u \in Thread
             PROVE  pc'[u] \notin {"adopt", "stat", "write"}
  BY DEF NoTakeover
<1>0. /\ pc[u] \notin {"adopt", "stat", "write"} /\ pc \in [Thread -> ThreadState]
      /\ \A t : /\ Return(t) \notin {"adopt", "stat", "write"}
                /\ NotTaken(t) \notin {"adopt", "stat", "write"}
      /\ \A c : Candidates(c) = {}
  BY DEF NoTakeover, Return, NotTaken, TypeOK, PcType, Candidates
<1> USE <1>0 DEF Goto, Leave, thrVars
<1>1. CASE UNCHANGED pc
  BY <1>1
<1>2. CASE StartupOk
  BY <1>2 DEF StartupOk
<1>3. ASSUME NEW t \in Thread, HandlerStep(t) \/ TakeoverTimeout(t)
      PROVE  pc'[u] \notin {"adopt", "stat", "write"}
  <2>1. ~Adopt(t) /\ ~RecordStat(t) /\ ~RecordWrite(t) /\ ~ScanFound(t) /\ ~ScanRefused(t)
    BY DEF NoTakeover, Adopt, RecordStat, RecordWrite, ScanFound, ScanRefused, Newest
  <2> QED BY <1>3, <2>1 DEF HandlerStep, TakeoverLook, ScanNone, HandleProcessExit, TakeoverTimeout
<1>4. ASSUME NEW p \in Pid, MonStep(p) \/ NtfStep(p)
      PROVE  pc'[u] \notin {"adopt", "stat", "write"}
  BY <1>4 DEF MonStep, MonWake, MonCheck, FinishExpectedProcessExit, NtfStep, NtfTake, NtfSame, NtfStop
<1>5. CASE PollStep
  BY <1>5 DEF PollStep, PollTick, PollVerdict, PollStop
<1>6. CASE ServiceDies
  BY <1>6 DEF ServiceDies, NoThreads
<1>7. CASE ReconcileRuntimeState
  BY <1>7 DEF ReconcileRuntimeState, AdoptRecord, CleanRecord, ForgetRecord
<1>8. CoreStep \/ ApiStep \/ RestoreDesiredState => UNCHANGED pc
  BY DEF CoreStep, CoreDies, CoreRespawns, ApiStep, ApiStart, ApiStop, ApiRestart, StopIdle, StopBegin,
     RestoreDesiredState
<1>9. LockedStep => StartupOk \/ UNCHANGED pc
  BY DEF LockedStep, StopProcess, StopCleanup, LaunchFail, StartupFail, Persist, Launch
<1>10. \A r \in Restarter : RetryStart(r) => UNCHANGED pc
  BY DEF RetryStart
<1>11. UNCHANGED vars => UNCHANGED pc
  BY DEF vars
<1> QED BY <1>1, <1>2, <1>3, <1>4, <1>5, <1>6, <1>7, <1>8, <1>9, <1>10, <1>11 DEF Next, BootStep

\* What a request, a restart goroutine or boot does when it has the mutex: nothing to the
\* core, or it goes on to a launch of an idle manager, or to a stop.
Entered ==
    /\ Unlocked /\ service # "down" /\ service' # "down"
    /\ UNCHANGED <<proc, pid, cmd, launch, pc, record>>
    /\ \/ UNCHANGED <<lock, isRunning, monitoring, pollClosed>> /\ (isRunning => desired' = desired)
       \/ lock'.phase = "launch" /\ ~isRunning
       \/ lock'.phase = "kill"

LEMMA EnterStep ==
    TypeOK /\ PhaseInv /\ (ApiStep \/ RestoreDesiredState \/ \E r \in Restarter : RetryStart(r)) => Entered
<1> SUFFICES ASSUME TypeOK, PhaseInv, ApiStep \/ RestoreDesiredState \/ \E r \in Restarter : RetryStart(r)
             PROVE  Entered
  OBVIOUS
<1> USE DEF procVars, thrVars, diskVars, svcVars
<1>0. ASSUME NEW b, BeginStart(b) PROVE lock'.phase = "launch"
  BY <1>0 DEF BeginStart
<1>1. CASE ApiStart
  <2>1. Unlocked /\ service # "down" /\ service' # "down"
    BY <1>1 DEF ApiStart, Request
  <2>2. CASE isRunning
    BY <1>1, <2>1, <2>2 DEF ApiStart, Entered
  <2>3. CASE ~isRunning
    BY <1>0, <1>1, <2>1, <2>3 DEF ApiStart, Entered
  <2> QED BY <2>2, <2>3
<1>2. ASSUME NEW next \in {"return", "start"}, NEW r, Request(r), StopIdle(next) \/ StopBegin(next)
      PROVE  Entered
  <2>1. Unlocked /\ service # "down" /\ service' # "down"
    BY <1>2 DEF Request
  <2>2. CASE StopIdle(next) /\ next = "return"
    <3>1. ~isRunning /\ UNCHANGED <<proc, pid, cmd, launch, pc, record, lock, isRunning, monitoring, pollClosed>>
      BY <2>2 DEF StopIdle, Idle
    <3> QED BY <2>1, <3>1 DEF Entered
  <2>3. CASE StopIdle(next) /\ next = "start"
    <3>1. ~isRunning /\ UNCHANGED <<proc, pid, cmd, launch, pc, record>> /\ BeginStart(0)
      BY <2>3 DEF StopIdle, Idle
    <3> QED BY <1>0, <2>1, <3>1 DEF Entered
  <2>4. CASE StopBegin(next)
    <3>1. lock'.phase = "kill" /\ UNCHANGED <<proc, pid, cmd, launch, pc, record>>
      BY <2>4 DEF StopBegin
    <3> QED BY <2>1, <3>1 DEF Entered
  <2> QED BY <1>2, <2>2, <2>3, <2>4
<1>3. CASE ApiStop \/ ApiRestart
  BY <1>2, <1>3 DEF ApiStop, ApiRestart
<1>4. ASSUME NEW r \in Restarter, RetryStart(r) PROVE Entered
  <2>1. Unlocked /\ service # "down" /\ service' # "down"
    BY <1>4 DEF RetryStart, PhaseInv
  <2>2. CASE isRunning
    BY <1>4, <2>1, <2>2 DEF RetryStart, Entered
  <2>3. CASE ~isRunning
    BY <1>0, <1>4, <2>1, <2>3 DEF RetryStart, Entered
  <2> QED BY <2>2, <2>3
<1>5. CASE RestoreDesiredState
  <2>1. Unlocked /\ service # "down" /\ service' # "down"
    BY <1>5 DEF RestoreDesiredState
  <2>2. CASE desired /\ ~isRunning
    BY <1>0, <1>5, <2>1, <2>2 DEF RestoreDesiredState, Entered
  <2>3. CASE ~(desired /\ ~isRunning)
    BY <1>5, <2>1, <2>3 DEF RestoreDesiredState, Entered
  <2> QED BY <2>2, <2>3
<1> QED BY <1>1, <1>3, <1>4, <1>5 DEF ApiStep

\* What every step under the mutex but StartupOk and Persist leaves behind.
Advanced ==
    /\ ~Unlocked /\ service' = service /\ UNCHANGED pc
    /\ \/ lock.phase = "kill" /\ lock'.phase = "cleanup" /\ UNCHANGED <<pid, record>>
       \/ lock.phase = "cleanup" /\ lock'.phase = "launch" /\ pid' = Nil /\ record' = Nil
       \/ lock.phase = "cleanup" /\ lock'.phase = "free" /\ ~isRunning' /\ pid' = Nil /\ record' = Nil
       \/ lock.phase = "launch" /\ lock'.phase = "free" /\ ~isRunning' /\ UNCHANGED <<pid, record, proc>>
       \/ lock.phase = "launch" /\ lock'.phase = "startup" /\ UNCHANGED record
       \/ lock.phase = "startup" /\ lock'.phase = "free" /\ ~isRunning' /\ pid' = Nil /\ record' = Nil

LEMMA AdvanceStep ==
    TypeOK /\ PhaseInv /\ (StopProcess \/ StopCleanup \/ LaunchFail \/ StartupFail \/ \E p \in Pid : Launch(p))
        => Advanced
<1> SUFFICES ASSUME TypeOK, StopProcess \/ StopCleanup \/ LaunchFail \/ StartupFail \/ \E p \in Pid : Launch(p)
             PROVE  Advanced
  OBVIOUS
<1> USE DEF procVars, mgrVars, thrVars, diskVars, svcVars, Unlocked
<1>1. CASE StopProcess
  <2>1. lock.phase = "kill" /\ lock'.phase = "cleanup" /\ UNCHANGED <<pid, record, pc, service>>
    BY <1>1 DEF StopProcess, InPhase
  <2> QED BY <2>1 DEF Advanced
<1>2. CASE StopCleanup
  <2>1. lock.phase = "cleanup" /\ pid' = Nil /\ record' = Nil /\ UNCHANGED <<pc, service>>
    BY <1>2 DEF StopCleanup
  <2>2. CASE lock.then = "start"
    <3>1. lock'.phase = "launch"
      BY <1>2, <2>2 DEF StopCleanup, BeginStart
    <3> QED BY <2>1, <3>1 DEF Advanced
  <2>3. CASE lock.then # "start"
    <3>1. lock'.phase = "free" /\ ~isRunning'
      BY <1>2, <2>3 DEF StopCleanup, Free
    <3> QED BY <2>1, <3>1 DEF Advanced
  <2> QED BY <2>2, <2>3
<1>3. CASE LaunchFail
  <2>1. lock.phase = "launch" /\ lock'.phase = "free" /\ ~isRunning' /\ UNCHANGED <<pid, record, proc, pc, service>>
    BY <1>3 DEF LaunchFail, Free
  <2> QED BY <2>1 DEF Advanced
<1>4. CASE StartupFail
  <2>1. /\ lock.phase = "startup" /\ lock'.phase = "free" /\ ~isRunning' /\ pid' = Nil /\ record' = Nil
        /\ UNCHANGED <<pc, service>>
    BY <1>4 DEF StartupFail, Free, Teardown, Cleanup
  <2> QED BY <2>1 DEF Advanced
<1>5. ASSUME NEW p \in Pid, Launch(p) PROVE Advanced
  <2>1. lock.phase = "launch" /\ lock'.phase = "startup" /\ UNCHANGED <<record, pc, service>>
    BY <1>5 DEF Launch, InPhase
  <2> QED BY <2>1 DEF Advanced
<1> QED BY <1>1, <1>2, <1>3, <1>4, <1>5

\* A goroutine that stops watching has ended the launch it watched.
LEMMA WatchStep == TypeOK /\ PhaseInv /\ NoTakeover /\ WatchInv /\ [Next]_vars => WatchInv'
<1> SUFFICES ASSUME TypeOK, PhaseInv, NoTakeover, WatchInv, [Next]_vars, ~JobController,
                    lock'.phase \in {"free", "persist"}, isRunning'
             PROVE  IF cmd' # Nil THEN pc'[Mon(cmd')] \notin {"none", "done"}
                    ELSE pc'[Poller] # "off" /\ ~pollClosed'
  BY DEF WatchInv
<1> DEFINE Goal == IF cmd' # Nil THEN pc'[Mon(cmd')] \notin {"none", "done"}
                   ELSE pc'[Poller] # "off" /\ ~pollClosed'
<1>0. /\ pc \in [Thread -> ThreadState] /\ cmd \in Pid \cup {Nil} /\ pid \in Pid \cup {Nil}
      /\ Poller \in Thread /\ \A p \in Pid : Mon(p) \in Thread /\ Ntf(p) \in Thread
      /\ \A p \in Pid : Mon(p) # Poller /\ Ntf(p) # Poller
      /\ \A p, q \in Pid : Mon(p) # Ntf(q) /\ (Mon(p) = Mon(q) => p = q)
      /\ monitoring \in BOOLEAN /\ isRunning \in BOOLEAN /\ Nil \notin Pid
  BY ThreadType, ThreadNames, PidNotNil DEF TypeOK, PcType, CoreType, FlagType, PidOrNil, Pid, Nil
<1>00. lock.phase \in {"free", "persist"} /\ isRunning =>
         /\ monitoring
         /\ IF cmd # Nil THEN pc[Mon(cmd)] \notin {"none", "done"} ELSE pc[Poller] # "off" /\ ~pollClosed
  BY DEF WatchInv, PhaseInv, Coherent, Unlocked
<1> USE <1>0 DEF Free, InPhase, Unlocked, Goto, Leave, thrVars, mgrVars
<1>1. CASE UNCHANGED <<pc, pollClosed, cmd, isRunning, lock>>
  BY <1>00, <1>1
<1>2. CASE ApiStep \/ RestoreDesiredState \/ \E r \in Restarter : RetryStart(r)
  <2>1. Entered
    BY <1>2, EnterStep
  <2>2. UNCHANGED <<pc, pollClosed, cmd, isRunning, lock>>
    BY <2>1 DEF Entered
  <2> QED BY <1>00, <2>2
<1>3. CASE StopProcess \/ StopCleanup \/ LaunchFail \/ StartupFail \/ (\E p \in Pid : Launch(p))
  <2>1. Advanced
    BY <1>3, AdvanceStep
  <2> QED BY <2>1 DEF Advanced
<1>4. CASE StartupOk
  <2>1. pid # Nil /\ cmd = pid /\ pid \in Pid
    BY <1>4 DEF StartupOk, PhaseInv
  <2> QED BY <1>4, <2>1 DEF StartupOk
<1>5. CASE Persist
  BY <1>00, <1>5 DEF Persist
<1>6. ASSUME NEW t \in Thread, HandlerStep(t) \/ TakeoverTimeout(t) PROVE Goal
  <2>0. ~Adopt(t) /\ ~RecordStat(t) /\ ~RecordWrite(t)
    BY DEF NoTakeover, Adopt, RecordStat, RecordWrite
  <2>1. CASE HandleProcessExit(t)
    <3>1. Idle
      BY <2>1 DEF HandleProcessExit, Teardown, Cleanup
    <3> QED BY <2>1, <3>1 DEF HandleProcessExit, Idle
  <2>2. CASE TakeoverLook(t) \/ ScanNone(t) \/ ScanFound(t) \/ ScanRefused(t) \/ TakeoverTimeout(t)
    <3>1. \E x \in {"scan", "again", "adopt", "handle", "finish"} : pc' = [pc EXCEPT ![t] = x]
      BY <2>2 DEF TakeoverLook, ScanNone, ScanFound, ScanRefused, TakeoverTimeout, NotTaken
    <3>2. UNCHANGED <<pollClosed, cmd, isRunning, lock>>
      BY <2>2 DEF TakeoverLook, ScanNone, ScanFound, ScanRefused, TakeoverTimeout
    <3> QED BY <1>00, <3>1, <3>2
  <2> QED BY <1>6, <2>0, <2>1, <2>2 DEF HandlerStep
<1>7. ASSUME NEW p \in Pid, MonStep(p) PROVE Goal
  <2>1. CASE MonWake(p)
    BY <1>00, <2>1 DEF MonWake
  <2>2. CASE MonCheck(p)
    BY <1>00, <2>2 DEF MonCheck
  <2>3. CASE FinishExpectedProcessExit(p)
    <3>1. cmd # p /\ UNCHANGED <<pollClosed, cmd, isRunning, lock>>
      BY <2>3 DEF FinishExpectedProcessExit, Teardown, Cleanup
    <3> QED BY <1>00, <2>3, <3>1 DEF FinishExpectedProcessExit
  <2> QED BY <1>7, <2>1, <2>2, <2>3 DEF MonStep
<1>8. ASSUME NEW p \in Pid, NtfStep(p) PROVE Goal
  <2>1. UNCHANGED <<pollClosed, cmd, isRunning, lock>>
        /\ \A t \in Thread : t # Ntf(p) => pc'[t] = pc[t]
    BY <1>8 DEF NtfStep, NtfTake, NtfSame, NtfStop
  <2> QED BY <1>00, <2>1
<1>9. CASE PollStep
  <2>1. UNCHANGED <<cmd, isRunning, lock>> /\ \A t \in Thread : t # Poller => pc'[t] = pc[t]
    BY <1>9 DEF PollStep, PollTick, PollVerdict, PollStop
  <2>2. CASE cmd # Nil
    BY <1>00, <2>1, <2>2
  <2>3. CASE cmd = Nil
    <3>1. monitoring /\ pc[Poller] # "off" /\ ~pollClosed
      BY <1>00, <2>1, <2>3
    <3>2. Return(Poller) = "idle"
      BY DEF Return
    <3>3. ~PollStop
      BY <3>1 DEF PollStop
    <3>4. CASE PollTick
      BY <2>1, <2>3, <3>1, <3>4 DEF PollTick
    <3>5. CASE PollVerdict
      <4>1. pc'[Poller] \in {"look", "idle"} /\ pollClosed' = pollClosed
        BY <3>2, <3>5 DEF PollVerdict
      <4> QED BY <2>1, <2>3, <3>1, <4>1
    <3> QED BY <1>9, <3>3, <3>4, <3>5 DEF PollStep
  <2> QED BY <2>2, <2>3
<1>11. CASE ServiceDies
  BY <1>11 DEF ServiceDies
<1>12. CASE ReconcileRuntimeState
  <2>1. ~isRunning
    BY <1>12 DEF ReconcileRuntimeState, PhaseInv, Idle
  <2> QED BY <1>12, <2>1 DEF ReconcileRuntimeState, AdoptRecord, CleanRecord, ForgetRecord
<1>14. CoreStep \/ UNCHANGED vars => UNCHANGED <<pc, pollClosed, cmd, isRunning, lock>>
  BY DEF CoreStep, CoreDies, CoreRespawns, vars
<1> QED BY <1>1, <1>2, <1>3, <1>4, <1>5, <1>6, <1>7, <1>8, <1>9, <1>11, <1>12, <1>14
     DEF Next, LockedStep, BootStep

\* A crash handler or an expected exit ends the launch the manager holds.
Ended ==
    /\ Unlocked /\ service' = service /\ lock' = lock
    /\ ~isRunning' /\ pid' = Nil /\ record' = Nil

\* Without a job object every other goroutine leaves alone what the manager holds and
\* what is on disk; with one a takeover may change the pid and the record.
Quiet ==
    /\ UNCHANGED <<isRunning, lock, desired, service>>
    /\ JobController \/ UNCHANGED <<pid, record>>

LEMMA StepKinds ==
    TypeOK /\ PhaseInv /\ NoTakeover /\ [Next]_vars =>
        \/ Entered \/ Advanced \/ Ended \/ Quiet
        \/ StartupOk \/ Persist \/ ServiceDies \/ ReconcileRuntimeState
<1> SUFFICES ASSUME TypeOK, PhaseInv, NoTakeover, [Next]_vars,
                    ~StartupOk, ~Persist, ~ServiceDies, ~ReconcileRuntimeState
             PROVE  Entered \/ Advanced \/ Ended \/ Quiet
  OBVIOUS
<1> USE DEF mgrVars, diskVars, svcVars
<1>1. CASE CoreStep \/ PollStep \/ UNCHANGED vars
  <2>1. UNCHANGED <<isRunning, lock, desired, service, pid, record>>
    BY <1>1 DEF CoreStep, CoreDies, CoreRespawns, PollStep, PollTick, PollVerdict, PollStop, vars
  <2> QED BY <2>1 DEF Quiet
<1>2. CASE ApiStep \/ RestoreDesiredState \/ \E r \in Restarter : RetryStart(r)
  BY <1>2, EnterStep
<1>3. CASE LockedStep
  BY <1>3, AdvanceStep DEF LockedStep
<1>4. ASSUME NEW t \in Thread, HandlerStep(t) \/ TakeoverTimeout(t) PROVE Ended \/ Quiet
  <2>1. CASE HandleProcessExit(t)
    <3>1. CASE Idle
      <4>1. UNCHANGED <<isRunning, lock, desired, service, pid, record>>
        BY <2>1, <3>1 DEF HandleProcessExit
      <4> QED BY <4>1 DEF Quiet
    <3>2. CASE ~Idle
      <4>1. /\ Unlocked /\ service' = service /\ lock' = lock
            /\ isRunning' = FALSE /\ pid' = Nil /\ record' = Nil
        BY <2>1, <3>2 DEF HandleProcessExit, Teardown, Cleanup
      <4> QED BY <4>1 DEF Ended
    <3> QED BY <3>1, <3>2
  <2>2. CASE Adopt(t) \/ RecordStat(t) \/ RecordWrite(t)
    <3>1. UNCHANGED <<isRunning, lock, desired, service>>
      BY <2>2 DEF Adopt, RecordStat, RecordWrite
    <3>2. JobController
      BY <2>2 DEF NoTakeover, Adopt, RecordStat, RecordWrite
    <3> QED BY <3>1, <3>2 DEF Quiet
  <2>3. CASE \/ TakeoverLook(t) \/ ScanNone(t) \/ ScanFound(t) \/ ScanRefused(t) \/ TakeoverTimeout(t)
    <3>1. UNCHANGED <<isRunning, lock, desired, service, pid, record>>
      BY <2>3 DEF TakeoverLook, ScanNone, ScanFound, ScanRefused, TakeoverTimeout
    <3> QED BY <3>1 DEF Quiet
  <2> QED BY <1>4, <2>1, <2>2, <2>3 DEF HandlerStep
<1>5. ASSUME NEW p \in Pid, MonStep(p) \/ NtfStep(p) PROVE Ended \/ Quiet
  <2>1. CASE FinishExpectedProcessExit(p) /\ cmd = p
    <3>1. /\ Unlocked /\ service' = service /\ lock' = lock
          /\ isRunning' = FALSE /\ pid' = Nil /\ record' = Nil
      BY <2>1 DEF FinishExpectedProcessExit, Teardown, Cleanup
    <3> QED BY <3>1 DEF Ended
  <2>2. CASE FinishExpectedProcessExit(p) /\ cmd # p
    <3>1. UNCHANGED <<isRunning, lock, desired, service, pid, record>>
      BY <2>2 DEF FinishExpectedProcessExit
    <3> QED BY <3>1 DEF Quiet
  <2>3. CASE MonWake(p) \/ MonCheck(p) \/ NtfStep(p)
    <3>1. UNCHANGED <<isRunning, lock, desired, service, pid, record>>
      BY <2>3 DEF MonWake, MonCheck, NtfStep, NtfTake, NtfSame, NtfStop
    <3> QED BY <3>1 DEF Quiet
  <2> QED BY <1>5, <2>1, <2>2, <2>3 DEF MonStep
<1> QED BY <1>1, <1>2, <1>3, <1>4, <1>5 DEF Next, BootStep

\* A live process is as old as the step before it, or it was launched, or an old one
\* spawned it, or a service died before it attached it.
LEMMA NoNewCore ==
    TypeOK /\ [Next]_vars =>
        \A p \in Pid : proc'[p] = "alive" =>
            \/ proc[p] = "alive" \/ Launch(p)
            \/ JobController /\ proc[p] = "none"
<1> SUFFICES ASSUME TypeOK, [Next]_vars, NEW p \in Pid, proc'[p] = "alive", ~Launch(p), proc[p] # "alive",
                    ~(JobController /\ proc[p] = "none")
             PROVE  FALSE
  OBVIOUS
<1> USE DEF TypeOK, ProcType
<1>0. \A pr \in [Pid -> ProcState] : \A l : CloseController(pr, l)[p] = "alive" => pr[p] = "alive"
  BY DEF CloseController
<1>1. CASE UNCHANGED proc
  BY <1>1
<1>2. CASE CoreStep
  BY <1>2 DEF CoreStep, CoreDies, CoreRespawns, Fresh, Alive, svcVars
<1>3. CASE StopProcess
  BY <1>3, StopCreatesNone DEF StopProcess
<1>4. CASE StopCleanup
  BY <1>4, <1>0 DEF StopCleanup
<1>5. CASE StartupFail
  BY <1>5, <1>0, StopCreatesNone, ProcResults DEF StartupFail, Teardown, Cleanup
<1>6. ASSUME NEW q \in Pid, Launch(q) PROVE FALSE
  BY <1>6 DEF Launch
<1>7. ASSUME NEW t \in Thread, HandleProcessExit(t) PROVE FALSE
  BY <1>7, <1>0 DEF HandleProcessExit, Teardown, Cleanup
<1>8. ASSUME NEW t \in Thread, ScanRefused(t) PROVE FALSE
  BY <1>8, StopCreatesNone DEF ScanRefused
<1>9. ASSUME NEW q \in Pid, FinishExpectedProcessExit(q) PROVE FALSE
  BY <1>9, <1>0 DEF FinishExpectedProcessExit, Teardown, Cleanup
<1>10. CASE ServiceDies
  BY <1>10 DEF ServiceDies, Left, Fresh
<1>11. CASE ReconcileRuntimeState
  BY <1>11 DEF ReconcileRuntimeState, AdoptRecord, CleanRecord, ForgetRecord, Alive, procVars
<1>12. ApiStep \/ PollStep \/ RestoreDesiredState \/ (\E r \in Restarter : RetryStart(r)) => UNCHANGED proc
  BY DEF ApiStep, ApiStart, ApiStop, ApiRestart, StopIdle, StopBegin, PollStep, PollTick, PollVerdict, PollStop,
     RestoreDesiredState, RetryStart, procVars
<1>13. LaunchFail \/ StartupOk \/ Persist \/ UNCHANGED vars => UNCHANGED proc
  BY DEF LaunchFail, StartupOk, Persist, vars, procVars
<1>14. \A t \in Thread :
         \/ TakeoverLook(t) \/ ScanNone(t) \/ ScanFound(t) \/ Adopt(t) \/ RecordStat(t) \/ RecordWrite(t)
         \/ TakeoverTimeout(t)
         => UNCHANGED proc
  BY DEF TakeoverLook, ScanNone, ScanFound, Adopt, RecordStat, RecordWrite, TakeoverTimeout, procVars
<1>15. \A q \in Pid : MonWake(q) \/ MonCheck(q) \/ NtfStep(q) => UNCHANGED proc
  BY DEF MonWake, MonCheck, NtfStep, NtfTake, NtfSame, NtfStop, procVars
<1> QED BY <1>1, <1>2, <1>3, <1>4, <1>5, <1>6, <1>7, <1>8, <1>9, <1>10, <1>11, <1>12, <1>13, <1>14, <1>15
     DEF Next, LockedStep, HandlerStep, MonStep, BootStep

----------------------------------------------------------------------------
\* RecordCovers, where no goroutine writes the record after it has left the mutex.
RecordInv == ~JobController => RecordCovers

\* If what is to be terminated dies, the only live core runtime.json can name while the
\* service lives is the one the manager holds, and the only core of an earlier service
\* that lives and was recognised is the one runtime.json names.  It has been adopted, so
\* no goroutine of a launch exists and the one that polls has not found it dead.
SurvivorInv ==
    ~StopCanFail /\ ~JobController =>
        /\ service # "down" => (Alive(record) => record = pid)
        /\ \A p \in survivors : proc[p] # "none"
        /\ \A p \in survivors \ unidentified : Alive(p) =>
              /\ p = record
              /\ service # "down" => pid = p /\ cmd = Nil /\ lock.phase \in {"free", "kill"}
              /\ \A q \in Pid : pc[Mon(q)] = "none" /\ pc[Ntf(q)] = "none"
              /\ pc[Poller] \in {"off", "idle", "read"}
              /\ pc[Poller] = "read" => cap[Poller].pid = p

\* A service that never dies, or never without its core, leaves no core to adopt.
NoAdoption == DieWithService \/ MaxServiceCrashes = 0

BootInv == NoAdoption /\ service = "down" => ~Alive(record)

\* DesiredCovers of a manager that adopts nothing.
DesiredInv == NoAdoption => DesiredCovers

\* The record follows the pid of the manager through every step.
LEMMA RecordStep == TypeOK /\ PhaseInv /\ NoTakeover /\ RecordInv /\ [Next]_vars => RecordInv'
<1> SUFFICES ASSUME TypeOK, PhaseInv, NoTakeover, RecordInv, [Next]_vars, ~JobController,
                    pid' \in Pid, proc'[pid'] = "alive", lock'.phase # "startup"
             PROVE  record' = pid'
  BY DEF RecordInv, RecordCovers, Alive
<1> USE DEF Unlocked
<1>0. pid' # Nil
  BY PidNotNil
<1>1. ~Launch(pid')
  BY DEF Launch, InPhase
<1>2. proc[pid'] = "alive"
  BY <1>1, NoNewCore
<1>3. pid' = pid /\ lock.phase # "startup" => record = pid
  BY <1>2 DEF RecordInv, RecordCovers, Alive
<1>4. CASE Entered
  BY <1>3, <1>4 DEF Entered
<1>5. CASE Advanced
  BY <1>0, <1>3, <1>5 DEF Advanced
<1>6. CASE Ended
  BY <1>0, <1>6 DEF Ended
<1>7. CASE Quiet
  BY <1>3, <1>7 DEF Quiet
<1>8. CASE StartupOk
  BY <1>2, <1>8 DEF StartupOk, Alive
<1>9. CASE Persist
  BY <1>3, <1>9 DEF Persist, mgrVars
<1>10. CASE ServiceDies
  BY <1>0, <1>10 DEF ServiceDies
<1>11. CASE ReconcileRuntimeState
  <2>1. pid = Nil
    BY <1>11 DEF ReconcileRuntimeState, PhaseInv, Idle
  <2> QED BY <1>0, <1>11, <2>1 DEF ReconcileRuntimeState, AdoptRecord, CleanRecord, ForgetRecord, mgrVars, diskVars
<1> QED BY <1>4, <1>5, <1>6, <1>7, <1>8, <1>9, <1>10, <1>11, StepKinds

\* On Unix (process_control_other.go) a core that is being served is always watched and
\* always recorded, for every number of cores, crashes, requests and service deaths,
\* whether or not a stop fails.
THEOREM TrackedAlways == ASSUME ~JobController PROVE Spec => []Tracked
<1> DEFINE IInv == PhaseInv /\ FoundInv /\ NoTakeover /\ WatchInv /\ RecordInv
<1>1. Init => IInv
  <2> SUFFICES ASSUME Init PROVE IInv
    OBVIOUS
  <2>1. PhaseInv
    BY DEF Init, PhaseInv, Coherent, Unlocked, Idle, Free
  <2>2. FoundInv /\ NoTakeover
    BY DEF Init, FoundInv, NoTakeover, NoThreads
  <2>3. WatchInv /\ RecordInv
    BY PidNotNil DEF Init, WatchInv, RecordInv, RecordCovers, Alive
  <2> QED BY <2>1, <2>2, <2>3
<1>2. TypeOK /\ IInv /\ [Next]_vars => IInv'
  BY PhaseStep, FoundStep, NoTakeoverStep, WatchStep, RecordStep
<1>3. IInv => Tracked
  BY DEF WatchInv, RecordInv, Tracked, Watched, Unlocked
<1> QED BY <1>1, <1>2, <1>3, TypeCorrect, PTL DEF Spec

\* A record outlives the core the manager holds only when that core is dead.
LEMMA RecordedStep ==
    TypeOK /\ PhaseInv /\ NoTakeover /\ SurvivorInv /\ [Next]_vars /\ ~StopCanFail /\ ~JobController =>
        (service' # "down" => (Alive(record)' => record' = pid'))
<1> SUFFICES ASSUME TypeOK, PhaseInv, NoTakeover, SurvivorInv, [Next]_vars, ~StopCanFail, ~JobController,
                    service' # "down", record' \in Pid, proc'[record'] = "alive"
             PROVE  record' = pid'
  BY DEF Alive
<1> USE DEF Unlocked
<1>0. record' # Nil
  BY PidNotNil
<1>1. CASE Launch(record')
  BY <1>1 DEF Launch
<1>2. CASE ~Launch(record')
  <2>1. proc[record'] = "alive"
    BY <1>2, NoNewCore
  <2>2. service # "down" /\ record' = record => record = pid
    BY <2>1 DEF SurvivorInv, Alive
  <2>3. CASE Entered
    BY <2>2, <2>3 DEF Entered
  <2>4. CASE Advanced
    <3>1. CASE lock'.phase = "startup"
      <4>1. lock.phase = "launch" /\ record' = record /\ service' = service
        BY <2>4, <3>1 DEF Advanced
      <4> QED BY <1>0, <2>2, <4>1 DEF PhaseInv
    <3>2. CASE lock'.phase # "startup"
      BY <1>0, <2>2, <2>4, <3>2 DEF Advanced
    <3> QED BY <3>1, <3>2
  <2>5. CASE Ended
    BY <1>0, <2>5 DEF Ended
  <2>6. CASE Quiet
    BY <2>2, <2>6 DEF Quiet
  <2>7. CASE StartupOk
    <3>1. service' = service /\ pid' = pid /\ (record' = pid \/ record' = record)
      BY <2>7 DEF StartupOk, svcVars
    <3> QED BY <2>2, <3>1
  <2>8. CASE Persist
    BY <2>2, <2>8 DEF Persist, mgrVars, svcVars
  <2>9. CASE ServiceDies
    BY <2>9 DEF ServiceDies
  <2>10. CASE ReconcileRuntimeState
    BY <1>0, <2>10 DEF ReconcileRuntimeState, AdoptRecord, CleanRecord, ForgetRecord, diskVars
  <2> QED BY <2>3, <2>4, <2>5, <2>6, <2>7, <2>8, <2>9, <2>10, StepKinds
<1> QED BY <1>1, <1>2

\* Only the death of a service makes survivors, and no step recognises a stranger again.
LEMMA HistoryStep ==
    [Next]_vars => (ServiceDies \/ survivors' = survivors) /\ unidentified \subseteq unidentified'
BY DEF Next, vars, svcVars, CoreStep, CoreDies, CoreRespawns, ApiStep, ApiStart, ApiStop, ApiRestart, Request,
     LockedStep, StopProcess, StopCleanup, LaunchFail, StartupFail, StartupOk, Persist, Launch, HandlerStep,
     TakeoverLook, ScanNone, ScanFound, ScanRefused, Adopt, RecordStat, RecordWrite, HandleProcessExit,
     TakeoverTimeout, MonStep, MonWake, MonCheck, FinishExpectedProcessExit, NtfStep, NtfTake, NtfSame, NtfStop,
     PollStep, PollTick, PollVerdict, PollStop, RetryStart, BootStep, ReconcileRuntimeState, CleanRecord,
     ForgetRecord, RestoreDesiredState, ServiceDies

\* A live adopted core stays what the manager holds until somebody stops it.
LEMMA AdoptedStep ==
    ASSUME TypeOK, PhaseInv, [Next]_vars, ~StopCanFail, ~JobController, ~ServiceDies, service # "down",
           NEW p \in Pid, proc[p] = "alive", proc'[p] = "alive", p = record, pid = p, cmd = Nil,
           lock.phase \in {"free", "kill"}, \A q \in Pid : pc[Mon(q)] = "none" /\ pc[Ntf(q)] = "none",
           pc[Poller] \in {"off", "idle", "read"}, pc[Poller] = "read" => cap[Poller].pid = p
    PROVE  /\ p = record' /\ pid' = p /\ cmd' = Nil /\ lock'.phase \in {"free", "kill"}
           /\ \A q \in Pid : pc'[Mon(q)] = "none" /\ pc'[Ntf(q)] = "none"
           /\ pc'[Poller] \in {"off", "idle", "read"}
           /\ pc'[Poller] = "read" => cap'[Poller].pid = p
<1> DEFINE Same == UNCHANGED <<pid, cmd, record, pc, cap>> /\ lock'.phase \in {"free", "kill"}
<1>0. /\ pid # Nil /\ (Unlocked => isRunning) /\ pc \in [Thread -> ThreadState] /\ cap \in [Thread -> Captured]
      /\ \A t \in Thread : pc[t] \in {"none", "off", "idle", "read"} /\ (pc[t] # "none" => t = Poller)
  <2>1. \A t \in Thread : t = Poller \/ \E q \in Pid : t = Mon(q) \/ t = Ntf(q)
    BY DEF Thread, Mon, Ntf
  <2>2. \A t \in Thread : t = Poller \/ pc[t] = "none"
    BY <2>1
  <2> QED BY <2>2, PidNotNil DEF PhaseInv, Coherent, TypeOK, PcType
<1> USE DEF mgrVars, thrVars, diskVars, svcVars
<1>1. CASE CoreStep \/ UNCHANGED vars
  <2>1. Same
    BY <1>1 DEF CoreStep, CoreDies, CoreRespawns, vars
  <2> QED BY <2>1
<1>2. CASE ApiStep \/ RestoreDesiredState \/ \E r \in Restarter : RetryStart(r)
  <2>1. Same
    BY <1>0, <1>2 DEF ApiStep, ApiStart, ApiStop, ApiRestart, Request, StopIdle, StopBegin, Idle, RestoreDesiredState,
       RetryStart, Unlocked
  <2> QED BY <2>1
<1>3. ~LockedStep
  <2>1. ~StopProcess
    <3>1. ASSUME StopProcess PROVE FALSE
      <4>1. proc' \in StopResults(launch, p)
        BY <3>1 DEF StopProcess
      <4>2. proc'[p] # "alive"
        BY <4>1 DEF StopResults, CloseController
      <4> QED BY <4>2
    <3> QED BY <3>1
  <2> QED BY <2>1 DEF LockedStep, StopCleanup, LaunchFail, StartupFail, StartupOk, Persist, Launch
<1>4. \A t \in Thread : ~HandlerStep(t) /\ ~TakeoverTimeout(t)
  BY <1>0 DEF HandlerStep, TakeoverLook, TakeoverTimeout, ScanNone, ScanFound, ScanRefused, Adopt, RecordStat,
     RecordWrite, HandleProcessExit
<1>5. \A q \in Pid : ~MonStep(q) /\ ~NtfStep(q)
  BY <1>0 DEF MonStep, MonWake, MonCheck, FinishExpectedProcessExit, NtfStep, NtfTake, NtfSame, NtfStop
<1>6. CASE PollStep
  <2>1. UNCHANGED <<pid, cmd, record, lock>>
    BY <1>6 DEF PollStep, PollTick, PollVerdict, PollStop
  <2>2. /\ pc'[Poller] \in {"off", "idle", "read"} /\ (pc'[Poller] = "read" => cap'[Poller].pid = p)
        /\ \A t \in Thread : t # Poller => pc'[t] = pc[t]
    BY <1>0, <1>6, ThreadType DEF PollStep, PollTick, PollVerdict, PollStop, Goto, Leave, Capture, Return, Dead
  <2> QED BY <2>1, <2>2, ThreadType, ThreadNames
<1>7. ~ReconcileRuntimeState
  BY DEF ReconcileRuntimeState
<1> QED BY <1>1, <1>2, <1>3, <1>4, <1>5, <1>6, <1>7 DEF Next, BootStep

\* A core of an earlier service that lives on is the adopted one, and nothing of a launch of
\* this service deals with it.
LEMMA SurvivorStep ==
    TypeOK /\ PhaseInv /\ DownInv /\ NoTakeover /\ SurvivorInv /\ [Next]_vars => SurvivorInv'
<1> DEFINE Kept(p) ==
              /\ p = record
              /\ service # "down" => pid = p /\ cmd = Nil /\ lock.phase \in {"free", "kill"}
              /\ \A q \in Pid : pc[Mon(q)] = "none" /\ pc[Ntf(q)] = "none"
              /\ pc[Poller] \in {"off", "idle", "read"}
              /\ pc[Poller] = "read" => cap[Poller].pid = p
<1> SUFFICES ASSUME TypeOK, PhaseInv, DownInv, NoTakeover, SurvivorInv, [Next]_vars, ~StopCanFail, ~JobController
             PROVE  /\ \A p \in survivors' : proc'[p] # "none"
                    /\ \A p \in survivors' \ unidentified' : Alive(p)' => Kept(p)'
  BY RecordedStep DEF SurvivorInv
<1> USE PidNotNil
<1>0. /\ ServiceDies \/ survivors' = survivors
      /\ unidentified \subseteq unidentified'
  BY HistoryStep
<1>1. \A p \in survivors' : proc'[p] # "none"
  <2> SUFFICES ASSUME NEW p \in survivors' PROVE proc'[p] # "none"
    OBVIOUS
  <2>1. CASE p \in survivors
    BY <2>1, CreatedStays DEF SurvivorInv, TypeOK, SvcType
  <2>2. CASE p \notin survivors
    BY <1>0, <2>2 DEF ServiceDies
  <2> QED BY <2>1, <2>2
<1>2. ASSUME NEW p \in survivors', p \notin unidentified', p \in Pid, proc'[p] = "alive" PROVE Kept(p)'
  <2>1. CASE ServiceDies
    <3>1. p \in survivors => proc[p] = "alive"
      BY <1>2, <2>1 DEF ServiceDies, Left, TypeOK, ProcType
    <3>2. p = record
      BY <1>0, <1>2, <2>1, <3>1 DEF ServiceDies, SurvivorInv, Alive
    <3>3. service' = "down" /\ pc' = NoThreads /\ record' = record
      BY <2>1 DEF ServiceDies, diskVars
    <3>4. /\ \A q \in Pid : NoThreads[Mon(q)] = "none" /\ NoThreads[Ntf(q)] = "none"
          /\ NoThreads[Poller] = "off"
      BY ThreadType, ThreadNames DEF NoThreads
    <3> QED BY <3>2, <3>3, <3>4
  <2>2. CASE ~ServiceDies
    <3>1. p \in survivors /\ p \notin unidentified
      BY <1>0, <1>2, <2>2
    <3>2. proc[p] = "alive"
      BY <1>2, <3>1, NoNewCore DEF SurvivorInv, Launch, Fresh
    <3>3. Kept(p)
      BY <1>2, <3>1, <3>2 DEF SurvivorInv, Alive
    <3>4. CASE service = "down" /\ ReconcileRuntimeState
      <4>1. AdoptRecord /\ lock' = lock /\ service' = "reconciled"
        BY <1>2, <3>1, <3>2, <3>3, <3>4 DEF ReconcileRuntimeState, CleanRecord, ForgetRecord, procVars, TypeOK, ProcType
      <4>2. record' = record /\ pid' = p /\ cmd' = Nil /\ lock'.phase = "free"
        BY <3>3, <3>4, <4>1 DEF AdoptRecord, diskVars, PhaseInv, Unlocked
      <4>3. pc' = [pc EXCEPT ![Poller] = "idle"] /\ pc \in [Thread -> ThreadState]
        BY <4>1 DEF AdoptRecord, Goto, TypeOK, PcType
      <4>4. pc'[Poller] = "idle" /\ \A q \in Pid : pc'[Mon(q)] = "none" /\ pc'[Ntf(q)] = "none"
        BY <3>3, <4>3, ThreadType, ThreadNames
      <4> QED BY <3>3, <4>2, <4>4
    <3>5. CASE service = "down" /\ ~ReconcileRuntimeState
      <4>1. UNCHANGED <<pc, cap, record, service, survivors, unidentified, pid, cmd>>
        BY <3>5, DownQuiet
      <4> QED BY <3>3, <3>5, <4>1
    <3>6. CASE service # "down"
      BY <1>2, <3>1, <3>2, <3>3, <3>6, <2>2, AdoptedStep
    <3> QED BY <3>4, <3>5, <3>6
  <2> QED BY <2>1, <2>2
<1> QED BY <1>1, <1>2 DEF Alive

\* With either kind of controller a start never happens over a live core that
\* runtime.json names or named when a service died, but for one the boot took for a
\* stranger, if terminating a core does not time out (the boot goes on after
\* ReconcileRuntimeState failed, and then it does).
THEOREM NeverOverSurvivor == ASSUME ~StopCanFail PROVE Spec => []NoStartOverSurvivor
<1> DEFINE IInv == PhaseInv /\ DownInv /\ FoundInv /\ NoTakeover /\ JobInv /\ OwnedInv /\ SurvivorInv
<1>1. Init => IInv
  <2> SUFFICES ASSUME Init PROVE IInv
    OBVIOUS
  <2>1. PhaseInv
    BY DEF Init, PhaseInv, Coherent, Unlocked, Idle, Free
  <2>2. FoundInv /\ NoTakeover /\ JobInv /\ DownInv /\ OwnedInv
    BY PidNotNil DEF Init, FoundInv, NoTakeover, NoThreads, JobInv, DownInv, OwnedInv, Owned, Free
  <2>3. SurvivorInv
    BY DEF Init, SurvivorInv
  <2> QED BY <2>1, <2>2, <2>3
<1>2. TypeOK /\ IInv /\ [Next]_vars => IInv'
  BY PhaseStep, DownStep, FoundStep, NoTakeoverStep, JobStep, OwnedStep, SurvivorStep
<1>3. IInv => NoStartOverSurvivor
  <2> SUFFICES ASSUME IInv, lock.phase = "launch", NEW p \in Pid, proc[p] = "alive",
                      p = record \/ (p \in survivors /\ p \notin unidentified)
               PROVE  FALSE
    BY DEF NoStartOverSurvivor, Alive
  <2>1. launch = Nil /\ pid = Nil /\ service # "down"
    BY DEF PhaseInv, Unlocked
  <2>2. CASE JobController
    BY <2>1, <2>2 DEF JobInv, OwnedInv, Owned
  <2>3. CASE ~JobController
    BY <2>1, <2>3, PidNotNil DEF SurvivorInv, Alive
  <2> QED BY <2>2, <2>3
<1> QED BY <1>1, <1>2, <1>3, TypeCorrect, PTL DEF Spec

\* No core that runtime.json names comes to life while the service is down.
LEMMA BootStepNone ==
    TypeOK /\ PhaseInv /\ DownInv /\ OwnedInv /\ BootInv /\ [Next]_vars => BootInv'
<1> SUFFICES ASSUME TypeOK, PhaseInv, DownInv, OwnedInv, BootInv, [Next]_vars, NoAdoption, service' = "down",
                    record' \in Pid, proc'[record'] = "alive"
             PROVE  FALSE
  BY DEF BootInv, Alive
<1>0. JobController /\ record \in Pid => proc[record] # "none" /\ job[record] # Nil
  BY DEF OwnedInv, Owned
<1>1. CASE ServiceDies
  <2>1. DieWithService
    BY <1>1, CoreManagerAssumption DEF NoAdoption, ServiceDies, TypeOK, SvcType
  <2>2. record' = record /\ record \in Pid
    BY <1>1 DEF ServiceDies, diskVars
  <2> QED BY <1>0, <1>1, <2>1, <2>2 DEF ServiceDies, Left, Fresh, TypeOK, ProcType
<1>2. CASE service = "down"
  <2>1. ~Launch(record')
    BY <1>2 DEF Launch, PhaseInv, Unlocked
  <2>2. record' = record
    BY <1>2, DownQuiet DEF ReconcileRuntimeState
  <2> QED BY <1>2, <2>1, <2>2, <1>0, NoNewCore DEF BootInv, Alive
<1>3. ~ServiceDies => service = "down"
  BY OnlyDeath
<1> QED BY <1>1, <1>2, <1>3

\* desired_state.json is cleared only with the launch that set it.
LEMMA DesiredStep ==
    TypeOK /\ PhaseInv /\ NoTakeover /\ BootInv /\ DesiredInv /\ [Next]_vars => DesiredInv'
<1> SUFFICES ASSUME TypeOK, PhaseInv, NoTakeover, BootInv, DesiredInv, [Next]_vars, NoAdoption,
                    lock'.phase = "free", isRunning'
             PROVE  desired'
  BY DEF DesiredInv, DesiredCovers, Unlocked
<1>0. lock.phase = "free" /\ isRunning => desired
  BY DEF DesiredInv, DesiredCovers, Unlocked
<1>1. CASE Entered
  <2>1. UNCHANGED <<lock, isRunning>> /\ (isRunning => desired' = desired)
    BY <1>1 DEF Entered
  <2> QED BY <1>0, <2>1
<1>2. CASE Advanced
  BY <1>2 DEF Advanced
<1>3. CASE Ended
  BY <1>3 DEF Ended
<1>4. CASE Quiet
  BY <1>0, <1>4 DEF Quiet
<1>5. CASE StartupOk
  BY <1>5 DEF StartupOk, InPhase
<1>6. CASE Persist
  BY <1>6 DEF Persist
<1>7. CASE ServiceDies
  BY <1>7 DEF ServiceDies
<1>8. CASE ReconcileRuntimeState
  <2>1. ~isRunning /\ ~Alive(record)
    BY <1>8 DEF ReconcileRuntimeState, PhaseInv, Idle, BootInv, Alive
  <2> QED BY <1>8, <2>1 DEF ReconcileRuntimeState, AdoptRecord, CleanRecord, ForgetRecord, mgrVars
<1> QED BY <1>1, <1>2, <1>3, <1>4, <1>5, <1>6, <1>7, <1>8, StepKinds

\* Whenever a core runs, desired_state.json asks for one, where no service adopts a core
\* of its predecessor: a predecessor that died between writeRuntimeRecord and
\* persistDesiredState leaves a core that is adopted and was never asked for on disk.
THEOREM DesiredAlways == ASSUME DieWithService \/ MaxServiceCrashes = 0 PROVE Spec => []DesiredCovers
<1> DEFINE IInv == PhaseInv /\ DownInv /\ OwnedInv /\ FoundInv /\ NoTakeover /\ BootInv /\ DesiredInv
<1>1. Init => IInv
  <2> SUFFICES ASSUME Init PROVE IInv
    OBVIOUS
  <2>1. PhaseInv
    BY DEF Init, PhaseInv, Coherent, Unlocked, Idle, Free
  <2>2. FoundInv /\ NoTakeover /\ BootInv /\ DownInv /\ OwnedInv
    BY PidNotNil DEF Init, FoundInv, NoTakeover, NoThreads, BootInv, DownInv, OwnedInv, Owned, Free
  <2>3. DesiredInv
    BY DEF Init, DesiredInv, DesiredCovers
  <2> QED BY <2>1, <2>2, <2>3
<1>2. TypeOK /\ IInv /\ [Next]_vars => IInv'
  BY PhaseStep, DownStep, OwnedStep, FoundStep, NoTakeoverStep, BootStepNone, DesiredStep
<1>3. IInv => DesiredCovers
  BY DEF DesiredInv, NoAdoption
<1> QED BY <1>1, <1>2, <1>3, TypeCorrect, PTL DEF Spec
=============================================================================
