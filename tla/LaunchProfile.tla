--------------------------- MODULE LaunchProfile ---------------------------
(***************************************************************************)
(* The launch profile: launch_profile.json, the requests that change it,   *)
(* the profile of the running launch, and the CPUs that the core's threads *)
(* are bound to on Linux (core/launch.go, route/coreapi/core.go,           *)
(* ApplyLaunchProfile of core/manager.go, core/process).                   *)
(*                                                                         *)
(* A request loads, changes and saves the file without a lock; only the    *)
(* file's replacement is atomic.  It then applies the profile to the       *)
(* running launch, or starts a core with it, under the manager's mutex.    *)
(* A core that crashes is started again with the profile of its launch.    *)
(* Binding goes through a cgroup where there is one, and otherwise thread  *)
(* by thread while the core may be creating threads.                       *)
(*                                                                         *)
(* A start writes the profile to runtime.json and desired_state.json too.  *)
(* When the service dies, the next one adopts the core with the profile of *)
(* the first, or starts one with that of the second; the profile requests  *)
(* write neither (runtime_state.go, desired_state.go).                     *)
(*                                                                         *)
(* Of the profile the path of the core, the mode, the CPU set and the log  *)
(* settings are modelled; the last two are live, they are applied to a     *)
(* running core.  A mode stands for every value that normalizeLaunchProfile*)
(* may refuse.  Reading and writing files, cgroup files, binding a thread  *)
(* and starting a core may fail, at most MaxFaults times.                  *)
(***************************************************************************)
EXTENDS Integers, FiniteSets

CONSTANTS
  None,           \* no file, no launch, no holder
  Requests,       \* handlers that may run at the same time
  Profiles,       \* bodies of POST /core/profile, /core/start, /core/restart
  Patches,        \* bodies of PATCH /core/profile
  Online,         \* the CPUs there are, the binding of the service
  Rounds,         \* scans of the thread list in SetCPUAffinity, 3
  MaxThreads,     \* bound: threads of a core
  MaxRequests,    \* bound: requests
  MaxCrashes,     \* bound: crashes of the core and deaths of the service
  MaxFaults       \* bound: system calls that fail

Fields == {"core", "mode", "cpu", "log"}
Live == {"cpu", "log"}
Modes == {"auto", "sandbox", "direct"}

ASSUME RoundsAssumption == Rounds \in Nat \ {0} /\ MaxThreads \in Nat \ {0}
ASSUME OnlineAssumption == Online # {}

VARIABLES
  file,        \* launch_profile.json, None when it does not exist
  launch,      \* the profile of cm.launch, None without a launch
  alive,       \* the core process exists
  relaunch,    \* the profile that handleProcessExit starts again, or None
  request,     \* the handlers: place, kind, body and the profile in hand
  mutex,       \* who holds cm.mutex: None, a request, "relaunch" or "boot"
  call,        \* SetCPUAffinity: CPUs, lists of threads read, threads left to
               \* set, whether it has changed the binding of a thread, and after
               \* which lists a thread was created before the next; or None
  mask,        \* the binding of each thread of the core
  cgroup,      \* usable: cgroup v2 as root; entry: of cpuCgroups.items;
               \* set: cpuset of the core's own group, None while outside;
               \* own: the parent group of an entry would be the core's own
  up,          \* the service runs and has ended its boot
  record,      \* the profile in the record of the living core, or None
  desired,     \* the profile in desired_state.json, None: no core is wanted
  requests, crashes, faults,  \* counters for the bounds
  \* For the properties: whether the last call that changed the binding left
  \* it undone; whether threads were bound one by one in a group of the core's
  \* own; whether the request at work was alone all the time; whether the
  \* launch may differ from the file; whether the file was changed, or
  \* desired_state.json could not be written, since a start last wrote it.
  loose, apart, alone, stale, unsaved

vars == <<file, launch, alive, relaunch, request, mutex, call, mask, cgroup, up, record,
          desired, requests, crashes, faults, loose, apart, alone, stale, unsaved>>

process == <<alive, mask, cgroup, call, loose, apart>>
counters == <<requests, crashes, faults>>
disk == <<up, record, desired, unsaved>>

Idle == [pc |-> "idle", kind |-> None, body |-> None, profile |-> None]

MayFail == faults < MaxFaults /\ faults' = faults + 1
----------------------------------------------------------------------------
(* The profile and its file *)

Default == [core |-> "", mode |-> "auto", cpu |-> {}, log |-> ""]

\* What a field can hold, and the profiles that patches can make.
Values(f) ==
  {p[f] : p \in Profiles \cup {Default}} \cup {q[f] : q \in {q \in Patches : f \in DOMAIN q}}

Profile == [core : Values("core"), mode : Values("mode"), cpu : Values("cpu"), log : Values("log")]

ASSUME ProfilesAssumption == Profiles \subseteq Profile
ASSUME NoneAssumption == None \notin Profile /\ None \notin Values("cpu")
\* The goroutines that hold the mutex for no request: the recovery of a
\* crashed core and the boot.
Inner == {"relaunch", "boot"}

ASSUME NamesAssumption == None \notin Requests \cup Inner /\ Requests \cap Inner = {}

\* isZeroLaunchProfile
IsZero(p) == p = Default

\* The cases in which normalizeLaunchProfile returns no error.
Valid(p) == p.mode \in Modes /\ (~IsZero(p) => p.core # "")

\* LoadLaunchProfile
Loaded == IF file = None THEN Default ELSE file

\* The file that SaveLaunchProfile leaves: none for an empty profile.
Saved(p) == IF IsZero(p) THEN None ELSE p

\* Mutant: a field that the patch does not name is reset.
PatchedResets(p, patch) ==
  [f \in Fields |-> IF f \in DOMAIN patch THEN patch[f]
                    ELSE IF f \in Live THEN Default[f] ELSE p[f]]

\* PatchLaunchProfile: the fields that the patch names.
Patched(p, patch) == [f \in Fields |-> IF f \in DOMAIN patch THEN patch[f] ELSE p[f]]

LiveOf(p) == [f \in Live |-> p[f]]
----------------------------------------------------------------------------
(* Requests *)

Active == {r \in Requests : request[r].pc # "idle"}

\* The handler goes on with a profile in hand.
Goto(r, pc, profile) ==
  request' = [request EXCEPT ![r] =
    [pc |-> pc, kind |-> request[r].kind, body |-> request[r].body, profile |-> profile]]

\* The answer.  A request that failed may have changed the file only; one
\* that succeeded with nothing else going on leaves launch and file equal.
Answer(r, ok) ==
  /\ request' = [request EXCEPT ![r] = Idle]
  /\ stale' = (IF ok /\ alone THEN FALSE ELSE stale \/ ~ok)

Kinds == {"post", "patch", "start", "restart", "stop"}

Bodies(kind) ==
  CASE kind = "post" -> Profiles
    [] kind = "patch" -> Patches
    [] kind \in {"start", "restart"} -> Profiles \cup {None}
    [] kind = "stop" -> {None}

\* Where a handler begins: corePatchProfile loads, the others save the
\* profile they were given; without one they go to the manager.
First(kind, body) ==
  CASE kind = "patch" -> "load"
    [] kind = "post" -> "save"
    [] OTHER -> IF body = None THEN "manage" ELSE "save"

\* A request arrives and its body is decoded.
Receive(r) ==
  \E kind \in Kinds : \E body \in Bodies(kind) :
    /\ up /\ request[r].pc = "idle"
    /\ requests < MaxRequests
    /\ requests' = requests + 1
    /\ request' = [request EXCEPT ![r] =
         [pc |-> First(kind, body), kind |-> kind, body |-> body, profile |-> body]]
    /\ alone' = (Active = {} /\ relaunch = None)
    /\ stale' = (stale \/ ~alone')
    /\ UNCHANGED <<file, launch, relaunch, mutex, process, disk, crashes, faults>>

\* PatchLaunchProfile loads the profile and changes the fields given.
Load(r) ==
  /\ request[r].pc = "load"
  /\ \/ /\ Goto(r, "save", Patched(Loaded, request[r].body))
        /\ UNCHANGED <<faults, stale>>
     \/ MayFail /\ Answer(r, FALSE)
  /\ UNCHANGED <<file, launch, relaunch, mutex, process, disk, requests, crashes, alone>>

AfterSave(kind) == IF kind \in {"post", "patch"} THEN "reload" ELSE "manage"

\* SaveLaunchProfile.  A write that fails may have replaced the file.
Save(r) ==
  LET p == request[r].profile
  IN  /\ request[r].pc = "save"
      /\ \/ /\ Valid(p)
            /\ file' = Saved(p)
            /\ Goto(r, AfterSave(request[r].kind), p)
            /\ UNCHANGED <<faults, stale>>
         \/ ~Valid(p) /\ Answer(r, FALSE) /\ UNCHANGED <<file, faults>>
         \/ Valid(p) /\ MayFail /\ Answer(r, FALSE) /\ file' \in {file, Saved(p)}
      /\ UNCHANGED <<launch, relaunch, mutex, process, disk, requests, crashes, alone>>

\* The profile is loaded again before it is applied.
Reload(r) ==
  /\ request[r].pc = "reload"
  /\ \/ /\ Goto(r, "manage", Loaded)
        /\ UNCHANGED <<faults, stale>>
     \/ MayFail /\ Answer(r, FALSE)
  /\ UNCHANGED <<file, launch, relaunch, mutex, process, disk, requests, crashes, alone>>
----------------------------------------------------------------------------
(* SetCPUAffinity, called with cm.mutex held *)

\* The CPUs that a group allows its threads: a cpuset with no CPU that exists
\* has no effect.
Allowed(set) == IF set = None \/ set \cap Online = {} THEN Online ELSE set \cap Online

Threads == DOMAIN mask

\* The core is moved between groups, or its cpuset changes: the kernel gives
\* every thread the CPUs of the group.
Group(entry, set) ==
  /\ cgroup' = [cgroup EXCEPT !.entry = entry, !.set = set]
  /\ mask' = IF set = cgroup.set THEN mask ELSE [t \in Threads |-> Allowed(set)]

\* The call of the holder of the mutex: cpus, and the profile that becomes
\* the one of the launch when it succeeds.
BeginCall(cpus, profile) ==
  call' = [cpus |-> cpus, profile |-> profile, step |-> "cgroup", round |-> 0,
           left |-> {}, touched |-> FALSE, met |-> {}]

\* A start ends with writing both state files; an error is only logged.
Recorded(profile) ==
  \/ record' = profile /\ desired' = profile /\ unsaved' = FALSE /\ UNCHANGED faults
  \/ record' = None /\ desired' = profile /\ unsaved' = FALSE /\ MayFail
  \/ record' \in {profile, None} /\ UNCHANGED desired /\ unsaved' = TRUE /\ MayFail

\* The end of a call: the holder of the mutex goes on or answers.
Return(ok) ==
  /\ call' = None /\ mutex' = None
  /\ up' = (up \/ mutex = "boot")
  /\ relaunch' = (IF ok /\ mutex = "relaunch" THEN None ELSE relaunch)
  /\ IF mutex \in Inner THEN UNCHANGED <<request, stale>> ELSE Answer(mutex, ok)

\* SetCPUAffinity returns: ApplyLaunchProfile updates the live fields of the
\* launch, and writes no state file; a start that succeeds sets the launch.
\* escaped: a thread may have kept the binding it had.
Succeed(escaped) ==
  /\ Return(TRUE)
  /\ launch' = call.profile
  /\ loose' = escaped
  /\ IF launch = None
     THEN Recorded(call.profile)
     ELSE unsaved' = TRUE /\ UNCHANGED <<record, desired, faults>>

\* SetCPUAffinity fails: ApplyLaunchProfile returns; a start kills the core.
\* What the call has changed of the binding stays.
Fail ==
  /\ Return(FALSE)
  /\ IF launch = None
     THEN alive' = FALSE /\ loose' = FALSE
     ELSE loose' = (loose \/ call.touched \/ mask' # mask) /\ UNCHANGED alive
  /\ UNCHANGED <<launch, record, desired, unsaved>>

\* The call goes on.
Going == UNCHANGED <<launch, relaunch, request, mutex, loose, stale, alive, disk>>

\* setCPUCgroup was not used, or the core is back in the group it came from:
\* the threads are bound one by one.
BindThreads ==
  /\ call' = [call EXCEPT !.step = "threads", !.touched = (mask' # mask)]
  /\ apart' = (cgroup'.set # None)
  /\ Going

\* setCPUCgroup.  When the group of the process, the controller or a first
\* group of its own is not to be had, no group is used; later errors are
\* returned, with the cpuset written or not.  A service that adopted a core
\* which is in a group of its own takes that group for its parent, so that
\* clearing the CPUs leaves the core there.  (Without CPUs to set, reading
\* those of the service may fail before.)
SetCgroup ==
  /\ call.step = "cgroup"
  /\ \/ /\ ~cgroup.usable \/ ~alive \/ (call.cpus = {} /\ ~cgroup.entry)
        /\ UNCHANGED <<cgroup, mask, faults>> /\ BindThreads
     \/ /\ cgroup.usable /\ alive
        /\ MayFail /\ UNCHANGED <<cgroup, mask>> /\ BindThreads
     \/ /\ call.cpus = {}
        /\ MayFail /\ UNCHANGED <<cgroup, mask, apart>> /\ Fail
     \/ /\ cgroup.usable /\ alive /\ cgroup.entry /\ call.cpus = {}
        /\ Group(FALSE, IF cgroup.own THEN cgroup.set ELSE None)
        /\ BindThreads /\ UNCHANGED faults
     \/ /\ cgroup.usable /\ alive /\ call.cpus # {}
        /\ \/ /\ Group(TRUE, call.cpus) /\ Succeed(apart /\ call.cpus = cgroup.set)
              /\ UNCHANGED alive
           \/ MayFail /\ Group(TRUE, cgroup.set) /\ Fail
           \/ /\ MayFail
              /\ Group(TRUE, IF cgroup.set = None THEN None ELSE call.cpus) /\ Fail
        /\ apart' = (apart /\ cgroup'.set = cgroup.set)
  /\ UNCHANGED <<file, requests, crashes, alone>>

Requested == IF call.cpus = {} THEN Online ELSE call.cpus

\* A new thread was created after every list that was read.
MetAll == 1..Rounds \subseteq call.met

\* The list of threads is read.
ReadList ==
  /\ call' = [call EXCEPT !.round = @ + 1, !.left = Threads]
  /\ UNCHANGED faults /\ Going

\* Mutant: the list of threads is read once less.
ScanTwice ==
  /\ call.step = "threads" /\ call.left = {}
  /\ IF call.round < Rounds - 1 /\ alive
     THEN ReadList
     ELSE Succeed(MetAll) /\ UNCHANGED alive
  /\ UNCHANGED <<file, mask, cgroup, requests, crashes, apart, alone>>

\* Reads /proc/<pid>/task, which may fail, or returns after the last round.
Scan ==
  /\ call.step = "threads" /\ call.left = {}
  /\ \/ call.round < Rounds /\ alive /\ ReadList
     \/ call.round < Rounds /\ (IF alive THEN MayFail ELSE UNCHANGED faults) /\ UNCHANGED mask /\ Fail
     \/ call.round >= Rounds /\ Succeed(MetAll) /\ UNCHANGED alive
  /\ UNCHANGED <<file, mask, cgroup, requests, crashes, apart, alone>>

\* SchedSetaffinity on the next thread of the list, and the comparison with
\* SchedGetaffinity: CPUs that are not online or not allowed are left out of
\* the mask, and a mask without any is refused.  Either call may fail for
\* another reason.  (A thread of a core that died is skipped.)
BindThread ==
  /\ call.step = "threads" /\ call.left # {}
  /\ LET t == CHOOSE i \in call.left : \A j \in call.left : i <= j
         actual == Requested \cap Allowed(cgroup.set)
         bound == [mask EXCEPT ![t] = actual]
         next == [call EXCEPT !.left = @ \ {t}, !.touched = @ \/ mask' # mask]
     IN  \/ ~alive /\ UNCHANGED <<mask, faults>> /\ call' = next /\ Going
         \/ alive /\ actual = Requested /\ mask' = bound /\ UNCHANGED faults /\ call' = next /\ Going
         \/ alive /\ actual # Requested /\ mask' = (IF actual = {} THEN mask ELSE bound) /\ UNCHANGED faults /\ Fail
         \/ alive /\ MayFail /\ mask' \in {mask, IF actual = {} THEN mask ELSE bound} /\ Fail
  /\ UNCHANGED <<file, cgroup, requests, crashes, apart, alone>>

\* The core creates a thread, which inherits the binding of its creator.
Spawn ==
  /\ alive
  /\ call # None
  /\ Cardinality(Threads) < MaxThreads
  /\ \E t \in Threads :
       mask' = [i \in Threads \cup {Cardinality(Threads) + 1} |->
                  IF i \in Threads THEN mask[i] ELSE mask[t]]
  /\ call' = [call EXCEPT !.met = @ \cup ({call.round} \ {0})]
  /\ UNCHANGED <<file, launch, alive, relaunch, request, mutex, cgroup,
                 disk, counters, loose, apart, alone, stale>>
----------------------------------------------------------------------------
(* The manager *)

\* ApplyLaunchProfile: without a launch there is nothing to do; a CPU set
\* that is already the one of the launch is not set again.  The state files
\* keep the profile that they have.
Apply(r) ==
  LET p == request[r].profile
      new == [f \in Fields |-> IF f \in Live THEN p[f] ELSE launch[f]]
  IN  /\ request[r].pc = "manage" /\ request[r].kind \in {"post", "patch"}
      /\ mutex = None
      /\ IF launch = None \/ launch.cpu = p.cpu
         THEN /\ launch' = IF launch = None THEN None ELSE new
              /\ Answer(r, TRUE)
              /\ unsaved' = TRUE
              /\ UNCHANGED <<mutex, call>>
         ELSE /\ mutex' = r
              /\ BeginCall(p.cpu, new)
              /\ UNCHANGED <<launch, request, stale, unsaved>>
      /\ UNCHANGED <<file, relaunch, alive, mask, cgroup, up, record, desired, loose, apart,
                     counters, alone>>

\* The core is gone, with its threads; a record of it names no process.
Gone ==
  /\ alive' = FALSE /\ record' = None
  /\ mask' = [t \in {} |-> Online]
  /\ cgroup' = [cgroup EXCEPT !.entry = FALSE, !.set = None, !.own = FALSE]
  /\ loose' = FALSE /\ apart' = FALSE

\* The core is executed with one thread, in the group of the service, and
\* then bound: the launchers call SetCPUAffinity after the start.  A record of
\* an earlier core is not this one's.
Exec(who, profile) ==
  /\ mutex' = who
  /\ alive' = TRUE /\ record' = None
  /\ mask' = [t \in {1} |-> Online]
  /\ cgroup' = [cgroup EXCEPT !.entry = FALSE, !.set = None, !.own = FALSE]
  /\ BeginCall(profile.cpu, profile)
  /\ loose' = FALSE /\ apart' = FALSE

\* Mutant: the file is not read when the request brings no profile.
StartLockedWithoutFile(r) ==
  LET p == IF request[r].body = None THEN [Default EXCEPT !.core = "core"] ELSE request[r].body
  IN  p.core # "" /\ Exec(r, p) /\ UNCHANGED <<request, stale, faults>>

\* startCoreLocked with the profile given or else the one of the file: it is
\* refused while a core runs, without a core's path, or when anything fails.
StartLocked(r) ==
  LET p == IF request[r].body = None THEN Loaded ELSE request[r].body
  IN  \/ p.core # "" /\ Exec(r, p) /\ UNCHANGED <<request, stale, faults>>
      \/ /\ IF p.core = "" THEN UNCHANGED faults ELSE MayFail
         /\ Answer(r, FALSE)
         /\ mutex' = None /\ Gone
         /\ UNCHANGED call

\* StartCoreWithProfile
Start(r) ==
  /\ request[r].pc = "manage" /\ request[r].kind = "start"
  /\ mutex = None
  /\ IF launch # None
     THEN Answer(r, FALSE) /\ UNCHANGED <<mutex, process, record, faults>>
     ELSE StartLocked(r)
  /\ UNCHANGED <<file, launch, relaunch, up, desired, unsaved, requests, crashes, alone>>

\* clearDesiredState, of which an error is logged only.
Cleared == desired' \in {None, desired}

\* RestartCoreWithProfile: stopCoreLocked, then startCoreLocked.
Restart(r) ==
  /\ request[r].pc = "manage" /\ request[r].kind = "restart"
  /\ mutex = None
  /\ launch' = None
  /\ Cleared
  /\ StartLocked(r)
  /\ UNCHANGED <<file, relaunch, up, unsaved, requests, crashes, alone>>

\* StopCore: the core is stopped and its launch cleaned up.
Stop(r) ==
  /\ request[r].pc = "manage" /\ request[r].kind = "stop"
  /\ mutex = None
  /\ launch' = None /\ Gone
  /\ Cleared
  /\ request' = [request EXCEPT ![r] = Idle]
  /\ UNCHANGED <<file, relaunch, mutex, call, up, unsaved, counters, alone, stale>>

\* The core dies.
Crash ==
  /\ alive /\ launch # None
  /\ crashes < MaxCrashes
  /\ crashes' = crashes + 1
  /\ Gone
  /\ UNCHANGED <<file, launch, relaunch, request, mutex, call, up, desired, unsaved,
                 requests, faults, alone, stale>>

\* handleProcessExit takes the profile of the launch and cleans up; a core
\* that ended by itself is not wanted any more (finishExpectedProcessExit).
HandleExit ==
  /\ mutex = None
  /\ launch # None /\ ~alive
  /\ \/ relaunch' = launch /\ UNCHANGED desired
     \/ relaunch' = None /\ Cleared
  /\ launch' = None
  /\ alone' = FALSE
  /\ stale' = (stale \/ Active # {})
  /\ UNCHANGED <<file, request, mutex, process, up, record, unsaved, counters>>

\* Its goroutine starts the core again with that profile; a start that fails
\* or finds a core running is tried again or given up.
Relaunch ==
  /\ relaunch # None
  /\ mutex = None
  /\ launch = None
  /\ Exec("relaunch", relaunch)
  /\ UNCHANGED <<file, launch, relaunch, request, up, desired, unsaved, counters, alone, stale>>

GiveUp ==
  /\ relaunch # None
  /\ mutex = None
  /\ relaunch' = None
  /\ UNCHANGED <<file, launch, request, mutex, process, disk, counters, alone, stale>>
----------------------------------------------------------------------------
(* The death of the service and the next boot *)

\* The service is killed.  The core may survive; the list of cgroups is lost.
\* A call that was under way may have bound some of the threads, and the
\* record may name other CPUs than the launch had in the end.
ServiceDies ==
  /\ up \/ mutex = "boot"
  /\ crashes < MaxCrashes
  /\ crashes' = crashes + 1
  /\ up' = FALSE /\ mutex' = None /\ call' = None /\ launch' = None /\ relaunch' = None
  /\ request' = [r \in Requests |-> Idle]
  /\ \/ Gone
     \/ /\ cgroup' = [cgroup EXCEPT !.entry = FALSE, !.own = (cgroup.set # None)]
        /\ loose' = (\/ loose \/ (mutex # None /\ call.touched)
                     \/ record # None /\ launch # None /\ record.cpu # launch.cpu)
        /\ UNCHANGED <<alive, mask, record, apart>>
  /\ stale' = (stale \/ Active # {})
  /\ alone' = FALSE
  /\ UNCHANGED <<file, desired, requests, faults, unsaved>>

Booting == ~up /\ mutex = None

\* What a boot takes the profile from may not be what the file has.
Boots == stale' = (stale \/ unsaved)

\* ReconcileRuntimeState adopts the recorded core, with the recorded profile.
Adopt ==
  /\ Booting
  /\ alive /\ record # None
  /\ launch' = record
  /\ up' = TRUE /\ Boots
  /\ UNCHANGED <<file, relaunch, request, mutex, process, record, desired, unsaved, counters, alone>>

\* It does not recognise or not reach the core, or there is none;
\* RestoreDesiredState starts a core with the profile of desired_state.json.
\* A core that is left over is none of this launch's.
Restore ==
  /\ Booting
  /\ desired # None
  /\ Exec("boot", desired) /\ Boots
  /\ UNCHANGED <<file, launch, relaunch, request, up, desired, unsaved, counters, alone>>

\* No core is wanted, or it cannot be started.
RestoreNothing ==
  /\ Booting
  /\ IF desired = None THEN UNCHANGED faults ELSE MayFail
  /\ up' = TRUE /\ Gone
  /\ UNCHANGED <<file, launch, relaunch, request, mutex, call, desired, unsaved,
                 requests, crashes, alone, stale>>
----------------------------------------------------------------------------
Init ==
  /\ file = None /\ launch = None /\ alive = FALSE /\ relaunch = None
  /\ request = [r \in Requests |-> Idle]
  /\ mutex = None /\ call = None
  /\ mask = [t \in {} |-> Online]
  /\ cgroup \in [usable : BOOLEAN, entry : {FALSE}, set : {None}, own : {FALSE}]
  /\ up = TRUE /\ record = None /\ desired = None
  /\ requests = 0 /\ crashes = 0 /\ faults = 0
  /\ loose = FALSE /\ apart = FALSE /\ alone = FALSE /\ stale = FALSE /\ unsaved = FALSE

Handler(r) ==
  Receive(r) \/ Load(r) \/ Save(r) \/ Reload(r) \/ Apply(r) \/ Start(r) \/ Restart(r) \/ Stop(r)

SetCPUAffinity == call # None /\ (SetCgroup \/ Scan \/ BindThread)

Next ==
  \/ \E r \in Requests : Handler(r)
  \/ SetCPUAffinity \/ Spawn
  \/ Crash \/ HandleExit \/ Relaunch \/ GiveUp
  \/ ServiceDies \/ Adopt \/ Restore \/ RestoreNothing

Spec == Init /\ [][Next]_vars
----------------------------------------------------------------------------
(* Properties *)

\* Every variable has its type.
TypeOK ==
  /\ mutex \in Requests \cup Inner \cup {None}
  /\ {alive, up, loose, apart, alone, stale, unsaved} \subseteq BOOLEAN
  /\ {requests, crashes, faults} \subseteq Nat

\* Every thread of a running core may use the CPUs that the profile of the
\* launch names, all of the service's when it names none: through the cgroup,
\* over changes, clearing, restarts and adoption by the next service, after
\* calls that changed nothing, and when threads are created meanwhile.  The
\* binding is left loose in four cases only: SetCPUAffinity failed, or the
\* service died, half-way; the core created a thread after each of the lists
\* of threads was read; the cpuset that a group already had was written again,
\* after the threads had been bound one by one in that group; or a service
\* adopted a core whose CPUs were changed after they had been recorded.
BindingFollowsLaunch ==
  mutex = None /\ alive /\ launch # None /\ ~loose =>
    \A t \in Threads :
      mask[t] = IF launch.cpu \cap Online = {} THEN Online ELSE launch.cpu \cap Online

\* A request that was not overlapped by another one, by the recovery of a
\* crashed core or by the end of the service leaves the live fields of the
\* running launch and of the file equal.  They stay so, also when the core
\* crashes and when another service adopts it or starts it again, until a
\* request fails or overlaps, or a service boots after a profile request: that
\* changes the file and the launch, but not the profiles in the state files,
\* which the next service goes by.  (Nor when the desired state could not be
\* written.)
LaunchIsCurrent ==
  /\ TypeOK
  /\ Active = {} /\ launch # None /\ ~stale => LiveOf(launch) = LiveOf(Loaded)

\* PATCH changes the fields that it names and no other, also when the file
\* does not exist or the result is the empty profile, unless another request
\* came between its load and its save.
PatchKept ==
  [][\A r \in Requests :
       request[r].kind = "patch" /\ request[r].pc = "save" /\ request'[r].pc = "reload" /\ alone =>
         \A f \in Fields :
           Loaded'[f] = IF f \in DOMAIN request[r].body THEN request[r].body[f] ELSE Loaded[f]]_vars
=============================================================================
