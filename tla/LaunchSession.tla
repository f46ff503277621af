--------------------------- MODULE LaunchSession ---------------------------
(***************************************************************************)
(* One launch of the core on Linux, from the startup hook to the cleanup,  *)
(* with the launcher that picks direct, helper or sandbox, and the helper  *)
(* of Sandbox as the process it starts (core/launch.go, launcher*.go,      *)
(* manager_start.go, startup_notify*.go, sandbox/command_linux.go and      *)
(* probe_linux.go).                                                        *)
(*                                                                         *)
(* The manager's mutex is held from the beginning of a launch to its       *)
(* result, so launches are one after another.  Beside them run the helper  *)
(* or the core, the notifications that the core's post-up command sends,   *)
(* and one goroutine per startup hook.  The service may be killed at any   *)
(* step; the kernel then kills its child, and what it had put into the     *)
(* temporary directory stays for the next service to find.                 *)
(*                                                                         *)
(* A directory is named by its kind, the service that made it (its process *)
(* number, and for a root also its start time; that another process has    *)
(* got the number of a dead one is among the failures of a sweep) and the  *)
(* launch.  Log files, events and the manager's own bookkeeping are in     *)
(* LogWriter, LogWatchers and CoreManager.                                 *)
(***************************************************************************)
EXTENDS Sandbox

CONSTANTS
  Sessions,      \* what is launched: mode, configuration, whether CPUs are
                 \* given
  ProbeConfig,   \* the configuration of Probe
  NotifyCap,     \* capacity of the channel of later notifications, 8
  MaxLaunches,   \* bound: launches
  MaxServices,   \* bound: services, one after another
  MaxNotices     \* bound: connections to a hook

\* The names of temporary directories.
Dirs == [kind : {"notify", "controller", "root", "probe"},
         owner : 1..MaxServices, launch : 1..MaxLaunches]

ASSUME NoneAssumption == None \notin Dirs

\* The root directory is asked for as a safe path only.  (Left out: "/" as the
\* working directory, which the option -d may name, where the read-only mount
\* refuses that of /run/xtables.lock and nothing starts; and a core that lies
\* in "/" itself, whose writable mount hides the ones before it.)
ASSUME SessionsAssumption ==
  /\ \A s \in Sessions : s.conf \in ConfigType
  /\ ProbeConfig \in ConfigType
  /\ \A c \in {s.conf : s \in Sessions} \cup {ProbeConfig} :
       \A i \in DOMAIN sandboxMounts(c) :
         sandboxMounts(c)[i].target = <<>> => <<>> \in ToSet(c.safePaths)
ASSUME SessionBounds ==
  /\ NotifyCap \in Nat /\ MaxFaults \in Nat
  /\ MaxLaunches \in Nat /\ MaxServices \in Nat \ {0} /\ MaxNotices \in Nat

VARIABLES
  service,    \* the service that runs, by number
  pc,         \* where its launch is
  launch,     \* what is launched
  probe,      \* the cached result of Probe
  command,    \* the command: kind, root directory, fallback, probe or core
  held,       \* directories that the launch's cleanup removes, last first
  hooks,      \* the startup hook of each launch
  stuck,      \* directories that could not be unmounted or removed
  launches, notices   \* counters for the bounds

sessionVars == <<service, pc, launch, probe, command, held, hooks, stuck,
                 launches, notices>>
vars == <<sandboxVars, sessionVars>>

NoCommand == [kind |-> "none", root |-> None, fallback |-> FALSE,
              for |-> "core"]
NoHook == [open |-> FALSE, loop |-> "none", delivered |-> FALSE,
           first |-> "none", notes |-> 0, next |-> "none"]

Dir(kind) == [kind |-> kind, owner |-> service, launch |-> launches]

----------------------------------------------------------------------------
\* The hook's goroutine and the notifications.

\* newCoreStartupHook: a listener and the goroutine that serves it.
OpenHook == [NoHook EXCEPT !.open = TRUE, !.loop = "serve"]

\* The post-up command connects, one at a time; "bad" is one that is killed or
\* silent before its token is complete (readStartupNotification).
Notify ==
  /\ child.pc = "running" /\ command.for = "core"
  /\ hooks[launches].open /\ hooks[launches].loop = "serve"
  /\ hooks[launches].next = "none"
  /\ notices < MaxNotices /\ notices' = notices + 1
  /\ \/ /\ hooks' = [hooks EXCEPT ![launches].next = "ready"]
        /\ faults' = faults
     \/ /\ hooks' = [hooks EXCEPT ![launches].next = "bad"]
        /\ Fault(1)
  /\ UNCHANGED <<child, dirs, damage, service, pc, launch, probe, command,
                 held, stuck, launches>>

\* The goroutine gets a message: the first goes to the launch, later ones to
\* the channel of notifications while it has room.  What the goroutine leaves
\* in the channels of a closed hook nobody reads.
Delivered(h, message) ==
  [h EXCEPT !.delivered = TRUE,
            !.first = IF h.delivered THEN @ ELSE message,
            !.notes = IF h.delivered /\ message = "ready" /\ @ < NotifyCap
                      THEN @ + 1 ELSE @]

\* The listener is closed; its goroutine may still be there, and a message in
\* the channel of the launch.
Closed(h) == [NoHook EXCEPT !.loop = h.loop, !.first = h.first]

\* Mutant: the first message is sent without asking whether it was before; the
\* goroutine then waits for room in a channel that is read only once.
ServeBlocking(n) ==
  /\ hooks[n].loop = "serve" /\ hooks[n].first = "none"
  /\ \/ /\ hooks[n].open /\ hooks[n].next # "none"
        /\ hooks' = [hooks EXCEPT ![n] = [@ EXCEPT
             !.next = "none", !.first = hooks[n].next]]
     \/ /\ ~hooks[n].open
        /\ hooks' = [hooks EXCEPT ![n] = NoHook]
  /\ UNCHANGED <<sandboxVars, service, pc, launch, probe, command, held, stuck,
                 launches, notices>>

\* One round of the goroutine: the next connection, or the error of a closed
\* listener, which ends it.
Serve(n) ==
  /\ hooks[n].loop = "serve"
  /\ \/ /\ hooks[n].open /\ hooks[n].next # "none"
        /\ hooks' = [hooks EXCEPT ![n] =
             Delivered([@ EXCEPT !.next = "none"], hooks[n].next)]
     \/ /\ ~hooks[n].open
        /\ hooks' = [hooks EXCEPT ![n] = NoHook]
  /\ UNCHANGED <<sandboxVars, service, pc, launch, probe, command, held, stuck,
                 launches, notices>>

\* Accepting a connection fails, which ends the goroutine too; the launch gets
\* the error unless it has got a message.
AcceptFails(n) ==
  /\ hooks[n].loop = "serve" /\ hooks[n].open /\ Fault(1)
  /\ hooks' = [hooks EXCEPT ![n] =
       [Delivered(@, "bad") EXCEPT !.next = "none", !.loop = "none"]]
  /\ UNCHANGED <<child, dirs, damage, service, pc, launch, probe, command,
                 held, stuck, launches, notices>>

\* monitorStartupNotifications takes one.
TakeNote ==
  /\ pc = "running" /\ hooks[launches].notes > 0
  /\ hooks' = [hooks EXCEPT ![launches].notes = @ - 1]
  /\ UNCHANGED <<sandboxVars, service, pc, launch, probe, command, held, stuck,
                 launches, notices>>

----------------------------------------------------------------------------
\* prepareLaunchSession.

Launch(session) ==
  /\ pc = "idle" /\ launches < MaxLaunches
  /\ pc' = "hook" /\ launches' = launches + 1 /\ launch' = session
  /\ UNCHANGED <<sandboxVars, service, probe, command, held, hooks, stuck, notices>>

\* cleanupStaleStartupNotifyDirs: those whose owner is gone.
StaleNotify == {d \in dirs : d.kind = "notify" /\ d.owner # service}

\* The sweep leaves those in kept, because it cannot list or remove them, or
\* another process has the number of their owner.
SweepsNotify(kept, made, k) ==
  /\ dirs' = (dirs \ (StaleNotify \ kept)) \cup made
  /\ Fault(k + (IF kept = {} THEN 0 ELSE 1))

\* createNativeStartupHook; when it fails it removes its own directory, and
\* whether it can is not looked at.
CreateHook ==
  /\ pc = "hook"
  /\ \E kept \in SUBSET StaleNotify :
       \/ /\ pc' = "endpoint"
          /\ SweepsNotify(kept, {Dir("notify")}, 0)
          /\ held' = <<Dir("notify")>>
          /\ hooks' = [hooks EXCEPT ![launches] = OpenHook]
          /\ stuck' = (stuck \ StaleNotify) \cup kept
          /\ launch' = launch
       \/ /\ pc' = "idle" /\ launch' = None
          /\ \E left \in SUBSET {Dir("notify")} :
               /\ SweepsNotify(kept, left, 1 + Cardinality(left))
               /\ stuck' = (stuck \ StaleNotify) \cup kept \cup left
          /\ UNCHANGED <<held, hooks>>
  /\ UNCHANGED <<child, damage, service, probe, command, launches, notices>>

\* configureManagedController, which removes its directory when it fails.
CreateEndpoint ==
  /\ pc = "endpoint"
  /\ \/ /\ pc' = "session" /\ faults' = faults
        /\ dirs' = dirs \cup {Dir("controller")}
        /\ held' = Append(held, Dir("controller"))
        /\ stuck' = stuck
     \/ /\ pc' = "unwind" /\ held' = held
        /\ \E left \in SUBSET {Dir("controller")} :
             /\ Fault(1 + Cardinality(left))
             /\ dirs' = dirs \cup left /\ stuck' = stuck \cup left
  /\ UNCHANGED <<child, damage, service, launch, probe, command, hooks,
                 launches, notices>>

\* Mutant: a failure returns without undoing the hook and the endpoint.
ResolveSessionForgets ==
  /\ pc = "session"
  /\ \/ pc' = "command" /\ UNCHANGED <<faults, held>>
     \/ Fault(1) /\ pc' = "idle" /\ held' = <<>>
  /\ UNCHANGED <<child, dirs, damage, service, launch, probe, command,
                 hooks, stuck, launches, notices>>

\* CurrentCPUAffinity and resolveLaunchWorkingDir
ResolveSession ==
  /\ pc = "session"
  /\ (pc' = "command" /\ faults' = faults) \/ (Fault(1) /\ pc' = "unwind")
  /\ UNCHANGED <<child, dirs, damage, service, launch, probe, command,
                 held, hooks, stuck, launches, notices>>

----------------------------------------------------------------------------
\* The launchers.

\* linuxDirectLauncher: the core itself, or the helper without a root when
\* CPUs are given, whose pipe or file may fail.  Before it k calls failed.
CommandDirect(k) ==
  \/ /\ command' = [NoCommand EXCEPT !.kind = IF launch.cpus THEN "helper"
                                              ELSE "core"]
     /\ pc' = "start" /\ Fault(k)
  \/ /\ launch.cpus /\ Fault(k + 1)
     /\ pc' = "unwind" /\ command' = NoCommand

\* cleanupStaleLinuxSandboxRoots; what cannot be unmounted or removed stays.
StaleRoots == {d \in dirs : d.kind \in {"root", "probe"} /\ d.owner # service}

Root(purpose) == Dir(IF purpose = "probe" THEN "probe" ELSE "root")

\* NewCommand with a root of its own.
CommandSandbox(purpose) ==
  \E kept \in SUBSET StaleRoots :
    /\ dirs' = (dirs \ (StaleRoots \ kept)) \cup {Root(purpose)}
    /\ stuck' = (stuck \ StaleRoots) \cup kept
    /\ Fault(Cardinality(kept))
    /\ command' = [kind |-> "sandbox", root |-> Root(purpose),
                   fallback |-> launch.mode = "auto", for |-> purpose]
    /\ pc' = "start"

\* NewCommand fails, before it removed the stale roots or after it removed
\* those it could; left: its own root, if it cannot remove it again.
CommandFails(left) ==
  \E swept \in SUBSET StaleRoots :
    /\ dirs' = (dirs \ swept) \cup left
    /\ stuck' = (stuck \ swept) \cup left

\* newCoreLauncher and Command.  Probe runs once per service; an error of
\* NewCommand makes "auto" fall back, unless it is about the configuration.
Command ==
  /\ pc = "command"
  /\ \/ /\ launch.mode = "direct" \/ (launch.mode = "auto" /\ probe = "failed")
        /\ CommandDirect(0)
        /\ UNCHANGED <<dirs, stuck, probe>>
     \/ /\ launch.mode = "sandbox" \/ (launch.mode = "auto" /\ probe = "ok")
        /\ CommandSandbox("core")
        /\ UNCHANGED probe
     \/ /\ launch.mode = "auto" /\ probe = "unknown"
        /\ CommandSandbox("probe")
        /\ UNCHANGED probe
     \/ /\ launch.mode = "auto" /\ probe = "unknown"
        /\ \E left \in SUBSET {Root("probe")} :
             CommandFails(left) /\ Fault(1 + Cardinality(left))
        /\ probe' = "failed"
        /\ UNCHANGED <<command, pc>>
     \/ /\ launch.mode = "sandbox" \/ (launch.mode = "auto" /\ probe = "ok")
        /\ \E left \in SUBSET {Root("core")} :
             CommandFails(left) /\ Fault(1 + Cardinality(left))
        /\ pc' = "unwind"
        /\ UNCHANGED <<probe, command>>
     \/ /\ launch.mode = "auto" /\ probe = "ok"
        /\ \E left \in SUBSET {Root("core")} :
             CommandFails(left) /\ CommandDirect(1 + Cardinality(left))
        /\ UNCHANGED probe
  /\ UNCHANGED <<child, damage, service, launch, held, hooks, launches, notices>>

\* startAttempt, first half.
Start ==
  /\ pc = "start"
  /\ \/ /\ pc' = "await" /\ faults' = faults
        /\ child' = [NoChild EXCEPT
             !.pc = IF command.kind = "core" THEN "running" ELSE "decode",
             !.conf = IF command.for = "probe" THEN ProbeConfig ELSE launch.conf,
             !.root = command.root]
     \/ Fault(1) /\ pc' = "start failed" /\ child' = child
  /\ UNCHANGED <<dirs, damage, service, launch, probe, command, held,
                 hooks, stuck, launches, notices>>

Killed == [NoChild EXCEPT !.pc = "dead", !.root = child.root]
Silent == {"running", "exited", "dead"}

\* startAttempt, second half: AwaitExec, whose pipe closes without a message
\* when the helper executes the core and also when it is killed, and
\* SetCPUAffinity.  The 15 seconds may run out at any time.  A failure kills
\* the process and waits for it.
Await ==
  /\ pc = "await"
  /\ \/ /\ child.pc \in Silent
        /\ pc' = IF command.for = "probe" THEN "probe exit" ELSE "wait"
        /\ UNCHANGED <<child, faults>>
     \/ /\ child.pc = "failed"
        /\ pc' = "start failed" /\ child' = Killed /\ UNCHANGED faults
     \/ /\ child.pc \notin Silent \cup {"failed"}
        /\ pc' = "start failed" /\ child' = Killed /\ UNCHANGED faults
     \/ /\ child.pc \in Silent /\ command.for = "core"
        /\ Fault(1) /\ pc' = "start failed" /\ child' = Killed
  /\ UNCHANGED <<dirs, damage, service, launch, probe, command, held,
                 hooks, stuck, launches, notices>>

\* cleanupLinuxSandboxRoot in the service: the root's self-bind, where the
\* host sees it, and the directory.
CleanRoot ==
  \/ dirs' = dirs \ {command.root} /\ UNCHANGED <<stuck, faults>>
  \/ /\ command.root \in dirs /\ Fault(1)
     /\ stuck' = stuck \cup {command.root} /\ UNCHANGED dirs

\* The end of Probe: the result is kept, and with it an error of the cleanup.
ProbeEnds ==
  /\ command.for = "probe"
  /\ pc = "start failed" \/ (pc = "probe exit" /\ child.pc # "running")
  /\ CleanRoot
  /\ probe' = IF child.pc = "exited" /\ stuck' = stuck THEN "ok" ELSE "failed"
  /\ pc' = "command" /\ command' = NoCommand /\ child' = NoChild
  /\ UNCHANGED <<damage, service, launch, held, hooks, launches, notices>>

\* coreCommand.start after a failed attempt: its cleanup, then the fallback.
StartFailed ==
  /\ pc = "start failed" /\ command.for = "core"
  /\ \/ /\ command.root # None /\ CleanRoot
        /\ command' = [command EXCEPT !.root = None] /\ UNCHANGED pc
     \/ /\ command.root = None /\ command.fallback /\ CommandDirect(0)
        /\ UNCHANGED <<dirs, stuck>>
     \/ /\ command.root = None /\ ~command.fallback /\ pc' = "unwind"
        /\ UNCHANGED <<dirs, stuck, command, faults>>
  /\ child' = NoChild
  /\ UNCHANGED <<damage, service, launch, probe, held, hooks, launches, notices>>

----------------------------------------------------------------------------
\* waitForStartup and hardenLaunchControllerEndpoint: the first notification
\* decides; otherwise a fatal line, the end of the process or 30 seconds.
WaitForStartup ==
  /\ pc = "wait"
  /\ \/ /\ hooks[launches].first # "none"
        /\ pc' \in IF hooks[launches].first = "ready" THEN {"running", "unwind"}
                   ELSE {"unwind"}
        /\ hooks' = [hooks EXCEPT ![launches].first = "none"]
     \/ pc' = "unwind" /\ UNCHANGED hooks
  /\ child' = IF pc' = "unwind" THEN Killed ELSE child
  /\ UNCHANGED <<dirs, damage, faults, service, launch, probe, command,
                 held, stuck, launches, notices>>

\* A stop, or the exit of the core: stopProcessLocked, cleanupLocked.  (That
\* stopping a core may time out is in CoreManager.)
Stop ==
  /\ pc = "running" /\ pc' = "unwind" /\ child' = Killed
  /\ UNCHANGED <<dirs, damage, faults, service, launch, probe, command,
                 held, hooks, stuck, launches, notices>>

\* launchSession.cleanupNow: the command's cleanup, the controller's
\* directory, the listener and its directory, whichever of them there are.
\* That a directory cannot be removed is not noticed.
Unwind ==
  /\ pc = "unwind"
  /\ \/ /\ command.root # None /\ CleanRoot
        /\ command' = [command EXCEPT !.root = None]
        /\ UNCHANGED <<pc, child, launch, held, hooks, notices>>
     \/ /\ command.root = None /\ held # <<>>
        /\ held' = Front(held)
        /\ \/ dirs' = dirs \ {Last(held)} /\ UNCHANGED <<stuck, faults>>
           \/ Fault(1) /\ stuck' = stuck \cup {Last(held)} /\ UNCHANGED dirs
        /\ hooks' = IF Last(held).kind = "notify"
                    THEN [hooks EXCEPT ![launches] = Closed(@)] ELSE hooks
        /\ UNCHANGED <<pc, child, launch, command, notices>>
     \/ /\ command.root = None /\ held = <<>>
        /\ pc' = "idle" /\ child' = NoChild /\ command' = NoCommand
        /\ launch' = None /\ notices' = 0
        /\ UNCHANGED <<dirs, held, hooks, stuck, faults>>
  /\ UNCHANGED <<damage, service, probe, launches>>

----------------------------------------------------------------------------
\* The process ends by itself, the core or the probe's "--help", or something
\* kills it.
ChildExits ==
  /\ child.pc = "running" /\ child' = [Killed EXCEPT !.pc = "exited"]
  /\ UNCHANGED <<dirs, damage, faults, sessionVars>>

ChildKilled ==
  /\ child.pc \notin {"none", "failed", "exited", "dead"}
  /\ Fault(1) /\ child' = Killed
  /\ UNCHANGED <<dirs, damage, sessionVars>>

\* The service is killed and another one starts.
ServiceDies ==
  /\ service < MaxServices /\ service' = service + 1
  /\ pc' = "idle" /\ probe' = "unknown" /\ command' = NoCommand
  /\ launch' = None /\ held' = <<>> /\ child' = NoChild
  /\ hooks' = [n \in DOMAIN hooks |-> NoHook]
  /\ notices' = 0
  /\ UNCHANGED <<dirs, damage, faults, stuck, launches>>

Init ==
  /\ child = NoChild /\ dirs = {} /\ damage = FALSE /\ faults = 0
  /\ service = 1 /\ pc = "idle" /\ probe = "unknown" /\ command = NoCommand
  /\ launch = None /\ held = <<>> /\ stuck = {}
  /\ hooks = [n \in 1..MaxLaunches |-> NoHook]
  /\ launches = 0 /\ notices = 0

LaunchStep ==
  \/ CreateHook \/ CreateEndpoint \/ ResolveSession \/ Command \/ Start \/ Await
  \/ ProbeEnds \/ StartFailed \/ WaitForStartup \/ Unwind

Next ==
  \/ \E session \in Sessions : Launch(session)
  \/ LaunchStep \/ Stop \/ TakeNote \/ Notify
  \/ \E n \in 1..MaxLaunches : Serve(n) \/ AcceptFails(n)
  \/ Helper /\ UNCHANGED sessionVars
  \/ ChildExits \/ ChildKilled \/ ServiceDies

\* The service goes on with a launch (its waits have timers), the goroutines
\* run, and the probe's "--help" ends.  Nothing is assumed of the helper or of
\* the core.
Fairness ==
  /\ WF_vars(LaunchStep)
  /\ \A n \in 1..MaxLaunches : WF_vars(Serve(n))
  /\ WF_vars(pc = "probe exit" /\ ChildExits)

Spec == Init /\ [][Next]_vars /\ Fairness

----------------------------------------------------------------------------
\* Every variable has its type.
TypeOK ==
  /\ dirs \subseteq Dirs /\ stuck \subseteq Dirs
  /\ ToSet(held) \subseteq Dirs
  /\ probe \in {"unknown", "ok", "failed"}
  /\ launch \in Sessions \cup {None}
  /\ {command.root, child.root} \subseteq Dirs \cup {None}
  /\ \A n \in 1..MaxLaunches :
       hooks[n].notes \in 0..NotifyCap /\ hooks[n].next \in {"none", "ready", "bad"}
  /\ faults \in 0..MaxFaults

\* The directories of the running service are those that its launch will
\* remove, and the ones it could not unmount or remove; nothing it needs was
\* swept away; and a launch that has a hook or a root of its own has removed
\* the notify directories or the roots of every service before, those it could.
Accounted ==
  LET root == IF command.root = None THEN {} ELSE {command.root}
  IN /\ TypeOK
     /\ {d \in dirs : d.owner = service} \subseteq ToSet(held) \cup root \cup stuck
     /\ ToSet(held) \subseteq dirs
     /\ pc = "idle" => held = <<>> /\ root = {}
     /\ child.pc = "running" /\ child.root # None => child.root \in dirs
     /\ held # <<>> => StaleNotify \subseteq stuck
     /\ root # {} => StaleRoots \subseteq stuck

\* A launch ends in a running core or in an idle manager, although the helper
\* may hang and the core may never report, and the goroutine of a hook ends
\* once its listener is closed.
Settles ==
  /\ pc \notin {"idle", "running"} ~> pc \in {"idle", "running"}
  /\ \A n \in 1..MaxLaunches :
       hooks[n].loop = "serve" /\ ~hooks[n].open ~> hooks[n].loop = "none"
============================================================================
