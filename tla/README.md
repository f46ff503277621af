# Verification of sparkle-service

TLA+ models of [sparkle-service](../src/README.md), the background service that runs a
proxy core (mihomo), the system proxy setting and a LAN gateway behind a signed HTTP API.
The modules are translated from the Go source; `PROJECT.json` maps every definition to the
lines it stands for.

## 1. Inventory

| component | source | state it keeps | operations | what is hard |
| --- | --- | --- | --- | --- |
| core manager | `core/manager*.go` | `isRunning`, `monitoring`, `pid`, `pidPolling` (atomics), `stopChan`, `cmd`, `controller`, `launch`, `restartAttempts` (mutex) | start, stop, restart, takeover, crash handler, restart goroutine, `monitorProcess`, `monitorPID`, `monitorStartupNotifications` | long critical sections, goroutines of old launches that act on the current one, delayed restarts |
| state files | `core/runtime_state.go`, `desired_state.go`, `state_file.go` | `runtime.json`, `desired_state.json` | write, remove, reconcile and restore at boot | the service dies between any two steps |
| process controllers | `core/process/process_control_*.go` | a job object (Windows), nothing (Unix) | attach, pids, stop, close | stopping times out; the no-op controller owns nothing |
| authentication | `route/auth/middleware.go` | the nonce store | check, remember, evict | concurrent requests with stale clock readings |
| key ring | `route/auth/auth.go`, `cmd/cmd_service.go` | current and previous key, authorized principal, their files | load, set, verify; `service init` | failed and truncated saves, legacy files, a service that has read older files |
| system proxy guard | `route/sysproxyapi` | generation, cancel function, mutation lock | set, disable, guard start, stop, restore | lock order, watches, superseded guards |
| event hubs | `core/events.go`, `sysproxy_events.go` | subscribers, last event, sequence | publish, subscribe, unsubscribe, the WebSocket handlers | bounded channels, the greeting, publishing outside the manager's mutex |
| LAN gateway | `route/lanternapi` | gateway, forwarding snapshot, devices | start, configure, stop, probe | rollback of half-done changes |
| core log | `core/log_writer.go` | file handle, path, limit, closed | write, trim, update, close | failures in the middle of a trim, output after the close |
| log watchers | `core/manager_logs.go` | line buffers, `reported`, `active` | write (two goroutines), stop | lines cut anywhere, a stop during a write, a send under a mutex |
| launch profile | `core/launch.go`, `coreapi/core.go` | `launch_profile.json`, the profile of the launch | load, patch, save, apply | load, patch and save without a lock, failed and repeated application |
| CPU binding | `core/process/process_affinity_linux.go`, `process_cgroup_linux.go` | cgroup per core | bind, change, clear | threads created meanwhile, half-done changes |
| launch session and startup hook | `core/launch.go`, `startup_notify*.go` | temporary directories, cleanups, hook goroutine and channels | prepare, start, await, notify, unwind | failure between any two steps, timeouts, leftovers of a killed service |
| launchers and sandbox | `core/launcher*.go`, `core/sandbox` | the probe's result, roots | choose, probe, fall back, mount, execute, clean up | mounts hide one another, removal over mounted host directories |
| hardening | `core/security`, `core/file_access*.go` | none | check ownership and permissions | system calls |
| server and installation | `route/server.go`, `service`, `cmd` | listeners | boot, shutdown, install | order at boot and shutdown |
| transport | `listen`, `route/httphelper`, `route/pipectx` | connections | framing, contexts | byte level |

HTTP handlers call the core manager and the guard directly; the manager owns the core
process through a controller, publishes on the event hub, and writes the two state files
that `Start` of `route/server.go` reads at the next boot.

What makes them correct: the manager's fields agree whenever nobody is inside a critical
section; a running core is owned by a controller, watched by a goroutine and described by
both files; a crash is recovered from or reported; a nonce is not accepted twice inside
its lifetime; the newest request decides the system proxy, and one guard at most acts; a
subscriber is told events once and in order; the gateway leaves the kernel settings as it
found them; the service serves the keys and the identity that were last given to it; the log
stays within its limit and keeps the newest output; file, launch and threads agree on the
profile; a sandbox is what its configuration says, and no launch leaves anything behind or
harms the host's files.

## 2. Modules

| module | models | proofs | TLC instances |
| --- | --- | --- | --- |
| `CoreManager` | core manager, state files, controllers, boot | `CoreManagerProofs` | `MCCoreManager` |
| `NonceStore` | Auth V2 check and nonce store | `AuthProofs` | `MCNonceStore` |
| `SysproxyGuard` | system proxy handlers, guard, watches | `SysproxyGuardProofs` | `MCSysproxyGuard` |
| `EventFeed` | abstract: what a hub promises to a subscriber | | |
| `EventHub` | both event hubs, their publishers and WebSocket handlers; implements `EventFeed` | `EventHubProofs` | `MCEventHub` |
| `Lantern` | gateway manager and forwarding snapshots | `LanternProofs` | `MCLantern` |
| `KeyRing` | key manager, its files, `service init`, the service's boot | `AuthProofs` | `MCKeyRing` |
| `LogWriter` | the bounded log of the core | `CoreLogProofs` | `MCLogWriter` |
| `LogWatchers` | startup and event watchers and the goroutines that feed them | `CoreLogProofs` | `MCLogWatchers` |
| `LaunchProfile` | profile requests, the profile of the launch, CPU binding | `LaunchProfileProofs` | `MCLaunchProfile` |
| `Sandbox` | the helper that builds the sandbox and executes the core | `LaunchSessionProofs` | |
| `LaunchSession` | launch, launchers, startup hook, unwinding; composed with `Sandbox` | `LaunchSessionProofs` | `MCLaunchSession` |

`NonceStore` and `KeyRing`, and `LogWriter` and `LogWatchers`, share a module of proofs and
name the formulas of a specification apart: `NonceSpec` and `Spec` are those of the first pair,
`Spec` and `WatchSpec` those of the second.

### CoreManager

Fields of the Go struct are variables of the same name (`cmd` is the pid the command was
started with; `launch` stands for `launch` and `controller`, which the code sets and
clears together). `proc` and `job` are the operating system: the state of every process
and the launch it belongs to. The mutex is the variable `lock`: a critical section nobody
can observe half-way is one action; start and stop, which other goroutines look into
through the atomics and which last for seconds, are split into the phases `launch`
(before the process exists), `startup` (waiting for readiness), `persist` (before
`desired_state.json` is written), `kill` and `cleanup`. `lock.by` is the restart goroutine
that holds it, `lock.then` says whether a start follows (restart).

Goroutines are program counters in `pc`, their local variables are in `cap`:
`Mon(p)` is `monitorProcess` of the core started as `p`, `Poller` is `monitorPID`
(`pidPolling` is `pc[Poller] # "off"`), `Ntf(p)` is `monitorStartupNotifications`.
`look`, `again`, `scan`, `adopt`, `stat`, `write` and `handle` are the steps of
`takeoverRestartedProcess`, `writeRuntimeRecord` and `handleProcessExit`, which all of
them run. A restart goroutine is the number of its crash; `retry` counts its attempts.

`JobController` selects the platform: a job object (Windows), where closing the controller
kills the job and a self-restarting core can be taken over, or the no-op controller of the
other systems. `StopCanFail` lets `Controller.Stop` time out. `DieWithService` says whether
the core dies with the service. `ServiceDies` clears everything but processes and files at
any moment; `ReconcileRuntimeState` and `RestoreDesiredState` are the next boot.
`ForgetRecord` is the boot that does not recognise a live core: the start time or the
executable cannot be read, or the executable, whose links the system has resolved, is not the
path in the record. `survivors` and `unidentified` are history variables.

A core is started and attached to its job object in one step, `Launch`. The one thing that can
be told from two is the death of the service in between (`manager_start.go:59-70`), which
`ServiceDies` has as a case of its own: a core in no job, which survives.

Left out: the content of the profile, events and logs, CPU affinity, failing reads, writes and
removals of the state files, and reuse of a pid by another program (`ReconcileRuntimeState`
compares the start time). `startupNotify` is a flag per launch.

### NonceStore

`Arrive` is `authenticateV2` up to the timestamp check, `Refuse` every failure between it
and `Remember`, `Remember` the rest, with the clock reading of `Arrive`. `seen` and `order`
are the fields of `nonceStore`. `high`, `accepted` and `last` are history variables the
properties need. Time is an integer; `MaxDelay` bounds how long a request is verified.

### SysproxyGuard

A request goes through `new`, `stopped` (generation bumped, cancel function in hand),
`lock` (waits for `sysproxyMutationMu`), `configure` (setting written, lock held), `start`
or `finish`, `done`. Its guard has the same name and a control state per step of
`sysproxyGuardState.run`; `watch` is its current `WaitChangeReady` call. sysproxy-go is
external: a write makes the setting the value asked for and wakes the watches that listen.
`settled` and `owner` are history variables.

### EventFeed and EventHub

`EventFeed` is the promise: one event from before a subscriber joined at most, then events
published since, each once and in order; events may be missing. `EventHub` is the code:
an event is made with the status of that moment (`Make`), waits in `pub` for the hub's
mutex, and is numbered and sent to every channel with room under it (`publishCoreEvent`,
`publishSysproxyGuardEvent`). `LateStatus` is the second look at the status that
`publishCoreEvent` takes just before that mutex. `Subscribe` registers the channel and
reads the last event; `Greet` sends it after the mutex was released. `Take`, `WriteEvent`,
`WriteFails` and `Leave` are the handler loop, `Hangup` is the client.

`hub` says which of the two hubs it is and never changes. For the core, `mgr` abstracts the
manager to the places where it emits events under its mutex, the publisher `Owner`; the
other publishers are its goroutines. For the guard, a publisher changes the status and
publishes afterwards. `base`, `view` and `told` are history variables.

### Lantern

`op` is what the holder of `manager.mu` does next: `start` is `Start`, `StopController`,
`Look`, `RestoreUpdate`, `RestoreForwarding`, `StopReturns`, `Prepare` (or `PrepareFails`,
`Unprepared`), `Reread`, `Undo`, `Launch`; `configure` is `Configure`, the steps of
`prepareForwarding` if they are needed, and `Reconfigured`. A snapshot is a function from the
settings it covers to the value before and the value written.

`prepareForwarding` and `restore` go over the settings in separate passes: they look at all of
them, then write; after a failed write `prepareForwarding` of Linux looks at all of them once
more. Each pass is a step (`op.seen` is what the first one saw), between two of which other
programs may change a setting (`Foreign`) and the controller may end. A pass has one outcome for
every choice of reads or writes that fail. macOS reads and writes setting by setting; what comes
in between there comes between the two passes here. Writing the value for all IPv6 interfaces
changes every interface, as in the Linux kernel. `linux` is the platform and never changes:
`forwarding_linux.go` and `forwarding_darwin.go` differ in what a snapshot covers, what a failed
restore keeps, and in commands that take effect although they are reported as failed.

`send_redirects` and `accept_ra` are handled like the IPv4 setting and left out, but writing them
may fail; interfaces do not vanish. The error of a stop is kept only for a start, the one caller
in which it decides what follows. `touched`, `foreign` and `lost` are history variables.

### KeyRing

A command `service init` is a process with a `KeyManager` of its own (`mem[c]`) and a
control state: `load`, `principal`, `set`, `save`, `saving` (file truncated), `bind`,
`bound`, `binding` (file truncated), `query`, `restart`. It fails or is killed at any of
them. The service reads the keys, then the identity (`boot`, `bind`, `up`) and never
again. `pem` is the key file of earlier versions. Commands may overlap; what two writers of
one file leave may be garbage (`Overwritten`). `Accepts` is `AuthMiddleware` without the
nonce. `known`, `rotations`, `torn`, `interrupted` and `overlapped` are history variables.

### LogWriter

Every operation holds the writer's mutex and is one action. `Trim`, `EnforceLimit`, `EnsureOpen`,
`Reopen` and `WriteChunk` map a state to the set of its outcomes, one for each system call
that may fail and for each prefix that a failing write may leave; `Becomes` picks one. The
text is a sequence of bytes, since trimming cuts behind a line feed. `appended` (all that was
written to a file) and `failed` are history variables. A write to the log that is cut short
while trimming starts a new `appended`: what it had kept is lost, which the code cannot avoid.

### LogWatchers

`copier` are the two goroutines of os/exec with the chunk they carry through the
`MultiWriter`; the mutexes make `StartupWrite` and `EventWrite` single steps, but the first
look at `active` (`EventCheck`) and the three steps of `Stop` are separate. A line matches
when it holds the letters `xy`, so that a chunk can end within a match and the limit of the
line buffer can cut one.

### LaunchProfile

A request goes through `load`, `save`, `reload` and `manage`, each a step without a lock
except the last, which waits for the manager's mutex. `call` is a running `SetCPUAffinity`,
during which the core may create threads (`Spawn`). The kernel is external: a thread inherits
the binding of its creator, and a core that enters a cpuset, or whose cpuset changes, gets its
CPUs (kernels from 6.2 on intersect them with a binding a thread was given before, which this
model does not distinguish). Of the profile's fields `core`, `mode`, `cpu` and `log` stand for
the required path, what may be refused, and the two groups of fields applied to a running
core.

`record` and `desired` are the profiles in `runtime.json` and `desired_state.json`. A start writes
both (`Recorded`), a profile request neither. `ServiceDies` may come at any step and leaves the
files, and the core or not; the next boot is `Adopt`, with the profile of the record, or
`Restore`, with that of the desired state, or `RestoreNothing`. A service that adopted a core
which is in a cgroup of its own takes that group for the one to return to (`cgroup.own`). That a
takeover writes the record again, with the profile of the launch, is left out, as is a
thread that ends between the listing and its binding.

`loose`, `apart`, `alone`, `stale` and `unsaved` are history variables; `call.met` says after
which lists of threads the core created one. `loose` says that a thread of the core may have
another binding than the launch asks for. It has four cases: the last call failed, or the service
died, half-way; the core created a thread after each of the lists of threads was read; the cpuset
that the core's group already had was written again (which the kernel does not pass on) after
the threads had been bound one by one inside that group (`apart`), because an early step of
`setCPUCgroup` had failed once; the service adopted a core whose CPUs a profile request had
changed after they were recorded.

### Sandbox and LaunchSession

`child` is the process that the service starts: `decode`, `bind`, `private`, `layout`, `mount`,
`chroot`, `exec` are the steps of `runReexec` and `prepareRoot`, then it is the `running` core.
`child.table` is its mount table, in which a lookup ends in the last mount that covers the path
and a lazy unmount takes along what is mounted below; these rules, and that `RemoveAll` follows
a writable mapping, are external. Paths are taken to be free of symbolic links: the helper
mounts before it changes its root, so that the host resolves a target, and an absolute link in
a mapped directory would lead a later mount out of the root. `sandboxMounts` and
`compactSandboxMounts` are the plan as the code computes it.

`pc` of `LaunchSession` is where `startProcessLocked` is; `held` are the directories that
its cleanup will remove. `hooks` has the listener, the goroutine and both channels of every
launch's startup hook: a goroutine outlives its launch until it sees the closed listener or
`Accept` fails for another reason (`AcceptFails`). Every removal and every sweep may fail, the
sweeps also because another process has the number of the dead owner; `stuck` are the directories
that could not be unmounted or removed. The host sees the self-bind of a root or not, depending on
the propagation of the temporary directory: that the service's unmount may fail stands for it.
`ServiceDies` keeps only the temporary directory. A process that is stopped is gone here; that
stopping may time out is in `CoreManager`. Both modules count failing system calls
in `faults`.

## 3. Runs

All runs but `watchers` set `CHECK_DEADLOCK FALSE`: processes, requests and time are bounded,
and a service without requests has nothing to do. `watchers` may only stop when the output has
ended, every goroutine reads and the cleanup is over.

| run | instance | shows |
| --- | --- | --- |
| `core_unix` | no job object, stops may time out, fair scheduling; 3 processes, 2 recoveries of 2 attempts, 3 requests | `Coherent`, `Tracked`, `DesiredCovers` hold through start, stop, restart, crash and recovery in any interleaving; `Recovery`, `HandlersEnd` |
| `core_job` | job object; 3 processes, 1 recovery, 1 request, 1 death of the service | `NoOrphan`: no core that was attached is ever outside the controller, self-restarts and takeovers included |
| `core_boot` | the core survives the service, which dies twice; the boot recognises it or not | the next boot adopts or terminates the core it recognises (`Tracked`), starts none over it (`NoStartOverSurvivor`) and always serves (`BootServes`) |
| `nonce` | 2 keys, 2 handlers, drift 2, delays up to 3, time up to 8 | `ReuseGap`, `OncePerWindow`, `Evicts` |
| `guard` | 2 requests, proxy and PAC, 1 foreign change, every operation may fail, listening before ready, fair scheduling | `LastGuardWrites`, `NoLeakedGuard`, `GuardRestores`, `GuardsEnd` |
| `hub` | both hubs, 1 subscriber, 2 publishers, channels of 2, 4 events, fair scheduling | `FeedRefined`, `NoLoss`, `LeaverRemoved`, `Delivered` |
| `lantern` | both platforms, 2 interfaces, 3 requests (or changes by other programs) and a shutdown, 2 passes that fail (or changes by other programs) | `Restored`, `GatewayForwards`, `NoLateStart` |
| `keyring` | 3 commands, 2 keys, 2 identities, with and without a file of an earlier version | `Healed`, `Enforced`, `Seamless`, `KeysCoherent` |
| `log` | 2 files, limits 5 and 8, 4 chunks of up to 6 bytes, 1 change of the settings, 2 failing operations | `RightFile`, `Bounded`, `TailKept` |
| `watchers` | 2 streams, 4 chunks, a line buffer of 2 letters, fair copying | `EventsOnce`, `FatalSeen`, `OutputDrains` |
| `profile` | 2 handlers, 3 requests, 1 crash of the core or death of the service, 1 failing call, 3 threads, 2 scans, 3 CPUs online and one that is not, with and without cgroups | `BindingFollowsLaunch`, `LaunchIsCurrent`, `PatchKept` |
| `launch` | 4 launches' configurations and modes, 2 launches, 2 services, 2 failing calls (removals, sweeps and the listener included), 2 notifications, fair service | `PlanHolds`, `HostIntact`, `Accounted`, `Settles` |

`Tracked` is `Watched` and `RecordCovers`, `Evicts` is `Evictable` and `NearlySorted`, `NoLoss`
is `Registered` and `NoEarlyLoss`, `Restored` has the parts `TypeOK`, `RestoredAll`,
`ForeignKept` and `UpdatesReachable`, `Enforced` is `Bound` and `Effective`.

Why the bounds are enough: the races found need two launches and one late goroutine, so
three processes leave one to spare; a second crash shows what the exhausted recovery budget
does; two service deaths let the second one hit the boot of the first. For the guard, two
requests are a request and the one that overtakes it. In the nonce store a time of 8 is twice
the lifetime of an entry, so a key is remembered, evicted and met again. A channel of 2
holds the greeting and one event, so that the third is lost and a greeting can find its
channel full; subscribers share only `nextSeq`, `last` and the publishers, and the proof
covers any number. Three requests of the gateway are start, configure and a stop that
fails, which Shutdown then repeats; two failing passes are a failed preparation and its failed
undoing, or two attempts at a restore. Three commands are one that changes, one that fails and
one that repairs, one after the other; two of them may also overlap (`MaxOverlapping`), about
which only properties speak that are proved for any number. Interfaces, keys, identities,
commands, log files and the handlers of `profile` are symmetric; no liveness is checked in
those runs.

The limits 5 and 8 of the log with chunks of 1, 2 and 6 bytes let a single chunk exceed the
limit, a trim find its line feed first, last or not at all, and a second failure hit the
recovery from the first. A line buffer of 2 is as long as a match, so that it keeps a match,
cuts one and is cut by a chunk. Three requests on two handlers are a start and two that
overlap; three threads and two scans (three in the code, any number in the proof) let a thread be
created after each list; one failing call and one death of the service make the other cases of
`loose` happen, and patches to two sets of CPUs, one with a CPU that is offline, let a
call change, repeat and clear the binding. Two failing calls are an error and a
failure of its own undoing, the least that can do damage; two services are one that dies and
one that finds its leftovers. The four configurations have a safe path below a system
directory, a working directory above the core's, a service executable that a mount already
shows, and no isolation at all.

### Known deviations

Things the code does that its documentation or an operator would not expect. The first five
are properties of the modules that the code does not have (the second and `PatchKept` below are
properties without their exception); adding the name to the INVARIANTS of the configuration
makes TLC show how.

* `NoOrphan` in `core_unix.cfg` (`core/manager.go:391`): a core crashes; while its handler is in
  the takeover loop (without the mutex) a client restarts the core; the handler then cleans up,
  without stopping it, the launch that is current by now. On Windows closing the job kills it
  (`core_job`); elsewhere the new core keeps running without an owner, next to the one that the
  restart goroutine starts, although `core/process/process.go:3` says that a controller owns
  the launched core.
* `NoStartOverSurvivor` without `unidentified`, in `core_boot.cfg` (`core/runtime_state.go:73`):
  the record has the core's path as the client gave it, the boot compares it with the path the
  system reports. With a link in the path, or a binary that was replaced meanwhile, the boot
  takes the surviving core for a stranger, drops its record and starts another one next to it.
* `StopIsFinal` in `core_unix.cfg` (`core/manager.go:425`): stop finds an idle manager between the
  cleanup after a crash and the delayed restart, answers success, and the restart goroutine
  starts the core again.
* `DisableIsFinal` in `guard.cfg` (`route/sysproxyapi/sysproxy.go:190`): disable stops the guard
  before it waits for the mutation lock, which a set request holds; that request starts its
  guard; disable then clears the setting and is answered, and the guard restores the proxy.
* `LastTruthful` in `hub.cfg` (`core/manager.go:144`): stopping the core ends with an error; the
  manager has cleaned up, but `stopped` is not emitted, and the last event, which every later
  subscriber is greeted with, says that the core runs. With `Hubs = {sysproxy}` the events of a
  guard's start and stop are numbered the other way round.
* `BindingFollowsLaunch` without `~loose` (`core/manager.go:175`): a change of the CPU set that
  fails half-way leaves the profile of the launch as it was, so a request that sets the old set
  again finds no difference and does not repair the binding. The same holds when the core creates
  a thread after each of the three lists of threads, and when the cpuset of the core's group is
  written again after a transient failure of `setCPUCgroup` had its threads bound one by one: both
  calls succeed. After an adoption the launch has the CPUs that were recorded at the start, and a
  request that names these changes nothing, whatever the threads were bound to meanwhile.
* `LaunchIsCurrent` without `unsaved` (`core/manager.go:168`): a PATCH or POST of the profile is
  saved and applied, but neither `runtime.json` nor `desired_state.json` is written. The next
  service adopts the core with the profile it was started with (`core/runtime_state.go:108`), or
  starts one with that (`core/desired_state.go:83`), while the file and every answer to a GET have
  the new one.
* The CPUs of an adopted core that is in a cgroup of its own cannot be cleared: that group counts
  as the one to return to (`core/process/process_cgroup_linux.go:56`), the core stays confined
  to its cpuset, and the request fails.
* A PATCH that overlaps another request may lose its fields (`core/launch.go:125`): `PatchKept`
  without `alone`.
* The directory of the controller's endpoint (`sparkle-mihomo-controller-*`) of a service that
  was killed is swept by nobody; notify directories and sandbox roots are.
* In the sandbox, the service's executable is opened for writing before it is mounted on. Where
  a mount of its directory already shows it, that fails (read-only, or a running program), so
  the sandbox cannot be used and `auto` always falls back (`core/sandbox/sandbox_linux.go:333`).
* `/` counts as deep as `/usr` when mounts are ordered (`sandbox_linux.go:582`): a core or a
  working directory directly in `/` is mounted over the system directories requested before
  it. `SessionsAssumption` excludes such a configuration.
* An error of the configuration that only the helper finds arrives as text; `auto` cannot tell
  it from an unusable sandbox and falls back, while the same error found by the service ends
  the launch. A helper that is killed closes its pipe without a message, which counts as a
  successful exec; the wait for startup then ends the launch.

### What the passing properties leave out, and why

* `Tracked` is checked without a job object. With one, a takeover that comes before the
  poller of the previous launch has returned finds `pidPolling` set and starts none, and
  nobody watches the successor.
* `FeedRefined` allows an old greeting after newer events: `SubscribeEvents` sends it after
  it released the mutex. `LeaverRemoved` excepts a handler whose greeting found the channel
  full (`Stuck`): it waits for a receiver that does not exist.
* `OncePerWindow` is about requests that bring the latest time the store was given. A
  delayed request may find its nonce evicted at a later time than its own.
* `Restored` excepts `lost`. Another program changes a setting after it was looked at
  (`forwarding_linux.go:77-92`, or `46-50` of a preparation) and before it is written (`96`,
  `61`): its value is overwritten. On Linux the value for all interfaces is written and that of an
  interface is not: a restore that fails so takes the propagated value for another program's when
  it is repeated, and a failed `prepareForwarding` keeps the value it wanted, and so compares with
  the wrong one, where the second look fails (`63-67`).
* `Enforced` excepts `interrupted`: a command ends between its first change and the restart.
  When it is repeated nothing changes, it answers that no restart is needed
  (`cmd/cmd_service.go:343`), and the service still enforces what it had read before.
* `LaunchIsCurrent` and `PatchKept` are about requests that nothing overlaps,
  `LaunchIsCurrent` ends at a boot after a profile request (`unsaved`), and `BindingFollowsLaunch`
  excepts the four cases of `loose`: these are the limits of what the code can promise.
* `HostIntact` is about one failing system call. With two (a mount that can be neither
  finished nor undone) the root is removed over a writable mapping.
* `Accounted` excepts `stuck`: directories that could not be unmounted or removed, those that a
  sweep left because their owner's number is in use again included (`startup_notify_unix.go:100`).
  What a dead service left of controllers' endpoint directories, which nobody sweeps, it does not
  mention.
* `Bounded` allows one chunk more for every operation that failed in the middle of a trim.

## 4. Fairness

`FairSpec` of `CoreManager` assumes weak fairness of each goroutine: the Go scheduler runs
what can run, `sync.Mutex` hands over to waiters (starvation mode), the wait for readiness
and both stages of a stop have timeouts, and the takeover loop a deadline. Leaving
`monitorPID` through its closed channel is strongly fair because `select` chooses among
ready cases at random and each tick offers the choice again. Nothing is assumed of the
core, of clients or of the death of the service. In `SysproxyGuard`, handlers, guards and
watches are weakly fair and waiting for the mutation lock is strongly fair, as is
`ctx.Done` in the guard's selects; foreign changes are not fair. In `EventHub`, publishers
that have made an event and the steps of a handler are weakly fair (a client that has not
closed its connection reads), and `Leave` is strongly fair because `select` is random; clients
and the manager are not fair. In `LogWatchers` the copying goroutines are weakly fair: their
writers never wait for anything but mutexes. In `LaunchSession` the service goes on with a
launch, because each of its waits has a timer (15 s for the helper, 30 s for the startup, 2 s
for the endpoint), and the hook's goroutine runs; of the helper and the core nothing is assumed,
except that the probe's `--help` ends. `NonceStore`, `Lantern`, `KeyRing`, `LogWriter` and
`LaunchProfile` state safety only.

## 5. Proofs

Every theorem holds for all values of the constants that satisfy the named assumptions
(`CoreManagerAssumption`, `NonceAssumption`, `GuardAssumption`, `HubAssumption`,
`KeyRingAssumption`; `LanternAssumption`; `ProfilesAssumption` and `NamesAssumption` of
`LaunchProfile`; `ChunksAssumption`, `SizesAssumption`, `NamesAssumption` and `BoundsAssumption`
of `LogWriter`; `ReadsAssumption` and `LimitsAssumption` of `LogWatchers`; `PathsAssumption` of
`Sandbox`, `SessionsAssumption` and `SessionBounds` of `LaunchSession`): how many processes,
requests, keys, subscribers, commands, interfaces, threads, launches or bytes there are is
irrelevant. A `NoneAssumption` says that the model value for nil is none of the values it stands
beside. All inductive invariants were also checked with TLC on the runs' instances.

* `CoreManagerProofs!TypeCorrect`: `TypeOK` is not inductive, because `AttemptFailed`
  decrements a counter: `RetryHeld` says that a restart goroutine which holds the mutex has
  an attempt left.
* `CoherentAlways`: `Coherent` speaks about a free mutex. `PhaseInv` adds what the fields
  hold in every phase of a critical section, and `FoundInv` that a goroutine about to
  install a successor has found one.
* `JobOwnsEveryCore`: with a job object, `JobInv` (every live process that is in a job is in
  that of the current launch, at every moment) is inductive together with `PhaseInv`: a launch
  ends only by closing its job.
* `TrackedAlways` (without a job object): the no-op controller reports no processes, so no
  goroutine ever installs a successor (`NoTakeover`); `WatchInv` extends `Watched` to the last
  step of a start, and `RecordInv` is `RecordCovers`, which then only steps under the mutex
  change. With a job object `Tracked` does not hold (see above).
* `NeverOverSurvivor` (if stopping does not time out): while the service lives, the only live
  core that `runtime.json` can name is the manager's, and the only recognised core of an earlier
  service that lives is the adopted one (`SurvivorInv`). No goroutine of a launch exists as long
  as that one is held (`AdoptedStep`), so none can end its launch without ending it, and a stop
  leaves the record in place until it is dead. With a job object the theorem follows from
  `JobInv` and `OwnedInv`: what the record names was in a job, so it dies with the service. The
  hypothesis is needed: the boot goes on when terminating the recorded core failed.
* `DesiredAlways` (if the core dies with the service, or the service does not die): `BootInv`
  says that a service which boots finds the recorded core dead. Without the hypothesis a core that was
  started and recorded, but not yet desired when its service died, is adopted by the next one.
* `AuthProofs!NonceTypeCorrect`, `NonceReuse`: `Held` says that an accepted key is
  still in `seen` with its expiry time, or the store was given a later time. Eviction
  removes a key only together with the entry of its last acceptance, so `Held` is kept
  however unordered the times are. `NonceOncePerWindow` adds `Windows`: every clock reading
  in use passed the timestamp check. Two readings in a window of width `2 * Drift` that are
  `2 * Drift` apart are its ends. `NonceEvicts` adds `Fresh`: a request in verification is at
  most `MaxDelay` old and no entry outlives what a request of now would be given, so an entry
  is at most `MaxDelay` before its predecessor.
* `SysproxyGuardProofs!GuardTypeCorrect`, `LastGuardWritesAlways`, `NoLeakedGuardAlways`:
  a generation is current only while the request that settled it is the last one
  (`GenInv`), a guard runs after its request (`RunInv`), the mutation lock has one holder
  (`LockInv`); a cancel function is handed from `current` to `pend` to `cancelled`
  (`PendInv`, `LeakInv`).

* `EventHubProofs!HubTypeCorrect`, `RegisteredAlways`, `FeedRefinedAlways`: the refinement of
  `EventFeed` needs `HubInv`, which says of every subscriber that no number runs ahead of
  the hub (`Numbering`), that new events wait in order behind those already written
  (`InOrder`), and that there is one old event at most, in the channel, in the handler's
  hands or written (`OneGreeting`). `SubInvAppend`, `SubInvGreet`, `SubInvTake` and
  `SubInvWrite` show that what a step does to one channel keeps it; writing an event is then
  `Greet` or `Receive` of `EventFeed`, by its number. `NoLossAlways` is the converse of it:
  `Filled` bounds what a channel holds by the events published since its subscriber joined, plus
  the greeting, and `Kept` says where each of the first `Buffer - 1` is.
* `AuthProofs!KeyTypeCorrect`, `KeysCoherentAlways`, `BoundAlways`: `KeyInv` adds the
  saved copy `undo`, from which a failed save recovers, and that everything in memories,
  files and the arguments of running commands was given by somebody.
  `HealedAlways`, `SeamlessAlways`, `EnforcedAlways`: `SoloInv` says of commands that do not
  overlap what each has in memory and made of the files at its place (`Progress`), where the
  service's current key is while it is being replaced (`Traceable`), and that a service which
  differs from the files is about to be restarted or its command was interrupted
  (`Synchronous`). `Blank` is needed because loading only adds to what is in memory.
* `LanternProofs!RestoredAlways`, `ForwardsAlways`, `NeverLate`: `LanternInv`. Snapshots only
  ever turn forwarding on (`Good`), so the settings are `Sound` when each one that is on and
  should not be was `Raised` by a snapshot the manager or a handler still holds or is in `lost`,
  and none that was on at the start is off in any (`BackInv`). `RestoreSound` and its companions
  show that this survives every outcome of preparing, looking again and restoring, on both
  platforms. `SeenInv` says that between two passes only other programs change the settings, so
  that what a handler saw differs from what there is in `touched` settings only. `OnInv` says that
  forwarding is on for the gateway that runs and for the one about to, and that undoing a
  reconfiguration leaves it on. `OpInv` is what each step under `manager.mu` can rely on.
* `CoreLogProofs!RightFileAlways`, `BoundedAlways`, `TailAlways`: the three properties are
  inductive together (`LogInv`). Each part of an operation keeps `Good` and makes no file longer
  than before (`EnforceFacts`) but for the append, of one chunk (`Outcome`). That a file ends with
  the newest output is kept by an append because a last line that began earlier grows in the file
  as well (`KeptAppend`), and by a trim because it cuts behind a line feed that something follows,
  hence not within the last line (`KeptTrim`). Greatest and least elements of finite sets exist
  by a smallest counterexample under strict inclusion (`Greatest`).
* `CoreLogProofs!EventsOnceAlways`, `FatalSeenAlways`: `WatchInv` adds `Buffers`: a watcher's
  buffer is what `LineBuffer` leaves of everything it was given, however that was cut into
  chunks, and after `Stop` has swapped `active` nothing is taken in. So each step is about one
  text `t` and a chunk `c`. The lines of `t \o c` are those of `t`, the unfinished line of `t`
  continued by the first line of `c`, and the other lines of `c` (`ConcatLines`, by the rank of a
  line feed among the line feeds); the watcher sees the same lines but for the beginning of the
  one it continues, which it has cut to the limit, so a line within the limit is seen whole, and
  what matches in a cut line matches in the whole one (`BufferStep`, `CutConcat`, `CutMatches`).
  `Listed` is `EventsOnce` for a sequence and a text, and extending both keeps it.
  `RoomForReportAlways`: the channel for the fatal line is filled only with `reported`, which is
  never reset; this is the safety behind `OutputDrains`.
* `LaunchSessionProofs!AccountedHolds`: `SessionInv`. `Ownership` says whose each directory is,
  `Progress` what the launch has at each of its places (which of the two directories are in
  `held`, when there is a root, that a living process has the root of its command), `Kept` is
  `Accounted` in these terms; a step that fails to remove a directory puts it into `stuck`. It
  survives the death of the service because the next one starts with another owner number and
  sweeps before it creates anything.
* `PlanHoldsAlways`, `HostIntactAlways`: `Built` says that the mount table of a helper is the
  root's self-bind followed by a first part of the plan, in its order, and `mounted` the targets
  of that part (`Laid`). The plan is sorted by depth and has no target twice, so a later mount
  covers an earlier one's target only if it is the same path, and a lookup of a requested path
  ends in its own mount; merging keeps the writable request. For `HostIntact`, with less than two
  faults one unmount of `prepareRoot`'s cleanup fails at most: if it is not that of the root, the
  root's takes along the mapping that stayed; if it is, the list, worked off from its end, has
  removed every mapping (`CleansListIntact`). `cleanupLinuxSandboxRoot` runs after a fault, so
  all of its own unmounts succeed (`CleansRootIntact`). What recursive functions compute (`Keep`,
  `UnmountAll`, the flattening of the levels) is shown by induction on the index.
* `LaunchProfileProofs!BindingAlways`: `BindInv` says that the threads of a group have its CPUs
  unless they were bound apart (`GroupInv`); that a boot finds the recorded binding
  (`RecordInv`); and during `SetCPUAffinity` (`CallInv`) that after each list of threads that left
  one unbound a new thread was created, and that the threads have the launch's binding as
  long as the call has `touched` none. `CurrentAlways`, `PatchAlways`: `FileInv` follows a request
  that nothing overlapped through its steps (`Sole`) and says that file, launch and pending
  recovery agree unless a request failed or overlapped, and the two state files with them unless
  the file was changed since a start wrote them (`Sync`).

`TypeOK` of these modules, `Registered` and `Bound` are proved and not among the runs' own
properties: the last two are parts of `NoLoss` and `Enforced`.

The library's induction theorems take an operator, which the provers cannot instantiate. Where
a proof needs induction over an index, the statement is made a set of indices: `RangeInduction` in
`LaunchSessionProofs` and `CoreLogProofs` says that a subset of an interval which has its first
element and the successor of each element is the interval; it is proved from the least element of
the complement.

`SessionsAssumption` leaves out configurations in which the root directory itself is requested
other than as a safe path (see the deviation about `/` above): there `PlanHolds` is false or
nothing starts.

Only model-checked are the liveness properties (`Recovery`, `HandlersEnd`, `BootServes`,
`GuardRestores`, `GuardsEnd`, `LeaverRemoved`, `Delivered`, `OutputDrains`, `Settles`), which the
prover does not cover: they need fairness and `ENABLED`. Every other property of the runs,
invariants and action properties alike, is also a theorem. Those about `NoOrphan`, `Tracked`,
`NoStartOverSurvivor` and `DesiredCovers` have the hypotheses on the platform named above, which
the runs' instances satisfy.

## 6. Plan

1. All modules of section 2 (done).
2. Proofs of the safety properties of every module (done).
3. Left: an abstract core service (wanted, running, given up) that `CoreManager` implements with
   a job object; server shutdown order; the transport cache of the controller proxy.

## 7. Not modelled

Named pipe I/O (`listen/namedpipe`, a wrapper over overlapped Windows I/O), HTTP and WebSocket
framing, the controller's reverse proxy, ownership and permission bits, process information,
DNS and CPU lists, logging, service installation and the command line: system calls and byte
formats with no protocol of their own between goroutines. The Windows startup hook, Windows
CPU binding and the text of CPU ranges are left out of components that are otherwise modelled.
