------------------------------- MODULE Lantern -------------------------------
(***************************************************************************)
(* The LAN gateway: route/lanternapi/lantern.go and forwarding_*.go.       *)
(*                                                                         *)
(* Starting the gateway changes kernel settings and remembers what they    *)
(* were; reconfiguring it may change more, each time with a snapshot of    *)
(* its own; stopping restores the snapshots, the last one first, and keeps *)
(* what could not be restored for the next attempt.  Every handler holds   *)
(* manager.mu; other programs change the settings whenever they like and   *)
(* the controller (github.com/UruhaLushia/lantern) may end by itself.      *)
(*                                                                         *)
(* Settings are 0 or 1.  On Linux each interface has its own, and writing  *)
(* net/ipv6/conf/all/forwarding sets the value of every interface.  On     *)
(* macOS there is one setting per protocol.  Interfaces do not vanish.     *)
(*                                                                         *)
(* prepareForwarding and restore look at the settings in one pass and      *)
(* write them in another; a failed prepareForwarding of Linux looks at     *)
(* them once more.  Each pass is one step, and other programs come between.*)
(***************************************************************************)
EXTENDS Integers, Sequences, FiniteSets

CONSTANTS
    Interface,     \* names of network interfaces, "all" is not one
    Platforms,     \* TRUE: forwarding_linux.go, FALSE: forwarding_darwin.go
    MaxRequests,   \* bound: requests (Shutdown apart) and changes by other programs
    MaxFaults,     \* bound: passes over the settings in which a read or a write fails, and
                   \* again changes by other programs
    None           \* a nil pointer

ASSUME LanternAssumption ==
    /\ Platforms \subseteq BOOLEAN /\ "all" \notin Interface
    /\ MaxRequests \in Nat /\ MaxFaults \in Nat

\* The settings of both platforms, and the snapshots there can be of them.
AnyKey == {"v4", "v6"} \X (Interface \cup {"all"})
Snapshots == UNION {[D -> [before : {0, 1}, value : {0, 1}]] : D \in SUBSET AnyKey}
ASSUME NoneAssumption == None \notin Snapshots

VARIABLES
    linux,          \* the platform, never changes
    sysctl, orig,   \* the kernel's settings, now and when the service started
    touched,        \* history: settings another program changed
    foreign,        \* the value it gave them
    lost,           \* history: settings whose way back was lost, see RestoredAll
    controller,     \* none, running or done
    gateway,        \* manager.options: interface and IPv6 in gateway mode, or None
    forwarding,     \* manager.forwarding, or None
    updates,        \* manager.forwardingUpdates
    closed, probing,
    op,             \* what the holder of manager.mu does next
    requests, faults    \* counters of the bounds

V4(i) == <<"v4", IF linux THEN i ELSE "all">>
V6(i) == <<"v6", IF linux THEN i ELSE "all">>
All6 == <<"v6", "all">>
PerInterface6 == {V6(i) : i \in Interface} \ {All6}
Key == {V4(i) : i \in Interface} \cup PerInterface6 \cup {All6}
Sysctl == [Key -> {0, 1}]

\* forwardingState: the settings it covers, what they were and what they became.
IsSnapshot(f) == DOMAIN f \subseteq Key /\ \A k \in DOMAIN f : f[k] \in [before : {0, 1}, value : {0, 1}]
NoSettings == [k \in {} |-> [before |-> 0, value |-> 0]]

osVars  == <<linux, sysctl, orig, touched, foreign>>
kernelVars == <<linux, orig, touched, foreign>>       \* what only other programs change
mgrVars == <<controller, gateway, forwarding, updates>>
flagVars == <<closed, probing>>
vars == <<osVars, lost, mgrVars, flagVars, op, requests, faults>>

Options == [iface : Interface, six : BOOLEAN]
Step == {"idle", "stop", "restore", "prepare", "reread", "undo", "launch", "configure"}
IsOp(o) ==
    /\ o.do \in Step
    /\ o.then \in {"", "start", "end", "configure"}  \* who stops, prepares or undoes
    /\ o.opts \in Options \cup {None}               \* None: discovery only
    /\ o.err \in BOOLEAN                            \* stopErr
    /\ o.f = None \/ IsSnapshot(o.f)                \* a snapshot the manager does not have yet
    /\ o.seen \in Sysctl \cup {None}                \* the settings as the first pass saw them
Idle == [do |-> "idle", then |-> "", opts |-> None, err |-> FALSE, f |-> None, seen |-> None]

TypeOK ==
    /\ linux \in Platforms /\ sysctl \in Sysctl /\ orig \in Sysctl /\ touched \in SUBSET Key /\ foreign \in Sysctl
    /\ lost \in SUBSET Key /\ controller \in {"none", "running", "done"}
    /\ gateway \in Options \cup {None} /\ (forwarding = None \/ IsSnapshot(forwarding))
    /\ (\A n \in DOMAIN updates : IsSnapshot(updates[n])) /\ closed \in BOOLEAN /\ probing \in BOOLEAN
    /\ IsOp(op) /\ requests \in Nat /\ faults \in Nat

Init ==
    /\ linux \in Platforms /\ sysctl \in Sysctl /\ orig = sysctl /\ touched = {} /\ foreign = sysctl
    /\ lost = {} /\ controller = "none" /\ gateway = None
    /\ forwarding = None /\ updates = <<>> /\ closed = FALSE /\ probing = FALSE
    /\ op = Idle /\ requests = 0 /\ faults = 0

----------------------------------------------------------------------------
(* Kernel settings *)

\* Writing the values t to the settings S, in the order of the code: the value
\* for all interfaces comes before those of the interfaces.
Written(s, S, t) ==
    [k \in Key |-> IF k \in S THEN t[k]
                   ELSE IF k \in PerInterface6 /\ All6 \in S THEN t[All6] ELSE s[k]]

\* The settings written when one of D fails: nothing that follows it.
Rank(k) == IF k = All6 THEN 2 ELSE IF k \in PerInterface6 THEN 3 ELSE 1
Prefixes(D) == {S \in SUBSET D : \A k \in S, l \in D : Rank(l) < Rank(k) => l \in S}

\* What prepareForwarding looks at, and what it wants of a setting that was b.
\* send_redirects and accept_ra, which are handled like V4 and depend on nothing
\* else, are left out; that writing them may fail is not.
Wanted(i, six) ==
    {V4(i)} \cup (IF six THEN {All6} \cup PerInterface6 ELSE {})
Goal(i, k, b) == IF k \in {V4(i), V6(i), All6} THEN 1 ELSE b

\* Mutant: only settings that differ are remembered.
DifferingOnly(i, six) == {k \in Wanted(i, six) : op.seen[k] # Goal(i, k, op.seen[k])}

\* The settings of the snapshot: those that differ and, on Linux, every IPv6
\* forwarding setting, because writing the one for all changes the others.
Covered(i, six) ==
    {k \in Wanted(i, six) : op.seen[k] # Goal(i, k, op.seen[k]) \/ (linux /\ k[1] = "v6")}
Goals(i, six) == [k \in Covered(i, six) |-> Goal(i, k, op.seen[k])]

MakeSnapshot(D, val) == [k \in D |-> [before |-> op.seen[k], value |-> val[k]]]

\* Where prepareForwarding loses the way back: the setting is not any more what
\* it was when it was looked at, and that is what the snapshot has.
Stale(D) == {k \in D : sysctl[k] # op.seen[k]}

\* restore: a setting that has the value written goes back to the old one; what
\* another program wrote stays.
Target(s, f) ==
    [k \in DOMAIN f |-> IF s[k] = f[k].value THEN f[k].before ELSE s[k]]

\* Linux keeps the whole snapshot when a write fails, macOS the failed settings F.
Kept(f, F, ok) == IF ok THEN NoSettings ELSE IF linux THEN f ELSE [k \in F |-> f[k]]

\* The writes of restore, with settings that were seen before and are s now.  F
\* are those whose write fails, P those of them that change all the same (macOS: a
\* sysctl command that ran into its timeout); "others" fails when one of the
\* settings left out does.  A failing read is like every write failing.  The way
\* back of a setting is lost when it changes and another program had changed it
\* since it was seen, or to a value nobody wanted for it: its own write failed
\* and that for all interfaces did not.
RestoreOutcomes(seen, s, f) ==
    {LET t == Target(seen, f)
         new == Written(s, (DOMAIN f \ r[1]) \cup r[2], t)
         ok == r[1] = {} /\ ~r[3]
     IN [s |-> new, f |-> Kept(f, r[1], ok), ok |-> ok,
         lost |-> {k \in DOMAIN f : new[k] # s[k] /\ (s[k] # seen[k] \/ new[k] # t[k])}] :
        r \in {o \in (SUBSET DOMAIN f) \X (SUBSET DOMAIN f) \X BOOLEAN :
                  o[2] \subseteq o[1] /\ (linux => o[2] = {})}}

----------------------------------------------------------------------------
(* Handlers *)

Running == controller = "running"
Locks == op = Idle /\ requests < MaxRequests /\ requests' = requests + 1

\* A pass over the settings, with or without a read or a write that fails.
Fault == faults < MaxFaults /\ faults' = faults + 1
Pass(ok) == IF ok THEN UNCHANGED faults ELSE Fault

\* Mutant: start does not look at closed and probing.
StartUnchecked(o) ==
    /\ Locks /\ ~(Running /\ gateway # None /\ o # None)
    /\ op' = [Idle EXCEPT !.do = "stop", !.then = "start", !.opts = o]
    /\ UNCHANGED <<osVars, lost, mgrVars, flagVars, faults>>

\* start up to stopLocked; everything before it that fails changes nothing.
Start(o) ==
    /\ Locks /\ ~closed /\ ~probing /\ ~(Running /\ gateway # None /\ o # None)
    /\ op' = [Idle EXCEPT !.do = "stop", !.then = "start", !.opts = o]
    /\ UNCHANGED <<osVars, lost, mgrVars, flagVars, faults>>

Stop ==
    /\ Locks /\ op' = [Idle EXCEPT !.do = "stop", !.then = "end"]
    /\ UNCHANGED <<osVars, lost, mgrVars, flagVars, faults>>

Shutdown ==
    /\ op = Idle /\ ~closed /\ closed' = TRUE
    /\ op' = [Idle EXCEPT !.do = "stop", !.then = "end"]
    /\ UNCHANGED <<osVars, lost, mgrVars, probing, requests, faults>>

\* Mutant: stopLocked goes on when the controller did not stop.
StopAnyway ==
    /\ op.do = "stop" /\ \E c \in {controller, "done"} : controller' = c
    /\ op' = [op EXCEPT !.do = "restore"]
    /\ UNCHANGED <<osVars, lost, gateway, forwarding, updates, flagVars, requests, faults>>

\* stopLocked: controller.Stop.  An error ends it while the controller runs, and
\* is remembered otherwise, which only start looks at.
StopController ==
    /\ op.do = "stop"
    /\ \/ controller = "none" /\ UNCHANGED controller /\ op' = [op EXCEPT !.do = "restore"]
       \/ /\ controller # "none" /\ controller' = "done"
          /\ \E e \in (IF op.then = "start" THEN BOOLEAN ELSE {FALSE}) :
                op' = [op EXCEPT !.do = "restore", !.err = e]
       \/ Running /\ UNCHANGED controller /\ op' = Idle
    /\ UNCHANGED <<osVars, lost, gateway, forwarding, updates, flagVars, requests, faults>>

\* prepareForwarding and restore look at the settings.
Look ==
    /\ op.do \in {"restore", "prepare", "undo"} /\ op.seen = None
    /\ op.do = "restore" => forwarding # None
    /\ op' = [op EXCEPT !.seen = sysctl]
    /\ UNCHANGED <<osVars, lost, mgrVars, flagVars, requests, faults>>

\* stopLocked: the last update is restored and dropped.
RestoreUpdate ==
    /\ op.do = "restore" /\ op.seen # None /\ forwarding # None /\ updates # <<>>
    /\ LET n == Len(updates) IN
       \E o \in RestoreOutcomes(op.seen, sysctl, updates[n]) :
          /\ sysctl' = o.s /\ lost' = lost \cup o.lost /\ Pass(o.ok)
          /\ updates' = IF o.ok THEN SubSeq(updates, 1, n - 1) ELSE [updates EXCEPT ![n] = o.f]
          /\ op' = IF o.ok THEN [op EXCEPT !.seen = None] ELSE Idle
    /\ UNCHANGED <<kernelVars, controller, gateway, forwarding, flagVars, requests>>

\* stopLocked: then the snapshot of the start.
RestoreForwarding ==
    /\ op.do = "restore" /\ op.seen # None /\ forwarding # None /\ updates = <<>>
    /\ \E o \in RestoreOutcomes(op.seen, sysctl, forwarding) :
          /\ sysctl' = o.s /\ lost' = lost \cup o.lost /\ Pass(o.ok)
          /\ forwarding' = IF o.ok THEN None ELSE o.f
          /\ op' = IF o.ok THEN [op EXCEPT !.seen = None] ELSE Idle
    /\ UNCHANGED <<kernelVars, controller, gateway, updates, flagVars, requests>>

\* stopLocked returns; start goes on unless there was an error.
StopReturns ==
    /\ op.do = "restore" /\ op.seen = None /\ forwarding = None
    /\ op' = IF op.then # "start" \/ op.err THEN Idle
             ELSE [op EXCEPT !.do = IF op.opts # None THEN "prepare" ELSE "launch"]
    /\ UNCHANGED <<osVars, lost, mgrVars, flagVars, requests, faults>>

\* prepareForwarding without a snapshot: the interface is unknown, a read fails.
Unprepared ==
    /\ op.do = "prepare" /\ op.seen # None /\ op' = Idle
    /\ UNCHANGED <<osVars, lost, mgrVars, flagVars, requests, faults>>

\* prepareForwarding writes all it wants; start keeps the snapshot at once.
Prepare ==
    /\ op.do = "prepare" /\ op.seen # None
    /\ LET i == op.opts.iface
           D == Covered(i, op.opts.six)
           f == MakeSnapshot(D, Goals(i, op.opts.six))
       IN /\ sysctl' = Written(sysctl, D, Goals(i, op.opts.six)) /\ lost' = lost \cup Stale(D)
          /\ IF op.then = "start"
             THEN forwarding' = f /\ op' = [op EXCEPT !.do = "launch", !.seen = None]
             ELSE op' = [op EXCEPT !.do = "configure", !.seen = None, !.f = f] /\ UNCHANGED forwarding
    /\ UNCHANGED <<kernelVars, controller, gateway, updates, flagVars, requests, faults>>

\* A write of prepareForwarding fails when S were written.  Linux then looks at all
\* it covers; macOS has a snapshot of what it wrote and the failing one, which may
\* have been changed all the same, or of all when reading back shows another value.
PrepareFails ==
    /\ op.do = "prepare" /\ op.seen # None /\ Fault
    /\ LET D == Covered(op.opts.iface, op.opts.six)
           goal == Goals(op.opts.iface, op.opts.six)
       IN \E S, T \in Prefixes(D) :
          LET now == Written(sysctl, S, goal) IN
             /\ S \subseteq T /\ (IF linux THEN T = D ELSE Cardinality(T \ S) <= 1)
             /\ sysctl' = now /\ lost' = lost \cup Stale(T)
             /\ op' = [op EXCEPT !.do = IF linux THEN "reread" ELSE "undo", !.seen = None,
                                 !.f = MakeSnapshot(T, IF linux THEN now ELSE goal)]
    /\ UNCHANGED <<kernelVars, mgrVars, flagVars, requests>>

\* Linux takes the values there are now for its own; where reading fails (U) the
\* snapshot has the value wanted.  The way back is lost when the value is another
\* program's after all, or the one propagated and not the one wanted.
Reread ==
    /\ op.do = "reread"
    /\ \E U \in SUBSET DOMAIN op.f :
          LET before(k) == op.f[k].before
              value(k) == IF k \in U THEN Goal(op.opts.iface, k, before(k)) ELSE sysctl[k]
          IN /\ Pass(U = {}) /\ op' = [op EXCEPT !.do = "undo",
                        !.f = [k \in DOMAIN op.f |-> [before |-> before(k), value |-> value(k)]]]
             /\ lost' = lost \cup {k \in DOMAIN op.f : IF k \in U THEN sysctl[k] \notin {value(k), before(k)}
                                                     ELSE sysctl[k] # op.f[k].value}
    /\ UNCHANGED <<osVars, mgrVars, flagVars, requests>>

\* The restore of a failed prepareForwarding, whose snapshot is kept in any case, and
\* that of a failed configure, which keeps it when restoring fails.
Undo ==
    /\ op.do = "undo" /\ op.seen # None /\ op' = Idle
    /\ \E o \in RestoreOutcomes(op.seen, sysctl, op.f) :
          /\ sysctl' = o.s /\ lost' = lost \cup o.lost /\ Pass(o.ok)
          /\ forwarding' = IF op.then = "start" THEN o.f ELSE forwarding
          /\ updates' = IF op.then = "start" \/ (op.then = "" /\ o.ok) THEN updates
                        ELSE Append(updates, o.f)
    /\ UNCHANGED <<kernelVars, controller, gateway, flagVars, requests>>

\* start: c.Start; a gateway that started incompletely is stopped again.
Launch ==
    /\ op.do = "launch"
    /\ \/ /\ op' = [Idle EXCEPT !.do = "stop", !.then = "end"]
          /\ UNCHANGED <<controller, gateway>>
       \/ /\ controller' = "running" /\ gateway' = op.opts
          /\ \/ op' = Idle
             \/ op.opts # None /\ op' = [Idle EXCEPT !.do = "stop", !.then = "end"]
    /\ UNCHANGED <<osVars, lost, forwarding, updates, flagVars, requests, faults>>

\* network.ForwardingReady: external, as its uses need it.
ForwardingReady(o) ==
    /\ sysctl[V4(o.iface)] = 1
    /\ o.six => sysctl[All6] = 1 /\ sysctl[V6(o.iface)] = 1

\* configure: forwarding for the new options, when it is not there already.
Configure(o) ==
    /\ Locks /\ ~closed /\ ~probing /\ Running /\ gateway # None
    /\ op' = IF ForwardingReady(o) THEN [Idle EXCEPT !.do = "configure", !.opts = o]
             ELSE [Idle EXCEPT !.do = "prepare", !.then = "configure", !.opts = o]
    /\ UNCHANGED <<osVars, lost, mgrVars, flagVars, faults>>

\* configure: controller.ConfigureGateway; if it fails the new snapshot is restored.
Reconfigured ==
    /\ op.do = "configure"
    /\ \/ /\ gateway' = op.opts /\ op' = Idle
          /\ updates' = IF op.f = None THEN updates ELSE Append(updates, op.f)
       \/ /\ op' = IF op.f = None THEN Idle ELSE [op EXCEPT !.do = "undo", !.then = ""]
          /\ UNCHANGED <<updates, gateway>>
    /\ UNCHANGED <<osVars, lost, controller, forwarding, flagVars, requests, faults>>

\* probe: manager.mu is not held while it listens.
Probe ==
    /\ Locks /\ ~closed /\ ~probing /\ probing' = TRUE /\ op' = op
    /\ UNCHANGED <<osVars, lost, mgrVars, closed, faults>>

ProbeEnds ==
    /\ op = Idle /\ probing /\ probing' = FALSE
    /\ UNCHANGED <<osVars, lost, mgrVars, closed, op, requests, faults>>

----------------------------------------------------------------------------
(* Environment *)

\* The controller ends by itself.
ControllerEnds ==
    /\ Running /\ controller' = "done"
    /\ UNCHANGED <<osVars, lost, gateway, forwarding, updates, flagVars, op, requests, faults>>

\* Another program changes a setting, or on Linux those of all interfaces.
Foreign(k) ==
    /\ Fault /\ requests < MaxRequests /\ requests' = requests + 1
    /\ LET now == Written(sysctl, {k}, [l \in {k} |-> 1 - sysctl[k]])
           hit == {k} \cup (IF linux /\ k = All6 THEN PerInterface6 ELSE {})
       IN /\ sysctl' = now /\ touched' = touched \cup hit
          /\ foreign' = [l \in Key |-> IF l \in hit THEN now[l] ELSE foreign[l]]
    /\ UNCHANGED <<linux, orig, lost, mgrVars, flagVars, op>>

Next ==
    \/ \E o \in Options \cup {None} : Start(o)
    \/ \E o \in Options : Configure(o)
    \/ Stop \/ Shutdown \/ Probe \/ ProbeEnds
    \/ StopController \/ Look \/ RestoreUpdate \/ RestoreForwarding \/ StopReturns
    \/ Unprepared \/ Prepare \/ PrepareFails \/ Reread \/ Undo \/ Launch \/ Reconfigured
    \/ ControllerEnds \/ (\E k \in Key : Foreign(k))

Spec == Init /\ [][Next]_vars

----------------------------------------------------------------------------
(* Properties *)

\* Once neither the manager nor a handler holds a snapshot, every setting that no
\* other program changed is what it was when the service started, failed reads and
\* writes and retries included.  Two cases are excepted (lost), both on Linux: the
\* value for all interfaces was written and that of an interface was not, by a
\* restore, which then keeps the values it compares with, or by a prepareForwarding
\* that cannot read that of the interface afterwards.
Released == forwarding = None /\ op.f = None
RestoredAll == Released => \A k \in Key \ (touched \cup lost) : sysctl[k] = orig[k]

\* Restoring never turns a setting on again that another program turned off.  (A
\* program that writes the value the gateway wrote cannot be told from it.)  Excepted
\* is one that came between a look at the setting and the write that follows it.
ForeignKept == Released => \A k \in touched \ lost : foreign[k] = 0 => sysctl[k] = 0

\* While a gateway runs, forwarding is on for it, unless another program turned
\* it off.
Needs(o) == {V4(o.iface)} \cup (IF o.six THEN {All6, V6(o.iface)} ELSE {})
GatewayForwards ==
    Running /\ gateway # None => \A k \in Needs(gateway) \ touched : sysctl[k] = 1

\* Updates are never left without the snapshot under which stopLocked restores
\* them.
UpdatesReachable == updates # <<>> => forwarding # None

\* A stop that got to its end restores everything that starting and
\* reconfiguring changed and nothing that others did, and while it has not, the
\* snapshots it still needs can be reached.
Restored == TypeOK /\ RestoredAll /\ ForeignKept /\ UpdatesReachable

\* After Shutdown, and while a probe listens for DHCP servers, no gateway starts.
NoLateStart == [][(closed \/ probing) /\ ~Running => controller' # "running"]_vars
=============================================================================
