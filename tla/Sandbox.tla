------------------------------ MODULE Sandbox ------------------------------
(***************************************************************************)
(* The helper that turns into the core: the service executable, started    *)
(* again in a mount namespace of its own, builds the root of the sandbox   *)
(* out of bind mounts, enters it and executes the core                     *)
(* (core/sandbox/sandbox_linux.go, reexec_linux.go).                       *)
(*                                                                         *)
(* A path is the sequence of its names; in the mount table paths are taken *)
(* from the root of the sandbox.  The root directory is bound on itself    *)
(* before it is made private, so that mount (and none of those inside it)  *)
(* may reach the host's namespace.  A lookup goes to the last mount that   *)
(* covers the path, and a lazy unmount takes along everything that was     *)
(* mounted on what it removes.                                             *)
(*                                                                         *)
(* The helper is one thread in a namespace nobody else sees: a mount with  *)
(* its own undoing is one step.  Each system call may fail, at most        *)
(* MaxFaults of them.  The paths are taken to be free of symbolic links:   *)
(* the helper mounts before it enters the root, so that a link in a mapped *)
(* directory would lead a later mount to where the host resolves it.       *)
(***************************************************************************)
EXTENDS Integers, FiniteSets, SequencesExt

CONSTANTS
  None,         \* no root directory
  Files,        \* paths that are files and not directories
  SystemDirs,   \* the system directories there are
  Store,        \* /nix/store
  Lock,         \* /run/xtables.lock
  Proc,         \* /proc
  Devices,      \* the device files there are
  MaxFaults     \* bound: system calls that fail

\* Paths, and what the service tells the helper.
Path == Seq(STRING)
ConfigType ==
  [executable : Path, resolved : Path, readOnlyPaths : Seq(Path),
   workingDir : Path, safePaths : Seq(Path), writableDirs : Seq(Path)]

ASSUME PathsAssumption ==
  /\ Files \subseteq Path \ {<<>>}
  /\ SystemDirs \in Seq(Path) /\ Devices \in Seq(Path)
  /\ Store \in Path /\ Lock \in Path /\ Proc \in Path

VARIABLES
  child,    \* the helper, later the core: place, configuration, root, mounts
            \* still to make, mount table, list of mounted targets
  dirs,     \* the temporary directories that exist
  damage,   \* RemoveAll was able to empty a directory of the host
  faults    \* system calls that failed

sandboxVars == <<child, dirs, damage, faults>>

NoChild == [pc |-> "none", conf |-> None, root |-> None, mounts |-> <<>>,
            table |-> <<>>, mounted |-> <<>>]

Fault(k) == faults + k <= MaxFaults /\ faults' = faults + k

Within(path, root) == IsPrefix(root, path)                    \* pathWithin

\* sandboxDirForPath, writableSandboxDir
DirOf(path) == IF path \in Files THEN Front(path) ELSE path

\* The elements of a sequence that are in a set, in their order.
Keep(seq, S) ==
  LET kept[k \in 0..Len(seq)] ==
        IF k = 0 THEN <<>>
        ELSE IF seq[k] \in S THEN Append(kept[k - 1], seq[k]) ELSE kept[k - 1]
  IN  kept[Len(seq)]

Request(path, readOnly) ==
  [target |-> path, readOnly |-> readOnly, file |-> path \in Files,
   proc |-> FALSE]

\* What the configuration asks for, in the order of the code.
sandboxMounts(c) ==
  LET ReadOnly(paths) == [i \in DOMAIN paths |-> Request(paths[i], TRUE)]
      Writable(paths) == [i \in DOMAIN paths |-> Request(paths[i], FALSE)]
      CoreDir(dir) == <<Request(dir, Within(dir, Store))>>
      core == DirOf(c.executable)
      resolved == DirOf(c.resolved)
  IN IF <<>> \in ToSet(c.safePaths) THEN <<Request(<<>>, FALSE)>>
     ELSE ReadOnly(SystemDirs) \o Writable(<<Lock>>) \o CoreDir(core)
          \o (IF resolved = core THEN <<>> ELSE CoreDir(resolved))
          \o ReadOnly(c.readOnlyPaths)
          \o (IF c.workingDir = core THEN <<>> ELSE ReadOnly(<<c.workingDir>>))
          \o Writable(c.safePaths)
          \o Writable([i \in DOMAIN c.writableDirs |-> DirOf(c.writableDirs[i])])
          \o <<[Request(Proc, FALSE) EXCEPT !.proc = TRUE]>>
          \o Writable(Devices)

\* "/" counts one separator, like "/usr".
Depth(path) == IF path = <<>> THEN 1 ELSE Len(path)

\* One mount per target, in the place of its first request: writable as soon
\* as one request is.
Merged(mounts) ==
  LET same(i) == {j \in DOMAIN mounts : mounts[j].target = mounts[i].target}
      first == Keep([i \in DOMAIN mounts |-> i],
                    {i \in DOMAIN mounts : \A j \in same(i) : i <= j})
  IN [k \in DOMAIN first |->
       [target |-> mounts[first[k]].target,
        readOnly |-> \A j \in same(first[k]) : mounts[j].readOnly,
        file |-> \E j \in same(first[k]) : mounts[j].file,
        proc |-> \E j \in same(first[k]) : mounts[j].proc]]

\* Mutant: the mounts are left in the order of the requests.
MergedOnly(mounts) == Merged(mounts)

\* Merged, then sorted by depth; the sort is stable.
compactSandboxMounts(mounts) ==
  LET merged == Merged(mounts)
      deepest == Max({0} \cup {Depth(merged[i].target) : i \in DOMAIN merged})
  IN FlattenSeq([d \in 1..deepest |->
       Keep(merged, {m \in ToSet(merged) : Depth(m.target) = d})])

----------------------------------------------------------------------------
\* Mount tables.

Mount(at, kind, readOnly) == [at |-> at, kind |-> kind, readOnly |-> readOnly]

\* The index of the mount that a lookup of path ends in; 0 outside the table.
Covering(table, path) ==
  SelectLastInSeq(table, LAMBDA m : Within(path, m.at))

\* Unmount with MNT_DETACH: what is mounted on the mount goes with it.
Unmounted(table, path) ==
  LET i == Covering(table, path)
  IN IF i = 0 \/ table[i].at # path THEN table
     ELSE SubSeq(table, 1, i - 1)
          \o Keep(SubSeq(table, i + 1, Len(table)),
                  {m \in ToSet(table) : ~Within(m.at, path)})

\* One unmount after the other.
UnmountAll(table, paths) ==
  LET left[k \in 0..Len(paths)] ==
        IF k = 0 THEN table ELSE Unmounted(left[k - 1], paths[k])
  IN  left[Len(paths)]

\* RemoveAll of the root would go on into a directory of the host.
Exposed(table) ==
  \E m \in ToSet(table) : m.kind = "host" /\ ~m.readOnly

----------------------------------------------------------------------------
\* The end of a helper that failed: its message goes into the status pipe and
\* its namespace goes away.  Before that the paths that are not stuck were
\* unmounted, and the root directory was removed unless something is still
\* mounted on it or RemoveAll failed, after what it could remove.
Failed(c) == [NoChild EXCEPT !.pc = "failed", !.root = c.root]

\* Mutant: the root directory is removed before the mounts are.
FailsAfterRemovingFirst(table, paths, stuck, k) ==
  LET left == UnmountAll(table, Keep(paths, ToSet(paths) \ stuck))
  IN /\ \E removes \in BOOLEAN :
          /\ Fault(k + Cardinality(stuck) + (IF removes THEN 0 ELSE 1))
          /\ dirs' = IF removes /\ left = <<>> THEN dirs \ {child.root} ELSE dirs
     /\ child' = Failed(child)
     /\ damage' = (damage \/ Exposed(table))

FailsAfterCleanup(table, paths, stuck, k) ==
  LET left == UnmountAll(table, Keep(paths, ToSet(paths) \ stuck))
  IN /\ \E removes \in BOOLEAN :
          /\ Fault(k + Cardinality(stuck) + (IF removes THEN 0 ELSE 1))
          /\ dirs' = IF removes /\ left = <<>> THEN dirs \ {child.root} ELSE dirs
     /\ child' = Failed(child)
     /\ damage' = (damage \/ Exposed(left))

\* cleanup of prepareRoot: its list of mounts backwards, then the root.
CleansList(table, k) ==
  \E stuck \in SUBSET (ToSet(child.mounted) \cup {<<>>}) :
    FailsAfterCleanup(table, Append(Reverse(child.mounted), <<>>), stuck, k)

\* cleanupLinuxSandboxRoot, in the helper: it gives up when the directory is
\* not its own (the host's root is mounted on it) or cannot be looked at;
\* otherwise every mount that mountinfo shows, the deepest first.  Without
\* mountinfo there are none.
CleansRoot ==
  LET table == child.table
      points == Reverse([i \in DOMAIN table |-> table[i].at])
  IN IF table[Covering(table, <<>>)].kind # "root"
     THEN Fault(1) /\ child' = Failed(child) /\ UNCHANGED <<dirs, damage>>
     ELSE \/ \E stuck \in SUBSET ToSet(points) :
               FailsAfterCleanup(table, points, stuck, 1)
          \/ FailsAfterCleanup(table, <<>>, {}, 2)
          \/ Fault(2) /\ child' = Failed(child) /\ UNCHANGED <<dirs, damage>>

\* A failure after which the helper cleans nothing; the service will.
FailsPlainly ==
  Fault(1) /\ child' = Failed(child) /\ UNCHANGED <<dirs, damage>>

----------------------------------------------------------------------------
\* runReexec: the configuration, then validateSandboxRoot, ensureXTablesLock
\* and the plan, each of which may fail.
Decode ==
  /\ child.pc = "decode"
  /\ \/ /\ child' = IF child.root = None THEN [child EXCEPT !.pc = "exec"]
                    ELSE [child EXCEPT !.pc = "bind", !.mounts =
                            compactSandboxMounts(sandboxMounts(child.conf))]
        /\ UNCHANGED <<dirs, damage, faults>>
     \/ FailsPlainly

\* mountSandboxRoot, first half.  (The host sees the mount when the directory
\* it is in is shared between the namespaces; the service's cleanup then has
\* to unmount it too, which may fail like removing the directory.)
BindRoot ==
  /\ child.pc = "bind"
  /\ \/ /\ child' = [child EXCEPT !.pc = "private",
                                  !.table = <<Mount(<<>>, "root", FALSE)>>]
        /\ UNCHANGED <<dirs, damage, faults>>
     \/ FailsPlainly

\* mountSandboxRoot, second half.
PrivateRoot ==
  /\ child.pc = "private"
  /\ \/ /\ child' = [child EXCEPT !.pc = "layout"]
        /\ UNCHANGED <<dirs, damage, faults>>
     \/ FailsPlainly

\* prepareLinuxSandboxStaticLayout
StaticLayout ==
  /\ child.pc = "layout"
  /\ \/ /\ child' = [child EXCEPT !.pc = "mount"]
        /\ UNCHANGED <<dirs, damage, faults>>
     \/ CleansRoot

\* A file is opened for writing before it is mounted on.  Where a mount
\* already shows it, a read-only one refuses, and so does the service's
\* executable, which is running.
Blocked(table, mount, running) ==
  LET over == table[Covering(table, mount.target)]
  IN mount.file /\ over.kind # "root"
     /\ (over.readOnly \/ mount.target \in running)

\* The mount that mountIntoSandbox leaves.
Mounted(mount) ==
  Mount(mount.target, IF mount.proc THEN "proc" ELSE "host", mount.readOnly)

\* prepareRoot's loop.  A recursive read-only setting has a fallback, which
\* saves it from one failure.  A mount that cannot be made private or
\* read-only is unmounted again, and stays when that fails too.
MountNext ==
  LET mount == Head(child.mounts)
      blocked == Blocked(child.table, mount, ToSet(child.conf.readOnlyPaths))
      left == Append(child.table, [Mounted(mount) EXCEPT !.readOnly = FALSE])
  IN /\ child.pc = "mount" /\ child.mounts # <<>>
     /\ \/ /\ ~blocked
           /\ child' = [child EXCEPT !.mounts = Tail(@),
                          !.table = Append(@, Mounted(mount)),
                          !.mounted = Append(@, mount.target)]
           /\ faults' = faults \/ (mount.readOnly /\ Fault(1))
           /\ UNCHANGED <<dirs, damage>>
        \/ blocked /\ CleansList(child.table, 0)
        \/ ~blocked /\ CleansList(child.table, 1)
        \/ /\ ~blocked
           /\ \E k \in {2} \cup (IF mount.readOnly THEN {3} ELSE {}) :
                CleansList(left, k)

AllMounted ==
  /\ child.pc = "mount" /\ child.mounts = <<>>
  /\ child' = [child EXCEPT !.pc = "chroot"]
  /\ UNCHANGED <<dirs, damage, faults>>

Chroot ==
  /\ child.pc = "chroot"
  /\ \/ /\ child' = [child EXCEPT !.pc = "exec"]
        /\ UNCHANGED <<dirs, damage, faults>>
     \/ CleansRoot

\* chdir and exec, which closes the status pipe.  (No launcher asks the helper
\* to bind itself to CPUs: applyCPUAffinity is not reached.)
Exec ==
  /\ child.pc = "exec"
  /\ \/ /\ child' = [child EXCEPT !.pc = "running"]
        /\ UNCHANGED <<dirs, damage, faults>>
     \/ FailsPlainly

Helper == Decode \/ BindRoot \/ PrivateRoot \/ StaticLayout \/ MountNext
            \/ AllMounted \/ Chroot \/ Exec

----------------------------------------------------------------------------
\* When the core executes inside the sandbox, a lookup of every path that the
\* configuration named ends in the mount made for it, which is read-only
\* exactly when nothing asked for it to be writable: no later mount hides an
\* earlier one, and none weakens another.
PlanHolds ==
  child.pc = "running" /\ child.root # None =>
    LET asked == sandboxMounts(child.conf)
    IN \A i \in DOMAIN asked :
         LET over == child.table[Covering(child.table, asked[i].target)]
         IN /\ over.at = asked[i].target
            /\ over.readOnly <=> \A j \in DOMAIN asked :
                 asked[j].target = asked[i].target => asked[j].readOnly

\* Removing the root directory never reaches through a writable mapping into
\* the host's own files unless two system calls failed: the lazy unmount of
\* the root detaches a mapping whose own unmount failed, and a cleanup after
\* one failure has every mapping in its list.
HostIntact == faults < 2 => ~damage
============================================================================
