------------------------------ MODULE KeyRing ------------------------------
(***************************************************************************)
(* Who may talk to the service: the public keys and the bound identity of  *)
(* route/auth/auth.go, the command `service init` (cmd/cmd_service.go)     *)
(* that changes them, and the service that reads them when it starts.      *)
(*                                                                         *)
(* The command is a process of its own.  It loads both files, replaces     *)
(* the current key (the old one becomes the previous key), binds the       *)
(* identity, and restarts a running service if it changed anything.  Files *)
(* are written with os.WriteFile, which truncates first: a write that      *)
(* fails or a process that dies leaves a file that cannot be parsed, and   *)
(* so does reading at that moment.  Files that exist can be opened: both    *)
(* programs run with full rights.                                          *)
(***************************************************************************)
EXTENDS Integers, FiniteSets

CONSTANTS
    Command,     \* invocations of service init
    Key,         \* public keys; a key's ID is computed from it
    Who,         \* identities: a UID or a SID
    MaxOverlapping, \* bound: commands that begin before or after two have overlapped
    Svc,         \* the service's process
    None,        \* a nil pointer
    NoFile, Torn \* a file that does not exist, a truncated file

ASSUME KeyRingAssumption ==
    /\ Svc \notin Command /\ MaxOverlapping \in Nat /\ NoFile # Torn
    /\ None \notin Key \cup Who
    /\ {NoFile, Torn} \cap (Key \cup Who \cup [current : Key, previous : Key \cup {None}]) = {}

VARIABLES
    ring, bind,   \* public_keys.json and authorized_principal.json
    pem,          \* public_key.pem of earlier versions, never written
    known,        \* history: keys and identities that were ever given
    mem,          \* the KeyManager of each process
    undo,         \* SetPublicKey: what a failed save goes back to
    pc, arg,      \* a command's control state and its arguments
    changed,      \* keyChanged or principalChanged
    svc,          \* the service: down, boot (reading keys), bind (identity), up
    \* History since the service has read its keys:
    rotations,    \* number of saves
    torn,         \* public_keys.json was left truncated
    interrupted,  \* a command ended after it had changed a file
    overlapped    \* history: two commands ran at the same time

fileVars == <<ring, bind, pem>>
cmdVars  == <<undo, pc, arg, changed>>
histVars == <<known, rotations, torn, interrupted, overlapped>>
vars == <<fileVars, mem, cmdVars, svc, histVars>>

Proc == Command \cup {Svc}
Ring == [current : Key, previous : Key \cup {None}]
Memory == [current : Key \cup {None}, previous : Key \cup {None},
           publicKeys : SUBSET Key, principal : Who \cup {None}]
Empty == [current |-> None, previous |-> None, publicKeys |-> {}, principal |-> None]
Ended == {"unneeded", "done", "failed"}
Active == {"load", "principal", "set", "save", "saving", "bind", "bound", "binding", "query", "restart"}

TypeOK ==
    /\ ring \in Ring \cup {NoFile, Torn} /\ bind \in Who \cup {NoFile, Torn}
    /\ pem \in Key \cup {NoFile}
    /\ known \in [keys : SUBSET Key, who : SUBSET Who]
    /\ mem \in [Proc -> Memory] /\ undo \in [Command -> Memory]
    /\ pc \in [Command -> {"new"} \cup Active \cup Ended]
    /\ arg \in [Command -> [key : Key, who : Who]]
    /\ changed \in [Command -> BOOLEAN]
    /\ svc \in {"down", "boot", "bind", "up"} /\ rotations \in Nat
    /\ torn \in BOOLEAN /\ interrupted \in BOOLEAN /\ overlapped \in BOOLEAN

\* Before the first command: nothing, or what an earlier version has left.
Init ==
    /\ ring = NoFile /\ bind = NoFile /\ pem \in Key \cup {NoFile}
    /\ known = [keys |-> {pem} \cap Key, who |-> {}]
    /\ mem = [p \in Proc |-> Empty] /\ undo = [c \in Command |-> Empty]
    /\ pc = [c \in Command |-> "new"] /\ arg \in [Command -> [key : Key, who : Who]]
    /\ changed = [c \in Command |-> FALSE]
    /\ svc = "down" /\ rotations = 0
    /\ torn = FALSE /\ interrupted = FALSE /\ overlapped = FALSE

----------------------------------------------------------------------------
(* KeyManager *)

\* refreshPublicKeysLocked.
PublicKeys(current, previous) == {current, previous} \ {None}

WithKeys(m, current, previous) ==
    [current |-> current, previous |-> previous,
     publicKeys |-> PublicKeys(current, previous), principal |-> m.principal]

WithPrincipal(m, who) ==
    [current |-> m.current, previous |-> m.previous,
     publicKeys |-> m.publicKeys, principal |-> who]

\* loadPublicKeys: the key ring, or the old file when there is no key ring.  An
\* error leaves the memory alone.
LoadPublicKeys(m) ==
    IF ring \in Ring
    THEN WithKeys(m, ring.current, IF ring.previous = ring.current THEN None ELSE ring.previous)
    ELSE IF ring = NoFile /\ pem # NoFile THEN WithKeys(m, pem, None) ELSE m

\* loadAuthorizedPrincipal.
LoadPrincipal(m) == IF bind \in Who THEN WithPrincipal(m, bind) ELSE m

\* Mutant: the key is replaced and no previous key kept.
RotatedAlone(m, k) == WithKeys(m, k, None)

\* SetPublicKey: the new key, and the current one as the previous.
Rotated(m, k) == WithKeys(m, k, m.current)

----------------------------------------------------------------------------
(* service init *)

At(c, from, to) == pc[c] = from /\ pc' = [pc EXCEPT ![c] = to]

\* The command is started; this is where its arguments become known.
Begin(c) ==
    /\ At(c, "new", "load")
    /\ overlapped' = (overlapped \/ \E d \in Command : pc[d] \in Active)
    /\ overlapped' => Cardinality({d \in Command : pc'[d] # "new"}) <= MaxOverlapping
    /\ known' = [keys |-> known.keys \cup {arg[c].key}, who |-> known.who \cup {arg[c].who}]
    /\ UNCHANGED <<fileVars, mem, undo, arg, changed, svc, rotations, torn, interrupted>>

\* InitKeyManager; its error is ignored.
LoadKeys(c) ==
    /\ At(c, "load", "principal") /\ mem' = [mem EXCEPT ![c] = LoadPublicKeys(@)]
    /\ UNCHANGED <<fileVars, undo, arg, changed, svc, histVars>>
LoadBinding(c) ==
    /\ At(c, "principal", "set") /\ mem' = [mem EXCEPT ![c] = LoadPrincipal(@)]
    /\ UNCHANGED <<fileVars, undo, arg, changed, svc, histVars>>

\* Mutant: nothing either when the key is the previous one.
SetUnknownKey(c) ==
    /\ \/ arg[c].key \in mem[c].publicKeys /\ At(c, "set", "bind") /\ UNCHANGED <<mem, undo>>
       \/ /\ arg[c].key \notin mem[c].publicKeys /\ At(c, "set", "save")
          /\ undo' = [undo EXCEPT ![c] = mem[c]]
          /\ mem' = [mem EXCEPT ![c] = Rotated(@, arg[c].key)]
    /\ UNCHANGED <<fileVars, arg, changed, svc, histVars>>

\* SetPublicKey up to the save: nothing when the key is the current one.
SetPublicKey(c) ==
    /\ \/ mem[c].current = arg[c].key /\ At(c, "set", "bind") /\ UNCHANGED <<mem, undo>>
       \/ /\ mem[c].current # arg[c].key /\ At(c, "set", "save")
          /\ undo' = [undo EXCEPT ![c] = mem[c]]
          /\ mem' = [mem EXCEPT ![c] = Rotated(@, arg[c].key)]
    /\ UNCHANGED <<fileVars, arg, changed, svc, histVars>>

\* A command ends with an error or is killed.
Aborts(c) ==
    /\ pc' = [pc EXCEPT ![c] = "failed"]
    /\ torn' = (torn \/ pc[c] = "saving")
    /\ interrupted' = (interrupted \/ changed[c] \/ pc[c] \in {"saving", "binding"})
    /\ undo' = [undo EXCEPT ![c] = Empty] /\ changed' = [changed EXCEPT ![c] = FALSE]
    /\ UNCHANGED <<arg, known, rotations, overlapped>>
\* The memory of a process that has ended.
Without(p) == [mem EXCEPT ![p] = Empty]

\* os.WriteFile has truncated the file and writes x; what another process wrote
\* in between may be longer.
Overwritten(file, x) == {x} \cup (IF file = Torn THEN {} ELSE {Torn})

\* savePublicKeysLocked: the file is truncated, then written.
SaveOpens(c) ==
    /\ At(c, "save", "saving") /\ ring' = Torn
    /\ UNCHANGED <<bind, pem, mem, undo, arg, changed, svc, histVars>>
SaveWrites(c) ==
    /\ At(c, "saving", "bind")
    /\ ring' \in Overwritten(ring, [current |-> mem[c].current, previous |-> mem[c].previous])
    /\ changed' = [changed EXCEPT ![c] = TRUE] /\ rotations' = rotations + 1
    /\ undo' = [undo EXCEPT ![c] = Empty]
    /\ UNCHANGED <<bind, pem, mem, arg, svc, known, torn, interrupted, overlapped>>

\* Mutant: the registered keys are not refreshed on the way back.
SaveFailsStale(c) ==
    /\ pc[c] \in {"save", "saving"} /\ Aborts(c)
    /\ mem' = [mem EXCEPT ![c].current = undo[c].current, ![c].previous = undo[c].previous]
    /\ UNCHANGED <<fileVars, svc>>

\* The save fails: the memory goes back, the command ends.
SaveFails(c) ==
    /\ pc[c] \in {"save", "saving"} /\ Aborts(c)
    /\ mem' = [mem EXCEPT ![c] = WithKeys(@, undo[c].current, undo[c].previous)]
    /\ UNCHANGED <<fileVars, svc>>

\* setAuthorizedPrincipal: nothing when it is bound already; the memory is
\* changed after the file was written.
SetAuthorizedPrincipal(c) ==
    /\ \/ mem[c].principal = arg[c].who /\ At(c, "bind", "query")
       \/ mem[c].principal # arg[c].who /\ At(c, "bind", "bound")
    /\ UNCHANGED <<fileVars, mem, undo, arg, changed, svc, histVars>>
BindOpens(c) ==
    /\ At(c, "bound", "binding") /\ bind' = Torn
    /\ UNCHANGED <<ring, pem, mem, undo, arg, changed, svc, histVars>>
\* Mutant: a new binding is not reported as a change.
BindWritesSilently(c) ==
    /\ At(c, "binding", "query") /\ bind' \in Overwritten(bind, arg[c].who)
    /\ mem' = [mem EXCEPT ![c] = WithPrincipal(@, arg[c].who)]
    /\ UNCHANGED <<ring, pem, undo, arg, changed, svc, histVars>>
BindWrites(c) ==
    /\ At(c, "binding", "query") /\ bind' \in Overwritten(bind, arg[c].who)
    /\ mem' = [mem EXCEPT ![c] = WithPrincipal(@, arg[c].who)]
    /\ changed' = [changed EXCEPT ![c] = TRUE]
    /\ UNCHANGED <<ring, pem, undo, arg, svc, histVars>>
BindFails(c) ==
    /\ pc[c] \in {"bound", "binding"} /\ Aborts(c) /\ mem' = Without(c)
    /\ UNCHANGED <<fileVars, svc>>

\* The command asks the service manager whether the service runs.
Query(c) ==
    /\ \/ svc = "down" /\ At(c, "query", "done") /\ mem' = Without(c)
       \/ svc # "down" /\ ~changed[c] /\ At(c, "query", "unneeded") /\ mem' = Without(c)
       \/ svc # "down" /\ changed[c] /\ At(c, "query", "restart") /\ UNCHANGED mem
    /\ changed' = [changed EXCEPT ![c] = pc'[c] = "restart"]
    /\ UNCHANGED <<fileVars, undo, arg, svc, histVars>>
QueryFails(c) ==
    /\ pc[c] = "query" /\ Aborts(c) /\ mem' = Without(c) /\ UNCHANGED <<fileVars, svc>>

\* s.Restart: the service starts afresh, or an error leaves it as it was or down.
Restart(c) ==
    /\ At(c, "restart", "done") /\ svc' = "boot" /\ changed' = [changed EXCEPT ![c] = FALSE]
    /\ mem' = [Without(c) EXCEPT ![Svc] = Empty]
    /\ UNCHANGED <<fileVars, undo, arg, histVars>>
RestartFails(c) ==
    /\ pc[c] = "restart" /\ Aborts(c) /\ UNCHANGED fileVars
    /\ \/ svc' = svc /\ mem' = Without(c)
       \/ svc' = "down" /\ mem' = [Without(c) EXCEPT ![Svc] = Empty]

\* The command is killed.
Killed(c) == pc[c] \in Active /\ Aborts(c) /\ mem' = Without(c) /\ UNCHANGED <<fileVars, svc>>

----------------------------------------------------------------------------
(* The service *)

ServiceStarts ==
    /\ svc = "down" /\ svc' = "boot"
    /\ UNCHANGED <<fileVars, mem, cmdVars, histVars>>

\* Start: InitKeyManager, whose error is only logged, comes before listening.
BootKeys ==
    /\ svc = "boot" /\ svc' = "bind" /\ mem' = [mem EXCEPT ![Svc] = LoadPublicKeys(@)]
    /\ rotations' = 0 /\ torn' = FALSE /\ interrupted' = FALSE
    /\ UNCHANGED <<fileVars, cmdVars, known, overlapped>>
BootBinding ==
    /\ svc = "bind" /\ svc' = "up" /\ mem' = [mem EXCEPT ![Svc] = LoadPrincipal(@)]
    /\ UNCHANGED <<fileVars, cmdVars, histVars>>

ServiceStops ==
    /\ svc # "down" /\ svc' = "down" /\ mem' = Without(Svc)
    /\ UNCHANGED <<fileVars, cmdVars, histVars>>

\* AuthMiddleware, authenticateV2: what a request needs, its nonce aside.
IsInitialized == mem[Svc].current # None

HasAuthorizedPrincipal == mem[Svc].principal # None
VerifyRequestPrincipal(u) == mem[Svc].principal = None \/ mem[Svc].principal = u
VerifySignature(k) == k \in mem[Svc].publicKeys
Accepts(k, u) ==
    /\ svc = "up" /\ IsInitialized /\ HasAuthorizedPrincipal
    /\ VerifyRequestPrincipal(u) /\ VerifySignature(k)

----------------------------------------------------------------------------
Step(c) ==
    \/ Begin(c) \/ LoadKeys(c) \/ LoadBinding(c) \/ SetPublicKey(c)
    \/ SaveOpens(c) \/ SaveWrites(c) \/ SaveFails(c)
    \/ SetAuthorizedPrincipal(c) \/ BindOpens(c) \/ BindWrites(c) \/ BindFails(c)
    \/ Query(c) \/ QueryFails(c) \/ Restart(c) \/ RestartFails(c) \/ Killed(c)
Boot == BootKeys \/ BootBinding
Next == (\E c \in Command : Step(c)) \/ ServiceStarts \/ Boot \/ ServiceStops

Spec == Init /\ [][Next]_vars

----------------------------------------------------------------------------
(* The inductive invariant of the proofs *)

\* In a process the keys that verify signatures are the current and the previous
\* one, which differ.
Coherent(m) ==
    /\ m.publicKeys = {m.current, m.previous} \ {None}
    /\ m.current = None => m.previous = None
    /\ m.current # None => m.current # m.previous

\* Everything in a process was given by somebody (K is known).
Given(m, K) == m.publicKeys \subseteq K.keys /\ m.principal \in K.who \cup {None}

Memories ==
    /\ \A p \in Proc : Coherent(mem[p]) /\ Given(mem[p], known)
    /\ \A c \in Command : Coherent(undo[c]) /\ Given(undo[c], known)

\* So was everything in the files and everything a running command will write.
Files ==
    /\ ring \in Ring => {ring.current, ring.previous} \ {None} \subseteq known.keys
    /\ bind \in Who => bind \in known.who
    /\ pem \in Key => pem \in known.keys
    /\ \A c \in Command :
          /\ pc[c] \in Active => arg[c].key \in known.keys /\ arg[c].who \in known.who
          /\ pc[c] \in {"save", "saving"} => mem[c].current = arg[c].key

KeyInv == TypeOK /\ Memories /\ Files

\* What a process that starts now would load: the current key and the identity.
Stored == LoadPublicKeys(Empty)
Cur == Stored.current
Pri == LoadPrincipal(Empty).principal

\* Processes begin with nothing in memory.
Blank ==
    /\ \A c \in Command : pc[c] \in {"new", "load"} => mem[c] = Empty
    /\ svc \in {"down", "boot"} => mem[Svc] = Empty
    /\ svc = "bind" => mem[Svc].principal = None

\* The rest holds as long as no two commands overlap.
Alone == \A c, d \in Command : pc[c] \in Active /\ pc[d] \in Active => c = d

\* What a command has in memory and what it has made of the files, by its place.
Progress(c) ==
    /\ pc[c] = "principal" => mem[c].principal = None
    /\ pc[c] \in {"principal", "set"} => mem[c].current = Cur
    /\ pc[c] = "save" => mem[c].previous = Cur
    /\ pc[c] = "saving" => ring = Torn
    /\ pc[c] \in {"bind", "bound", "binding", "query", "restart"} => Cur = arg[c].key
    /\ pc[c] \in {"set", "save", "saving", "bind"} => mem[c].principal = Pri
    /\ pc[c] = "binding" => bind = Torn
    /\ pc[c] \in {"query", "restart"} => bind = arg[c].who

\* The service's current key is stored, or the command that is replacing it for
\* the first time has it in memory as the previous one.
Traceable ==
    svc \in {"bind", "up"} /\ mem[Svc].current # None /\ ~torn /\ rotations <= 1 =>
        IF ring = Torn
        THEN \E c \in Command : /\ pc[c] = "saving"
                                /\ rotations = 0 => mem[c].previous = mem[Svc].current
        ELSE /\ mem[Svc].current \in Stored.publicKeys
             /\ rotations = 0 => mem[Svc].current = Cur

\* The service has what is stored, unless a running command has changed or is
\* changing a file: that command will restart it or be interrupted.
Synchronous ==
    ~interrupted =>
        /\ svc \in {"bind", "up"} =>
              \/ mem[Svc].current = Cur
              \/ \E c \in Command : pc[c] \in Active /\ (changed[c] \/ pc[c] = "saving")
        /\ svc = "up" =>
              \/ mem[Svc].principal = Pri
              \/ \E c \in Command : pc[c] \in Active /\ (changed[c] \/ pc[c] = "binding")

SoloInv ==
    Blank /\ (~overlapped => Alone /\ Traceable /\ Synchronous /\ \A c \in Command : Progress(c))

----------------------------------------------------------------------------
(* Properties *)

\* In every process the keys that verify signatures are the current and the
\* previous one, which differ: rotation, failed saves and both kinds of file
\* included.
KeysCoherent == \A p \in Proc : Coherent(mem[p])

\* A request is only served with a key and an identity some command has given
\* (or the key of an earlier version): a service without a binding, or with
\* files it cannot read, serves none.
Bound == \A k \in Key, u \in Who : Accepts(k, u) => k \in known.keys /\ u \in known.who

\* A command that gets as far as the service manager leaves the files with its
\* arguments, whatever earlier commands left: truncated files, files of an
\* earlier version, a change interrupted half way.
Stores(c) == Stored.current = arg[c].key /\ bind = arg[c].who
Healed == \A c \in Command : pc[c] \in {"query", "restart"} /\ ~overlapped => Stores(c)

\* A client that still signs with the key the service knows as current is served
\* again after one rotation and the restart that follows it, also when that key
\* came from the file of an earlier version.
Seamless ==
    svc = "up" /\ IsInitialized /\ ring # Torn /\ rotations <= 1 /\ ~torn /\ ~overlapped =>
        mem[Svc].current \in Stored.publicKeys

\* What a command has reported as done, or as needing no restart, holds: while its
\* arguments are the ones stored, a running service serves its key to its
\* identity and to no other.  The exception is a command that ended between its
\* first change and the restart: when it is repeated nothing changes, and the
\* service is left with what it had read before.
Effective ==
    \A c \in Command :
        /\ pc[c] \in {"done", "unneeded"} /\ Stores(c) /\ svc = "up"
        /\ ~interrupted /\ ~overlapped /\ \A d \in Command : pc[d] \notin Active
        => \A u \in Who : Accepts(arg[c].key, u) <=> u = arg[c].who

\* The service enforces what commands have given it, nothing else, and after a
\* command that succeeded exactly that.
Enforced == Bound /\ Effective
=============================================================================
