--------------------------- MODULE SysproxyGuard ---------------------------
(***************************************************************************)
(* The system proxy handlers and the guard that keeps a setting in place:  *)
(* route/sysproxyapi/sysproxy.go, sysproxy_guard.go and the runners.       *)
(*                                                                         *)
(* A set or disable request first stops the guard, then takes              *)
(* sysproxyMutationMu, changes the setting and, still under the lock,      *)
(* starts a guard or stops the one there is.  A guard is a goroutine with  *)
(* a context and a generation; it watches the setting, and when it finds   *)
(* another value it takes sysproxyMutationMu and writes its own, provided  *)
(* that its generation is still the current one.  A guard is named by the  *)
(* request that started it.                                                *)
(***************************************************************************)
EXTENDS Integers

CONSTANTS
    Request,         \* requests served; each may start one guard
    Server, PacURL,  \* settings of mode proxy and of mode pac
    MaxChanges,      \* bound: changes made by other programs
    ArmBeforeReady,  \* TRUE: WaitChangeReady reports ready once it listens (Windows);
                     \* FALSE: before it does (Linux, macOS)
    CanFail          \* TRUE: operations on the setting and watches may return an error

ASSUME GuardAssumption ==
    /\ MaxChanges \in Nat /\ ArmBeforeReady \in BOOLEAN /\ CanFail \in BOOLEAN
    /\ Server \cap PacURL = {} /\ {"off", "conflict"} \cap (Server \cup PacURL) = {}
    /\ "none" \notin Request

Off == "off"
None == "none"
Setting == Server \cup PacURL \cup {Off}
RequestOrNone == Request \cup {None}

VARIABLES
    setting,     \* the proxy setting of the operating system
    changes,     \* changes other programs made
    mutation,    \* sysproxyMutationMu: a request or a guard, by its name
    generation, current,   \* sysproxyGuardState; current is the guard cancel belongs to
    cancelled,   \* guards whose context is cancelled
    req, want, guarded, pend,  \* requests: control state, setting asked for, those
                               \* that ask for a guard, and the guard whose cancel
                               \* function the request still has to call
    grd, gen, expected, watch, \* guards: control state, generation, snapshot to keep,
                               \* and the current WaitChangeReady call
    settled,     \* history: the last request that started or stopped a guard under the lock
    owner        \* history: the last request that changed the setting

osVars    == <<setting, changes>>
stateVars == <<generation, current, cancelled>>
reqVars   == <<req, want, guarded, pend>>
grdVars   == <<grd, gen, expected, watch>>
vars == <<osVars, mutation, stateVars, reqVars, grdVars, settled, owner>>

ReqState == {"new", "stopped", "lock", "configure", "start", "finish", "done"}
GrdState == {"none", "head", "await", "query", "restore", "apply", "verify",
             "retry", "wait", "done"}
Watch == {"off", "starting", "armed", "fired"}

OsType    == setting \in Setting /\ changes \in Nat
StateType == /\ mutation \in RequestOrNone /\ generation \in Nat
             /\ current \in RequestOrNone /\ cancelled \in SUBSET RequestOrNone
ReqType   == /\ req \in [Request -> ReqState] /\ want \in [Request -> Setting]
             /\ guarded \in SUBSET Request /\ pend \in [Request -> RequestOrNone]
GrdType   == /\ grd \in [Request -> GrdState] /\ gen \in [Request -> Nat]
             /\ expected \in [Request -> Setting \cup {"conflict"}]
             /\ watch \in [Request -> Watch]
HistType  == settled \in RequestOrNone /\ owner \in RequestOrNone
TypeOK == OsType /\ StateType /\ ReqType /\ GrdType /\ HistType

Init ==
    /\ setting \in Setting /\ changes = 0 /\ mutation = None
    /\ generation = 0 /\ current = None /\ cancelled = {}
    /\ req = [r \in Request |-> "new"] /\ want = [r \in Request |-> Off]
    /\ guarded = {} /\ pend = [r \in Request |-> None]
    /\ grd = [r \in Request |-> "none"] /\ gen = [r \in Request |-> 0]
    /\ expected = [r \in Request |-> Off] /\ watch = [r \in Request |-> "off"]
    /\ settled = None /\ owner = None

----------------------------------------------------------------------------
\* newSysproxyGuardSnapshot: what a guard of request r sees of setting s.  A
\* setting of the other mode shows only as a conflict.
Snapshot(r, s) ==
    IF s = Off \/ (s \in Server) = (want[r] \in Server) THEN s ELSE "conflict"

\* fillSysproxyGuardApplyOptions: Apply writes the snapshot; a proxy guard whose
\* snapshot has no server falls back on the one requested, a PAC guard has none.
Applied(r) == IF expected[r] \in Server \cup PacURL THEN expected[r] ELSE want[r]
CanApply(r) == expected[r] \in Server \cup PacURL \/ want[r] \in Server

\* Writing the setting wakes every watch that listens.
Write(s) ==
    /\ setting' = s
    /\ watch' = [g \in Request |-> IF s # setting /\ watch[g] = "armed" THEN "fired" ELSE watch[g]]

\* sysproxyGuardState.stop: the part under s.mu; the cancel follows.
Stop(r) ==
    /\ generation' = generation + 1 /\ current' = None
    /\ pend' = [pend EXCEPT ![r] = current]

CancelPending(r) ==
    /\ cancelled' = cancelled \cup {pend[r]} /\ pend' = [pend EXCEPT ![r] = None]

----------------------------------------------------------------------------
(* Requests: pac, proxy and disable of sysproxy.go *)

\* A handler runs StopGuard before it takes the mutation lock.
ReqStop(r, s, g) ==
    /\ req[r] = "new" /\ (s = Off => ~g)
    /\ req' = [req EXCEPT ![r] = "stopped"] /\ want' = [want EXCEPT ![r] = s]
    /\ guarded' = IF g THEN guarded \cup {r} ELSE guarded
    /\ Stop(r)
    /\ UNCHANGED <<osVars, mutation, cancelled, grdVars, settled, owner>>

ReqCancel(r) ==
    /\ req[r] = "stopped" /\ req' = [req EXCEPT ![r] = "lock"]
    /\ CancelPending(r)
    /\ UNCHANGED <<osVars, mutation, generation, current, want, guarded, grdVars, settled, owner>>

\* SetPac and SetProxy keep the lock for the guard, DisableProxy returns.
ReqWrite(r) ==
    /\ req[r] = "lock" /\ mutation = None
    /\ Write(want[r]) /\ owner' = r
    /\ IF want[r] = Off
       THEN req' = [req EXCEPT ![r] = "done"] /\ UNCHANGED mutation
       ELSE req' = [req EXCEPT ![r] = "configure"] /\ mutation' = r
    /\ UNCHANGED <<changes, stateVars, want, guarded, pend, grd, gen, expected, settled>>

\* The change fails and the request is answered with the error.  Stop of
\* server.go, which calls StopGuard and nothing else, looks the same.
ReqWriteFails(r) ==
    /\ CanFail /\ req[r] = "lock" /\ mutation = None
    /\ req' = [req EXCEPT ![r] = "done"]
    /\ UNCHANGED <<osVars, mutation, stateVars, want, guarded, pend, grdVars, settled, owner>>

\* configureSysproxyGuard of a request that asks for no guard: StopGuard again.
ReqUnguarded(r) ==
    /\ req[r] = "configure" /\ r \notin guarded
    /\ req' = [req EXCEPT ![r] = "finish"] /\ Stop(r) /\ settled' = r
    /\ UNCHANGED <<osVars, mutation, cancelled, want, guarded, grdVars, owner>>

\* ... and of one that does: the snapshot is what a query finds now, and
\* sysproxyGuardState.start makes the new guard the current one.
ReqGuard(r) ==
    /\ req[r] = "configure" /\ r \in guarded
    /\ req' = [req EXCEPT ![r] = "start"]
    /\ expected' = [expected EXCEPT ![r] = Snapshot(r, setting)]
    /\ generation' = generation + 1 /\ gen' = [gen EXCEPT ![r] = generation + 1]
    /\ current' = r /\ pend' = [pend EXCEPT ![r] = current]
    /\ settled' = r
    /\ UNCHANGED <<osVars, mutation, cancelled, want, guarded, grd, watch, owner>>

\* The runner cannot be captured or the query fails: the setting stays, without a guard.
ReqGuardFails(r) ==
    /\ CanFail /\ req[r] = "configure" /\ r \in guarded
    /\ req' = [req EXCEPT ![r] = "finish"]
    /\ UNCHANGED <<osVars, mutation, stateVars, want, guarded, pend, grdVars, settled, owner>>

\* Mutant: the guard that is replaced is not cancelled.
ReqFinishForgets(r) ==
    /\ req[r] \in {"start", "finish"} /\ req' = [req EXCEPT ![r] = "done"]
    /\ mutation' = None /\ pend' = [pend EXCEPT ![r] = None]
    /\ grd' = IF req[r] = "start" THEN [grd EXCEPT ![r] = "head"] ELSE grd
    /\ UNCHANGED <<osVars, stateVars, want, guarded, gen, expected, watch, settled, owner>>

\* The previous guard is cancelled, a new one started, the lock released.
ReqFinish(r) ==
    /\ req[r] \in {"start", "finish"} /\ req' = [req EXCEPT ![r] = "done"]
    /\ mutation' = None /\ CancelPending(r)
    /\ grd' = IF req[r] = "start" THEN [grd EXCEPT ![r] = "head"] ELSE grd
    /\ UNCHANGED <<osVars, generation, current, want, guarded, gen, expected, watch, settled, owner>>

----------------------------------------------------------------------------
(* The guard goroutine: sysproxyGuardState.run *)

GrdGoto(g, s) == grd' = [grd EXCEPT ![g] = s]
GrdRest == <<osVars, stateVars, reqVars, gen, expected, settled, owner>>

\* The top of the loop starts a watch.
GrdHead(g) ==
    /\ grd[g] = "head" /\ g \notin cancelled /\ GrdGoto(g, "await")
    /\ watch' = [watch EXCEPT ![g] = "starting"]
    /\ UNCHANGED <<mutation, GrdRest>>

\* Mutant: the context is looked at at the top of the loop only.
GrdEndAtHead(g) ==
    /\ grd[g] = "head" /\ g \in cancelled /\ GrdGoto(g, "done")
    /\ watch' = [watch EXCEPT ![g] = "off"]
    /\ UNCHANGED <<mutation, GrdRest>>

\* ctx.Done at the top of the loop and in every select.
GrdEnd(g) ==
    /\ grd[g] \in {"head", "await", "retry", "wait"} /\ g \in cancelled /\ GrdGoto(g, "done")
    /\ watch' = [watch EXCEPT ![g] = "off"]
    /\ UNCHANGED <<mutation, GrdRest>>

\* The call of WaitChangeReady listens from here on.
WatchArm(g) ==
    /\ watch[g] = "starting" /\ watch' = [watch EXCEPT ![g] = "armed"]
    /\ UNCHANGED <<mutation, grd, GrdRest>>

\* WaitChangeReady returns an error; ready is closed then too.
WatchFail(g) ==
    /\ CanFail /\ watch[g] \in {"starting", "armed"} /\ watch' = [watch EXCEPT ![g] = "fired"]
    /\ UNCHANGED <<mutation, grd, GrdRest>>

\* Mutant: the guard queries without waiting for the watch.
GrdReadyAtOnce(g) ==
    /\ grd[g] = "await" /\ GrdGoto(g, "query")
    /\ UNCHANGED <<mutation, watch, GrdRest>>

GrdReady(g) ==
    /\ grd[g] = "await" /\ GrdGoto(g, "query")
    /\ ArmBeforeReady => watch[g] # "starting"
    /\ UNCHANGED <<mutation, watch, GrdRest>>

GrdQuery(g) ==
    /\ grd[g] = "query"
    /\ GrdGoto(g, IF Snapshot(g, setting) = expected[g] THEN "wait" ELSE "restore")
    /\ UNCHANGED <<mutation, watch, GrdRest>>

GrdQueryFails(g) ==
    /\ CanFail /\ grd[g] = "query" /\ GrdGoto(g, "retry")
    /\ UNCHANGED <<mutation, watch, GrdRest>>

\* Mutant: the guard does not look at its generation.
GrdRestoreUnchecked(g) ==
    /\ grd[g] = "restore" /\ mutation = None
    /\ GrdGoto(g, "apply") /\ mutation' = g
    /\ UNCHANGED <<watch, GrdRest>>

\* runSysproxyMutation: under the lock, only the guard of the current generation goes on.
GrdRestore(g) ==
    /\ grd[g] = "restore" /\ mutation = None
    /\ IF gen[g] = generation THEN GrdGoto(g, "apply") /\ mutation' = g
       ELSE GrdGoto(g, "wait") /\ UNCHANGED mutation
    /\ UNCHANGED <<watch, GrdRest>>

GrdApply(g) ==
    /\ grd[g] = "apply" /\ CanApply(g) /\ GrdGoto(g, "verify")
    /\ Write(Applied(g))
    /\ UNCHANGED <<changes, mutation, stateVars, reqVars, gen, expected, settled, owner>>

GrdApplyFails(g) ==
    /\ CanFail \/ ~CanApply(g)
    /\ grd[g] = "apply" /\ GrdGoto(g, "retry") /\ mutation' = None
    /\ UNCHANGED <<watch, GrdRest>>

\* The query after Apply finds the snapshot, or something else; it may fail.
GrdVerify(g) ==
    /\ grd[g] = "verify" /\ mutation' = None
    /\ \/ Snapshot(g, setting) = expected[g] /\ GrdGoto(g, "wait")
       \/ (CanFail \/ Snapshot(g, setting) # expected[g]) /\ GrdGoto(g, "retry")
    /\ UNCHANGED <<watch, GrdRest>>

\* waitSysproxyGuardNextChange and the select at the end of the loop.
GrdChanged(g) ==
    /\ grd[g] \in {"retry", "wait"} /\ watch[g] = "fired" /\ GrdGoto(g, "head")
    /\ watch' = [watch EXCEPT ![g] = "off"]
    /\ UNCHANGED <<mutation, GrdRest>>

\* Another program changes the setting.
Change(s) ==
    /\ changes < MaxChanges /\ changes' = changes + 1 /\ s # setting /\ Write(s)
    /\ UNCHANGED <<mutation, stateVars, reqVars, grd, gen, expected, settled, owner>>

ReqStep(r) == \/ \E s \in Setting, g \in BOOLEAN : ReqStop(r, s, g)
              \/ ReqCancel(r) \/ ReqWrite(r) \/ ReqWriteFails(r) \/ ReqUnguarded(r)
              \/ ReqGuard(r) \/ ReqGuardFails(r) \/ ReqFinish(r)
GrdStep(g) == \/ GrdHead(g) \/ GrdEnd(g) \/ GrdReady(g) \/ GrdQuery(g) \/ GrdQueryFails(g)
              \/ GrdRestore(g) \/ GrdApply(g) \/ GrdApplyFails(g) \/ GrdVerify(g) \/ GrdChanged(g)
WatchStep(g) == WatchArm(g) \/ WatchFail(g)

Next == \/ \E r \in Request : ReqStep(r) \/ GrdStep(r) \/ WatchStep(r)
        \/ \E s \in Setting : Change(s)

Spec == Init /\ [][Next]_vars

\* Handlers and guards are goroutines the scheduler keeps running; a mutex
\* starves nobody.  Nothing is assumed of clients and of other programs.
Fairness == \A r \in Request :
    /\ WF_vars(req[r] # "new" /\ ReqStep(r)) /\ WF_vars(GrdStep(r)) /\ WF_vars(WatchArm(r))
    /\ SF_vars(GrdRestore(r)) /\ SF_vars(ReqWrite(r)) /\ SF_vars(GrdEnd(r))

FairSpec == Spec /\ Fairness
----------------------------------------------------------------------------
\* Once a request started or stopped a guard under the mutation lock, no guard
\* of an earlier request writes the setting any more, however long it waited
\* for the lock and whatever it had seen before: the generation check works.
LastGuardWrites == \A g \in Request : grd[g] \in {"apply", "verify"} => settled = g

\* No guard outlives its successor: every guard but the current one has its
\* context cancelled, or a request is about to call its cancel function.
NoLeakedGuard ==
    \A g \in Request : grd[g] # "none" /\ g # current
        => g \in cancelled \/ \E r \in Request : pend[r] = g

\* README, POST /sysproxy/disable: a setting that was disabled is not set again
\* by a guard (a later request or another program may).
DisableIsFinal == \A g \in Request :
    grd[g] = "verify" => owner = None \/ want[owner] # Off

\* A setting another program changes under the current guard is put back, if
\* the snapshot the guard keeps is a setting at all, or the guard is stopped or
\* replaced, or an operation fails and the guard waits for the next change: the
\* watch listens before the setting is read, so no change is lost.
GuardRestores == \A g \in Request :
    (/\ grd[g] # "none" /\ gen[g] = generation
     /\ expected[g] \in Server \cup PacURL /\ Snapshot(g, setting) # expected[g])
        ~> (gen[g] # generation \/ Snapshot(g, setting) = expected[g] \/ grd[g] = "retry")

\* A guard that is stopped ends, wherever in its loop that finds it, and a
\* request that waits for the mutation lock is answered.
GuardsEnd == \A g \in Request :
    /\ (g \in cancelled) ~> (grd[g] = "done")
    /\ (req[g] # "new") ~> (req[g] = "done")
=============================================================================
