------------------------ MODULE SysproxyGuardProofs ------------------------
(***************************************************************************)
(* Proofs about SysproxyGuard, for any number of requests and settings.    *)
(*                                                                         *)
(* LastGuardWrites is not inductive: it needs that a generation belongs to *)
(* the request that settled it (GenInv), that a guard runs only after its  *)
(* request is over (RunInv), and that the mutation lock has one holder     *)
(* (LockInv).  NoLeakedGuard needs besides that a request that is about to *)
(* stop a guard has no cancel function left to call (PendInv).             *)
(***************************************************************************)
EXTENDS SysproxyGuard, TLAPS

Act(g) == grd[g] \in {"apply", "verify"}
Holds(r) == req[r] \in {"configure", "start", "finish"}

\* The generation a guard got is the current one only while no later request
\* has started or stopped a guard.
GenInv == \A g \in Request :
    /\ gen[g] <= generation
    /\ gen[g] # 0 /\ gen[g] = generation => settled = g
    /\ grd[g] # "none" \/ req[g] = "start" => gen[g] # 0

RunInv == \A g \in Request : grd[g] # "none" => req[g] = "done"

LockInv == \A g \in Request :
    /\ Holds(g) => mutation = g
    /\ Act(g) => mutation = g /\ settled = g

PendInv == \A r \in Request : pend[r] # None => req[r] \in {"stopped", "start", "finish"}

LeakInv == \A g \in Request : gen[g] # 0 /\ g # current
    => g \in cancelled \/ \E r \in Request : pend[r] = g

\* None is not the name of a request.
LEMMA NoneNotRequest == None \notin Request
BY GuardAssumption DEF None

\* Every initial state has the types.
LEMMA TypeInit == Init => TypeOK
BY DEF Init, TypeOK, OsType, StateType, ReqType, GrdType, HistType, RequestOrNone, None,
       ReqState, GrdState, Watch, Off, Setting

\* What Write does to the types.
LEMMA WriteType ==
    ASSUME watch \in [Request -> Watch], NEW s \in Setting, Write(s)
    PROVE  setting' \in Setting /\ watch' \in [Request -> Watch]
BY DEF Write, Watch

\* A guard's snapshot is a setting or a conflict.
LEMMA SnapshotType ==
    ASSUME NEW r, NEW s \in Setting
    PROVE  Snapshot(r, s) \in Setting \cup {"conflict"}
BY DEF Snapshot

\* Every step of a request keeps the types.
LEMMA ReqStepType ==
    ASSUME TypeOK, NEW r \in Request, ReqStep(r)
    PROVE  TypeOK'
<1> USE DEF TypeOK, OsType, StateType, ReqType, GrdType, HistType, RequestOrNone
<1>1. CASE \E s \in Setting, g \in BOOLEAN : ReqStop(r, s, g)
  <2>1. PICK s \in Setting, g \in BOOLEAN : ReqStop(r, s, g)
    BY <1>1
  <2>2. /\ req' = [req EXCEPT ![r] = "stopped"] /\ want' = [want EXCEPT ![r] = s]
        /\ guarded' \in SUBSET Request
        /\ generation' = generation + 1 /\ current' = None
        /\ pend' = [pend EXCEPT ![r] = current]
        /\ UNCHANGED <<osVars, mutation, cancelled, grdVars, settled, owner>>
    BY <2>1 DEF ReqStop, Stop
  <2> QED
    BY <2>2 DEF ReqState, osVars, grdVars, None
<1>2. CASE ReqCancel(r)
  BY <1>2 DEF ReqCancel, CancelPending, ReqState, osVars, grdVars
<1>3. CASE ReqWrite(r)
  <2>1. setting' \in Setting /\ watch' \in [Request -> Watch]
    BY <1>3, WriteType DEF ReqWrite
  <2> QED
    BY <1>3, <2>1 DEF ReqWrite, ReqState, stateVars
<1>4. CASE ReqWriteFails(r)
  BY <1>4 DEF ReqWriteFails, ReqState, osVars, stateVars, grdVars
<1>5. CASE ReqUnguarded(r)
  BY <1>5 DEF ReqUnguarded, Stop, ReqState, osVars, grdVars
<1>6. CASE ReqGuard(r)
  <2>1. expected' \in [Request -> Setting \cup {"conflict"}]
    BY <1>6, SnapshotType DEF ReqGuard
  <2> QED
    BY <1>6, <2>1 DEF ReqGuard, ReqState, osVars
<1>7. CASE ReqGuardFails(r)
  BY <1>7 DEF ReqGuardFails, ReqState, osVars, stateVars, grdVars
<1>8. CASE ReqFinish(r)
  BY <1>8 DEF ReqFinish, CancelPending, ReqState, GrdState, osVars
<1> QED
  BY <1>1, <1>2, <1>3, <1>4, <1>5, <1>6, <1>7, <1>8 DEF ReqStep

\* Every step of a guard, of its watch or of another program keeps the types.
LEMMA OtherStepType ==
    ASSUME TypeOK,
           \/ \E g \in Request : GrdStep(g) \/ WatchStep(g)
           \/ \E s \in Setting : Change(s)
    PROVE  TypeOK'
<1> USE DEF TypeOK, OsType, StateType, ReqType, GrdType, HistType, RequestOrNone
<1>1. ASSUME NEW g \in Request, GrdHead(g) \/ GrdEnd(g) \/ GrdChanged(g)
      PROVE  TypeOK'
  BY <1>1 DEF GrdHead, GrdEnd, GrdChanged, GrdGoto, GrdState, Watch, GrdRest, osVars, stateVars, reqVars
<1>2. ASSUME NEW g \in Request, WatchStep(g)
      PROVE  TypeOK'
  BY <1>2 DEF WatchStep, WatchArm, WatchFail, Watch, GrdRest, osVars, stateVars, reqVars
<1>3. ASSUME NEW g \in Request, GrdReady(g) \/ GrdQueryFails(g) \/ GrdApplyFails(g)
      PROVE  TypeOK'
  BY <1>3 DEF GrdReady, GrdQueryFails, GrdApplyFails, GrdGoto, GrdState, GrdRest, osVars, stateVars, reqVars
<1>4. ASSUME NEW g \in Request, GrdQuery(g)
      PROVE  TypeOK'
  <2>1. grd' \in [Request -> GrdState]
    BY <1>4 DEF GrdQuery, GrdGoto, GrdState
  <2> QED
    BY <1>4, <2>1 DEF GrdQuery, GrdRest, osVars, stateVars, reqVars
<1>5. ASSUME NEW g \in Request, GrdRestore(g)
      PROVE  TypeOK'
  BY <1>5 DEF GrdRestore, GrdGoto, GrdState, GrdRest, osVars, stateVars, reqVars
<1>6. ASSUME NEW g \in Request, GrdApply(g)
      PROVE  TypeOK'
  <2>1. Applied(g) \in Setting
    BY DEF Applied, Setting
  <2>2. setting' \in Setting /\ watch' \in [Request -> Watch]
    BY <1>6, <2>1, WriteType DEF GrdApply
  <2> QED
    BY <1>6, <2>2 DEF GrdApply, GrdGoto, GrdState, stateVars, reqVars
<1>7. ASSUME NEW g \in Request, GrdVerify(g)
      PROVE  TypeOK'
  <2>1. grd' \in [Request -> GrdState]
    BY <1>7 DEF GrdVerify, GrdGoto, GrdState
  <2> QED
    BY <1>7, <2>1 DEF GrdVerify, GrdRest, osVars, stateVars, reqVars
<1>8. ASSUME NEW s \in Setting, Change(s)
      PROVE  TypeOK'
  <2>1. setting' \in Setting /\ watch' \in [Request -> Watch]
    BY <1>8, WriteType DEF Change
  <2> QED
    BY <1>8, <2>1 DEF Change, stateVars, reqVars
<1> QED
  BY <1>1, <1>2, <1>3, <1>4, <1>5, <1>6, <1>7, <1>8 DEF GrdStep

\* Every variable of every reachable state of the guard has its type.
THEOREM GuardTypeCorrect == Spec => []TypeOK
<1>1. TypeOK /\ [Next]_vars => TypeOK'
  <2>1. TypeOK /\ UNCHANGED vars => TypeOK'
    BY DEF TypeOK, OsType, StateType, ReqType, GrdType, HistType, vars, osVars, stateVars, reqVars, grdVars
  <2> QED
    BY <2>1, ReqStepType, OtherStepType DEF Next
<1> QED
  BY <1>1, TypeInit, PTL DEF Spec
Safe == GenInv /\ RunInv /\ LockInv
Leak == PendInv /\ LeakInv

\* Every step of a request keeps generations, locks and control states in order.
LEMMA ReqStepSafe ==
    ASSUME TypeOK, Safe, NEW r \in Request, ReqStep(r)
    PROVE  Safe'
<1> USE NoneNotRequest DEF Safe, TypeOK, StateType, ReqType, GrdType, HistType, RequestOrNone,
                           GenInv, RunInv, LockInv, Act, Holds
<1>1. ASSUME NEW s \in Setting, NEW g \in BOOLEAN, ReqStop(r, s, g) PROVE Safe'
  BY <1>1 DEF ReqStop, Stop, grdVars
<1>2. CASE ReqCancel(r)
  BY <1>2 DEF ReqCancel, grdVars
<1>3. CASE ReqWrite(r)
  BY <1>3 DEF ReqWrite, stateVars
<1>4. CASE ReqWriteFails(r)
  BY <1>4 DEF ReqWriteFails, stateVars, grdVars
<1>5. CASE ReqUnguarded(r)
  BY <1>5 DEF ReqUnguarded, Stop, grdVars
<1>6. CASE ReqGuard(r)
  BY <1>6 DEF ReqGuard
<1>7. CASE ReqGuardFails(r)
  BY <1>7 DEF ReqGuardFails, stateVars, grdVars
<1>8. CASE ReqFinish(r)
  BY <1>8 DEF ReqFinish
<1> QED
  BY <1>1, <1>2, <1>3, <1>4, <1>5, <1>6, <1>7, <1>8 DEF ReqStep

\* So does every other step; a guard enters the lock only with the current generation.
LEMMA OtherStepSafe ==
    ASSUME TypeOK, Safe,
           \/ \E g \in Request : GrdStep(g) \/ WatchStep(g)
           \/ \E s \in Setting : Change(s)
    PROVE  Safe'
<1> USE NoneNotRequest DEF Safe, TypeOK, StateType, ReqType, GrdType, HistType, RequestOrNone,
                           GenInv, RunInv, LockInv, Act, Holds
<1>1. ASSUME NEW g \in Request,
             GrdHead(g) \/ GrdEnd(g) \/ GrdChanged(g) \/ GrdReady(g) \/ GrdQueryFails(g)
      PROVE  Safe'
  BY <1>1 DEF GrdHead, GrdEnd, GrdChanged, GrdReady, GrdQueryFails, GrdGoto, GrdRest, stateVars, reqVars
<1>2. ASSUME NEW g \in Request, WatchStep(g)
      PROVE  Safe'
  BY <1>2 DEF WatchStep, WatchArm, WatchFail, GrdRest, stateVars, reqVars
<1>3. ASSUME NEW g \in Request, GrdQuery(g)
      PROVE  Safe'
  <2>1. PICK st \in {"wait", "restore"} : grd' = [grd EXCEPT ![g] = st]
    BY <1>3 DEF GrdQuery, GrdGoto
  <2> QED
    BY <1>3, <2>1 DEF GrdQuery, GrdRest, stateVars, reqVars
<1>4. ASSUME NEW g \in Request, GrdRestore(g)
      PROVE  Safe'
  BY <1>4 DEF GrdRestore, GrdGoto, GrdRest, stateVars, reqVars
<1>5. ASSUME NEW g \in Request, GrdApply(g)
      PROVE  Safe'
  BY <1>5 DEF GrdApply, GrdGoto, stateVars, reqVars
<1>6. ASSUME NEW g \in Request, GrdApplyFails(g) \/ GrdVerify(g)
      PROVE  Safe'
  <2>1. PICK st \in {"wait", "retry"} : grd' = [grd EXCEPT ![g] = st]
    BY <1>6 DEF GrdApplyFails, GrdVerify, GrdGoto
  <2> QED
    BY <1>6, <2>1 DEF GrdApplyFails, GrdVerify, GrdRest, stateVars, reqVars
<1>7. ASSUME NEW s \in Setting, Change(s)
      PROVE  Safe'
  BY <1>7 DEF Change, stateVars, reqVars
<1> QED
  BY <1>1, <1>2, <1>3, <1>4, <1>5, <1>6, <1>7 DEF GrdStep

\* Generations, locks and control states are in order in every reachable state.
LEMMA SafeAlways == Spec => []Safe
<1>1. Init => Safe
  BY DEF Init, Safe, GenInv, RunInv, LockInv, Act, Holds
<1>2. TypeOK /\ Safe /\ [Next]_vars => Safe'
  <2>1. Safe /\ UNCHANGED vars => Safe'
    BY DEF Safe, GenInv, RunInv, LockInv, Act, Holds, vars, stateVars, reqVars, grdVars
  <2> QED
    BY <2>1, ReqStepSafe, OtherStepSafe DEF Next
<1> QED
  BY <1>1, <1>2, GuardTypeCorrect, PTL DEF Spec

\* sysproxy_guard.go, the generation check under sysproxyMutationMu: after a
\* request started or stopped a guard under the lock no earlier guard writes
\* the setting, for any number of concurrent requests.
THEOREM LastGuardWritesAlways == Spec => []LastGuardWrites
<1>1. Safe => LastGuardWrites
  BY DEF Safe, LockInv, LastGuardWrites, Act
<1> QED
  BY <1>1, SafeAlways, PTL

\* Every step of a request hands the cancel function of the guard it replaces on.
LEMMA ReqStepLeak ==
    ASSUME TypeOK, Leak, NEW r \in Request, ReqStep(r)
    PROVE  Leak'
<1> USE NoneNotRequest DEF Leak, TypeOK, StateType, ReqType, GrdType, RequestOrNone, PendInv, LeakInv
<1>1. ASSUME NEW s \in Setting, NEW g \in BOOLEAN, ReqStop(r, s, g) PROVE Leak'
  BY <1>1 DEF ReqStop, Stop, grdVars
<1>2. CASE ReqCancel(r)
  BY <1>2 DEF ReqCancel, CancelPending, grdVars
<1>3. CASE ReqWrite(r)
  BY <1>3 DEF ReqWrite, stateVars
<1>4. CASE ReqWriteFails(r)
  BY <1>4 DEF ReqWriteFails, stateVars, grdVars
<1>5. CASE ReqUnguarded(r)
  BY <1>5 DEF ReqUnguarded, Stop, grdVars
<1>6. CASE ReqGuard(r)
  BY <1>6 DEF ReqGuard
<1>7. CASE ReqGuardFails(r)
  BY <1>7 DEF ReqGuardFails, stateVars, grdVars
<1>8. CASE ReqFinish(r)
  BY <1>8 DEF ReqFinish, CancelPending
<1> QED
  BY <1>1, <1>2, <1>3, <1>4, <1>5, <1>6, <1>7, <1>8 DEF ReqStep

\* sysproxy_guard.go, start and stop: no guard but the current one keeps a live
\* context, unless a request is on its way to cancel it.
THEOREM NoLeakedGuardAlways == Spec => []NoLeakedGuard
<1>1. Init => Leak
  BY DEF Init, Leak, PendInv, LeakInv
<1>2. TypeOK /\ Leak /\ [Next]_vars => Leak'
  <2> SUFFICES ASSUME TypeOK, Leak, [Next]_vars PROVE Leak'
    OBVIOUS
  <2>1. CASE UNCHANGED <<reqVars, gen, stateVars>>
    BY <2>1 DEF Leak, PendInv, LeakInv, stateVars, reqVars
  <2>2. ASSUME NEW g \in Request, GrdStep(g) \/ WatchStep(g)
        PROVE  UNCHANGED <<reqVars, gen, stateVars>>
    BY <2>2 DEF GrdStep, WatchStep, GrdHead, GrdEnd, GrdReady, GrdQuery, GrdQueryFails, GrdRestore,
                GrdApply, GrdApplyFails, GrdVerify, GrdChanged, WatchArm, WatchFail, GrdRest
  <2>3. ASSUME NEW s \in Setting, Change(s)
        PROVE  UNCHANGED <<reqVars, gen, stateVars>>
    BY <2>3 DEF Change
  <2>4. CASE UNCHANGED vars
    BY <2>1, <2>4 DEF vars, grdVars
  <2> QED
    BY <2>1, <2>2, <2>3, <2>4, ReqStepLeak DEF Next
<1>3. Safe /\ Leak => NoLeakedGuard
  BY DEF Safe, GenInv, Leak, LeakInv, NoLeakedGuard
<1> QED
  BY <1>1, <1>2, <1>3, GuardTypeCorrect, SafeAlways, PTL DEF Spec
=============================================================================
