------------------------ MODULE LaunchProfileProofs ------------------------
(***************************************************************************)
(* Proofs about LaunchProfile: the threads of the core are bound as the    *)
(* launch says, the launch follows the file, and PATCH keeps the fields it *)
(* does not name, for all sets of requests, profiles, patches and CPUs and *)
(* all bounds.                                                             *)
(***************************************************************************)
EXTENDS LaunchProfile, FiniteSetTheorems, TLAPS
----------------------------------------------------------------------------
(* What the variables hold *)

Optional(S) == S \cup {None}

RequestSet == [pc : {"idle", "load", "save", "reload", "manage"}, kind : Optional(Kinds),
               body : Optional(Profile \cup Patches), profile : Optional(Profile \cup Patches)]

\* What a handler has in hand at each of its places.
InHand(q) ==
  /\ q.pc = "load" => q.kind = "patch"
  /\ q.pc = "save" => q.kind # "stop" /\ q.profile \in Profile /\ (q.kind # "patch" => q.profile = q.body)
  /\ q.pc = "reload" => q.kind \in {"post", "patch"}
  /\ q.pc = "manage" /\ q.kind \in {"post", "patch"} => q.profile \in Profile
  /\ q.pc # "idle" => q.kind \in Kinds /\ q.body \in Bodies(q.kind)

CallSet == [cpus : Values("cpu"), profile : Profile, step : {"cgroup", "threads"},
            round : Nat, left : SUBSET Nat, touched : BOOLEAN, met : SUBSET Nat]

Flags ==
  /\ alive \in BOOLEAN /\ up \in BOOLEAN
  /\ loose \in BOOLEAN /\ apart \in BOOLEAN /\ alone \in BOOLEAN /\ stale \in BOOLEAN /\ unsaved \in BOOLEAN

Counts == requests \in Nat /\ crashes \in Nat /\ faults \in Nat

Files ==
  /\ file \in Optional(Profile) /\ launch \in Optional(Profile) /\ relaunch \in Optional(Profile)
  /\ record \in Optional(Profile) /\ desired \in Optional(Profile)

Hands == request \in [Requests -> RequestSet] /\ \A r \in Requests : InHand(request[r])

Held ==
  /\ mutex \in Requests \cup Inner \cup {None}
  /\ mutex = None => call = None
  /\ mutex # None => call \in CallSet
  /\ mutex = "relaunch" => relaunch # None
  /\ mutex = "boot" => ~up
  /\ mutex \in Requests => request[mutex].pc = "manage"
  /\ ~up => Active = {} /\ mutex \in {None, "boot"} /\ relaunch = None /\ launch = None

GroupSet == [usable : BOOLEAN, entry : BOOLEAN, set : Optional(Values("cpu")), own : BOOLEAN]

Core ==
  /\ Threads \in SUBSET Nat /\ IsFiniteSet(Threads)
  /\ mask \in [Threads -> SUBSET Online]
  /\ cgroup \in GroupSet

Typed == Flags /\ Counts /\ Files /\ Hands /\ Held /\ Core
----------------------------------------------------------------------------
(* The binding *)

\* The CPUs that a profile gives, and whether every thread has them.
Want(c) == IF c \cap Online = {} THEN Online ELSE c \cap Online
Right(c) == \A t \in Threads : mask[t] = Want(c)

Unbound == {t \in Threads : mask[t] # Requested}

\* During SetCPUAffinity: the threads have the binding of the launch as long as
\* none was changed; and after each list of threads that left one unbound a new
\* thread was created.
CallInv ==
  /\ call.cpus = call.profile.cpu
  /\ launch = None => alive
  /\ alive /\ launch # None /\ ~loose /\ ~call.touched => Right(launch.cpu)
  /\ call.step = "cgroup" => ~call.touched /\ call.round = 0
  /\ call.step = "threads" /\ cgroup.set # None => apart
  /\ alive => \/ Unbound = {} \/ 1..call.round \subseteq call.met
              \/ 1..(call.round - 1) \subseteq call.met /\ Unbound \subseteq call.left

\* The threads of a group have its CPUs unless they were bound apart.
GroupInv == cgroup.set # None /\ ~apart => \A t \in Threads : mask[t] = Allowed(cgroup.set)

\* A record is one of a living core with a launch, which only the end of the
\* service takes away; the next service finds the recorded binding.
RecordInv ==
  /\ record # None => alive
  /\ record # None /\ launch = None => ~up /\ mutex = None
  /\ ~up /\ mutex = None /\ record # None /\ ~loose => Right(record.cpu)

BindInv ==
  /\ GroupInv /\ RecordInv
  /\ mutex = None /\ alive /\ launch # None /\ ~loose => Right(launch.cpu)
  /\ mutex # None => CallInv
----------------------------------------------------------------------------
(* The file and the launch *)

Sync(p) == p # None => LiveOf(p) = LiveOf(Loaded)

\* A request that nothing has overlapped so far.
Sole(r) ==
  /\ Active = {r} /\ relaunch = None
  /\ request[r].pc = "save" /\ request[r].kind = "patch" =>
       request[r].profile = Patched(Loaded, request[r].body)
  /\ request[r].pc = "manage" /\ request[r].kind \in {"post", "patch"} => request[r].profile = Loaded
  /\ request[r].pc = "manage" /\ request[r].kind \in {"start", "restart"} /\ request[r].body # None =>
       request[r].body = Loaded
  /\ request[r].kind = "stop" /\ ~stale /\ ~unsaved => Sync(desired)
  /\ mutex = r => Sync(call.profile)

\* The profiles in the state files are those of the file until a profile
\* request changes that.
FileInv ==
  /\ Active = {} /\ ~stale =>
       /\ Sync(launch) /\ Sync(relaunch) /\ (mutex # None => Sync(call.profile))
       /\ ~unsaved => Sync(desired) /\ Sync(record)
  /\ Active # {} /\ ~alone => stale
  /\ alone => \A r \in Active : Sole(r)
----------------------------------------------------------------------------
(* Profiles *)

\* A profile is a function of the fields, whose values are those of the bodies.
LEMMA ProfileIs ==
    ASSUME NEW p
    PROVE  p \in Profile <=> p = [f \in Fields |-> p[f]] /\ \A f \in Fields : p[f] \in Values(f)
<1> DEFINE C == Values("core")
           M == Values("mode")
           U == Values("cpu")
           L == Values("log")
<1>1. (\A f \in Fields : p[f] \in Values(f)) <=> p.core \in C /\ p.mode \in M /\ p.cpu \in U /\ p.log \in L
  BY DEF Fields
<1> HIDE DEF C, M, U, L
<1>2. p \in [core : C, mode : M, cpu : U, log : L] <=>
        p = [f \in Fields |-> p[f]] /\ p.core \in C /\ p.mode \in M /\ p.cpu \in U /\ p.log \in L
  BY DEF Fields
<1> QED BY <1>1, <1>2 DEF Profile, C, M, U, L

LEMMA DefaultProfile == Default \in Profile
<1>1. Default = [f \in Fields |-> Default[f]]
  BY DEF Default, Fields
<1>2. \A f \in Fields : Default[f] \in Values(f)
  BY DEF Values
<1> QED BY <1>1, <1>2, ProfileIs

\* PATCH turns a profile into a profile.
LEMMA PatchedProfile ==
    ASSUME NEW p \in Profile, NEW q \in Patches PROVE Patched(p, q) \in Profile
<1>1. Patched(p, q) = [f \in Fields |-> Patched(p, q)[f]]
  BY DEF Patched
<1>2. \A f \in Fields : Patched(p, q)[f] \in Values(f)
  BY ProfileIs DEF Patched, Values
<1> QED BY <1>1, <1>2, ProfileIs

\* What ApplyLaunchProfile makes of a launch.
LEMMA AppliedProfile ==
    ASSUME NEW p \in Profile, NEW l \in Profile,
           NEW n, n = [f \in Fields |-> IF f \in Live THEN p[f] ELSE l[f]]
    PROVE  n \in Profile /\ n.cpu = p.cpu /\ LiveOf(n) = LiveOf(p)
<1>1. n = [f \in Fields |-> n[f]] /\ \A f \in Fields : n[f] \in Values(f)
  BY ProfileIs
<1>2. \A f \in Live : n[f] = p[f]
  BY DEF Live, Fields
<1>3. n["cpu"] = p["cpu"]
  BY <1>2 DEF Live
<1>4. LiveOf(n) = LiveOf(p)
  BY <1>2 DEF LiveOf
<1> QED BY <1>1, <1>3, <1>4, ProfileIs

\* What is saved is what is loaded.
LEMMA SavedLoaded == ASSUME NEW p \in Profile, file' = Saved(p) PROVE Loaded' = p /\ file' \in Optional(Profile)
  BY NoneAssumption DEF Saved, IsZero, Loaded, Optional

LEMMA LoadedProfile == ASSUME file \in Optional(Profile) PROVE Loaded \in Profile
  BY DefaultProfile DEF Loaded, Optional

LEMMA Cpu == ASSUME NEW p \in Profile PROVE p.cpu \in Values("cpu")
  BY ProfileIs DEF Fields
----------------------------------------------------------------------------
(* Requests *)

LEMMA IdleFacts == Idle \in RequestSet /\ InHand(Idle) /\ Idle.pc = "idle"
<1>1. /\ Idle = [pc |-> "idle", kind |-> None, body |-> None, profile |-> None]
      /\ Idle.pc = "idle"
  BY DEF Idle
<1>2. Idle \in RequestSet
  BY <1>1 DEF RequestSet, Optional
<1> QED BY <1>1, <1>2 DEF InHand

\* A step that changes the record of one request.
LEMMA HandStep ==
    ASSUME Hands, NEW r \in Requests, NEW q \in RequestSet, InHand(q), request' = [request EXCEPT ![r] = q]
    PROVE  /\ Hands' /\ request'[r] = q
           /\ \A s \in Requests \ {r} : request'[s] = request[s]
           /\ Active' = IF q.pc = "idle" THEN Active \ {r} ELSE Active \cup {r}
<1>1. /\ request' \in [Requests -> RequestSet] /\ request'[r] = q
      /\ \A s \in Requests \ {r} : request'[s] = request[s]
  BY DEF Hands
<1>2. \A s \in Requests : InHand(request'[s])
  BY <1>1 DEF Hands
<1>3. Hands'
  BY <1>1, <1>2 DEF Hands, InHand
<1>4. Active' = IF q.pc = "idle" THEN Active \ {r} ELSE Active \cup {r}
  BY <1>1 DEF Active
<1> QED BY <1>1, <1>3, <1>4

\* A handler goes on with a profile in hand.
LEMMA GotoIs ==
    ASSUME Hands, NEW r \in Requests, NEW c \in {"save", "reload", "manage"}, NEW p \in Profile, Goto(r, c, p)
    PROVE  \E q \in RequestSet :
             /\ q.pc = c /\ q.kind = request[r].kind /\ q.body = request[r].body /\ q.profile = p
             /\ request' = [request EXCEPT ![r] = q]
<1> DEFINE q == [pc |-> c, kind |-> request[r].kind, body |-> request[r].body, profile |-> p]
<1>1. request[r] \in RequestSet
  BY DEF Hands
<1>2. q \in RequestSet
  BY <1>1 DEF RequestSet, Optional
<1> QED BY <1>2 DEF Goto

\* What the handlers do before they go to the manager; q is the record of the
\* request after the step.
Front(r, q) ==
  /\ q \in RequestSet /\ InHand(q) /\ request' = [request EXCEPT ![r] = q]
  /\ request[r].pc # "manage"
  /\ UNCHANGED <<launch, relaunch, mutex, process, disk>>
  /\ file' \in Optional(Profile)
  /\ \/ /\ up /\ request[r].pc = "idle" /\ q.pc # "idle" /\ UNCHANGED file
        /\ q.pc = "save" => q.kind # "patch"
        /\ q.pc = "manage" => q.kind \notin {"post", "patch"} /\ q.body = None
        /\ alone' = (Active = {} /\ relaunch = None) /\ stale' = (stale \/ ~alone')
     \/ request[r].pc # "idle" /\ q = Idle /\ stale' = TRUE /\ UNCHANGED alone
     \/ /\ request[r].pc # "idle" /\ q.kind = request[r].kind /\ q.body = request[r].body
        /\ UNCHANGED <<alone, stale>>
        /\ \/ q.pc = "save" /\ q.kind = "patch" /\ q.profile = Patched(Loaded, q.body) /\ UNCHANGED file
           \/ /\ request[r].pc = "save" /\ q.kind # "stop" /\ q.profile = request[r].profile /\ Loaded' = q.profile
              /\ q.pc = IF q.kind \in {"post", "patch"} THEN "reload" ELSE "manage"
           \/ /\ q.pc = "manage" /\ q.profile = Loaded /\ q.kind \in {"post", "patch"}
              /\ UNCHANGED file

LEMMA ReceiveFront == ASSUME Typed, NEW r \in Requests, Receive(r) PROVE \E q : Front(r, q)
<1>1. PICK kind \in Kinds : \E body \in Bodies(kind) :
         /\ up /\ request[r].pc = "idle"
         /\ request' = [request EXCEPT ![r] =
              [pc |-> First(kind, body), kind |-> kind, body |-> body, profile |-> body]]
         /\ alone' = (Active = {} /\ relaunch = None)
         /\ stale' = (stale \/ ~alone')
         /\ UNCHANGED <<file, launch, relaunch, mutex, process, disk>>
  BY DEF Receive
<1>2. PICK body \in Bodies(kind) :
         /\ up /\ request[r].pc = "idle"
         /\ request' = [request EXCEPT ![r] =
              [pc |-> First(kind, body), kind |-> kind, body |-> body, profile |-> body]]
         /\ alone' = (Active = {} /\ relaunch = None)
         /\ stale' = (stale \/ ~alone')
         /\ UNCHANGED <<file, launch, relaunch, mutex, process, disk>>
  BY <1>1
<1> DEFINE q == [pc |-> First(kind, body), kind |-> kind, body |-> body, profile |-> body]
<1>3. /\ kind \in {"post", "start", "restart"} /\ body # None => body \in Profile
      /\ kind = "patch" => body \in Patches
      /\ kind = "post" => body \in Profile /\ body # None
      /\ kind = "stop" => body = None
  BY ProfilesAssumption, NoneAssumption DEF Bodies, Kinds
<1>4. body \in Optional(Profile \cup Patches)
  BY <1>3 DEF Kinds, Optional
<1>5. First(kind, body) = IF kind = "patch" THEN "load"
                          ELSE IF kind = "post" \/ body # None THEN "save" ELSE "manage"
  BY DEF First, Kinds
<1>6. /\ q.pc = First(kind, body) /\ q.kind = kind /\ q.body = body /\ q.profile = body
      /\ q \in RequestSet
  BY <1>4, <1>5 DEF RequestSet, Optional
<1>7. InHand(q)
  <2>1. q.pc = "load" => q.kind = "patch"
    BY <1>5, <1>6
  <2>2. q.pc = "save" => q.kind # "stop" /\ q.profile \in Profile /\ (q.kind # "patch" => q.profile = q.body)
    BY <1>3, <1>5, <1>6 DEF Kinds
  <2>3. q.pc # "reload"
    BY <1>5, <1>6
  <2>4. q.pc = "manage" => q.kind \notin {"post", "patch"}
    BY <1>3, <1>5, <1>6
  <2>5. q.kind \in Kinds /\ q.body \in Bodies(q.kind)
    BY <1>6
  <2> QED BY <2>1, <2>2, <2>3, <2>4, <2>5 DEF InHand
<1>8. /\ q.pc # "idle"
      /\ q.pc = "save" => q.kind # "patch"
      /\ q.pc = "manage" => q.kind \notin {"post", "patch"} /\ q.body = None
  BY <1>3, <1>5, <1>6
<1> HIDE DEF q
<1>9. file' \in Optional(Profile)
  BY <1>2 DEF Typed, Files
<1> QED BY <1>2, <1>6, <1>7, <1>8, <1>9 DEF Front, q

LEMMA AnswerFails == ASSUME NEW r, Answer(r, FALSE) PROVE request' = [request EXCEPT ![r] = Idle] /\ stale' = TRUE
  BY DEF Answer

LEMMA LoadFront == ASSUME Typed, NEW r \in Requests, Load(r) PROVE \E q : Front(r, q)
<1>0. /\ request[r].pc = "load" /\ file' = file /\ file \in Optional(Profile)
      /\ UNCHANGED <<launch, relaunch, mutex, process, disk, alone>>
  BY DEF Load, Typed, Files
<1>1. CASE Answer(r, FALSE)
  BY <1>0, <1>1, AnswerFails, IdleFacts DEF Front
<1>2. ASSUME Goto(r, "save", Patched(Loaded, request[r].body)), stale' = stale
      PROVE  \E q : Front(r, q)
  <2>1. request[r].kind = "patch" /\ request[r].body \in Patches
    BY <1>0 DEF Typed, Hands, InHand, Bodies
  <2>2. Patched(Loaded, request[r].body) \in Profile
    BY <1>0, <2>1, LoadedProfile, PatchedProfile
  <2>3. PICK q \in RequestSet :
           /\ q.pc = "save" /\ q.kind = request[r].kind /\ q.body = request[r].body
           /\ q.profile = Patched(Loaded, request[r].body)
           /\ request' = [request EXCEPT ![r] = q]
    BY <1>2, <2>2, GotoIs DEF Typed
  <2>4. InHand(q)
    BY <2>1, <2>2, <2>3 DEF InHand, Kinds, Bodies
  <2> QED BY <1>0, <1>2, <2>1, <2>3, <2>4 DEF Front
<1> QED BY <1>1, <1>2 DEF Load

LEMMA SaveFront == ASSUME Typed, NEW r \in Requests, Save(r) PROVE \E q : Front(r, q)
<1> DEFINE p == request[r].profile
<1>0. /\ request[r].pc = "save" /\ file \in Optional(Profile)
      /\ UNCHANGED <<launch, relaunch, mutex, process, disk, alone>>
  BY DEF Save, Typed, Files
<1>1. p \in Profile /\ request[r].kind \in Kinds \ {"stop"} /\ request[r].body \in Bodies(request[r].kind)
  BY <1>0 DEF Typed, Hands, InHand
<1>2. ASSUME Answer(r, FALSE), file' \in {file, Saved(p)} PROVE \E q : Front(r, q)
  <2>1. file' \in Optional(Profile)
    BY <1>0, <1>1, <1>2, SavedLoaded
  <2> QED BY <1>0, <1>2, <2>1, AnswerFails, IdleFacts DEF Front
<1>3. ASSUME file' = Saved(p), Goto(r, AfterSave(request[r].kind), p), stale' = stale
      PROVE  \E q : Front(r, q)
  <2> DEFINE c == IF request[r].kind \in {"post", "patch"} THEN "reload" ELSE "manage"
  <2>1. Loaded' = p /\ file' \in Optional(Profile)
    BY <1>1, <1>3, SavedLoaded
  <2>2. Goto(r, c, p) /\ c \in {"save", "reload", "manage"}
    BY <1>3 DEF AfterSave
  <2>3. PICK q \in RequestSet :
           /\ q.pc = c /\ q.kind = request[r].kind /\ q.body = request[r].body /\ q.profile = p
           /\ request' = [request EXCEPT ![r] = q]
    BY <1>1, <2>2, GotoIs DEF Typed
  <2>4. InHand(q)
    BY <1>1, <2>3 DEF InHand
  <2> QED BY <1>0, <1>1, <1>3, <2>1, <2>3, <2>4 DEF Front
<1> QED BY <1>2, <1>3 DEF Save

LEMMA ReloadFront == ASSUME Typed, NEW r \in Requests, Reload(r) PROVE \E q : Front(r, q)
<1>0. /\ request[r].pc = "reload" /\ file' = file /\ file \in Optional(Profile)
      /\ UNCHANGED <<launch, relaunch, mutex, process, disk, alone>>
  BY DEF Reload, Typed, Files
<1>1. CASE Answer(r, FALSE)
  BY <1>0, <1>1, AnswerFails, IdleFacts DEF Front
<1>2. ASSUME Goto(r, "manage", Loaded), stale' = stale
      PROVE  \E q : Front(r, q)
  <2>1. /\ request[r].kind \in {"post", "patch"} /\ request[r].kind \in Kinds
        /\ request[r].body \in Bodies(request[r].kind)
    BY <1>0 DEF Typed, Hands, InHand
  <2>2. Loaded \in Profile
    BY <1>0, LoadedProfile
  <2>3. PICK q \in RequestSet :
           /\ q.pc = "manage" /\ q.kind = request[r].kind /\ q.body = request[r].body
           /\ q.profile = Loaded
           /\ request' = [request EXCEPT ![r] = q]
    BY <1>2, <2>2, GotoIs DEF Typed
  <2>4. InHand(q)
    BY <2>1, <2>2, <2>3 DEF InHand
  <2> QED BY <1>0, <1>2, <2>1, <2>3, <2>4 DEF Front
<1> QED BY <1>1, <1>2 DEF Reload
----------------------------------------------------------------------------
(* Types *)

LEMMA TypedType == Typed => TypeOK
  BY DEF Typed, Held, TypeOK, Flags, Counts

\* A counter stays, or goes up by one.
Counted ==
  /\ requests' \in {requests, requests + 1} /\ crashes' \in {crashes, crashes + 1}
  /\ faults' \in {faults, faults + 1}

LEMMA CountsStep == ASSUME Counts, Next PROVE Counts'
<1> USE DEF MayFail, process, disk, counters, Counted
<1>1. ASSUME NEW r \in Requests, Receive(r) PROVE Counted
  BY <1>1, Zenon DEF Receive
<1>2. ASSUME NEW r \in Requests, Load(r) \/ Reload(r) PROVE Counted
  BY <1>2, Zenon DEF Load, Reload
<1>3. ASSUME NEW r \in Requests, Save(r) PROVE Counted
  BY <1>3, Zenon DEF Save
<1>4. ASSUME NEW r \in Requests, Apply(r) \/ Stop(r) PROVE Counted
  BY <1>4, Zenon DEF Apply, Stop
<1>5. ASSUME NEW r, StartLocked(r) PROVE faults' \in {faults, faults + 1}
  BY <1>5, Zenon DEF StartLocked
<1>6. ASSUME NEW r \in Requests, Start(r) \/ Restart(r) PROVE Counted
  BY <1>5, <1>6, Zenon DEF Start, Restart
<1>7. ASSUME SetCPUAffinity PROVE Counted
  <2>1. ASSUME NEW e, Succeed(e) PROVE faults' \in {faults, faults + 1}
    BY <2>1, Zenon DEF Succeed, Recorded
  <2>2. ASSUME ReadList PROVE faults' = faults
    BY <2>2 DEF ReadList
  <2>3. faults' \in {faults, faults + 1}
    BY <1>7, <2>1, <2>2, Zenon DEF SetCPUAffinity, SetCgroup, Scan, BindThread
  <2>4. requests' = requests /\ crashes' = crashes
    BY <1>7, Zenon DEF SetCPUAffinity, SetCgroup, Scan, BindThread
  <2> QED BY <2>3, <2>4, Zenon
<1>8. ASSUME Spawn \/ Crash \/ HandleExit \/ Relaunch \/ GiveUp PROVE Counted
  BY <1>8, Zenon DEF Spawn, Crash, HandleExit, Relaunch, GiveUp
<1>9. ASSUME ServiceDies \/ Adopt \/ Restore \/ RestoreNothing PROVE Counted
  BY <1>9, Zenon DEF ServiceDies, Adopt, Restore, RestoreNothing
<1>10. Counted
  BY <1>1, <1>2, <1>3, <1>4, <1>6, <1>7, <1>8, <1>9, Zenon DEF Next, Handler
<1> QED BY <1>10 DEF Counts

LEMMA FlagsStep == ASSUME Flags, Next PROVE Flags'
<1> USE DEF Flags, process, disk
<1>0. ASSUME NEW r, NEW ok \in BOOLEAN, Answer(r, ok) PROVE stale' \in BOOLEAN
  BY <1>0 DEF Answer
<1>1. ASSUME NEW r \in Requests, Receive(r) PROVE Flags'
  BY <1>1, Zenon DEF Receive
<1>2. ASSUME NEW r \in Requests, Load(r) \/ Save(r) \/ Reload(r) PROVE Flags'
  BY <1>0, <1>2 DEF Load, Save, Reload
<1>3. ASSUME Gone PROVE alive' \in BOOLEAN /\ loose' \in BOOLEAN /\ apart' \in BOOLEAN
  BY <1>3 DEF Gone
<1>4. ASSUME NEW r \in Requests, Apply(r) \/ Stop(r) PROVE Flags'
  BY <1>0, <1>3, <1>4 DEF Apply, Stop
<1>5. ASSUME NEW who, NEW p, Exec(who, p) PROVE alive' \in BOOLEAN /\ loose' \in BOOLEAN /\ apart' \in BOOLEAN
  BY <1>5 DEF Exec
<1>6. ASSUME NEW r, StartLocked(r)
      PROVE  alive' \in BOOLEAN /\ loose' \in BOOLEAN /\ apart' \in BOOLEAN /\ stale' \in BOOLEAN
  BY <1>0, <1>3, <1>5, <1>6 DEF StartLocked
<1>7. ASSUME NEW r \in Requests, Start(r) \/ Restart(r) PROVE Flags'
  BY <1>0, <1>6, <1>7 DEF Start, Restart
<1>8. ASSUME NEW ok \in BOOLEAN, Return(ok) PROVE up' \in BOOLEAN /\ stale' \in BOOLEAN
  BY <1>0, <1>8 DEF Return
<1>9. ASSUME NEW e \in BOOLEAN, Succeed(e), UNCHANGED alive
      PROVE  /\ alive' \in BOOLEAN /\ up' \in BOOLEAN /\ loose' \in BOOLEAN /\ stale' \in BOOLEAN
             /\ unsaved' \in BOOLEAN
  BY <1>8, <1>9 DEF Succeed, Recorded
<1>10. ASSUME Fail
       PROVE  /\ alive' \in BOOLEAN /\ up' \in BOOLEAN /\ loose' \in BOOLEAN /\ stale' \in BOOLEAN
              /\ unsaved' \in BOOLEAN
  <2>1. loose' \in BOOLEAN
    <3>1. CASE launch = None
      BY <1>10, <3>1 DEF Fail
    <3>2. CASE launch # None
      <4>1. (loose \/ call.touched \/ mask' # mask) \in BOOLEAN
        OBVIOUS
      <4> QED BY <1>10, <3>2, <4>1 DEF Fail
    <3> QED BY <3>1, <3>2
  <2> QED BY <1>8, <1>10, <2>1 DEF Fail
<1>11. ASSUME Going
       PROVE  /\ alive' \in BOOLEAN /\ up' \in BOOLEAN /\ loose' \in BOOLEAN /\ stale' \in BOOLEAN
              /\ unsaved' \in BOOLEAN
  BY <1>11 DEF Going
<1>12. CASE SetCgroup
  <2>1. (apart /\ call.cpus = cgroup.set) \in BOOLEAN /\ (apart /\ cgroup'.set = cgroup.set) \in BOOLEAN
    OBVIOUS
  <2>2. ASSUME BindThreads PROVE Going /\ apart' \in BOOLEAN
    BY <2>2 DEF BindThreads
  <2> QED BY <1>9, <1>10, <1>11, <1>12, <2>1, <2>2 DEF SetCgroup
<1>13. CASE Scan
  <2>1. MetAll \in BOOLEAN
    BY DEF MetAll
  <2> QED BY <1>9, <1>10, <1>11, <1>13, <2>1 DEF Scan, ReadList
<1>14. CASE BindThread
  BY <1>10, <1>11, <1>14 DEF BindThread
<1>15. CASE Spawn \/ Crash \/ GiveUp
  BY <1>3, <1>15 DEF Spawn, Crash, GiveUp
<1>16. CASE HandleExit
  BY <1>16, Zenon DEF HandleExit
<1>17. CASE Relaunch \/ Restore
  BY <1>5, <1>17 DEF Relaunch, Restore, Boots
<1>18. CASE Adopt \/ RestoreNothing
  BY <1>3, <1>18 DEF Adopt, RestoreNothing, Boots
<1>19. CASE ServiceDies
  <2>1. CASE Gone
    BY <1>3, <1>19, <2>1 DEF ServiceDies
  <2>2. CASE ~Gone
    <3>1. (\/ loose \/ (mutex # None /\ call.touched)
           \/ record # None /\ launch # None /\ record.cpu # launch.cpu) \in BOOLEAN
      OBVIOUS
    <3> QED BY <1>19, <2>2, <3>1 DEF ServiceDies
  <2> QED BY <2>1, <2>2
<1> QED BY <1>1, <1>2, <1>4, <1>7, <1>12, <1>13, <1>14, <1>15, <1>16, <1>17, <1>18, <1>19
    DEF Next, Handler, SetCPUAffinity

LEMMA FrontTyped == ASSUME Typed, NEW r \in Requests, NEW q, Front(r, q) PROVE Files' /\ Hands' /\ Held' /\ Core'
<1>1. /\ launch' = launch /\ relaunch' = relaunch /\ mutex' = mutex /\ up' = up
      /\ record' = record /\ desired' = desired
      /\ call' = call /\ mask' = mask /\ cgroup' = cgroup /\ request[r].pc # "manage"
      /\ file' \in Optional(Profile)
      /\ q \in RequestSet /\ InHand(q) /\ request' = [request EXCEPT ![r] = q]
  BY DEF Front, process, disk
<1>2. /\ Hands' /\ \A s \in Requests \ {r} : request'[s] = request[s]
  BY <1>1, HandStep DEF Typed
<1>3. mutex # r
  BY <1>1 DEF Typed, Held
<1>4. up
  <2>1. up \/ r \in Active
    BY DEF Front, Active
  <2> QED BY <2>1 DEF Typed, Held
<1>5. Held'
  BY <1>1, <1>2, <1>3, <1>4 DEF Typed, Held
<1>6. Files' /\ Core'
  BY <1>1 DEF Typed, Files, Core, Threads
<1> QED BY <1>2, <1>5, <1>6

\* The group that Exec and Gone leave.
LEMMA NewGroup ==
    ASSUME Core, cgroup' = [cgroup EXCEPT !.entry = FALSE, !.set = None, !.own = FALSE]
    PROVE  cgroup' \in GroupSet /\ cgroup'.set = None
<1> DEFINE V == Optional(Values("cpu"))
<1>1. None \in V
  BY DEF Optional
<1>2. cgroup \in [usable : BOOLEAN, entry : BOOLEAN, set : V, own : BOOLEAN]
  BY DEF Core, GroupSet
<1> HIDE DEF V
<1>3. cgroup' \in [usable : BOOLEAN, entry : BOOLEAN, set : V, own : BOOLEAN] /\ cgroup'.set = None
  BY <1>1, <1>2
<1> QED BY <1>3 DEF GroupSet, V

\* Exec leaves a new process at the beginning of SetCPUAffinity.
LEMMA ExecCall ==
    ASSUME Typed, NEW who, NEW p \in Profile, Exec(who, p)
    PROVE  /\ mutex' = who /\ alive' = TRUE /\ loose' = FALSE /\ apart' = FALSE /\ record' = None
           /\ Core' /\ cgroup'.set = None
           /\ call' \in CallSet /\ call'.cpus = p.cpu /\ call'.profile = p /\ call'.step = "cgroup"
           /\ call'.round = 0 /\ call'.touched = FALSE
<1>1. /\ mutex' = who /\ alive' = TRUE /\ loose' = FALSE /\ apart' = FALSE /\ record' = None
      /\ cgroup' = [cgroup EXCEPT !.entry = FALSE, !.set = None, !.own = FALSE]
  BY DEF Exec
<1>2. cgroup' \in GroupSet /\ cgroup'.set = None
  BY <1>1, NewGroup DEF Typed
<1>3. Threads' = {1} /\ mask' \in [Threads' -> SUBSET Online]
  BY DEF Exec, Threads
<1>4. IsFiniteSet(Threads')
  BY <1>3, FS_Singleton
<1>5. Core'
  BY <1>2, <1>3, <1>4 DEF Core
<1>6. call' = [cpus |-> p.cpu, profile |-> p, step |-> "cgroup", round |-> 0, left |-> {},
               touched |-> FALSE, met |-> {}]
  BY DEF Exec, BeginCall
<1>7. call' \in CallSet
  BY <1>6, Cpu DEF CallSet
<1> QED BY <1>1, <1>2, <1>5, <1>6, <1>7

\* Gone leaves no process.
LEMMA GoneIs ==
    ASSUME Core, Gone
    PROVE  /\ alive' = FALSE /\ record' = None /\ loose' = FALSE /\ apart' = FALSE
           /\ Core' /\ cgroup'.set = None
<1>1. /\ alive' = FALSE /\ record' = None /\ loose' = FALSE /\ apart' = FALSE
      /\ cgroup' = [cgroup EXCEPT !.entry = FALSE, !.set = None, !.own = FALSE]
      /\ mask' = [t \in {} |-> Online]
  BY DEF Gone
<1>2. cgroup' \in GroupSet /\ cgroup'.set = None
  BY <1>1, NewGroup
<1>3. Threads' = {} /\ mask' \in [Threads' -> SUBSET Online]
  BY <1>1 DEF Threads
<1>4. IsFiniteSet(Threads')
  BY <1>3, FS_EmptySet
<1> QED BY <1>1, <1>2, <1>3, <1>4 DEF Core

\* The ways in which StartLocked ends.
LEMMA StartLockedIs ==
    ASSUME Typed, NEW r \in Requests, StartLocked(r), request[r].pc = "manage",
           request[r].kind \in {"start", "restart"}
    PROVE  LET p == IF request[r].body = None THEN Loaded ELSE request[r].body
           IN  /\ p \in Profile
               /\ \/ Exec(r, p) /\ UNCHANGED <<request, stale>>
                  \/ Answer(r, FALSE) /\ mutex' = None /\ Gone /\ UNCHANGED call
<1>1. request[r].body \in Profiles \cup {None}
  BY DEF Typed, Hands, InHand, Bodies
<1>2. Loaded \in Profile
  BY LoadedProfile DEF Typed, Files
<1> QED BY <1>1, <1>2, ProfilesAssumption, Zenon DEF StartLocked

\* The holder of the mutex ends its call.
LEMMA ReturnTyped ==
    ASSUME Typed, mutex # None, NEW ok \in BOOLEAN, Return(ok), file' = file, launch' \in Optional(Profile),
           record' \in Optional(Profile), desired' \in Optional(Profile)
    PROVE  Files' /\ Hands' /\ Held'
<1>1. relaunch' \in {relaunch, None} /\ mutex' = None /\ call' = None /\ up' = (up \/ mutex = "boot")
  BY DEF Return
<1>2. Files'
  BY <1>1 DEF Typed, Files, Optional
<1>3. Hands'
  <2>1. CASE mutex \in Inner
    BY <2>1 DEF Return, Typed, Hands, InHand
  <2>2. CASE mutex \notin Inner
    <3>1. mutex \in Requests
      BY <2>2 DEF Typed, Held
    <3>2. request' = [request EXCEPT ![mutex] = Idle]
      BY <2>2 DEF Return, Answer
    <3> QED BY <3>1, <3>2, IdleFacts, HandStep DEF Typed
  <2> QED BY <2>1, <2>2
<1>4. up'
  BY <1>1 DEF Typed, Held
<1>5. Held'
  BY <1>1, <1>4, NamesAssumption DEF Held, Inner
<1> QED BY <1>2, <1>3, <1>5

LEMMA ActiveUp == ASSUME Typed, NEW r \in Requests, request[r].pc # "idle" PROVE up /\ r \in Active
  BY DEF Typed, Held, Active

LEMMA ApplyTyped == ASSUME Typed, NEW r \in Requests, Apply(r) PROVE Files' /\ Hands' /\ Held' /\ Core'
<1> DEFINE p == request[r].profile
           new == [f \in Fields |-> IF f \in Live THEN p[f] ELSE launch[f]]
<1>1. /\ request[r].pc = "manage" /\ p \in Profile /\ mutex = None
      /\ UNCHANGED <<file, relaunch, alive, mask, cgroup, up, record, desired>>
  BY DEF Apply, Typed, Hands, InHand
<1>2. Core' /\ up'
  BY <1>1, ActiveUp DEF Typed, Core, Threads
<1>3. launch # None => new \in Profile /\ new.cpu = p.cpu
  BY <1>1, AppliedProfile DEF Typed, Files, Optional
<1> HIDE DEF p, new
<1>4. ASSUME launch' = IF launch = None THEN None ELSE new, Answer(r, TRUE), UNCHANGED <<mutex, call>>
      PROVE  Files' /\ Hands' /\ Held'
  <2>1. Files'
    BY <1>1, <1>3, <1>4 DEF Typed, Files, Optional
  <2>2. Hands'
    BY <1>4, IdleFacts, HandStep DEF Typed, Answer
  <2>3. Held'
    BY <1>1, <1>2, <1>4, NamesAssumption DEF Typed, Held, Inner
  <2> QED BY <2>1, <2>2, <2>3
<1>5. ASSUME launch # None, mutex' = r, BeginCall(p.cpu, new), UNCHANGED <<launch, request>>
      PROVE  Files' /\ Hands' /\ Held'
  <2>1. call' = [cpus |-> p.cpu, profile |-> new, step |-> "cgroup", round |-> 0, left |-> {},
                 touched |-> FALSE, met |-> {}]
    BY <1>5 DEF BeginCall
  <2>2. call' \in CallSet
    BY <1>1, <1>3, <1>5, <2>1, Cpu DEF CallSet
  <2>3. Held'
    BY <1>1, <1>2, <1>5, <2>2, NamesAssumption DEF Held, Inner
  <2> QED BY <1>1, <1>5, <2>3 DEF Typed, Files, Hands, InHand
<1> QED BY <1>2, <1>4, <1>5 DEF Apply, p, new

LEMMA StartTyped == ASSUME Typed, NEW r \in Requests, Start(r) \/ Restart(r) PROVE Files' /\ Hands' /\ Held' /\ Core'
<1> DEFINE p == IF request[r].body = None THEN Loaded ELSE request[r].body
<1>1. /\ request[r].pc = "manage" /\ request[r].kind \in {"start", "restart"} /\ mutex = None
      /\ launch' \in {launch, None} /\ UNCHANGED <<file, relaunch, up>> /\ desired' \in {desired, None}
  BY DEF Start, Restart, Cleared
<1>2. up'
  BY <1>1, ActiveUp
<1>3. record' \in Optional(Profile) => Files'
  BY <1>1 DEF Typed, Files, Optional
<1>4. ASSUME Answer(r, FALSE), mutex' = None, UNCHANGED call PROVE Hands' /\ Held'
  <2>1. Hands'
    BY <1>4, IdleFacts, HandStep DEF Typed, Answer
  <2>2. Held'
    BY <1>1, <1>2, <1>4, NamesAssumption DEF Typed, Held, Inner
  <2> QED BY <2>1, <2>2
<1>5. CASE StartLocked(r)
  <2>1. /\ p \in Profile
        /\ \/ Exec(r, p) /\ UNCHANGED <<request, stale>>
           \/ Answer(r, FALSE) /\ mutex' = None /\ Gone /\ UNCHANGED call
    BY <1>1, <1>5, StartLockedIs
  <2> HIDE DEF p
  <2>2. CASE Exec(r, p) /\ UNCHANGED <<request, stale>>
    <3>1. mutex' = r /\ call' \in CallSet /\ Core' /\ record' = None
      BY <2>1, <2>2, ExecCall
    <3>2. Hands'
      BY <2>2 DEF Typed, Hands, InHand
    <3>3. Held'
      BY <1>1, <1>2, <2>2, <3>1, NamesAssumption DEF Held, Inner
    <3> QED BY <1>3, <3>1, <3>2, <3>3 DEF Optional
  <2>3. CASE Answer(r, FALSE) /\ mutex' = None /\ Gone /\ UNCHANGED call
    <3>1. Core' /\ record' = None
      BY <2>3, GoneIs DEF Typed
    <3> QED BY <1>3, <1>4, <2>3, <3>1 DEF Optional
  <2> QED BY <2>1, <2>2, <2>3
<1>6. CASE Answer(r, FALSE) /\ UNCHANGED <<mutex, process, record>>
  <2>1. Core' /\ record' \in Optional(Profile)
    BY <1>6 DEF Typed, Core, Threads, Files, process
  <2> QED BY <1>1, <1>3, <1>4, <1>6, <2>1 DEF process
<1> QED BY <1>5, <1>6 DEF Start, Restart

LEMMA StopTyped == ASSUME Typed, NEW r \in Requests, Stop(r) PROVE Files' /\ Hands' /\ Held' /\ Core'
<1>1. /\ mutex = None /\ launch' = None /\ request' = [request EXCEPT ![r] = Idle]
      /\ request[r].pc = "manage"
      /\ Gone /\ desired' \in {desired, None} /\ UNCHANGED <<file, relaunch, mutex, call, up>>
  BY DEF Stop, Cleared
<1>2. Hands'
  BY <1>1, IdleFacts, HandStep DEF Typed
<1>3. up'
  BY <1>1, ActiveUp
<1>4. Held'
  BY <1>1, <1>3, NamesAssumption DEF Typed, Held, Inner
<1>5. Core' /\ record' = None
  BY <1>1, GoneIs DEF Typed
<1> QED BY <1>1, <1>2, <1>4, <1>5 DEF Typed, Files, Optional

LEMMA ExitTyped ==
    ASSUME Typed, Crash \/ HandleExit \/ Relaunch \/ GiveUp PROVE Files' /\ Hands' /\ Held' /\ Core'
<1>1. request' = request /\ up' = up
  BY DEF Crash, HandleExit, Relaunch, GiveUp, disk
<1>2. Hands' /\ Active' = Active
  BY <1>1 DEF Typed, Hands, InHand, Active
<1>3. CASE Crash
  <2>1. Gone /\ UNCHANGED <<file, launch, relaunch, mutex, call, desired>>
    BY <1>3 DEF Crash
  <2>2. Core' /\ record' = None
    BY <2>1, GoneIs DEF Typed
  <2>3. Held'
    BY <1>1, <1>2, <2>1 DEF Typed, Held
  <2> QED BY <1>2, <2>1, <2>2, <2>3 DEF Typed, Files, Optional
<1>4. CASE HandleExit \/ GiveUp
  <2>1. /\ mutex = None /\ UNCHANGED <<file, mutex, call, mask, cgroup, record>>
        /\ launch' \in {launch, None} /\ relaunch' \in {relaunch, launch, None} /\ desired' \in {desired, None}
        /\ launch # None \/ relaunch # None
    BY <1>4 DEF HandleExit, GiveUp, process, disk, Cleared
  <2>2. up
    BY <2>1 DEF Typed, Held
  <2>3. Held'
    BY <1>1, <2>1, <2>2, NamesAssumption DEF Typed, Held, Inner
  <2> QED BY <1>2, <2>1, <2>3 DEF Typed, Files, Core, Threads, Optional
<1>5. CASE Relaunch
  <2>1. relaunch # None /\ Exec("relaunch", relaunch) /\ UNCHANGED <<file, launch, relaunch, desired>>
    BY <1>5 DEF Relaunch
  <2>2. relaunch \in Profile
    BY <2>1 DEF Typed, Files, Optional
  <2>3. mutex' = "relaunch" /\ call' \in CallSet /\ Core' /\ record' = None
    BY <2>1, <2>2, ExecCall
  <2>4. up
    BY <2>1 DEF Typed, Held
  <2>5. Held'
    BY <1>1, <2>1, <2>3, <2>4, NamesAssumption DEF Held, Inner
  <2> QED BY <1>2, <2>1, <2>3, <2>5 DEF Typed, Files, Optional
<1> QED BY <1>3, <1>4, <1>5

\* The end of the service and the boots.
LEMMA BootTyped ==
    ASSUME Typed, ServiceDies \/ Adopt \/ Restore \/ RestoreNothing PROVE Files' /\ Hands' /\ Held' /\ Core'
<1>1. CASE ServiceDies
  <2>1. /\ up' = FALSE /\ mutex' = None /\ call' = None /\ launch' = None /\ relaunch' = None
        /\ request' = [r \in Requests |-> Idle] /\ UNCHANGED <<file, desired>>
    BY <1>1 DEF ServiceDies
  <2>2. Hands' /\ Active' = {}
    BY <2>1, IdleFacts DEF Hands, Active
  <2>3. Held'
    BY <2>1, <2>2, NamesAssumption DEF Held, Inner
  <2>4. record' \in {record, None} /\ Core'
    <3>1. CASE Gone
      BY <3>1, GoneIs DEF Typed
    <3>2. CASE cgroup' = [cgroup EXCEPT !.entry = FALSE, !.own = (cgroup.set # None)] /\ UNCHANGED <<mask, record>>
      <4> DEFINE V == Optional(Values("cpu"))
      <4>1. cgroup \in [usable : BOOLEAN, entry : BOOLEAN, set : V, own : BOOLEAN]
        BY DEF Typed, Core, GroupSet
      <4> HIDE DEF V
      <4>2. cgroup' \in [usable : BOOLEAN, entry : BOOLEAN, set : V, own : BOOLEAN]
        BY <3>2, <4>1
      <4> QED BY <3>2, <4>2 DEF Typed, Core, Threads, GroupSet, V
    <3> QED BY <1>1, <3>1, <3>2 DEF ServiceDies
  <2> QED BY <2>1, <2>2, <2>3, <2>4 DEF Typed, Files, Optional
<1>2. CASE Adopt \/ Restore \/ RestoreNothing
  <2>1. ~up /\ mutex = None /\ UNCHANGED <<file, relaunch, request, desired>>
    BY <1>2 DEF Adopt, Restore, RestoreNothing, Booting
  <2>2. Hands' /\ Active' = {} /\ relaunch' = None /\ launch = None
    BY <2>1 DEF Typed, Hands, InHand, Held, Active
  <2>3. CASE Adopt
    <3>1. launch' = record /\ up' = TRUE /\ UNCHANGED <<mutex, call, mask, cgroup, record>>
      BY <2>3 DEF Adopt, process
    <3>2. Held'
      BY <2>1, <3>1, NamesAssumption DEF Typed, Held, Inner
    <3> QED BY <2>1, <2>2, <3>1, <3>2 DEF Typed, Files, Core, Threads
  <2>4. CASE Restore
    <3>1. desired \in Profile /\ Exec("boot", desired) /\ UNCHANGED <<launch, up>>
      BY <2>4 DEF Restore, Typed, Files, Optional
    <3>2. mutex' = "boot" /\ call' \in CallSet /\ Core' /\ record' = None
      BY <3>1, ExecCall
    <3>3. Held'
      BY <2>1, <2>2, <3>1, <3>2, NamesAssumption DEF Held, Inner
    <3> QED BY <2>1, <2>2, <3>1, <3>2, <3>3 DEF Typed, Files, Optional
  <2>5. CASE RestoreNothing
    <3>1. up' = TRUE /\ Gone /\ UNCHANGED <<launch, mutex, call>>
      BY <2>5 DEF RestoreNothing
    <3>2. Core' /\ record' = None
      BY <3>1, GoneIs DEF Typed
    <3>3. Held'
      BY <2>1, <3>1, NamesAssumption DEF Typed, Held, Inner
    <3> QED BY <2>1, <2>2, <3>1, <3>2, <3>3 DEF Typed, Files, Optional
  <2> QED BY <1>2, <2>3, <2>4, <2>5
<1> QED BY <1>1, <1>2

LEMMA CallStays ==
    ASSUME Typed, mutex # None, call' \in CallSet, UNCHANGED <<file, launch, relaunch, request, mutex, disk>>
    PROVE  Files' /\ Hands' /\ Held'
<1>1. Active' = Active
  BY DEF Active
<1> QED BY <1>1 DEF Typed, Files, Hands, InHand, Held, disk

LEMMA CallOf == ASSUME Typed, call # None PROVE mutex # None /\ call \in CallSet /\ call.cpus # None
  BY NoneAssumption DEF Typed, Held, CallSet

\* The call goes on with the same CPUs, profile and step.
Goes(step) ==
  /\ call' \in CallSet /\ call'.cpus = call.cpus /\ call'.profile = call.profile /\ call'.step = step
  /\ UNCHANGED <<launch, relaunch, request, mutex, loose, stale, alive, disk>>

LEMMA BindThreadsIs ==
    ASSUME call \in CallSet, BindThreads
    PROVE  /\ Goes("threads") /\ call'.round = call.round /\ call'.touched = (mask' # mask)
           /\ apart' = (cgroup'.set # None)
<1> DEFINE c == [cpus |-> call.cpus, profile |-> call.profile, step |-> "threads", round |-> call.round,
                 left |-> call.left, touched |-> (mask' # mask), met |-> call.met]
<1>1. /\ call' = [call EXCEPT !.step = "threads", !.touched = (mask' # mask)]
      /\ apart' = (cgroup'.set # None)
      /\ UNCHANGED <<launch, relaunch, request, mutex, loose, stale, alive, disk>>
  BY DEF BindThreads, Going
<1>2. call' = c
  BY <1>1 DEF CallSet
<1>3. c \in CallSet
  BY DEF CallSet
<1> QED BY <1>1, <1>2, <1>3 DEF Goes

\* Writing the cpuset of a group, or leaving it.
LEMMA GroupIs ==
    ASSUME Core, NEW e \in BOOLEAN, NEW set \in Optional(Values("cpu")), Group(e, set)
    PROVE  /\ Core' /\ Threads' = Threads /\ cgroup'.set = set
           /\ set = cgroup.set => mask' = mask
           /\ set # cgroup.set => \A t \in Threads : mask'[t] = Allowed(set)
<1> DEFINE V == Optional(Values("cpu"))
<1>1. /\ cgroup \in [usable : BOOLEAN, entry : BOOLEAN, set : V, own : BOOLEAN]
      /\ mask \in [Threads -> SUBSET Online]
      /\ cgroup' = [cgroup EXCEPT !.entry = e, !.set = set]
      /\ mask' = IF set = cgroup.set THEN mask ELSE [t \in Threads |-> Allowed(set)]
  BY DEF Core, Group, GroupSet
<1>2. Allowed(set) \in SUBSET Online
  BY DEF Allowed
<1>3. mask' \in [Threads -> SUBSET Online] /\ Threads' = Threads
  BY <1>1, <1>2 DEF Threads
<1> HIDE DEF V
<1>4. set \in V
  BY DEF V
<1>5. cgroup' \in [usable : BOOLEAN, entry : BOOLEAN, set : V, own : BOOLEAN] /\ cgroup'.set = set
  BY <1>1, <1>4
<1>6. Core'
  BY <1>3, <1>5 DEF Core, GroupSet, V
<1> QED BY <1>1, <1>3, <1>5, <1>6

\* SetCPUAffinity returns: what becomes of the launch and the state files.
LEMMA SucceedIs ==
    ASSUME Typed, call # None, NEW e, Succeed(e)
    PROVE  /\ Return(TRUE) /\ launch' = call.profile /\ launch' \in Profile /\ launch' # None /\ loose' = e
           /\ launch = None => record' \in {None, call.profile} /\ desired' \in {desired, call.profile}
           /\ launch # None => record' = record /\ desired' = desired
           /\ ~unsaved' => launch = None /\ desired' = call.profile
           /\ record' \in Optional(Profile) /\ desired' \in Optional(Profile)
<1>1. call.profile \in Profile /\ call.profile # None
  BY CallOf, NoneAssumption DEF CallSet
<1>2. Return(TRUE) /\ launch' = call.profile /\ loose' = e
  BY DEF Succeed
<1>3. CASE launch = None
  <2>1. Recorded(call.profile)
    BY <1>3 DEF Succeed
  <2> QED BY <1>1, <1>2, <1>3, <2>1 DEF Recorded, Typed, Files, Optional
<1>4. CASE launch # None
  BY <1>1, <1>2, <1>4 DEF Succeed, Typed, Files
<1> QED BY <1>3, <1>4

LEMMA FailIs ==
    ASSUME Fail
    PROVE  /\ Return(FALSE) /\ UNCHANGED <<launch, record, desired, unsaved>>
           /\ launch = None => alive' = FALSE
           /\ launch # None => loose' = (loose \/ call.touched \/ mask' # mask) /\ alive' = alive
  BY DEF Fail

\* The steps of setCPUCgroup.
LEMMA SetCgroupIs ==
    ASSUME Typed, call # None, SetCgroup
    PROVE  /\ call.step = "cgroup" /\ UNCHANGED <<file, alone>> /\ Core' /\ Threads' = Threads
           /\ \/ BindThreads
              \/ /\ call.cpus # {} /\ cgroup'.set = call.cpus /\ UNCHANGED alive
                 /\ apart' = (apart /\ call.cpus = cgroup.set) /\ Succeed(apart /\ call.cpus = cgroup.set)
                 /\ call.cpus = cgroup.set => mask' = mask
                 /\ call.cpus # cgroup.set => \A t \in Threads : mask'[t] = Allowed(call.cpus)
              \/ /\ Fail /\ apart' = (apart /\ cgroup'.set = cgroup.set)
                 /\ cgroup'.set = cgroup.set => mask' = mask
                 /\ cgroup'.set # cgroup.set => \A t \in Threads : mask'[t] = Allowed(cgroup'.set)
<1>0. /\ Core /\ call.cpus \in Optional(Values("cpu")) /\ cgroup.set \in Optional(Values("cpu"))
      /\ None \in Optional(Values("cpu")) /\ apart \in BOOLEAN
  BY CallOf DEF Typed, Flags, Core, CallSet, Optional, GroupSet
<1>1. call.step = "cgroup" /\ UNCHANGED <<file, alone>>
  BY DEF SetCgroup
<1>2. CASE UNCHANGED <<cgroup, mask>> /\ BindThreads
  BY <1>0, <1>1, <1>2 DEF Core, Threads
<1>3. CASE Group(FALSE, IF cgroup.own THEN cgroup.set ELSE None) /\ BindThreads
  <2> DEFINE set == IF cgroup.own THEN cgroup.set ELSE None
  <2>1. set \in Optional(Values("cpu"))
    BY <1>0
  <2> HIDE DEF set
  <2>2. Core' /\ Threads' = Threads
    BY <1>0, <1>3, <2>1, GroupIs DEF set
  <2> QED BY <1>1, <1>3, <2>2
<1>4. CASE Fail /\ UNCHANGED <<cgroup, mask, apart>>
  BY <1>0, <1>1, <1>4 DEF Core, Threads
<1>5. CASE /\ Group(TRUE, call.cpus) /\ Succeed(apart /\ call.cpus = cgroup.set)
           /\ apart' = (apart /\ cgroup'.set = cgroup.set) /\ UNCHANGED alive /\ call.cpus # {}
  <2>1. /\ Core' /\ Threads' = Threads /\ cgroup'.set = call.cpus
        /\ call.cpus = cgroup.set => mask' = mask
        /\ call.cpus # cgroup.set => \A t \in Threads : mask'[t] = Allowed(call.cpus)
    BY <1>0, <1>5, GroupIs
  <2> QED BY <1>1, <1>5, <2>1
<1>6. ASSUME NEW set \in Optional(Values("cpu")), Group(TRUE, set)
      PROVE  /\ Core' /\ Threads' = Threads
             /\ cgroup'.set = cgroup.set => mask' = mask
             /\ cgroup'.set # cgroup.set => \A t \in Threads : mask'[t] = Allowed(cgroup'.set)
  <2>1. /\ Core' /\ Threads' = Threads /\ cgroup'.set = set
        /\ set = cgroup.set => mask' = mask
        /\ set # cgroup.set => \A t \in Threads : mask'[t] = Allowed(set)
    BY <1>0, <1>6, GroupIs
  <2> QED BY <2>1
<1>7. CASE Fail /\ Group(TRUE, cgroup.set) /\ apart' = (apart /\ cgroup'.set = cgroup.set)
  BY <1>0, <1>1, <1>6, <1>7
<1>8. CASE /\ Fail /\ Group(TRUE, IF cgroup.set = None THEN None ELSE call.cpus)
           /\ apart' = (apart /\ cgroup'.set = cgroup.set)
  <2> DEFINE set == IF cgroup.set = None THEN None ELSE call.cpus
  <2>1. set \in Optional(Values("cpu"))
    BY <1>0
  <2> HIDE DEF set
  <2> QED BY <1>1, <1>6, <1>8, <2>1 DEF set
<1> QED BY <1>2, <1>3, <1>4, <1>5, <1>7, <1>8, Zenon DEF SetCgroup

\* Scan: the list of threads is read, or the call ends.
LEMMA ScanIs ==
    ASSUME call \in CallSet, Threads \in SUBSET Nat, Scan
    PROVE  /\ call.step = "threads" /\ call.left = {} /\ UNCHANGED <<file, mask, cgroup, apart, alone>>
           /\ \/ Fail
              \/ /\ Goes("threads") /\ call'.round = call.round + 1 /\ call'.left = Threads
                 /\ call'.touched = call.touched /\ call'.met = call.met
              \/ call.round >= Rounds /\ Succeed(MetAll) /\ UNCHANGED alive
<1>1. call.step = "threads" /\ call.left = {} /\ UNCHANGED <<file, mask, cgroup, apart, alone>>
  BY DEF Scan
<1>2. CASE ReadList
  <2> DEFINE c == [cpus |-> call.cpus, profile |-> call.profile, step |-> "threads", round |-> call.round + 1,
                   left |-> Threads, touched |-> call.touched, met |-> call.met]
  <2>1. call' = [call EXCEPT !.round = @ + 1, !.left = Threads] /\ Going
    BY <1>2 DEF ReadList
  <2>2. call' = c
    BY <1>1, <2>1 DEF CallSet
  <2>3. c \in CallSet
    BY DEF CallSet
  <2> QED BY <1>1, <2>1, <2>2, <2>3 DEF Goes, Going
<1> QED BY <1>1, <1>2, Zenon DEF Scan

\* BindThread: one thread of the list bound, or a failure.
LEMMA BindThreadIs ==
    ASSUME Core, call \in CallSet, BindThread
    PROVE  /\ call.step = "threads" /\ UNCHANGED <<file, cgroup, apart, alone>> /\ Core' /\ Threads' = Threads
           /\ \/ Fail
              \/ \E t : /\ Goes("threads") /\ call'.round = call.round /\ call'.met = call.met
                        /\ call'.left = call.left \ {t} /\ call'.touched = (call.touched \/ mask' # mask)
                        /\ ~alive => mask' = mask
                        /\ alive => /\ \A i \in Threads \ {t} : mask'[i] = mask[i]
                                    /\ t \in Threads => mask'[t] = Requested
<1> DEFINE t == CHOOSE i \in call.left : \A j \in call.left : i <= j
           actual == Requested \cap Allowed(cgroup.set)
           bound == [mask EXCEPT ![t] = actual]
<1>1. call.step = "threads" /\ UNCHANGED <<file, cgroup, apart, alone>>
  BY DEF BindThread
<1>2. mask \in [Threads -> SUBSET Online]
  BY DEF Core
<1>3. actual \in SUBSET Online
  BY DEF Allowed
<1>4. /\ mask' \in {mask, bound}
      /\ \/ Fail
         \/ /\ call' = [call EXCEPT !.left = @ \ {t}, !.touched = @ \/ mask' # mask] /\ Going
            /\ ~alive => mask' = mask
            /\ alive => mask' = bound /\ actual = Requested
  BY Zenon DEF BindThread
<1> HIDE DEF t, actual
<1>5. bound \in [Threads -> SUBSET Online]
  BY <1>2, <1>3
<1> HIDE DEF bound
<1>6. mask' \in [Threads -> SUBSET Online]
  BY <1>2, <1>4, <1>5
<1>7. Threads' = Threads
  BY <1>2, <1>6 DEF Threads
<1>8. Core'
  BY <1>1, <1>6, <1>7 DEF Core
<1>9. CASE /\ call' = [call EXCEPT !.left = @ \ {t}, !.touched = @ \/ mask' # mask] /\ Going
           /\ ~alive => mask' = mask
           /\ alive => mask' = bound /\ actual = Requested
  <2> DEFINE c == [cpus |-> call.cpus, profile |-> call.profile, step |-> "threads", round |-> call.round,
                   left |-> call.left \ {t}, touched |-> (call.touched \/ mask' # mask), met |-> call.met]
  <2>1. call' = c
    BY <1>1, <1>9 DEF CallSet
  <2>2. c \in CallSet
    BY DEF CallSet
  <2>3. Goes("threads")
    <3>1. call' \in CallSet
      BY <2>1, <2>2
    <3>2. call'.cpus = call.cpus /\ call'.profile = call.profile /\ call'.step = "threads"
      BY <2>1
    <3> QED BY <1>9, <3>1, <3>2 DEF Goes, Going
  <2>4. alive => (\A j \in Threads \ {t} : mask'[j] = mask[j]) /\ (t \in Threads => mask'[t] = Requested)
    BY <1>2, <1>9 DEF bound
  <2> QED BY <1>1, <1>7, <1>8, <1>9, <2>1, <2>3, <2>4
<1> QED BY <1>1, <1>4, <1>7, <1>8, <1>9

\* A new thread has the binding of one that was there.
LEMMA SpawnIs ==
    ASSUME Typed, Spawn
    PROVE  /\ Core' /\ alive /\ Goes(call.step) /\ UNCHANGED <<file, cgroup, apart, alone>>
           /\ call'.round = call.round /\ call'.left = call.left /\ call'.touched = call.touched
           /\ call'.met = call.met \cup ({call.round} \ {0})
           /\ mutex # None /\ call \in CallSet
           /\ \A i \in Threads : i \in Threads' /\ mask'[i] = mask[i]
           /\ \A i \in Threads' : \E t \in Threads : mask'[i] = mask[t]
<1> DEFINE n == Cardinality(Threads) + 1
           c == [cpus |-> call.cpus, profile |-> call.profile, step |-> call.step, round |-> call.round,
                 left |-> call.left, touched |-> call.touched, met |-> call.met \cup ({call.round} \ {0})]
<1>0. Core
  BY DEF Typed
<1>1. /\ alive /\ call # None /\ call' = [call EXCEPT !.met = @ \cup ({call.round} \ {0})]
      /\ UNCHANGED <<file, launch, alive, relaunch, request, mutex, cgroup, disk, loose, apart, alone, stale>>
  BY DEF Spawn
<1>2. PICK t \in Threads : mask' = [i \in Threads \cup {n} |-> IF i \in Threads THEN mask[i] ELSE mask[t]]
  BY DEF Spawn
<1>3. n \in Nat
  BY <1>0, FS_CardinalityType DEF Core
<1>4. IsFiniteSet(Threads \cup {n})
  BY <1>0, FS_AddElement DEF Core
<1> HIDE DEF n
<1>5. Threads' = Threads \cup {n}
  BY <1>2 DEF Threads
<1>6. mask' \in [Threads' -> SUBSET Online]
  BY <1>0, <1>2, <1>5 DEF Core
<1>7. Core'
  BY <1>0, <1>1, <1>3, <1>4, <1>5, <1>6 DEF Core
<1>8. call \in CallSet /\ mutex # None
  BY <1>1, CallOf
<1>9. call' = c
  BY <1>1, <1>8 DEF CallSet
<1>10. c \in CallSet
  BY <1>8 DEF CallSet
<1>11. Goes(call.step)
  BY <1>1, <1>9, <1>10 DEF Goes
<1> QED BY <1>1, <1>2, <1>5, <1>7, <1>8, <1>9, <1>11

LEMMA CallTyped == ASSUME Typed, SetCPUAffinity \/ Spawn PROVE Files' /\ Hands' /\ Held' /\ Core'
<1>1. ASSUME call # None, Fail, file' = file PROVE Files' /\ Hands' /\ Held'
  BY <1>1, CallOf, FailIs, ReturnTyped DEF Typed, Files
<1>2. ASSUME call # None, NEW e, Succeed(e), file' = file PROVE Files' /\ Hands' /\ Held'
  BY <1>2, CallOf, SucceedIs, ReturnTyped DEF Optional
<1>3. ASSUME call # None, NEW s, Goes(s), file' = file PROVE Files' /\ Hands' /\ Held'
  BY <1>3, CallOf, CallStays DEF Goes
<1>4. CASE Spawn
  <2>1. call # None
    BY <1>4 DEF Spawn
  <2> QED BY <1>3, <1>4, <2>1, SpawnIs
<1>5. ASSUME call # None, SetCgroup PROVE Files' /\ Hands' /\ Held' /\ Core'
  BY <1>1, <1>2, <1>3, <1>5, CallOf, SetCgroupIs, BindThreadsIs
<1>6. ASSUME call # None, Scan PROVE Files' /\ Hands' /\ Held' /\ Core'
  <2>1. Core' /\ file' = file
    BY <1>6, CallOf, ScanIs DEF Typed, Core, Threads
  <2> QED BY <1>1, <1>2, <1>3, <1>6, <2>1, CallOf, ScanIs DEF Typed, Core
<1>7. ASSUME call # None, BindThread PROVE Files' /\ Hands' /\ Held' /\ Core'
  BY <1>1, <1>3, <1>7, CallOf, BindThreadIs DEF Typed
<1> QED BY <1>4, <1>5, <1>6, <1>7 DEF SetCPUAffinity

LEMMA TypedStep == Typed /\ [Next]_vars => Typed'
<1> SUFFICES ASSUME Typed, [Next]_vars PROVE Typed'
  OBVIOUS
<1>1. CASE UNCHANGED vars
  BY <1>1 DEF vars, Typed, Flags, Counts, Files, Hands, InHand, Held, Active, Core, Threads
<1>2. CASE Next
  <2>1. Flags' /\ Counts'
    BY <1>2, FlagsStep, CountsStep DEF Typed
  <2>2. ASSUME NEW r \in Requests, Handler(r) PROVE Files' /\ Hands' /\ Held' /\ Core'
    BY <2>2, ReceiveFront, LoadFront, SaveFront, ReloadFront, FrontTyped, ApplyTyped, StartTyped, StopTyped
    DEF Handler
  <2>3. Files' /\ Hands' /\ Held' /\ Core'
    BY <1>2, <2>2, CallTyped, ExitTyped, BootTyped DEF Next
  <2> QED BY <2>1, <2>3 DEF Typed
<1> QED BY <1>1, <1>2

LEMMA InitTyped == Init => Typed
<1> SUFFICES ASSUME Init PROVE Typed
  OBVIOUS
<1>1. Flags /\ Counts
  BY DEF Init, Flags, Counts
<1>2. Files /\ Held
  BY NamesAssumption DEF Init, Files, Held, Inner, Optional
<1>3. Hands
  BY IdleFacts DEF Init, Hands
<1>4. Core
  <2>1. Threads = {} /\ mask \in [Threads -> SUBSET Online]
    BY DEF Init, Threads
  <2>2. IsFiniteSet(Threads)
    BY <2>1, FS_EmptySet
  <2>3. cgroup \in GroupSet
    BY DEF Init, Optional, GroupSet
  <2> QED BY <2>1, <2>2, <2>3 DEF Core
<1> QED BY <1>1, <1>2, <1>3, <1>4 DEF Typed
----------------------------------------------------------------------------
(* The binding follows the launch *)

LEMMA GroupSame == ASSUME GroupInv, UNCHANGED <<mask, cgroup, apart>> PROVE GroupInv'
  BY DEF GroupInv, Threads, Allowed

LEMMA BindSame ==
    ASSUME BindInv, UNCHANGED <<alive, mask, cgroup, call, loose, apart, launch, mutex, up, record>> PROVE BindInv'
  BY DEF BindInv, GroupInv, CallInv, RecordInv, Right, Want, Unbound, Requested, Threads, Allowed

\* Without a launch and without a record there is nothing to follow.
LEMMA BindGone ==
    ASSUME GroupInv', record' = None, mutex' = None, alive' = FALSE \/ launch' = None PROVE BindInv'
  BY DEF BindInv, RecordInv

LEMMA ExecBind ==
    ASSUME Typed, NEW who, who # None, NEW p \in Profile, Exec(who, p), launch' = None PROVE BindInv'
<1>1. /\ apart' = FALSE /\ cgroup'.set = None /\ call'.cpus = p.cpu /\ call'.profile = p /\ mutex' = who
      /\ call'.step = "cgroup" /\ alive' = TRUE /\ record' = None /\ call'.round = 0 /\ call'.touched = FALSE
  BY ExecCall
<1>2. 1..call'.round = {}
  BY <1>1
<1>3. GroupInv' /\ CallInv' /\ RecordInv'
  BY <1>1, <1>2 DEF GroupInv, CallInv, RecordInv
<1> QED BY <1>1, <1>3 DEF BindInv

LEMMA GoneBind == ASSUME Typed, Gone, mutex' = None PROVE BindInv'
<1>1. alive' = FALSE /\ record' = None /\ cgroup'.set = None
  BY GoneIs DEF Typed
<1>2. GroupInv'
  BY <1>1 DEF GroupInv
<1> QED BY <1>1, <1>2, BindGone

LEMMA ApplyBind == ASSUME Typed, BindInv, NEW r \in Requests, Apply(r) PROVE BindInv'
<1> DEFINE p == request[r].profile
           new == [f \in Fields |-> IF f \in Live THEN p[f] ELSE launch[f]]
<1>1. /\ request[r].pc = "manage" /\ p \in Profile /\ mutex = None
      /\ UNCHANGED <<alive, mask, cgroup, loose, apart, up, record>>
  BY DEF Apply, Typed, Hands, InHand
<1>2. launch # None => new \in Profile /\ new # None /\ new.cpu = p.cpu
  BY <1>1, AppliedProfile, NoneAssumption DEF Typed, Files, Optional
<1> HIDE DEF p, new
<1>3. GroupInv' /\ up /\ up'
  BY <1>1, GroupSame, ActiveUp DEF BindInv
<1>4. ASSUME launch = None \/ launch.cpu = p.cpu, launch' = IF launch = None THEN None ELSE new, UNCHANGED mutex
      PROVE  BindInv'
  <2>1. /\ launch' # None => launch # None /\ launch'.cpu = launch.cpu
        /\ launch' = None => launch = None
    BY <1>2, <1>4
  <2>2. mutex' = None /\ alive' /\ launch' # None /\ ~loose' => Right(launch.cpu)
    BY <1>1, <1>4, <2>1 DEF BindInv
  <2>3. mutex' = None /\ alive' /\ launch' # None /\ ~loose' => Right(launch.cpu)'
    BY <1>1, <2>1, <2>2 DEF Right, Want, Threads
  <2>4. RecordInv'
    BY <1>1, <1>3, <2>1 DEF BindInv, RecordInv
  <2> QED BY <1>1, <1>3, <1>4, <2>3, <2>4 DEF BindInv
<1>5. ASSUME launch # None, mutex' = r, BeginCall(p.cpu, new), UNCHANGED launch PROVE BindInv'
  <2>1. call' = [cpus |-> p.cpu, profile |-> new, step |-> "cgroup", round |-> 0, left |-> {},
                 touched |-> FALSE, met |-> {}]
    BY <1>5 DEF BeginCall
  <2>2. alive' /\ launch' # None /\ ~loose' => Right(launch.cpu)'
    BY <1>1, <1>5 DEF BindInv, Right, Want, Threads
  <2>3. 1..call'.round = {}
    BY <2>1
  <2>4. CallInv' /\ RecordInv'
    BY <1>1, <1>2, <1>3, <1>5, <2>1, <2>2, <2>3 DEF CallInv, RecordInv, BindInv
  <2> QED BY <1>3, <1>5, <2>4, NamesAssumption DEF BindInv
<1> QED BY <1>4, <1>5 DEF Apply, p, new

LEMMA StartBind == ASSUME Typed, BindInv, NEW r \in Requests, Start(r) \/ Restart(r) PROVE BindInv'
<1> DEFINE p == IF request[r].body = None THEN Loaded ELSE request[r].body
<1>1. request[r].pc = "manage" /\ request[r].kind \in {"start", "restart"} /\ up' = up
  BY DEF Start, Restart
<1>2. CASE StartLocked(r) /\ launch' = None
  <2>1. /\ p \in Profile
        /\ \/ Exec(r, p) /\ UNCHANGED <<request, stale>>
           \/ Answer(r, FALSE) /\ mutex' = None /\ Gone /\ UNCHANGED call
    BY <1>1, <1>2, StartLockedIs
  <2> HIDE DEF p
  <2> QED BY <1>2, <2>1, ExecBind, GoneBind, NamesAssumption
<1>3. CASE UNCHANGED <<mutex, process, launch, record>>
  BY <1>1, <1>3, BindSame DEF process
<1> QED BY <1>2, <1>3 DEF Start, Restart

LEMMA ExitBind == ASSUME Typed, BindInv, Crash \/ HandleExit \/ Relaunch \/ GiveUp PROVE BindInv'
<1>1. CASE Crash
  <2>1. launch # None /\ Gone /\ UNCHANGED <<launch, mutex, call, up>>
    BY <1>1 DEF Crash
  <2>2. alive' = FALSE /\ record' = None /\ cgroup'.set = None
    BY <2>1, GoneIs DEF Typed
  <2>3. mutex # None => CallInv'
    BY <2>1, <2>2 DEF BindInv, CallInv
  <2>4. GroupInv' /\ RecordInv'
    BY <2>2 DEF GroupInv, RecordInv
  <2> QED BY <2>1, <2>2, <2>3, <2>4 DEF BindInv
<1>2. CASE HandleExit
  <2>1. mutex' = None /\ launch' = None /\ ~alive /\ UNCHANGED <<alive, mask, cgroup, apart, record>>
    BY <1>2 DEF HandleExit, process
  <2>2. record' = None
    BY <2>1 DEF BindInv, RecordInv
  <2> QED BY <2>1, <2>2, GroupSame, BindGone DEF BindInv
<1>3. CASE Relaunch
  <2>1. relaunch \in Profile /\ Exec("relaunch", relaunch) /\ launch' = None
    BY <1>3 DEF Relaunch, Typed, Files, Optional
  <2> QED BY <2>1, ExecBind, NamesAssumption DEF Inner
<1>4. CASE GiveUp
  BY <1>4, BindSame DEF GiveUp, process, disk
<1> QED BY <1>1, <1>2, <1>3, <1>4

\* What the death of the service leaves for the next one.
LEMMA BootBind == ASSUME Typed, BindInv, ServiceDies \/ Adopt \/ Restore \/ RestoreNothing PROVE BindInv'
<1>1. CASE ServiceDies
  <2>1. up' = FALSE /\ mutex' = None /\ launch' = None
    BY <1>1 DEF ServiceDies
  <2>2. CASE Gone
    BY <2>1, <2>2, GoneBind
  <2>3. CASE /\ cgroup' = [cgroup EXCEPT !.entry = FALSE, !.own = (cgroup.set # None)]
             /\ loose' = (\/ loose \/ (mutex # None /\ call.touched)
                          \/ record # None /\ launch # None /\ record.cpu # launch.cpu)
             /\ UNCHANGED <<alive, mask, record, apart>>
    <3>1. up \/ mutex = "boot"
      BY <1>1 DEF ServiceDies
    <3>2. cgroup'.set = cgroup.set
      BY <2>3 DEF Typed, Core, GroupSet
    <3>3. GroupInv'
      BY <2>3, <3>2 DEF BindInv, GroupInv, Threads, Allowed
    <3>4. record # None => alive /\ launch # None
      BY <3>1, NamesAssumption DEF BindInv, RecordInv, Inner
    <3>5. record # None /\ ~loose' => ~loose /\ record.cpu = launch.cpu /\ (mutex # None => ~call.touched)
      BY <2>3, <3>4
    <3>6. record # None /\ ~loose' => Right(record.cpu)
      BY <3>4, <3>5 DEF BindInv, CallInv
    <3>7. record # None /\ ~loose' => Right(record.cpu)'
      BY <2>3, <3>6 DEF Right, Want, Threads
    <3>8. RecordInv'
      BY <2>1, <2>3, <3>4, <3>7 DEF RecordInv
    <3> QED BY <2>1, <3>3, <3>8 DEF BindInv
  <2> QED BY <1>1, <2>2, <2>3 DEF ServiceDies
<1>2. CASE Adopt
  <2>1. /\ ~up /\ mutex = None /\ record # None /\ launch' = record /\ up' = TRUE
        /\ UNCHANGED <<mutex, alive, mask, cgroup, loose, apart, record>>
    BY <1>2 DEF Adopt, Booting, process
  <2>2. GroupInv'
    BY <2>1, GroupSame DEF BindInv
  <2>3. ~loose => Right(record.cpu)
    BY <2>1 DEF BindInv, RecordInv
  <2>4. ~loose' => Right(launch.cpu)'
    BY <2>1, <2>3 DEF Right, Want, Threads
  <2>5. RecordInv'
    BY <2>1 DEF BindInv, RecordInv
  <2> QED BY <2>1, <2>2, <2>4, <2>5 DEF BindInv
<1>3. CASE Restore
  <2>1. desired \in Profile /\ Exec("boot", desired) /\ launch' = None
    BY <1>3 DEF Restore, Booting, Typed, Files, Held, Optional
  <2> QED BY <2>1, ExecBind, NamesAssumption DEF Inner
<1>4. CASE RestoreNothing
  <2>1. mutex' = None /\ Gone
    BY <1>4 DEF RestoreNothing, Booting
  <2> QED BY <2>1, GoneBind
<1> QED BY <1>1, <1>2, <1>3, <1>4

\* What the steps of SetCPUAffinity can rely on.
LEMMA CallFacts ==
    ASSUME Typed, BindInv, call # None
    PROVE  /\ mutex # None /\ call \in CallSet /\ call.round \in Nat /\ call.cpus = call.profile.cpu
           /\ call.cpus # None /\ call.touched \in BOOLEAN /\ call.met \in SUBSET Nat
           /\ loose \in BOOLEAN /\ apart \in BOOLEAN
           /\ Core /\ Threads \in SUBSET Nat /\ CallInv /\ GroupInv /\ RecordInv
           /\ launch = None => record = None /\ alive
           /\ ~up => launch = None
  BY CallOf DEF Typed, Flags, Held, Core, BindInv, CallInv, RecordInv, CallSet

\* A call that fails keeps the binding or leaves it loose.
LEMMA FailBind == ASSUME Typed, BindInv, call # None, Fail, GroupInv' PROVE BindInv'
<1>1. /\ call.touched \in BOOLEAN /\ CallInv /\ RecordInv /\ mutex # None /\ loose \in BOOLEAN
      /\ launch = None => record = None /\ alive
      /\ ~up => launch = None
  BY CallFacts
<1>2. /\ mutex' = None /\ UNCHANGED <<launch, record>> /\ (~up' => ~up)
      /\ launch = None => alive' = FALSE
      /\ launch # None => loose' = (loose \/ call.touched \/ mask' # mask) /\ alive' = alive
  BY FailIs DEF Return
<1>3. alive' /\ launch' # None /\ ~loose' => Right(launch.cpu) /\ mask' = mask
  BY <1>1, <1>2 DEF CallInv
<1>4. alive' /\ launch' # None /\ ~loose' => Right(launch.cpu)'
  BY <1>2, <1>3 DEF Right, Want, Threads
<1>5. RecordInv'
  BY <1>1, <1>2 DEF RecordInv
<1> QED BY <1>2, <1>4, <1>5 DEF BindInv

LEMMA SucceedBind ==
    ASSUME Typed, BindInv, call # None, NEW e \in BOOLEAN, Succeed(e), UNCHANGED alive, GroupInv',
           alive /\ ~e => \A t \in Threads' : mask'[t] = Want(call.cpus)
    PROVE  BindInv'
<1>1. /\ call.cpus = call.profile.cpu /\ RecordInv
      /\ launch = None => record = None /\ alive
      /\ ~up => launch = None /\ record = None
  BY CallFacts
<1>2. /\ mutex' = None /\ launch' = call.profile /\ launch' # None /\ loose' = e
      /\ launch # None => record' = record
      /\ ~up' => ~up /\ mutex # "boot"
  BY SucceedIs DEF Return
<1>3. up'
  BY <1>2, CallFacts DEF Typed, Held
<1>4. RecordInv'
  BY <1>1, <1>2, <1>3 DEF RecordInv
<1>5. alive' /\ launch' # None /\ ~loose' => Right(launch.cpu)'
  BY <1>1, <1>2 DEF Right, Want
<1> QED BY <1>2, <1>4, <1>5 DEF BindInv

\* A call that goes on.
LEMMA GoesBind ==
    ASSUME Typed, BindInv, call # None, NEW s, Goes(s), GroupInv', CallInv' PROVE BindInv'
<1>1. UNCHANGED <<mutex, launch, alive, up, record>> /\ mutex # None
  BY CallFacts DEF Goes, disk
<1> QED BY <1>1, CallFacts DEF BindInv, RecordInv

LEMMA SetCgroupBind == ASSUME Typed, BindInv, call # None, SetCgroup PROVE BindInv'
<1>0. /\ call \in CallSet /\ call.cpus # None /\ call.cpus = call.profile.cpu /\ apart \in BOOLEAN
      /\ CallInv /\ GroupInv /\ call.step = "cgroup" /\ Threads' = Threads
  BY CallFacts, SetCgroupIs
<1>1. CASE BindThreads
  <2>1. /\ Goes("threads") /\ call'.round = call.round /\ call'.touched = (mask' # mask)
        /\ apart' = (cgroup'.set # None)
    BY <1>0, <1>1, BindThreadsIs
  <2>2. GroupInv'
    BY <2>1 DEF GroupInv
  <2>3. call.round = 0 /\ ~call.touched
    BY <1>0 DEF CallInv
  <2>4. 1..call'.round = {}
    BY <2>1, <2>3
  <2>5. alive /\ launch # None /\ ~loose /\ ~call'.touched => Right(launch.cpu) /\ mask' = mask
    BY <1>0, <2>1, <2>3 DEF CallInv
  <2>6. alive /\ launch # None /\ ~loose /\ ~call'.touched => Right(launch.cpu)'
    BY <1>0, <2>1, <2>5 DEF Right, Want, Goes
  <2>7. CallInv'
    BY <1>0, <2>1, <2>4, <2>6 DEF CallInv, Goes
  <2> QED BY <2>1, <2>2, <2>7, GoesBind
<1>2. ASSUME call.cpus # {}, cgroup'.set = call.cpus, UNCHANGED alive,
             apart' = (apart /\ call.cpus = cgroup.set), Succeed(apart /\ call.cpus = cgroup.set),
             call.cpus = cgroup.set => mask' = mask,
             call.cpus # cgroup.set => \A t \in Threads : mask'[t] = Allowed(call.cpus)
      PROVE  BindInv'
  <2> DEFINE e == apart /\ call.cpus = cgroup.set
  <2>1. ~e => \A t \in Threads : mask'[t] = Allowed(call.cpus)
    BY <1>0, <1>2 DEF GroupInv
  <2>2. e \in BOOLEAN /\ Succeed(e) /\ apart' = e
    BY <1>0, <1>2
  <2> HIDE DEF e
  <2>3. Allowed(call.cpus) = Want(call.cpus)
    BY <1>0 DEF Allowed, Want
  <2>4. GroupInv'
    BY <1>0, <1>2, <2>1, <2>2 DEF GroupInv, Allowed
  <2> QED BY <1>0, <1>2, <2>1, <2>2, <2>3, <2>4, SucceedBind
<1>3. ASSUME Fail, apart' = (apart /\ cgroup'.set = cgroup.set),
             cgroup'.set = cgroup.set => mask' = mask,
             cgroup'.set # cgroup.set => \A t \in Threads : mask'[t] = Allowed(cgroup'.set)
      PROVE  BindInv'
  <2>1. CASE cgroup'.set = cgroup.set
    BY <1>0, <1>3, <2>1, FailBind DEF GroupInv, Allowed
  <2>2. CASE cgroup'.set # cgroup.set
    BY <1>0, <1>3, <2>2, FailBind DEF GroupInv, Allowed
  <2> QED BY <2>1, <2>2
<1> QED BY <1>1, <1>2, <1>3, SetCgroupIs

\* A thread that has the CPUs asked for has those of the profile.
LEMMA BoundRight ==
    ASSUME Core, NEW t \in Threads, mask[t] = Requested PROVE mask[t] = Want(call.cpus)
<1>1. mask[t] \subseteq Online
  BY DEF Core
<1> QED BY <1>1, OnlineAssumption DEF Requested, Want

LEMMA ScanBind == ASSUME Typed, BindInv, call # None, Scan PROVE BindInv'
<1>0. /\ call \in CallSet /\ call.round \in Nat /\ call.cpus = call.profile.cpu
      /\ Core /\ Threads \in SUBSET Nat /\ CallInv /\ GroupInv
  BY CallFacts
<1>1. /\ call.step = "threads" /\ call.left = {} /\ UNCHANGED <<mask, cgroup, apart>> /\ Threads' = Threads
      /\ GroupInv'
  BY <1>0, ScanIs, GroupSame DEF Threads
<1>2. alive => Unbound = {} \/ 1..call.round \subseteq call.met
  BY <1>0, <1>1 DEF CallInv
<1>3. ASSUME Goes("threads"), call'.round = call.round + 1, call'.left = Threads,
             call'.touched = call.touched, call'.met = call.met
      PROVE  BindInv'
  <2>1. UNCHANGED <<launch, loose, alive>> /\ call'.cpus = call.cpus /\ call'.profile = call.profile
        /\ call'.step = "threads"
    BY <1>3 DEF Goes
  <2>2. Unbound' = Unbound /\ Unbound \subseteq Threads
    BY <1>1, <2>1 DEF Unbound, Requested
  <2>3. Right(launch.cpu) => Right(launch.cpu)'
    BY <1>1, <2>1 DEF Right, Want
  <2>4. call'.round - 1 = call.round
    BY <1>0, <1>3
  <2>5. alive' => \/ Unbound' = {} \/ 1..call'.round \subseteq call'.met
                  \/ 1..(call'.round - 1) \subseteq call'.met /\ Unbound' \subseteq call'.left
    BY <1>2, <1>3, <2>1, <2>2, <2>4
  <2>6. CallInv'
    BY <1>0, <1>1, <1>3, <2>1, <2>3, <2>5 DEF CallInv
  <2> QED BY <1>1, <1>3, <2>6, GoesBind
<1>4. ASSUME call.round >= Rounds, Succeed(MetAll), UNCHANGED alive PROVE BindInv'
  <2>1. 1..Rounds \subseteq 1..call.round
    BY <1>0, <1>4, RoundsAssumption
  <2>2. alive /\ ~MetAll => Unbound = {}
    BY <1>2, <2>1 DEF MetAll
  <2>3. alive /\ ~MetAll => \A t \in Threads' : mask'[t] = Want(call.cpus)
    BY <1>0, <1>1, <2>2, BoundRight DEF Unbound
  <2> DEFINE e == MetAll
  <2>4. e \in BOOLEAN /\ Succeed(e) /\ (alive /\ ~e => \A t \in Threads' : mask'[t] = Want(call.cpus))
    BY <1>4, <2>3 DEF MetAll
  <2> HIDE DEF e
  <2> QED BY <1>1, <1>4, <2>4, SucceedBind
<1> QED BY <1>0, <1>1, <1>3, <1>4, FailBind, ScanIs

LEMMA BindThreadBind == ASSUME Typed, BindInv, call # None, BindThread PROVE BindInv'
<1>0. /\ call \in CallSet /\ call.round \in Nat /\ call.cpus = call.profile.cpu
      /\ Core /\ CallInv /\ GroupInv
  BY CallFacts
<1>1. /\ call.step = "threads" /\ UNCHANGED <<cgroup, apart>> /\ Threads' = Threads
      /\ cgroup.set # None => apart
  BY <1>0, BindThreadIs DEF CallInv
<1>2. GroupInv'
  BY <1>1 DEF GroupInv
<1>3. ASSUME NEW t, Goes("threads"), call'.round = call.round, call'.met = call.met,
             call'.left = call.left \ {t}, call'.touched = (call.touched \/ mask' # mask),
             ~alive => mask' = mask,
             alive => /\ \A i \in Threads \ {t} : mask'[i] = mask[i]
                      /\ t \in Threads => mask'[t] = Requested
      PROVE  BindInv'
  <2>1. UNCHANGED <<launch, loose, alive>> /\ call'.cpus = call.cpus /\ call'.profile = call.profile
        /\ call'.step = "threads"
    BY <1>3 DEF Goes
  <2>2. Requested' = Requested
    BY <2>1 DEF Requested
  <2>3. alive => Unbound' = Unbound \ {t}
    BY <1>1, <1>3, <2>2 DEF Unbound
  <2>4. alive => \/ Unbound' = {} \/ 1..call.round \subseteq call.met
                 \/ 1..(call.round - 1) \subseteq call.met /\ Unbound' \subseteq call.left \ {t}
    <3>1. alive => \/ Unbound = {} \/ 1..call.round \subseteq call.met
                   \/ 1..(call.round - 1) \subseteq call.met /\ Unbound \subseteq call.left
      BY <1>0 DEF CallInv
    <3> QED BY <2>3, <3>1
  <2>5. alive /\ launch # None /\ ~loose /\ ~call'.touched => Right(launch.cpu) /\ mask' = mask
    BY <1>0, <1>3 DEF CallInv
  <2>6. alive /\ launch # None /\ ~loose /\ ~call'.touched => Right(launch.cpu)'
    BY <1>1, <2>1, <2>5 DEF Right, Want
  <2>7. CallInv'
    BY <1>0, <1>1, <1>3, <2>1, <2>4, <2>6 DEF CallInv
  <2> QED BY <1>2, <1>3, <2>7, GoesBind
<1> QED BY <1>0, <1>2, <1>3, FailBind, BindThreadIs

LEMMA SpawnBind == ASSUME Typed, BindInv, Spawn PROVE BindInv'
<1>1. /\ alive /\ Goes(call.step) /\ UNCHANGED <<cgroup, apart>>
      /\ call'.round = call.round /\ call'.left = call.left /\ call'.touched = call.touched
      /\ call'.met = call.met \cup ({call.round} \ {0})
      /\ \A i \in Threads : i \in Threads' /\ mask'[i] = mask[i]
      /\ \A i \in Threads' : \E t \in Threads : mask'[i] = mask[t]
  BY SpawnIs
<1>2. call # None /\ call.round \in Nat /\ call.cpus = call.profile.cpu /\ CallInv /\ GroupInv
  BY CallFacts DEF Spawn
<1>3. UNCHANGED <<launch, loose, alive>> /\ call'.cpus = call.cpus /\ call'.profile = call.profile
      /\ call'.step = call.step
  BY <1>1 DEF Goes
<1>4. GroupInv'
  BY <1>1, <1>2 DEF GroupInv, Allowed
<1>5. Right(launch.cpu) => Right(launch.cpu)'
  BY <1>1, <1>3 DEF Right, Want
<1>6. Unbound = {} => Unbound' = {}
  BY <1>1, <1>3 DEF Unbound, Requested
<1>7. 1..(call.round - 1) \subseteq call.met => 1..call.round \subseteq call'.met
  <2> SUFFICES ASSUME 1..(call.round - 1) \subseteq call.met, NEW i \in 1..call.round PROVE i \in call'.met
    OBVIOUS
  <2>1. i = call.round \/ i \in 1..(call.round - 1)
    BY <1>2
  <2>2. i # 0
    BY <1>2
  <2> QED BY <1>1, <2>1, <2>2
<1>8. Unbound' = {} \/ 1..call'.round \subseteq call'.met
  BY <1>1, <1>2, <1>6, <1>7 DEF CallInv
<1>9. CallInv'
  BY <1>1, <1>2, <1>3, <1>5, <1>8 DEF CallInv
<1> QED BY <1>1, <1>2, <1>4, <1>9, GoesBind

LEMMA BindStep == Typed /\ BindInv /\ [Next]_vars => BindInv'
<1> SUFFICES ASSUME Typed, BindInv, [Next]_vars PROVE BindInv'
  OBVIOUS
<1>1. CASE UNCHANGED vars
  BY <1>1, BindSame DEF vars
<1>2. ASSUME NEW r \in Requests, NEW q, Front(r, q) PROVE BindInv'
  BY <1>2, BindSame DEF Front, process, disk
<1>3. ASSUME NEW r \in Requests, Stop(r) PROVE BindInv'
  <2>1. mutex' = None /\ Gone
    BY <1>3 DEF Stop
  <2> QED BY <2>1, GoneBind
<1>4. ASSUME NEW r \in Requests, Handler(r) PROVE BindInv'
  BY <1>2, <1>3, <1>4, ReceiveFront, LoadFront, SaveFront, ReloadFront, ApplyBind, StartBind DEF Handler
<1>5. CASE SetCPUAffinity
  BY <1>5, SetCgroupBind, ScanBind, BindThreadBind DEF SetCPUAffinity
<1> QED BY <1>1, <1>4, <1>5, SpawnBind, ExitBind, BootBind DEF Next

\* SetCPUAffinity binds every thread of the core as the launch says, on every
\* machine, for every body of a request and over the death of the service, but
\* for the four cases in which the binding is left loose.
THEOREM BindingAlways == Spec => []BindingFollowsLaunch
<1>1. Init => Typed /\ BindInv
  BY InitTyped DEF Init, BindInv, GroupInv, RecordInv
<1>2. Typed /\ BindInv /\ [Next]_vars => (Typed /\ BindInv)'
  BY TypedStep, BindStep
<1>3. Typed /\ BindInv => BindingFollowsLaunch
  BY DEF BindInv, BindingFollowsLaunch, Right, Want
<1> QED BY <1>1, <1>2, <1>3, PTL DEF Spec
----------------------------------------------------------------------------
(* The launch follows the file *)

LEMMA FrontFile == ASSUME Typed, FileInv, NEW r \in Requests, NEW q, Front(r, q) PROVE FileInv'
<1>1. /\ launch' = launch /\ relaunch' = relaunch /\ mutex' = mutex /\ call' = call
      /\ desired' = desired /\ unsaved' = unsaved
      /\ request[r].pc # "manage"
      /\ q \in RequestSet /\ InHand(q) /\ request' = [request EXCEPT ![r] = q]
  BY DEF Front, process, disk
<1>2. /\ Hands' /\ request'[r] = q
      /\ \A s \in Requests \ {r} : request'[s] = request[s]
      /\ Active' = IF q.pc = "idle" THEN Active \ {r} ELSE Active \cup {r}
  BY <1>1, HandStep DEF Typed
<1>3. mutex # r /\ Active \subseteq Requests /\ (request[r].pc # "idle" <=> r \in Active)
  BY <1>1 DEF Typed, Held, Active
<1>4. CASE /\ request[r].pc = "idle" /\ q.pc # "idle" /\ UNCHANGED file
           /\ q.pc = "save" => q.kind # "patch"
           /\ q.pc = "manage" => q.kind \notin {"post", "patch"} /\ q.body = None
           /\ alone' = (Active = {} /\ relaunch = None) /\ stale' = (stale \/ ~alone')
  <2>1. r \in Active' /\ (alone' => Active = {} /\ Active' = {r} /\ relaunch' = None)
    BY <1>1, <1>2, <1>3, <1>4
  <2>2. Loaded' = Loaded
    BY <1>4 DEF Loaded
  <2>3. alone' /\ ~stale' /\ ~unsaved' => Sync(desired)'
    BY <1>1, <1>4, <2>1, <2>2 DEF FileInv, Sync
  <2>4. alone' => Sole(r)'
    BY <1>1, <1>2, <1>3, <1>4, <2>1, <2>3 DEF Sole
  <2> QED BY <1>4, <2>1, <2>4 DEF FileInv
<1>5. CASE request[r].pc # "idle" /\ q = Idle /\ stale' = TRUE /\ UNCHANGED alone
  <2>1. Active' = Active \ {r}
    BY <1>2, <1>5, IdleFacts
  <2>2. alone' => Active' = {}
    BY <1>3, <1>5, <2>1 DEF FileInv, Sole
  <2> QED BY <1>5, <2>2 DEF FileInv
<1>6. CASE /\ request[r].pc # "idle" /\ q.kind = request[r].kind /\ q.body = request[r].body
           /\ UNCHANGED <<alone, stale>> /\ q.pc # "idle"
           /\ \/ q.pc = "save" /\ q.kind = "patch" /\ q.profile = Patched(Loaded, q.body) /\ UNCHANGED file
              \/ /\ request[r].pc = "save" /\ q.kind # "stop" /\ q.profile = request[r].profile
                 /\ Loaded' = q.profile
                 /\ q.pc = IF q.kind \in {"post", "patch"} THEN "reload" ELSE "manage"
              \/ /\ q.pc = "manage" /\ q.profile = Loaded /\ q.kind \in {"post", "patch"}
                 /\ UNCHANGED file
  <2>1. Active' = Active /\ r \in Active
    BY <1>2, <1>3, <1>6
  <2>2. alone' => Active' = {r} /\ relaunch' = None
    BY <1>1, <1>6, <2>1 DEF FileInv, Sole
  <2>3. q.pc = "manage" /\ q.kind \in {"start", "restart"} => q.body = Loaded'
    BY <1>6 DEF Typed, Hands, InHand
  <2>4. q.pc = "save" /\ q.kind = "patch" => q.profile = Patched(Loaded', q.body)
    BY <1>6 DEF Loaded
  <2>5. q.pc = "manage" /\ q.kind \in {"post", "patch"} => q.profile = Loaded'
    BY <1>6 DEF Loaded
  <2>6. q.kind # "stop"
    BY <1>6
  <2>7. alone' => Sole(r)'
    BY <1>1, <1>2, <1>3, <2>2, <2>3, <2>4, <2>5, <2>6 DEF Sole
  <2> QED BY <1>6, <2>1, <2>2, <2>7 DEF FileInv
<1> QED BY <1>4, <1>5, <1>6, IdleFacts DEF Front

LEMMA FileSame ==
    ASSUME FileInv, UNCHANGED <<file, launch, relaunch, request, mutex, alone, stale, desired, unsaved>>,
           record' \in {record, None}, mutex = None \/ call'.profile = call.profile
    PROVE  FileInv'
<1>1. Active' = Active /\ Loaded' = Loaded
  BY DEF Active, Loaded
<1>2. (Sync(launch) => Sync(launch)') /\ (Sync(relaunch) => Sync(relaunch)')
  BY <1>1 DEF Sync
<1>3. (Sync(desired) => Sync(desired)') /\ (Sync(record) => Sync(record)')
  BY <1>1 DEF Sync
<1>4. mutex # None => (Sync(call.profile) => Sync(call.profile)')
  BY <1>1 DEF Sync
<1>5. \A r \in Active : Sole(r) => Sole(r)'
  <2> SUFFICES ASSUME NEW r \in Active, Sole(r) PROVE Sole(r)'
    OBVIOUS
  <2>1. mutex = r => mutex # None
    BY NamesAssumption DEF Active
  <2> QED BY <1>1, <1>3, <1>4, <2>1 DEF Sole
<1> QED BY <1>1, <1>2, <1>3, <1>4, <1>5 DEF FileInv

\* A request answers: when nothing overlapped it, it leaves nobody behind.
LEMMA AnswerFile ==
    ASSUME Typed, FileInv, NEW r \in Active, NEW ok \in BOOLEAN, Answer(r, ok),
           UNCHANGED <<file, relaunch, alone>>, mutex' = None,
           ok /\ alone => Sync(launch)' /\ (~unsaved' => Sync(desired)' /\ Sync(record)')
    PROVE  FileInv'
<1>1. /\ Active' = Active \ {r}
      /\ stale' = (IF ok /\ alone THEN FALSE ELSE stale \/ ~ok)
  BY IdleFacts, HandStep DEF Typed, Answer, Active
<1>2. alone => Active' = {} /\ relaunch' = None
  BY <1>1 DEF FileInv, Sole
<1>3. ~alone => stale
  BY DEF FileInv
<1>4. relaunch' = None => Sync(relaunch)'
  BY DEF Sync
<1>5. alone \in BOOLEAN /\ stale \in BOOLEAN
  BY DEF Typed, Flags
<1>6. ~alone => stale'
  BY <1>1, <1>3, <1>5
<1>7. alone /\ ~ok => stale'
  BY <1>1, <1>5
<1> QED BY <1>2, <1>4, <1>5, <1>6, <1>7 DEF FileInv

\* A request starts SetCPUAffinity with a profile that is the one of the file
\* when nothing overlapped it.
LEMMA CallFile ==
    ASSUME Typed, FileInv, NEW r \in Active, UNCHANGED <<file, relaunch, request, alone, stale>>, mutex' = r,
           request[r].kind # "stop", alone => LiveOf(call'.profile) = LiveOf(Loaded)
    PROVE  FileInv'
<1>1. Active' = Active /\ Loaded' = Loaded
  BY DEF Active, Loaded
<1>2. alone => Active = {r} /\ Sole(r)
  BY DEF FileInv, Sole
<1>3. alone => Sole(r)'
  BY <1>1, <1>2 DEF Sole, Sync
<1> QED BY <1>1, <1>2, <1>3 DEF FileInv

LEMMA ApplyFile == ASSUME Typed, FileInv, NEW r \in Requests, Apply(r) PROVE FileInv'
<1> DEFINE p == request[r].profile
           new == [f \in Fields |-> IF f \in Live THEN p[f] ELSE launch[f]]
<1>1. /\ request[r].pc = "manage" /\ request[r].kind \in {"post", "patch"} /\ p \in Profile /\ mutex = None
      /\ UNCHANGED <<file, relaunch, alone>> /\ r \in Active
  BY DEF Apply, Typed, Hands, InHand, Active
<1>2. launch # None => LiveOf(new) = LiveOf(p)
  BY <1>1, AppliedProfile DEF Typed, Files, Optional
<1>3. alone => p = Loaded
  BY <1>1 DEF FileInv, Sole
<1> HIDE DEF p, new
<1>4. ASSUME launch' = IF launch = None THEN None ELSE new, Answer(r, TRUE), UNCHANGED mutex, unsaved' = TRUE
      PROVE  FileInv'
  <2>1. alone => Sync(launch)'
    <3>1. Loaded' = Loaded
      BY <1>1 DEF Loaded
    <3> QED BY <1>2, <1>3, <1>4, <3>1 DEF Sync
  <2> QED BY <1>1, <1>4, <2>1, AnswerFile
<1>5. ASSUME launch # None, mutex' = r, BeginCall(p.cpu, new), UNCHANGED <<launch, request, stale>>
      PROVE  FileInv'
  <2>1. call'.profile = new
    BY <1>5 DEF BeginCall
  <2> QED BY <1>1, <1>2, <1>3, <1>5, <2>1, CallFile
<1> QED BY <1>4, <1>5 DEF Apply, p, new

LEMMA StartFile == ASSUME Typed, FileInv, NEW r \in Requests, Start(r) \/ Restart(r) PROVE FileInv'
<1> DEFINE p == IF request[r].body = None THEN Loaded ELSE request[r].body
<1>1. /\ request[r].pc = "manage" /\ request[r].kind \in {"start", "restart"} /\ mutex = None
      /\ UNCHANGED <<file, relaunch, alone>> /\ r \in Active
  BY DEF Start, Restart, Active
<1>2. CASE Answer(r, FALSE) /\ mutex' = None
  BY <1>1, <1>2, AnswerFile
<1>3. CASE StartLocked(r)
  <2>1. /\ p \in Profile
        /\ \/ Exec(r, p) /\ UNCHANGED <<request, stale>>
           \/ Answer(r, FALSE) /\ mutex' = None /\ Gone /\ UNCHANGED call
    BY <1>1, <1>3, StartLockedIs
  <2>2. alone => p = Loaded
    BY <1>1 DEF FileInv, Sole
  <2> HIDE DEF p
  <2>3. CASE Exec(r, p) /\ UNCHANGED <<request, stale>>
    <3>1. mutex' = r /\ call'.profile = p
      BY <2>1, <2>3, ExecCall
    <3> QED BY <1>1, <2>2, <2>3, <3>1, CallFile
  <2> QED BY <1>2, <2>1, <2>3
<1>4. CASE Answer(r, FALSE) /\ UNCHANGED mutex
  BY <1>1, <1>2, <1>4
<1> QED BY <1>3, <1>4 DEF Start, Restart

LEMMA StopFile == ASSUME Typed, FileInv, NEW r \in Requests, Stop(r) PROVE FileInv'
<1>1. /\ mutex' = None /\ launch' = None /\ request' = [request EXCEPT ![r] = Idle]
      /\ request[r].kind = "stop" /\ desired' \in {desired, None} /\ record' = None
      /\ UNCHANGED <<file, relaunch, alone, stale, unsaved>> /\ r \in Active
  BY DEF Stop, Active, Gone, Cleared
<1>2. Active' = Active \ {r} /\ Loaded' = Loaded
  BY <1>1, IdleFacts, HandStep DEF Typed, Loaded
<1>3. alone => Active' = {} /\ relaunch' = None
  BY <1>1, <1>2 DEF FileInv, Sole
<1>4. ~alone => stale
  BY <1>1 DEF FileInv
<1>5. ~stale /\ ~unsaved => Sync(desired)
  BY <1>1, <1>4 DEF FileInv, Sole
<1>6. ~stale' /\ ~unsaved' => Sync(desired)' /\ Sync(record)'
  BY <1>1, <1>2, <1>5 DEF Sync
<1> QED BY <1>1, <1>3, <1>4, <1>6 DEF FileInv, Sync

LEMMA ExitFile == ASSUME Typed, FileInv, Crash \/ HandleExit \/ Relaunch \/ GiveUp PROVE FileInv'
<1>1. CASE Crash
  <2>1. record' = None
    BY <1>1 DEF Crash, Gone
  <2> QED BY <1>1, <2>1, FileSame DEF Crash
<1>2. CASE HandleExit
  <2>1. /\ mutex' = None /\ relaunch' \in {launch, None} /\ launch' = None /\ alone' = FALSE
        /\ stale' = (stale \/ Active # {}) /\ UNCHANGED <<file, request, record, unsaved>>
        /\ desired' \in {desired, None}
    BY <1>2 DEF HandleExit, Cleared
  <2>2. Active' = Active /\ Loaded' = Loaded /\ stale \in BOOLEAN
    BY <2>1 DEF Active, Loaded, Typed, Flags
  <2>3. Active' = {} /\ ~stale' => Sync(launch)' /\ Sync(relaunch)'
    BY <2>1, <2>2 DEF FileInv, Sync
  <2>4. Active' = {} /\ ~stale' /\ ~unsaved' => Sync(desired)' /\ Sync(record)'
    BY <2>1, <2>2 DEF FileInv, Sync
  <2>5. Active' # {} => stale'
    BY <2>1, <2>2
  <2> QED BY <2>1, <2>3, <2>4, <2>5 DEF FileInv
<1>3. CASE Relaunch
  <2>1. /\ relaunch # None /\ Exec("relaunch", relaunch)
        /\ UNCHANGED <<file, launch, relaunch, request, alone, stale, desired, unsaved>>
    BY <1>3 DEF Relaunch
  <2>2. mutex' = "relaunch" /\ call'.profile = relaunch /\ record' = None
    BY <2>1, ExecCall DEF Typed, Files, Optional
  <2>3. Active' = Active /\ Loaded' = Loaded
    BY <2>1 DEF Active, Loaded
  <2>4. alone => Active = {}
    BY <2>1 DEF FileInv, Sole
  <2>5. Active' = {} /\ ~stale' => /\ Sync(launch)' /\ Sync(relaunch)' /\ Sync(call.profile)'
                                   /\ ~unsaved' => Sync(desired)' /\ Sync(record)'
    BY <2>1, <2>2, <2>3 DEF FileInv, Sync
  <2> QED BY <2>1, <2>3, <2>4, <2>5 DEF FileInv
<1>4. CASE GiveUp
  <2>1. mutex = None /\ relaunch # None /\ relaunch' = None
        /\ UNCHANGED <<file, launch, request, mutex, alone, stale, desired, unsaved, record>>
    BY <1>4 DEF GiveUp, disk
  <2>2. Active' = Active /\ Loaded' = Loaded
    BY <2>1 DEF Active, Loaded
  <2>3. alone => Active = {}
    BY <2>1 DEF FileInv, Sole
  <2> QED BY <2>1, <2>2, <2>3 DEF FileInv, Sync
<1> QED BY <1>1, <1>2, <1>3, <1>4

\* A boot takes over what is in the state files, which is the profile of the
\* file unless that was changed since.
LEMMA BootFile == ASSUME Typed, FileInv, ServiceDies \/ Adopt \/ Restore \/ RestoreNothing PROVE FileInv'
<1>0. stale \in BOOLEAN /\ unsaved \in BOOLEAN
  BY DEF Typed, Flags
<1>1. CASE ServiceDies
  <2>1. /\ mutex' = None /\ launch' = None /\ relaunch' = None
        /\ request' = [r \in Requests |-> Idle]
        /\ stale' = (stale \/ Active # {}) /\ alone' = FALSE /\ UNCHANGED <<file, desired, unsaved>>
    BY <1>1 DEF ServiceDies
  <2>2. record' \in {record, None}
    BY <1>1 DEF ServiceDies, Gone
  <2>3. Active' = {} /\ Loaded' = Loaded
    BY <2>1, IdleFacts DEF Active, Loaded
  <2>4. ~stale' /\ ~unsaved' => Sync(desired)' /\ Sync(record)'
    BY <1>0, <2>1, <2>2, <2>3 DEF FileInv, Sync
  <2> QED BY <2>1, <2>3, <2>4 DEF FileInv, Sync
<1>2. CASE Adopt \/ Restore \/ RestoreNothing
  <2>1. /\ ~up /\ mutex = None
        /\ UNCHANGED <<file, relaunch, request, desired, unsaved, alone>>
    BY <1>2 DEF Adopt, Restore, RestoreNothing, Booting
  <2>2. Active = {} /\ Active' = {} /\ Loaded' = Loaded
    BY <2>1 DEF Typed, Held, Active, Loaded
  <2>3. ~stale => Sync(relaunch) /\ Sync(launch) /\ (~unsaved => Sync(desired) /\ Sync(record))
    BY <2>2 DEF FileInv
  <2>4. CASE Adopt
    <3>1. launch' = record /\ mutex' = None /\ stale' = (stale \/ unsaved) /\ record' = record
      BY <2>1, <2>4 DEF Adopt, Boots
    <3>2. ~stale' => Sync(launch)' /\ Sync(relaunch)' /\ Sync(desired)' /\ Sync(record)'
      BY <1>0, <2>1, <2>2, <2>3, <3>1 DEF Sync
    <3> QED BY <2>2, <3>1, <3>2 DEF FileInv
  <2>5. CASE Restore
    <3>1. desired # None /\ Exec("boot", desired) /\ stale' = (stale \/ unsaved) /\ launch' = launch
      BY <2>5 DEF Restore, Boots
    <3>2. call'.profile = desired /\ record' = None
      BY <3>1, ExecCall DEF Typed, Files, Optional
    <3>3. ~stale' => /\ Sync(launch)' /\ Sync(relaunch)' /\ Sync(desired)' /\ Sync(record)'
                     /\ Sync(call.profile)'
      BY <1>0, <2>1, <2>2, <2>3, <3>1, <3>2 DEF Sync
    <3> QED BY <2>2, <3>3 DEF FileInv
  <2>6. CASE RestoreNothing
    <3>1. mutex' = None /\ launch' = launch /\ stale' = stale /\ record' = None
      BY <2>1, <2>6 DEF RestoreNothing, Gone
    <3>2. ~stale' => Sync(launch)' /\ Sync(relaunch)' /\ (~unsaved' => Sync(desired)' /\ Sync(record)')
      BY <2>1, <2>2, <2>3, <3>1 DEF Sync
    <3> QED BY <2>2, <3>1, <3>2 DEF FileInv
  <2> QED BY <1>2, <2>4, <2>5, <2>6
<1> QED BY <1>1, <1>2

\* SetCPUAffinity returns.
LEMMA EndFile ==
    ASSUME Typed, FileInv, call # None, UNCHANGED <<file, alone>>, (\E e : Succeed(e)) \/ Fail
    PROVE  FileInv'
<1>1. mutex # None /\ Loaded' = Loaded
  BY CallOf DEF Loaded
<1>2. PICK ok \in BOOLEAN : Return(ok) /\ (ok => \E e : Succeed(e)) /\ (~ok => Fail)
  BY SucceedIs, FailIs
<1>3. ok => /\ launch' = call.profile
            /\ ~unsaved' => record' \in {None, call.profile} /\ desired' = call.profile
  BY <1>2, SucceedIs
<1>4. ~ok => UNCHANGED <<launch, record, desired, unsaved>>
  BY <1>2, FailIs
<1>5. CASE mutex \in Inner
  <2>1. relaunch # None \/ ~up
    BY <1>5 DEF Typed, Held, Inner
  <2>2. mutex' = None /\ relaunch' \in {relaunch, None} /\ UNCHANGED <<request, stale>>
    BY <1>2, <1>5 DEF Return
  <2>3. Active' = Active
    BY <2>2 DEF Active
  <2>4. alone => Active = {}
    BY <2>1 DEF FileInv, Sole, Typed, Held
  <2>5. Active = {} /\ ~stale => /\ Sync(launch) /\ Sync(relaunch) /\ Sync(call.profile)
                                 /\ ~unsaved => Sync(desired) /\ Sync(record)
    BY <1>1 DEF FileInv
  <2>6. Active' = {} /\ ~stale' => Sync(launch)' /\ Sync(relaunch)'
    BY <1>1, <1>3, <1>4, <2>2, <2>3, <2>5 DEF Sync
  <2>7. Active' = {} /\ ~stale' /\ ~unsaved' => Sync(desired)' /\ Sync(record)'
    BY <1>1, <1>3, <1>4, <2>2, <2>3, <2>5 DEF Sync
  <2>8. Active' # {} /\ ~alone' => stale'
    BY <2>2, <2>3 DEF FileInv
  <2> QED BY <2>2, <2>3, <2>4, <2>6, <2>7, <2>8 DEF FileInv
<1>6. CASE mutex \notin Inner
  <2>1. mutex \in Active
    BY <1>1, <1>6 DEF Typed, Held, Active
  <2>2. alone => Sync(call.profile)
    BY <2>1 DEF FileInv, Sole
  <2>3. Answer(mutex, ok) /\ relaunch' = relaunch /\ mutex' = None
    BY <1>2, <1>6 DEF Return, Inner
  <2>4. ok /\ alone => Sync(launch)' /\ (~unsaved' => Sync(desired)' /\ Sync(record)')
    BY <1>1, <1>3, <2>2 DEF Sync
  <2> QED BY <2>1, <2>3, <2>4, AnswerFile
<1> QED BY <1>5, <1>6

LEMMA AffinityFile == ASSUME Typed, FileInv, call # None, SetCgroup \/ Scan \/ BindThread PROVE FileInv'
<1>0. call \in CallSet /\ mutex # None /\ Core /\ Threads \in SUBSET Nat
  BY CallOf DEF Typed, Core
<1>1. UNCHANGED <<file, alone>>
  BY <1>0, SetCgroupIs, ScanIs, BindThreadIs
<1>2. (\E e : Succeed(e)) \/ Fail \/ Goes("threads")
  <2>1. CASE SetCgroup
    BY <1>0, <2>1, SetCgroupIs, BindThreadsIs
  <2>2. CASE Scan
    BY <1>0, <2>2, ScanIs
  <2>3. CASE BindThread
    BY <1>0, <2>3, BindThreadIs
  <2> QED BY <2>1, <2>2, <2>3
<1> QED BY <1>1, <1>2, EndFile, FileSame DEF Goes, disk

LEMMA FileStep == Typed /\ FileInv /\ [Next]_vars => FileInv'
<1> SUFFICES ASSUME Typed, FileInv, [Next]_vars PROVE FileInv'
  OBVIOUS
<1>1. CASE UNCHANGED vars
  BY <1>1, FileSame DEF vars
<1>2. ASSUME NEW r \in Requests, Handler(r) PROVE FileInv'
  BY <1>2, ReceiveFront, LoadFront, SaveFront, ReloadFront, FrontFile, ApplyFile, StartFile, StopFile DEF Handler
<1>3. CASE SetCPUAffinity
  BY <1>3, AffinityFile DEF SetCPUAffinity
<1>4. CASE Spawn
  BY <1>4, SpawnIs, FileSame DEF Goes, disk
<1> QED BY <1>1, <1>2, <1>3, <1>4, ExitFile, BootFile DEF Next

LEMMA FileAlways == Spec => [](Typed /\ FileInv)
<1>1. Init => FileInv
  <2> SUFFICES ASSUME Init PROVE FileInv
    OBVIOUS
  <2>1. Active = {}
    BY IdleFacts DEF Init, Active
  <2> QED BY <2>1 DEF Init, FileInv, Sync
<1> QED BY <1>1, InitTyped, TypedStep, FileStep, PTL DEF Spec

\* The requests, the file, the state files and the running launch: what a
\* request that nothing overlapped leaves behind, and what a boot makes of it,
\* for any number of requests, any bodies and any number of crashes.
THEOREM CurrentAlways == Spec => []LaunchIsCurrent
<1>1. Typed /\ FileInv => LaunchIsCurrent
  BY TypedType DEF FileInv, LaunchIsCurrent, Sync
<1> QED BY <1>1, FileAlways, PTL

\* The other steps leave the requests as they are, or answer one or all.
LEMMA OtherRequests ==
    ASSUME Typed, Next
    PROVE  \/ \E s \in Requests : \E q : Front(s, q)
           \/ request' = request \/ request' = [s \in Requests |-> Idle]
           \/ \E s \in Requests : request' = [request EXCEPT ![s] = Idle]
<1>1. ASSUME NEW s \in Requests, Apply(s) \/ Start(s) \/ Restart(s) \/ Stop(s)
      PROVE  request' = request \/ request' = [request EXCEPT ![s] = Idle]
  BY <1>1, Zenon DEF Apply, Start, Restart, StartLocked, Stop, Answer
<1>2. ASSUME NEW s \in Requests, Handler(s)
      PROVE  (\E q : Front(s, q)) \/ request' = request \/ request' = [request EXCEPT ![s] = Idle]
  BY <1>1, <1>2, ReceiveFront, LoadFront, SaveFront, ReloadFront DEF Handler
<1>3. ASSUME SetCPUAffinity
      PROVE  request' = request \/ \E s \in Requests : request' = [request EXCEPT ![s] = Idle]
  <2>0. call # None /\ call \in CallSet /\ Core /\ Threads \in SUBSET Nat
    BY <1>3, CallOf DEF SetCPUAffinity, Typed, Core
  <2>1. request' = request \/ \E ok : Return(ok)
    BY <1>3, <2>0, SetCgroupIs, ScanIs, BindThreadIs, BindThreadsIs, SucceedIs, FailIs DEF SetCPUAffinity, Goes
  <2>2. mutex # None
    BY <2>0, CallOf
  <2> QED BY <2>1, <2>2 DEF Return, Answer, Typed, Held
<1>4. ASSUME Spawn \/ Crash \/ HandleExit \/ Relaunch \/ GiveUp PROVE request' = request
  BY <1>4 DEF Spawn, Crash, HandleExit, Relaunch, GiveUp
<1>5. ASSUME ServiceDies \/ Adopt \/ Restore \/ RestoreNothing
      PROVE  request' = request \/ request' = [s \in Requests |-> Idle]
  BY <1>5 DEF ServiceDies, Adopt, Restore, RestoreNothing
<1> QED BY <1>2, <1>3, <1>4, <1>5 DEF Next

\* PATCH keeps what it does not name, for every profile and every patch.
THEOREM PatchAlways == Spec => PatchKept
<1> DEFINE Kept == \A r \in Requests :
             request[r].kind = "patch" /\ request[r].pc = "save" /\ request'[r].pc = "reload" /\ alone =>
               \A f \in Fields :
                 Loaded'[f] = IF f \in DOMAIN request[r].body THEN request[r].body[f] ELSE Loaded[f]
<1>1. Typed /\ FileInv /\ [Next]_vars => [Kept]_vars
  <2> SUFFICES ASSUME Typed, FileInv, Next, NEW r \in Requests,
                      request[r].kind = "patch", request[r].pc = "save", request'[r].pc = "reload", alone,
                      NEW f \in Fields
               PROVE  Loaded'[f] = IF f \in DOMAIN request[r].body THEN request[r].body[f] ELSE Loaded[f]
    OBVIOUS
  <2>1. Active = {r} /\ request[r].profile = Patched(Loaded, request[r].body)
    BY DEF Active, FileInv, Sole
  <2>2. Loaded' = request[r].profile
    <3>1. ASSUME NEW s \in Requests, NEW q, Front(s, q) PROVE Loaded' = request[r].profile
      <4>1. /\ q \in RequestSet /\ InHand(q) /\ request' = [request EXCEPT ![s] = q]
        BY <3>1 DEF Front
      <4>2. request'[s] = q /\ (s # r => request'[r] = request[r])
        BY <4>1, HandStep DEF Typed
      <4>3. s = r /\ q.pc = "reload"
        BY <4>2
      <4> QED BY <3>1, <4>3, IdleFacts DEF Front
    <3>2. ASSUME NEW s \in Requests, request' = [request EXCEPT ![s] = Idle] PROVE FALSE
      <4>1. request'[s] = Idle /\ (s # r => request'[r] = request[r])
        BY <3>2, IdleFacts, HandStep DEF Typed
      <4> QED BY <4>1, IdleFacts
    <3>3. request' # [s \in Requests |-> Idle]
      BY IdleFacts
    <3> QED BY <3>1, <3>2, <3>3, OtherRequests
  <2> QED BY <2>1, <2>2 DEF Patched
<1> QED BY <1>1, FileAlways, PTL DEF Spec, PatchKept
=============================================================================
