------------------------------ MODULE EventHub ------------------------------
(***************************************************************************)
(* The event hubs of the core manager (core/events.go) and of the system   *)
(* proxy guard (route/sysproxyapi/sysproxy_events.go), the WebSocket       *)
(* handlers that serve their subscribers, and the goroutines that publish. *)
(*                                                                         *)
(* The two hubs differ in their publishers.  The core manager changes its  *)
(* status and emits most events under its mutex (the publisher Owner);     *)
(* monitors, the notification goroutine and the log watcher publish        *)
(* without it.  The guard changes its status under a mutex that it has     *)
(* left when it publishes.  An event is made, with the status it reports,  *)
(* before the hub's mutex is taken and numbered under it.                  *)
(***************************************************************************)
EXTENDS Integers, Sequences, FiniteSets

CONSTANTS
    Subscriber,   \* WebSocket connections
    Publisher,    \* goroutines that publish
    Owner,        \* the publisher that holds the manager's mutex
    Hubs,         \* the hubs considered: "core", "sysproxy" or both
    Buffer,       \* capacity of a subscriber's channel
    MaxEvents,    \* bound: events published
    NoEvent       \* an event without a type

ASSUME HubAssumption ==
    /\ Owner \in Publisher /\ Hubs \subseteq {"core", "sysproxy"}
    /\ Buffer \in Nat \ {0} /\ MaxEvents \in Nat
    /\ NoEvent \notin [seq : Nat, log : BOOLEAN, running : BOOLEAN]

VARIABLES
    status,       \* core: isRunning and a pid; sysproxy: a guard is current
    mgr,          \* control state of the holder of the manager's mutex
    pub,          \* the event a publisher has made and not yet published
    exiting,      \* monitors between the exited event and the cleanup
    stale,        \* those of them whose launch was cleaned up by others (cm.cmd # cmd)
    retrying,     \* restart goroutines of handleProcessExit
    hub, nextSeq, last, subscribers,   \* which hub it is (never changes), and its state
    chan,         \* channel of a subscriber
    hand, held,   \* its handler: control state, and the event in its hands
    peer,         \* connections the client has not closed
    base, view, told   \* history: nextSeq when it joined, events written to it, writes

mgrVars == <<status, mgr, pub, exiting, stale, retrying>>
hubVars == <<hub, nextSeq, last, subscribers>>
subVars == <<chan, hand, held, peer, base, view, told>>
vars == <<mgrVars, hubVars, subVars>>

Event == [seq : Nat, log : BOOLEAN, running : BOOLEAN]
EventOrNone == Event \cup {NoEvent}
MgrState == {"idle", "starting", "stopping", "crashed", "restart", "restop", "again"}
HandState == {"off", "greet", "serve", "write", "gone"}
Serving == {"greet", "serve", "write"}

MgrType == /\ status \in BOOLEAN /\ mgr \in MgrState
           /\ pub \in [Publisher -> EventOrNone] /\ exiting \in SUBSET Publisher
           /\ stale \in SUBSET Publisher /\ retrying \in SUBSET Publisher
HubType == /\ hub \in Hubs /\ nextSeq \in Nat /\ last \in EventOrNone
           /\ subscribers \in SUBSET Subscriber
SubType == /\ chan \in [Subscriber -> Seq(Event)] /\ hand \in [Subscriber -> HandState]
           /\ held \in [Subscriber -> EventOrNone] /\ peer \in SUBSET Subscriber
           /\ base \in [Subscriber -> Nat] /\ view \in [Subscriber -> SUBSET Nat]
           /\ told \in [Subscriber -> Nat]
           /\ \A s \in Subscriber : hand[s] = "write" => held[s] # NoEvent
TypeOK == MgrType /\ HubType /\ SubType

Init ==
    /\ status = FALSE /\ mgr = "idle" /\ pub = [p \in Publisher |-> NoEvent]
    /\ exiting = {} /\ stale = {} /\ retrying = {} /\ hub \in Hubs /\ nextSeq = 0
    /\ last = NoEvent /\ subscribers = {}
    /\ chan = [s \in Subscriber |-> <<>>] /\ hand = [s \in Subscriber |-> "off"]
    /\ held = [s \in Subscriber |-> NoEvent] /\ peer = Subscriber
    /\ base = [s \in Subscriber |-> 0] /\ view = [s \in Subscriber |-> {}]
    /\ told = [s \in Subscriber |-> 0]

----------------------------------------------------------------------------
(* Publishers *)

\* Bound: an event may be made while fewer than MaxEvents exist.
Room == nextSeq + Cardinality({p \in Publisher : pub[p] # NoEvent}) < MaxEvents

\* newCoreEvent and newSysproxyEvent: the event is made with the status of now
\* (b); its number comes later.
NewEvent(isLog, b) == [seq |-> 0, log |-> isLog, running |-> b]
Make(p, isLog, b) ==
    /\ pub[p] = NoEvent /\ Room
    /\ pub' = [pub EXCEPT ![p] = NewEvent(isLog, b)]

MutexFree == mgr = "idle" /\ pub[Owner] = NoEvent

\* cleanupLocked: the status is reset and cm.cmd forgotten.
CleanupLocked == status' = FALSE /\ stale' = exiting

\* The mutex is free, or its holder (RestartCoreWithProfile) is at one of S.
Enters(S) == mgr \in S \cup {"idle"} /\ pub[Owner] = NoEvent

\* RestartCoreWithProfile: restarting is emitted, then stopCoreLocked and
\* startCoreLocked are called under the same mutex.
RestartCore ==
    /\ hub = "core" /\ MutexFree /\ mgr' = "restart" /\ Make(Owner, FALSE, status)
    /\ UNCHANGED <<status, exiting, stale, retrying, hubVars, subVars>>

\* startCoreLocked: starting is emitted before there is a pid.
StartCore ==
    /\ hub = "core" /\ Enters({"restart", "again"}) /\ ~status
    /\ mgr' = "starting" /\ Make(Owner, FALSE, FALSE)
    /\ UNCHANGED <<status, exiting, stale, retrying, hubVars, subVars>>

\* startProcessLocked: the pid is stored and started emitted, or failed.
Launched ==
    /\ mgr = "starting" /\ mgr' = "idle"
    /\ status' \in BOOLEAN /\ Make(Owner, FALSE, status')
    /\ UNCHANGED <<exiting, stale, retrying, hubVars, subVars>>

\* stopCoreLocked: stopping, then the cleanup.
StopCore ==
    /\ hub = "core" /\ Enters({"restart"}) /\ status
    /\ mgr' = (IF mgr = "idle" THEN "stopping" ELSE "restop") /\ Make(Owner, FALSE, TRUE)
    /\ UNCHANGED <<status, exiting, stale, retrying, hubVars, subVars>>

\* stopped is emitted after the cleanup, unless stopping returned an error.
Stopped ==
    /\ mgr \in {"stopping", "restop"} /\ CleanupLocked
    /\ mgr' = IF mgr = "stopping" THEN "idle" ELSE "again"
    /\ \/ Make(Owner, FALSE, FALSE)
       \/ pub[Owner] = NoEvent /\ pub' = pub
    /\ UNCHANGED <<exiting, retrying, hubVars, subVars>>

\* monitorProcess: the core has exited and the event is published first, without
\* the mutex.
Exited(p) ==
    /\ hub = "core" /\ p # Owner /\ status /\ p \notin exiting /\ exiting \subseteq stale
    /\ Make(p, FALSE, TRUE) /\ exiting' = exiting \cup {p}
    /\ UNCHANGED <<status, mgr, stale, retrying, hubVars, subVars>>

\* finishExpectedProcessExit: the cleanup of its own launch, without an event.
FinishExit(p) ==
    /\ p \in exiting /\ pub[p] = NoEvent /\ MutexFree
    /\ exiting' = exiting \ {p} /\ stale' = stale \ {p}
    /\ status' = (p \in stale /\ status)
    /\ UNCHANGED <<mgr, pub, retrying, hubVars, subVars>>

\* handleProcessExit, called by monitorProcess after exited and by monitorPID
\* without an event: nothing when the manager is idle already; otherwise
\* restarting or, when there were too many crashes, restart_failed is emitted,
\* the cleanup follows, and the former leaves a restart goroutine.
HandleExit(p) ==
    /\ p # Owner /\ pub[p] = NoEvent /\ MutexFree
    /\ exiting' = exiting \ {p} /\ stale' = stale \ {p}
    /\ \/ ~status /\ UNCHANGED <<mgr, pub, retrying>>
       \/ /\ status /\ mgr' = "crashed" /\ Make(Owner, FALSE, TRUE)
          /\ retrying' \in {retrying, retrying \cup {p}}
    /\ UNCHANGED <<status, hubVars, subVars>>

CrashCleanup ==
    /\ mgr = "crashed" /\ pub[Owner] = NoEvent
    /\ mgr' = "idle" /\ CleanupLocked
    /\ UNCHANGED <<pub, exiting, retrying, hubVars, subVars>>

\* The restart goroutine (its attempts are StartCore and Launched): after its
\* last one it returns, or emits restart_failed without the mutex.
RetryEnds(p) ==
    /\ p \in retrying /\ MutexFree /\ retrying' = retrying \ {p}
    /\ \/ status /\ UNCHANGED pub
       \/ Make(p, FALSE, status)
    /\ UNCHANGED <<status, mgr, exiting, stale, hubVars, subVars>>

\* handleStartupNotification and takeoverRestartedProcess: ready and takeover
\* are published after the mutex was released.
Ready(p) ==
    /\ hub = "core" /\ p # Owner /\ status /\ Make(p, FALSE, TRUE)
    /\ exiting' = exiting \ {p} /\ stale' = stale \ {p}
    /\ UNCHANGED <<status, mgr, retrying, hubVars, subVars>>

\* publishCoreLogEvent: a line of the core that a rule recognises.
LogLine(p) ==
    /\ hub = "core" /\ p # Owner /\ p \notin exiting /\ Make(p, TRUE, status)
    /\ UNCHANGED <<status, mgr, exiting, stale, retrying, hubVars, subVars>>

\* publishCoreEvent computes Running again before it takes the hub's mutex: what
\* is published without the manager's mutex may report a later status.  An event
\* that carries a pid only asks isRunning, which startCoreLocked sets first.
LateStatus(p) ==
    /\ hub = "core" /\ p # Owner /\ pub[p] # NoEvent
    /\ pub' = [pub EXCEPT ![p] = NewEvent(@.log, status \/ (mgr = "starting" /\ ~@.log))]
    /\ UNCHANGED <<status, mgr, exiting, stale, retrying, hubVars, subVars>>

\* sysproxyGuardState.start and stop: the status changes under s.mu, the event
\* is published after it; stop publishes only when there was a guard.
GuardChange(p, b) ==
    /\ hub = "sysproxy" /\ (b \/ status)
    /\ status' = b /\ Make(p, FALSE, b)
    /\ UNCHANGED <<mgr, exiting, stale, retrying, hubVars, subVars>>

\* sysproxyGuardState.run: a guard that took itself for the current one reports
\* a change, a restoration or an error.
GuardReport(p) ==
    /\ hub = "sysproxy" /\ status /\ Make(p, FALSE, TRUE)
    /\ UNCHANGED <<status, mgr, exiting, stale, retrying, hubVars, subVars>>

----------------------------------------------------------------------------
(* The hub *)

\* Mutant: an event is sent to every subscriber whose channel is empty.
BroadcastToIdle(e) ==
    chan' = [s \in Subscriber |->
                IF s \in subscribers /\ chan[s] = <<>> THEN Append(chan[s], e) ELSE chan[s]]

\* The select with a default case: a full channel misses the event.
Broadcast(e) ==
    chan' = [s \in Subscriber |->
                IF s \in subscribers /\ Len(chan[s]) < Buffer THEN Append(chan[s], e) ELSE chan[s]]

\* nextSeq++ and the event's number.
Numbered(e) == [seq |-> nextSeq + 1, log |-> e.log, running |-> e.running]

PublishUnder(p, keeps) ==
    /\ pub[p] # NoEvent /\ pub' = [pub EXCEPT ![p] = NoEvent]
    /\ nextSeq' = nextSeq + 1
    /\ last' = IF keeps THEN Numbered(pub[p]) ELSE last
    /\ Broadcast(Numbered(pub[p]))
    /\ UNCHANGED <<status, mgr, exiting, stale, retrying, hub, subscribers, hand, held, peer, base, view, told>>

\* publishCoreEvent under the hub's mutex: log events are not remembered.
publishCoreEvent(p) == hub = "core" /\ PublishUnder(p, ~pub[p].log)

\* publishSysproxyGuardEvent under the hub's mutex.
publishSysproxyGuardEvent(p) == hub = "sysproxy" /\ PublishUnder(p, TRUE)

\* SubscribeEvents and subscribeSysproxyEvents under the hub's mutex: the
\* channel is registered and the last event read.
Subscribe(s) ==
    /\ hand[s] = "off" /\ hand' = [hand EXCEPT ![s] = "greet"]
    /\ subscribers' = subscribers \cup {s} /\ held' = [held EXCEPT ![s] = last]
    /\ base' = [base EXCEPT ![s] = nextSeq]
    /\ UNCHANGED <<mgrVars, hub, nextSeq, last, chan, peer, view, told>>

\* Mutant: the last event is read after the mutex was released.
GreetingNow(s) == IF last # NoEvent THEN last ELSE NewEvent(FALSE, hub = "core" /\ status)

\* What is sent after the mutex was released: the last event, or one made now.
Greeting(s) ==
    IF held[s] # NoEvent THEN held[s] ELSE NewEvent(FALSE, hub = "core" /\ status)

\* The send waits for room; nobody receives from this channel yet.
Greet(s) ==
    /\ hand[s] = "greet" /\ Len(chan[s]) < Buffer
    /\ chan' = [chan EXCEPT ![s] = Append(@, Greeting(s))]
    /\ hand' = [hand EXCEPT ![s] = "serve"] /\ held' = [held EXCEPT ![s] = NoEvent]
    /\ UNCHANGED <<mgrVars, hubVars, peer, base, view, told>>

----------------------------------------------------------------------------
(* The WebSocket handlers coreEvents and sysproxyEvents *)

\* Mutant: events are collected until the channel is full.
TakeWhenFull(s) ==
    /\ hand[s] = "serve" /\ Len(chan[s]) = Buffer
    /\ hand' = [hand EXCEPT ![s] = "write"] /\ held' = [held EXCEPT ![s] = Head(chan[s])]
    /\ chan' = [chan EXCEPT ![s] = Tail(@)]
    /\ UNCHANGED <<mgrVars, hubVars, peer, base, view, told>>

\* The handler receives from its channel.
Take(s) ==
    /\ hand[s] = "serve" /\ chan[s] # <<>>
    /\ hand' = [hand EXCEPT ![s] = "write"] /\ held' = [held EXCEPT ![s] = Head(chan[s])]
    /\ chan' = [chan EXCEPT ![s] = Tail(@)]
    /\ UNCHANGED <<mgrVars, hubVars, peer, base, view, told>>

\* writeCoreEvent, writeSysproxyEvent: the frame is written.
WriteEvent(s) ==
    /\ hand[s] = "write" /\ s \in peer
    /\ hand' = [hand EXCEPT ![s] = "serve"] /\ held' = [held EXCEPT ![s] = NoEvent]
    /\ view' = [view EXCEPT ![s] = @ \cup {held[s].seq}] /\ told' = [told EXCEPT ![s] = @ + 1]
    /\ UNCHANGED <<mgrVars, hubVars, chan, peer, base>>

\* The deferred unsubscribe: the channel is removed and closed.
Unsubscribe(s) ==
    /\ hand' = [hand EXCEPT ![s] = "gone"] /\ held' = [held EXCEPT ![s] = NoEvent]
    /\ subscribers' = subscribers \ {s} /\ chan' = [chan EXCEPT ![s] = <<>>]
    /\ UNCHANGED <<mgrVars, hub, nextSeq, last, peer, base, view, told>>

\* Mutant: the handler only ends when its channel is closed.
LeaveWhenClosed(s) == hand[s] = "serve" /\ s \notin subscribers /\ Unsubscribe(s)

\* done is closed by the goroutine that reads frames.
Leave(s) == hand[s] = "serve" /\ s \notin peer /\ Unsubscribe(s)

WriteFails(s) == hand[s] = "write" /\ s \notin peer /\ Unsubscribe(s)

\* The client closes the connection.
Hangup(s) ==
    /\ s \in peer /\ hand[s] \in Serving /\ peer' = peer \ {s}
    /\ UNCHANGED <<mgrVars, hubVars, chan, hand, held, base, view, told>>

----------------------------------------------------------------------------
Manager == RestartCore \/ StartCore \/ Launched \/ StopCore \/ Stopped \/ CrashCleanup
Goroutine(p) ==
    \/ Exited(p) \/ FinishExit(p) \/ HandleExit(p) \/ RetryEnds(p)
    \/ Ready(p) \/ LogLine(p) \/ LateStatus(p)
    \/ \E b \in BOOLEAN : GuardChange(p, b)
    \/ GuardReport(p)
Publishes(p) == publishCoreEvent(p) \/ publishSysproxyGuardEvent(p)
Handler(s) == Greet(s) \/ Take(s) \/ WriteEvent(s) \/ WriteFails(s) \/ Leave(s)

Next ==
    \/ Manager
    \/ \E p \in Publisher : Goroutine(p) \/ Publishes(p)
    \/ \E s \in Subscriber : Subscribe(s) \/ Handler(s) \/ Hangup(s)

Spec == Init /\ [][Next]_vars

\* Goroutines that can run do; a leaving client is noticed even while events
\* keep coming, because select chooses among ready cases at random.
FairSpec ==
    /\ Spec
    /\ \A p \in Publisher : WF_vars(Publishes(p))
    /\ \A s \in Subscriber : WF_vars(Handler(s)) /\ SF_vars(Leave(s))

----------------------------------------------------------------------------
(* The inductive invariant of the proofs *)

\* Of one subscriber: q, h and e are its channel, the control state of its
\* handler and the event in its hands, v and b its view and base, n is nextSeq.

\* Numbers never run ahead of the hub.
Numbering(q, h, e, v, b, n) ==
    /\ b <= n /\ \A m \in v : m <= n
    /\ \A i \in 1..Len(q) : q[i].seq <= n
    /\ h = "write" => e.seq <= n

\* New events wait in order, behind those already written.
InOrder(q, h, e, v, b) ==
    /\ \A i, j \in 1..Len(q) : i < j /\ q[i].seq > b /\ q[j].seq > b => q[i].seq < q[j].seq
    /\ \A j \in 1..Len(q) : q[j].seq > b =>
          (\A m \in v : m < q[j].seq) /\ (h = "write" => e.seq < q[j].seq)
    /\ h = "write" /\ e.seq > b => \A m \in v : m < e.seq

\* There is one old event at most: the greeting, before it is sent, in the
\* channel, in the handler's hands, or written.
OneGreeting(q, h, e, v, b) ==
    /\ h = "off" => q = <<>> /\ v = {}
    /\ h = "greet" => /\ e # NoEvent => e.seq <= b
                      /\ v = {} /\ \A i \in 1..Len(q) : q[i].seq > b
    /\ \A i \in 1..Len(q) : q[i].seq <= b =>
          /\ \A j \in 1..Len(q) : j # i => q[j].seq > b
          /\ h = "write" => e.seq > b
          /\ \A m \in v : m > b
    /\ h = "write" /\ e.seq <= b => \A m \in v : m > b

SubInv(q, h, e, v, b, n) ==
    Numbering(q, h, e, v, b, n) /\ InOrder(q, h, e, v, b) /\ OneGreeting(q, h, e, v, b)

HubInv ==
    /\ last # NoEvent => last.seq <= nextSeq
    /\ \A s \in Subscriber : SubInv(chan[s], hand[s], held[s], view[s], base[s], nextSeq)

\* A channel holds no more than the events published since the subscriber
\* joined and, once it was sent, the greeting: the first Buffer - 1 find room.
Filled(q, h, b, n) == Len(q) <= (n - b) + (IF h \in {"serve", "write"} THEN 1 ELSE 0)

\* As long as so few were published, each of them is written, waiting in the
\* channel, or in the handler's hands.
Kept(q, h, e, v, b, n) ==
    n - b < Buffer =>
        \A m \in b + 1..n : \/ m \in v \/ (h = "write" /\ e.seq = m)
                            \/ \E i \in 1..Len(q) : q[i].seq = m

LossInv ==
    \A s \in subscribers : /\ Filled(chan[s], hand[s], base[s], nextSeq)
                           /\ Kept(chan[s], hand[s], held[s], view[s], base[s], nextSeq)

----------------------------------------------------------------------------
(* Properties *)

\* A subscriber is told what EventFeed allows: the connection sees each event
\* once and in order, the greeting apart, and nothing after it has left.
Stage(s) == IF hand[s] \in Serving THEN "in" ELSE IF hand[s] = "off" THEN "out" ELSE "gone"
Feed == INSTANCE EventFeed WITH published <- nextSeq, stage <- [s \in Subscriber |-> Stage(s)]
FeedRefined == Feed!FeedSpec

\* Events are dropped for lack of room only: a subscriber misses none of the
\* first Buffer - 1 events published after it joined (the greeting takes the
\* remaining place).
Pending(s) == {chan[s][i].seq : i \in DOMAIN chan[s]} \cup
              (IF hand[s] = "write" THEN {held[s].seq} ELSE {})
NoEarlyLoss ==
    \A s \in subscribers :
        nextSeq - base[s] < Buffer =>
            base[s] + 1..nextSeq \subseteq view[s] \cup Pending(s)

\* The hub knows exactly the connections whose handler is running: publishing
\* never meets the channel of a handler that has returned.
Registered == subscribers = {s \in Subscriber : hand[s] \in Serving}

\* What is published reaches a channel that is open, and the one of every
\* registered handler that has room for it.
NoLoss == Registered /\ NoEarlyLoss

\* A handler whose client hung up ends and unsubscribes, unless its greeting
\* found the channel full: SubscribeEvents then waits for a receiver that does
\* not exist.
Stuck(s) == hand[s] = "greet" /\ Len(chan[s]) = Buffer
LeaverRemoved == \A s \in Subscriber : (s \notin peer) ~> (s \notin subscribers \/ Stuck(s))

\* Once an event is in the channel of a served subscriber, it is written to the
\* connection or the client hangs up.
Delivered ==
    \A s \in Subscriber : \A n \in 0..MaxEvents :
        (hand[s] \in {"serve", "write"} /\ n \in Pending(s)) ~> (n \in view[s] \/ s \notin peer)

\* When nothing is being published and nobody is changing the status, the last
\* event reports the status there is.
Quiet == mgr = "idle" /\ exiting = {} /\ \A p \in Publisher : pub[p] = NoEvent
LastTruthful == Quiet /\ last # NoEvent => last.running = status
=============================================================================
