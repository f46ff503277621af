--------------------------- MODULE EventHubProofs ---------------------------
(***************************************************************************)
(* Proofs about the event hubs, for any number of subscribers, publishers  *)
(* and events and any capacity of the channels.                            *)
(***************************************************************************)
EXTENDS EventHub, TLAPS

\* What Append does to a channel.
LEMMA AppendChannel ==
    ASSUME NEW q \in Seq(Event), NEW e \in Event
    PROVE  /\ Append(q, e) \in Seq(Event) /\ Len(Append(q, e)) = Len(q) + 1
           /\ \A i \in 1..Len(q) : Append(q, e)[i] = q[i]
           /\ Append(q, e)[Len(q) + 1] = e
           /\ Len(q) \in Nat
  OBVIOUS

\* What receiving does to a channel.
LEMMA TailChannel ==
    ASSUME NEW q \in Seq(Event), q # <<>>
    PROVE  /\ Len(q) \in Nat \ {0} /\ Head(q) = q[1] /\ q[1] \in Event
           /\ Tail(q) \in Seq(Event) /\ Len(Tail(q)) = Len(q) - 1
           /\ \A i \in 1..Len(q) - 1 : Tail(q)[i] = q[i + 1]
  OBVIOUS

\* A channel is a sequence of events.
LEMMA ChannelElements ==
    ASSUME NEW q \in Seq(Event)
    PROVE  Len(q) \in Nat /\ \A i \in 1..Len(q) : q[i] \in Event
  OBVIOUS

\* A fresh channel is empty, and the zero event is none of the events.
LEMMA Fresh == <<>> \in Seq(Event) /\ Len(<<>>) = 0 /\ NoEvent \notin Event
  BY HubAssumption DEF Event

\* Making an event keeps the type of pub (newCoreEvent).
LEMMA MakeType ==
    ASSUME MgrType, NEW p \in Publisher, NEW isLog \in BOOLEAN, NEW b \in BOOLEAN, Make(p, isLog, b)
    PROVE  pub' \in [Publisher -> EventOrNone]
  <1>1. NewEvent(isLog, b) \in Event
    BY DEF NewEvent, Event
  <1> QED
    BY <1>1 DEF Make, MgrType, EventOrNone

\* Numbering keeps an event an event (publishCoreEvent).
LEMMA NumberedType ==
    ASSUME NEW e \in Event, nextSeq \in Nat
    PROVE  Numbered(e) \in Event /\ Numbered(e).seq = nextSeq + 1
  BY DEF Numbered, Event

\* Broadcasting appends to the channels that have room and leaves the others.
LEMMA BroadcastType ==
    ASSUME NEW e \in Event, chan \in [Subscriber -> Seq(Event)], Broadcast(e)
    PROVE  /\ chan' \in [Subscriber -> Seq(Event)]
           /\ \A s \in Subscriber :
                 \/ chan'[s] = chan[s]
                 \/ s \in subscribers /\ chan'[s] = Append(chan[s], e)
  BY AppendChannel DEF Broadcast

\* The greeting is an event: the last one or one made now (SubscribeEvents).
LEMMA GreetingType ==
    ASSUME TypeOK, NEW s \in Subscriber
    PROVE  Greeting(s) \in Event /\ (held[s] = NoEvent => Greeting(s).seq = 0)
                                 /\ (held[s] # NoEvent => Greeting(s) = held[s])
  <1>1. NewEvent(FALSE, hub = "core" /\ status) \in Event
        /\ NewEvent(FALSE, hub = "core" /\ status).seq = 0
    BY DEF NewEvent, Event, TypeOK, MgrType
  <1>2. held[s] \in EventOrNone
    BY DEF TypeOK, SubType
  <1> QED
    BY <1>1, <1>2 DEF Greeting, EventOrNone

\* Every step keeps the types of the publishers, the hub and the subscribers.
THEOREM HubTypeCorrect == Spec => []TypeOK
  <1>1. Init => TypeOK
    <2> SUFFICES ASSUME Init PROVE MgrType /\ HubType /\ SubType
      BY DEF TypeOK
    <2>1. MgrType /\ HubType
      BY DEF Init, MgrType, HubType, MgrState, EventOrNone
    <2>2. SubType
      BY Fresh DEF Init, SubType, HandState, EventOrNone
    <2> QED
      BY <2>1, <2>2
  <1>2. ASSUME TypeOK, [Next]_vars
        PROVE  TypeOK'
    <2>0. MgrType /\ HubType /\ SubType /\ Owner \in Publisher
      BY <1>2, HubAssumption DEF TypeOK
    <2> USE <2>0
    <2>1. CASE Manager
      <3>1. pub' \in [Publisher -> EventOrNone]
        <4>0. CASE RestartCore
          BY <4>0, MakeType DEF RestartCore, MgrType
        <4>1. CASE StartCore
          BY <4>1, MakeType DEF StartCore
        <4>2. CASE Launched
          BY <4>2, MakeType DEF Launched
        <4>3. CASE StopCore
          BY <4>3, MakeType DEF StopCore
        <4>4. CASE Stopped
          BY <4>4, MakeType DEF Stopped, MgrType
        <4>5. CASE CrashCleanup
          BY <4>5 DEF CrashCleanup, MgrType
        <4> QED
          BY <2>1, <4>0, <4>1, <4>2, <4>3, <4>4, <4>5 DEF Manager
      <3>2. status' \in BOOLEAN /\ mgr' \in MgrState /\ exiting' \in SUBSET Publisher /\ stale' \in SUBSET Publisher
            /\ retrying' \in SUBSET Publisher
        BY <2>1 DEF Manager, RestartCore, StartCore, Launched, StopCore, Stopped, CrashCleanup, CleanupLocked, MgrType, MgrState
      <3>3. HubType' /\ SubType'
        BY <2>1 DEF Manager, RestartCore, StartCore, Launched, StopCore, Stopped, CrashCleanup, HubType, SubType, hubVars, subVars
      <3> QED
        BY <3>1, <3>2, <3>3 DEF TypeOK, MgrType
    <2>2. ASSUME NEW p \in Publisher, Goroutine(p)
          PROVE  TypeOK'
      <3>1. pub' \in [Publisher -> EventOrNone]
        <4>1. CASE Exited(p) \/ Ready(p) \/ GuardReport(p)
          BY <4>1, MakeType DEF Exited, Ready, GuardReport
        <4>2. CASE FinishExit(p)
          BY <4>2 DEF FinishExit, MgrType
        <4>3. CASE HandleExit(p)
          BY <4>3, MakeType DEF HandleExit, MgrType
        <4>4. CASE LogLine(p)
          BY <4>4, MakeType DEF LogLine, MgrType
        <4>5. ASSUME NEW b \in BOOLEAN, GuardChange(p, b)
              PROVE  pub' \in [Publisher -> EventOrNone]
          BY <4>5, MakeType DEF GuardChange
        <4>6. CASE RetryEnds(p)
          BY <4>6, MakeType DEF RetryEnds, MgrType
        <4>7. CASE LateStatus(p)
          <5>1. NewEvent(pub[p].log, status \/ (mgr = "starting" /\ ~pub[p].log)) \in Event
            BY <4>7 DEF LateStatus, NewEvent, Event, MgrType, EventOrNone
          <5> QED
            BY <4>7, <5>1 DEF LateStatus, MgrType, EventOrNone
        <4> QED
          BY <2>2, <4>1, <4>2, <4>3, <4>4, <4>5, <4>6, <4>7 DEF Goroutine
      <3>2. status' \in BOOLEAN /\ mgr' \in MgrState /\ exiting' \in SUBSET Publisher /\ stale' \in SUBSET Publisher
            /\ retrying' \in SUBSET Publisher
        BY <2>2 DEF Goroutine, Exited, Ready, GuardReport, FinishExit, HandleExit, RetryEnds, LogLine, LateStatus, GuardChange,
                    MgrType, MgrState
      <3>3. HubType' /\ SubType'
        BY <2>2 DEF Goroutine, Exited, Ready, GuardReport, FinishExit, HandleExit, RetryEnds, LogLine, LateStatus, GuardChange,
                    HubType, SubType, hubVars, subVars
      <3> QED
        BY <3>1, <3>2, <3>3 DEF TypeOK, MgrType
    <2>3. ASSUME NEW p \in Publisher, Publishes(p)
          PROVE  TypeOK'
      <3>1. PICK keeps \in BOOLEAN : PublishUnder(p, keeps)
        BY <2>3, Zenon DEF Publishes, publishCoreEvent, publishSysproxyGuardEvent
      <3>2. pub[p] \in Event
        BY <3>1 DEF PublishUnder, MgrType, EventOrNone
      <3>3. Numbered(pub[p]) \in Event
        BY <3>2, NumberedType DEF HubType
      <3>4. chan' \in [Subscriber -> Seq(Event)]
        BY <3>1, <3>3, BroadcastType DEF PublishUnder, SubType
      <3>5. HubType' /\ MgrType'
        BY <3>1, <3>3 DEF PublishUnder, HubType, MgrType, EventOrNone
      <3> QED
        BY <3>1, <3>4, <3>5 DEF PublishUnder, TypeOK, SubType
    <2>4. ASSUME NEW s \in Subscriber, Subscribe(s)
          PROVE  TypeOK'
      BY <2>4 DEF Subscribe, TypeOK, MgrType, HubType, SubType, mgrVars, HandState
    <2>5. ASSUME NEW s \in Subscriber, Handler(s) \/ Hangup(s)
          PROVE  TypeOK'
      <3>0. MgrType'
        BY <2>5 DEF Handler, Hangup, Greet, Take, WriteEvent, WriteFails, Leave, Unsubscribe, MgrType, mgrVars
      <3>1. CASE Greet(s)
        <4>1. Append(chan[s], Greeting(s)) \in Seq(Event)
          BY <1>2, GreetingType, AppendChannel DEF SubType
        <4> QED
          BY <3>0, <3>1, <4>1 DEF Greet, TypeOK, HubType, SubType, hubVars, HandState, EventOrNone
      <3>2. CASE Take(s)
        <4>1. Head(chan[s]) \in Event /\ Tail(chan[s]) \in Seq(Event)
          BY <3>2, TailChannel DEF Take, SubType
        <4> QED
          BY <3>0, <3>2, <4>1, Fresh DEF Take, TypeOK, HubType, SubType, hubVars, HandState, EventOrNone
      <3>3. CASE WriteEvent(s)
        <4>1. held[s] \in Event /\ held[s].seq \in Nat
          BY <3>3 DEF WriteEvent, SubType, EventOrNone, Event
        <4> QED
          BY <3>0, <3>3, <4>1 DEF WriteEvent, TypeOK, HubType, SubType, hubVars, HandState, EventOrNone
      <3>4. CASE WriteFails(s) \/ Leave(s)
        <4>1. Unsubscribe(s)
          BY <3>4 DEF WriteFails, Leave
        <4>2. HubType'
          BY <4>1 DEF Unsubscribe, HubType
        <4>3. SubType'
          BY <4>1, Fresh DEF Unsubscribe, SubType, HandState, EventOrNone
        <4> QED
          BY <3>0, <4>2, <4>3 DEF TypeOK
      <3>5. CASE Hangup(s)
        BY <3>0, <3>5 DEF Hangup, TypeOK, HubType, SubType, hubVars
      <3> QED
        BY <2>5, <3>1, <3>2, <3>3, <3>4, <3>5 DEF Handler
    <2>6. CASE UNCHANGED vars
      BY <2>6 DEF vars, mgrVars, hubVars, subVars, TypeOK, MgrType, HubType, SubType
    <2> QED
      BY <1>2, <2>1, <2>2, <2>3, <2>4, <2>5, <2>6 DEF Next
  <1> QED
    BY <1>1, <1>2, PTL DEF Spec

----------------------------------------------------------------------------
\* A later hub: numbers only grow.
LEMMA SubInvLater ==
    ASSUME NEW q \in Seq(Event), NEW h, NEW e \in EventOrNone, NEW v \in SUBSET Nat,
           NEW b \in Nat, NEW n \in Nat, h = "write" => e # NoEvent,
           SubInv(q, h, e, v, b, n)
    PROVE  SubInv(q, h, e, v, b, n + 1)
  <1>1. \A i \in 1..Len(q) : q[i].seq \in Nat
    BY ChannelElements DEF Event
  <1>2. h = "write" => e.seq \in Nat
    BY DEF EventOrNone, Event
  <1> QED
    BY <1>1, <1>2 DEF SubInv, Numbering

\* A new event at the end of a registered channel (publishCoreEvent).
LEMMA SubInvAppend ==
    ASSUME NEW q \in Seq(Event), NEW h, NEW e \in EventOrNone, NEW v \in SUBSET Nat,
           NEW b \in Nat, NEW n \in Nat, h = "write" => e # NoEvent, h # "off",
           SubInv(q, h, e, v, b, n), NEW x \in Event, x.seq = n + 1
    PROVE  SubInv(Append(q, x), h, e, v, b, n + 1)
  <1> DEFINE r == Append(q, x)
  <1>1. \A i \in 1..Len(q) : q[i].seq \in Nat
    BY ChannelElements DEF Event
  <1>2. h = "write" => e.seq \in Nat
    BY DEF EventOrNone, Event
  <1>3. Len(q) \in Nat /\ Len(r) = Len(q) + 1 /\ r[Len(q) + 1].seq = n + 1
        /\ \A i \in 1..Len(q) : r[i].seq = q[i].seq
    BY AppendChannel
  <1>4. \A i \in 1..Len(r) : i = Len(q) + 1 \/ i \in 1..Len(q)
    BY <1>3
  <1> HIDE DEF r
  <1>5. Numbering(r, h, e, v, b, n + 1)
    BY <1>1, <1>2, <1>3, <1>4 DEF SubInv, Numbering
  <1>6. InOrder(r, h, e, v, b)
    <2>1. ASSUME NEW i \in 1..Len(r), NEW j \in 1..Len(r), i < j, r[i].seq > b, r[j].seq > b
          PROVE  r[i].seq < r[j].seq
      <3>1. i \in 1..Len(q)
        BY <1>3, <1>4, <2>1
      <3>2. CASE j \in 1..Len(q)
        BY <1>3, <2>1, <3>1, <3>2 DEF SubInv, InOrder
      <3>3. CASE j = Len(q) + 1
        BY <1>1, <1>3, <3>1, <3>3 DEF SubInv, Numbering
      <3> QED
        BY <1>4, <3>2, <3>3
    <2>2. ASSUME NEW j \in 1..Len(r), r[j].seq > b
          PROVE  (\A m \in v : m < r[j].seq) /\ (h = "write" => e.seq < r[j].seq)
      <3>1. CASE j \in 1..Len(q)
        BY <1>3, <2>2, <3>1 DEF SubInv, InOrder
      <3>2. CASE j = Len(q) + 1
        BY <1>2, <1>3, <3>2 DEF SubInv, Numbering
      <3> QED
        BY <1>4, <3>1, <3>2
    <2> QED
      BY <2>1, <2>2 DEF SubInv, InOrder
  <1>7. OneGreeting(r, h, e, v, b)
    <2>1. r[Len(q) + 1].seq > b
      BY <1>3 DEF SubInv, Numbering
    <2>2. ASSUME NEW i \in 1..Len(r), r[i].seq <= b
          PROVE  /\ \A j \in 1..Len(r) : j # i => r[j].seq > b
                 /\ (h = "write" => e.seq > b) /\ \A m \in v : m > b
      <3>1. i \in 1..Len(q) /\ q[i].seq <= b
        BY <1>3, <1>4, <2>1, <2>2
      <3>2. \A j \in 1..Len(q) : j # i => q[j].seq > b
        BY <3>1 DEF SubInv, OneGreeting
      <3> QED
        BY <1>3, <1>4, <2>1, <3>1, <3>2 DEF SubInv, OneGreeting
    <2>3. h = "greet" => \A i \in 1..Len(r) : r[i].seq > b
      BY <1>3, <1>4, <2>1 DEF SubInv, OneGreeting
    <2> QED
      BY <2>2, <2>3 DEF SubInv, OneGreeting
  <1> QED
    BY <1>5, <1>6, <1>7 DEF SubInv, r

\* The greeting at the end of the channel (SubscribeEvents).
LEMMA SubInvGreet ==
    ASSUME NEW q \in Seq(Event), NEW e \in EventOrNone, NEW v \in SUBSET Nat,
           NEW b \in Nat, NEW n \in Nat, SubInv(q, "greet", e, v, b, n),
           NEW x \in Event, x.seq <= b
    PROVE  SubInv(Append(q, x), "serve", NoEvent, v, b, n)
  <1> DEFINE r == Append(q, x)
  <1>1. \A i \in 1..Len(q) : q[i].seq \in Nat
    BY ChannelElements DEF Event
  <1>2. x.seq \in Nat
    BY DEF Event
  <1>3. Len(q) \in Nat /\ Len(r) = Len(q) + 1 /\ r[Len(q) + 1].seq = x.seq
        /\ \A i \in 1..Len(q) : r[i].seq = q[i].seq
    BY AppendChannel
  <1>4. \A i \in 1..Len(r) : i = Len(q) + 1 \/ i \in 1..Len(q)
    BY <1>3
  <1> HIDE DEF r
  <1>5. Numbering(r, "serve", NoEvent, v, b, n)
    BY <1>1, <1>2, <1>3, <1>4 DEF SubInv, Numbering
  <1>6. InOrder(r, "serve", NoEvent, v, b)
    BY <1>1, <1>2, <1>3, <1>4 DEF SubInv, OneGreeting, InOrder
  <1>7. OneGreeting(r, "serve", NoEvent, v, b)
    BY <1>1, <1>2, <1>3, <1>4 DEF SubInv, OneGreeting
  <1> QED
    BY <1>5, <1>6, <1>7 DEF SubInv, r

\* Receiving from the channel.
LEMMA SubInvTake ==
    ASSUME NEW q \in Seq(Event), q # <<>>, NEW e, NEW v \in SUBSET Nat,
           NEW b \in Nat, NEW n \in Nat, SubInv(q, "serve", e, v, b, n)
    PROVE  SubInv(Tail(q), "write", Head(q), v, b, n)
  <1> DEFINE r == Tail(q)
             x == Head(q)
  <1>1. \A i \in 1..Len(q) : q[i].seq \in Nat
    BY ChannelElements DEF Event
  <1>2. Len(q) \in Nat \ {0} /\ x = q[1] /\ Len(r) = Len(q) - 1
        /\ \A i \in 1..Len(r) : r[i] = q[i + 1] /\ i + 1 \in 1..Len(q) /\ i + 1 # 1
    BY TailChannel
  <1> HIDE DEF r, x
  <1>3. 1 \in 1..Len(q) /\ \A i \in 1..Len(r) : i \in Int
    BY <1>2
  <1>5. Numbering(r, "write", x, v, b, n)
    BY <1>1, <1>2, <1>3 DEF SubInv, Numbering
  <1>6. InOrder(r, "write", x, v, b)
    <2>1. ASSUME NEW i \in 1..Len(r), NEW j \in 1..Len(r), i < j, r[i].seq > b, r[j].seq > b
          PROVE  r[i].seq < r[j].seq
      <3>1. r[i] = q[i + 1] /\ r[j] = q[j + 1] /\ i + 1 \in 1..Len(q) /\ j + 1 \in 1..Len(q)
            /\ i + 1 < j + 1
        BY <1>2, <1>3, <2>1
      <3> QED
        BY <2>1, <3>1 DEF SubInv, InOrder
    <2>2. \A j \in 1..Len(r) : r[j].seq > b => (\A m \in v : m < r[j].seq)
      BY <1>1, <1>2, <1>3 DEF SubInv, InOrder
    <2>3. \A j \in 1..Len(r) : r[j].seq > b => x.seq < r[j].seq
      <3> SUFFICES ASSUME NEW j \in 1..Len(r), r[j].seq > b
                   PROVE  x.seq < r[j].seq
        OBVIOUS
      <3>1. r[j] = q[j + 1] /\ j + 1 \in 1..Len(q) /\ x = q[1] /\ 1 < j + 1
        BY <1>2, <1>3
      <3>2. CASE x.seq > b
        BY <3>1, <3>2, <1>3 DEF SubInv, InOrder
      <3>3. CASE ~(x.seq > b)
        BY <3>1, <3>3, <1>1, <1>3
      <3> QED
        BY <3>2, <3>3
    <2>4. x.seq > b => \A m \in v : m < x.seq
      BY <1>2, <1>3 DEF SubInv, InOrder
    <2> QED
      BY <2>1, <2>2, <2>3, <2>4 DEF InOrder
  <1>7. OneGreeting(r, "write", x, v, b)
    <2>1. ASSUME NEW i \in 1..Len(r), r[i].seq <= b
          PROVE  /\ \A j \in 1..Len(r) : j # i => r[j].seq > b
                 /\ x.seq > b /\ \A m \in v : m > b
      <3>1. i + 1 \in 1..Len(q) /\ q[i + 1].seq <= b /\ i + 1 # 1
        BY <1>2, <2>1
      <3>2. \A k \in 1..Len(q) : k # i + 1 => q[k].seq > b
        BY <3>1 DEF SubInv, OneGreeting
      <3>3. \A m \in v : m > b
        BY <3>1 DEF SubInv, OneGreeting
      <3> QED
        BY <1>2, <1>3, <3>1, <3>2, <3>3
    <2>2. x.seq <= b => \A m \in v : m > b
      BY <1>2, <1>3 DEF SubInv, OneGreeting
    <2> QED
      BY <2>1, <2>2 DEF OneGreeting
  <1> QED
    BY <1>5, <1>6, <1>7 DEF SubInv, r, x

\* Writing the event to the connection.
LEMMA SubInvWrite ==
    ASSUME NEW q \in Seq(Event), NEW e \in Event, NEW v \in SUBSET Nat,
           NEW b \in Nat, NEW n \in Nat, SubInv(q, "write", e, v, b, n)
    PROVE  SubInv(q, "serve", NoEvent, v \cup {e.seq}, b, n)
  <1>1. \A i \in 1..Len(q) : q[i].seq \in Nat
    BY ChannelElements DEF Event
  <1>2. e.seq \in Nat
    BY DEF Event
  <1> QED
    BY <1>1, <1>2 DEF SubInv, Numbering, InOrder, OneGreeting

\* The handler has returned and its channel is closed.
LEMMA SubInvGone ==
    ASSUME NEW q, NEW h, NEW e, NEW v, NEW b, NEW n, SubInv(q, h, e, v, b, n)
    PROVE  SubInv(<<>>, "gone", NoEvent, v, b, n)
  BY Fresh DEF SubInv, Numbering, InOrder, OneGreeting

----------------------------------------------------------------------------
\* What the steps that leave hub and subscribers alone leave alone.
LEMMA PublisherSteps ==
    ASSUME Manager \/ (\E p \in Publisher : Goroutine(p)) \/ UNCHANGED vars
    PROVE  UNCHANGED <<hubVars, subVars>>
  BY DEF Manager, RestartCore, StartCore, Launched, StopCore, Stopped, CrashCleanup, Goroutine, Exited, Ready,
         GuardReport, FinishExit, HandleExit, RetryEnds, LogLine, LateStatus, GuardChange, vars

\* What publishing does to hub and subscribers.
LEMMA PublishStep ==
    ASSUME TypeOK, NEW p \in Publisher, Publishes(p)
    PROVE  \E x \in Event :
              /\ x.seq = nextSeq + 1 /\ nextSeq' = nextSeq + 1 /\ last' \in {last, x}
              /\ \A s \in Subscriber : \/ chan'[s] = chan[s]
                                       \/ s \in subscribers /\ chan'[s] = Append(chan[s], x)
              /\ UNCHANGED <<subscribers, hand, held, peer, base, view, told>>
  <1>1. PICK keeps \in BOOLEAN : PublishUnder(p, keeps)
    BY Zenon DEF Publishes, publishCoreEvent, publishSysproxyGuardEvent
  <1>2. pub[p] \in Event /\ nextSeq \in Nat /\ chan \in [Subscriber -> Seq(Event)]
    BY <1>1 DEF PublishUnder, TypeOK, MgrType, HubType, SubType, EventOrNone
  <1>3. Numbered(pub[p]) \in Event /\ Numbered(pub[p]).seq = nextSeq + 1
    BY <1>2, NumberedType
  <1>4. \A s \in Subscriber : \/ chan'[s] = chan[s]
                              \/ s \in subscribers /\ chan'[s] = Append(chan[s], Numbered(pub[p]))
    BY <1>1, <1>2, <1>3, BroadcastType DEF PublishUnder
  <1> QED
    BY <1>1, <1>3, <1>4 DEF PublishUnder

\* The hub knows exactly the connections whose handler is running
\* (SubscribeEvents and the deferred unsubscribe).
THEOREM RegisteredAlways == Spec => []Registered
  <1>1. Init => Registered
    BY DEF Init, Registered, Serving
  <1>2. ASSUME TypeOK, Registered, [Next]_vars
        PROVE  Registered'
    <2>0. hand \in [Subscriber -> HandState]
      BY <1>2 DEF TypeOK, SubType
    <2>1. CASE Manager \/ (\E p \in Publisher : Goroutine(p)) \/ UNCHANGED vars
      BY <2>1, <1>2, PublisherSteps DEF Registered, hubVars, subVars
    <2>2. ASSUME NEW p \in Publisher, Publishes(p)
          PROVE  Registered'
      BY <1>2, <2>2, PublishStep DEF Registered
    <2>3. ASSUME NEW s \in Subscriber, Subscribe(s)
          PROVE  Registered'
      BY <1>2, <2>0, <2>3 DEF Registered, Subscribe, Serving
    <2>4. ASSUME NEW s \in Subscriber, Handler(s) \/ Hangup(s)
          PROVE  Registered'
      BY <1>2, <2>0, <2>4 DEF Registered, Handler, Hangup, Greet, Take, WriteEvent, WriteFails, Leave,
                              Unsubscribe, Serving, hubVars
    <2> QED
      BY <1>2, <2>1, <2>2, <2>3, <2>4 DEF Next
  <1> QED
    BY <1>1, <1>2, HubTypeCorrect, PTL DEF Spec

\* The inductive invariant: numbers, order and the one greeting.
LEMMA HubInvStep ==
    ASSUME TypeOK, TypeOK', Registered, HubInv, [Next]_vars
    PROVE  HubInv'
  <1>0. /\ nextSeq \in Nat /\ last \in EventOrNone /\ subscribers \in SUBSET Subscriber
        /\ \A t \in Subscriber : /\ chan[t] \in Seq(Event) /\ hand[t] \in HandState
                                 /\ held[t] \in EventOrNone
                                 /\ base[t] \in Nat /\ view[t] \in SUBSET Nat
                                 /\ hand[t] = "write" => held[t] # NoEvent
    BY DEF TypeOK, HubType, SubType
  <1>1. CASE Manager \/ (\E p \in Publisher : Goroutine(p)) \/ UNCHANGED vars
    BY <1>1, PublisherSteps DEF HubInv, hubVars, subVars
  <1>2. ASSUME NEW p \in Publisher, Publishes(p)
        PROVE  HubInv'
    <2>1. PICK x \in Event :
              /\ x.seq = nextSeq + 1 /\ nextSeq' = nextSeq + 1 /\ last' \in {last, x}
              /\ \A s \in Subscriber : \/ chan'[s] = chan[s]
                                       \/ s \in subscribers /\ chan'[s] = Append(chan[s], x)
              /\ UNCHANGED <<subscribers, hand, held, peer, base, view, told>>
      BY <1>2, PublishStep
    <2>2. last' # NoEvent => last'.seq <= nextSeq'
      BY <1>0, <2>1 DEF HubInv, EventOrNone, Event
    <2>3. ASSUME NEW t \in Subscriber
          PROVE  SubInv(chan'[t], hand[t], held[t], view[t], base[t], nextSeq + 1)
      <3>1. SubInv(chan[t], hand[t], held[t], view[t], base[t], nextSeq)
        BY DEF HubInv
      <3>2. CASE chan'[t] = chan[t]
        BY <1>0, <3>1, <3>2, SubInvLater
      <3>3. CASE t \in subscribers /\ chan'[t] = Append(chan[t], x)
        <4>1. hand[t] # "off"
          BY <3>3 DEF Registered, Serving
        <4> QED
          BY <1>0, <2>1, <3>1, <3>3, <4>1, SubInvAppend
      <3> QED
        BY <2>1, <3>2, <3>3
    <2> QED
      BY <2>1, <2>2, <2>3 DEF HubInv
  <1>3. ASSUME NEW s \in Subscriber, Subscribe(s) \/ Handler(s) \/ Hangup(s)
        PROVE  HubInv'
    <2>0. nextSeq' = nextSeq /\ last' = last
      BY <1>3 DEF Subscribe, Handler, Hangup, Greet, Take, WriteEvent, WriteFails, Leave, Unsubscribe, hubVars
    <2>1. ASSUME NEW t \in Subscriber, t # s
          PROVE  SubInv(chan[t], hand[t], held[t], view[t], base[t], nextSeq)'
      <3>1. /\ chan'[t] = chan[t] /\ hand'[t] = hand[t] /\ held'[t] = held[t]
            /\ view'[t] = view[t] /\ base'[t] = base[t]
        BY <1>3, <2>1 DEF TypeOK, SubType, Subscribe, Handler, Hangup, Greet, Take, WriteEvent,
                          WriteFails, Leave, Unsubscribe
      <3> QED
        BY <2>0, <3>1 DEF HubInv
    <2>2. SubInv(chan[s], hand[s], held[s], view[s], base[s], nextSeq)
      BY DEF HubInv
    <2>3. SubInv(chan'[s], hand'[s], held'[s], view'[s], base'[s], nextSeq)
      <3>1. CASE Subscribe(s)
        <4>1. /\ chan'[s] = chan[s] /\ hand[s] = "off" /\ hand'[s] = "greet" /\ held'[s] = last
              /\ view'[s] = view[s] /\ base'[s] = nextSeq
          BY <3>1 DEF Subscribe, TypeOK, SubType
        <4>2. chan[s] = <<>> /\ view[s] = {}
          BY <2>2, <4>1 DEF SubInv, OneGreeting
        <4>3. last # NoEvent => last.seq <= nextSeq
          BY DEF HubInv
        <4> QED
          BY <1>0, <4>1, <4>2, <4>3, Fresh DEF SubInv, Numbering, InOrder, OneGreeting
      <3>2. CASE Greet(s)
        <4>1. /\ chan'[s] = Append(chan[s], Greeting(s)) /\ hand[s] = "greet" /\ hand'[s] = "serve"
              /\ held'[s] = NoEvent /\ view'[s] = view[s] /\ base'[s] = base[s]
          BY <3>2 DEF Greet, TypeOK, SubType
        <4>2. Greeting(s) \in Event /\ Greeting(s).seq <= base[s]
          BY <1>0, <2>2, <4>1, GreetingType DEF SubInv, OneGreeting
        <4> QED
          BY <1>0, <2>2, <4>1, <4>2, SubInvGreet
      <3>3. CASE Take(s)
        <4>1. /\ chan'[s] = Tail(chan[s]) /\ hand[s] = "serve" /\ hand'[s] = "write" /\ chan[s] # <<>>
              /\ held'[s] = Head(chan[s]) /\ view'[s] = view[s] /\ base'[s] = base[s]
          BY <3>3 DEF Take, TypeOK, SubType
        <4> QED
          BY <1>0, <2>2, <4>1, SubInvTake
      <3>4. CASE WriteEvent(s)
        <4>1. /\ chan'[s] = chan[s] /\ hand[s] = "write" /\ hand'[s] = "serve" /\ held'[s] = NoEvent
              /\ view'[s] = view[s] \cup {held[s].seq} /\ base'[s] = base[s]
          BY <3>4 DEF WriteEvent, TypeOK, SubType
        <4>2. held[s] \in Event
          BY <1>0, <4>1 DEF EventOrNone
        <4> QED
          BY <1>0, <2>2, <4>1, <4>2, SubInvWrite
      <3>5. CASE WriteFails(s) \/ Leave(s)
        <4>1. /\ chan'[s] = <<>> /\ hand'[s] = "gone" /\ held'[s] = NoEvent
              /\ view'[s] = view[s] /\ base'[s] = base[s]
          BY <3>5 DEF WriteFails, Leave, Unsubscribe, TypeOK, SubType
        <4> QED
          BY <2>2, <4>1, SubInvGone
      <3>6. CASE Hangup(s)
        BY <2>2, <3>6 DEF Hangup
      <3> QED
        BY <1>3, <3>1, <3>2, <3>3, <3>4, <3>5, <3>6 DEF Handler
    <2> QED
      BY <2>0, <2>1, <2>3 DEF HubInv
  <1> QED
    BY <1>1, <1>2, <1>3 DEF Next

\* Numbers, order and the one greeting hold in every reachable state.
THEOREM HubInvAlways == Spec => []HubInv
  <1>1. Init => HubInv
    BY Fresh DEF Init, HubInv, SubInv, Numbering, InOrder, OneGreeting
  <1> QED
    BY <1>1, HubInvStep, HubTypeCorrect, RegisteredAlways, PTL DEF Spec

----------------------------------------------------------------------------
\* The mapped variable stage of EventFeed.
stageMap == [s \in Subscriber |-> Stage(s)]

\* Every step of the hub is a step of EventFeed or leaves its variables alone.
LEMMA FeedStep ==
    ASSUME TypeOK, HubInv, [Next]_vars
    PROVE  [Feed!FeedNext]_(Feed!feedVars)
  <1>0. /\ nextSeq \in Nat /\ hand \in [Subscriber -> HandState]
        /\ \A t \in Subscriber : /\ held[t] \in EventOrNone
                                 /\ base[t] \in Nat /\ view[t] \in SUBSET Nat
                                 /\ hand[t] = "write" => held[t] # NoEvent
    BY DEF TypeOK, HubType, SubType
  <1>1. CASE Manager \/ (\E p \in Publisher : Goroutine(p)) \/ UNCHANGED vars
    <2>1. UNCHANGED <<nextSeq, hand, base, view, told>>
      BY <1>1, PublisherSteps DEF hubVars, subVars
    <2> QED
      BY <2>1 DEF Feed!feedVars, Stage
  <1>2. ASSUME NEW p \in Publisher, Publishes(p)
        PROVE  Feed!Publish
    <2>1. nextSeq' = nextSeq + 1 /\ UNCHANGED <<hand, base, view, told>>
      BY <1>2, PublishStep
    <2> QED
      BY <2>1 DEF Feed!Publish, Stage
  <1>3. ASSUME NEW s \in Subscriber, Subscribe(s)
        PROVE  Feed!Join(s)
    <2>1. stageMap[s] = "out" /\ stageMap' = [stageMap EXCEPT ![s] = "in"]
      BY <1>0, <1>3 DEF Subscribe, stageMap, Stage, Serving
    <2> QED
      BY <1>3, <2>1 DEF Subscribe, Feed!Join, stageMap
  <1>4. ASSUME NEW s \in Subscriber, WriteEvent(s)
        PROVE  Feed!Greet(s) \/ Feed!Receive(s)
    <2>1. /\ nextSeq' = nextSeq /\ base' = base /\ stageMap' = stageMap /\ stageMap[s] = "in"
          /\ hand[s] = "write"
      BY <1>0, <1>4 DEF WriteEvent, hubVars, stageMap, Stage, Serving
    <2>2. held[s] \in Event /\ held[s].seq \in Nat
      BY <1>0, <2>1 DEF EventOrNone, Event
    <2>3. Feed!Tell(s, held[s].seq)
      BY <1>4 DEF WriteEvent, Feed!Tell
    <2>4. SubInv(chan[s], "write", held[s], view[s], base[s], nextSeq)
      BY <2>1 DEF HubInv
    <2>5. CASE held[s].seq <= base[s]
      <3>1. held[s].seq \in 0..base[s] /\ \A n \in view[s] : n > base[s]
        BY <1>0, <2>2, <2>4, <2>5 DEF SubInv, OneGreeting
      <3> QED
        BY <2>1, <2>3, <3>1 DEF Feed!Greet, stageMap
    <2>6. CASE ~(held[s].seq <= base[s])
      <3>1. held[s].seq \in base[s] + 1..nextSeq /\ \A m \in view[s] : m < held[s].seq
        BY <1>0, <2>2, <2>4, <2>6 DEF SubInv, Numbering, InOrder
      <3> QED
        BY <2>1, <2>3, <3>1 DEF Feed!Receive, stageMap
    <2> QED
      BY <2>5, <2>6
  <1>5. ASSUME NEW s \in Subscriber, Greet(s) \/ Take(s) \/ Hangup(s)
        PROVE  UNCHANGED Feed!feedVars
    <2>1. UNCHANGED <<nextSeq, base, view, told>> /\ stageMap' = stageMap
      BY <1>0, <1>5 DEF Greet, Take, Hangup, hubVars, stageMap, Stage, Serving
    <2> QED
      BY <2>1 DEF Feed!feedVars, stageMap
  <1>6. ASSUME NEW s \in Subscriber, WriteFails(s) \/ Leave(s)
        PROVE  Feed!Leave(s)
    <2>1. /\ UNCHANGED <<nextSeq, base, view, told>> /\ stageMap[s] = "in"
          /\ stageMap' = [stageMap EXCEPT ![s] = "gone"]
      BY <1>0, <1>6 DEF WriteFails, Leave, Unsubscribe, stageMap, Stage, Serving
    <2> QED
      BY <2>1 DEF Feed!Leave, stageMap
  <1> QED
    BY <1>1, <1>2, <1>3, <1>4, <1>5, <1>6 DEF Next, Handler, Feed!FeedNext

\* The hubs implement EventFeed: whatever the interleaving of publishers and
\* handlers, a connection is told each event once and in order, one greeting
\* apart, and nothing after it has left (SubscribeEvents, publishCoreEvent and
\* the handler loops).
THEOREM FeedRefinedAlways == Spec => FeedRefined
  <1>1. Init => Feed!FeedInit
    BY DEF Init, Feed!FeedInit, Stage, Serving
  <1> QED
    BY <1>1, FeedStep, HubTypeCorrect, HubInvAlways, PTL DEF Spec, FeedRefined, Feed!FeedSpec

----------------------------------------------------------------------------
\* Publishing appends to the channel of every registered handler that has room.
LEMMA PublishReaches ==
    ASSUME TypeOK, NEW p \in Publisher, Publishes(p)
    PROVE  \E x \in Event :
              /\ x.seq = nextSeq + 1 /\ nextSeq' = nextSeq + 1
              /\ \A s \in subscribers :
                    chan'[s] = IF Len(chan[s]) < Buffer THEN Append(chan[s], x) ELSE chan[s]
              /\ UNCHANGED <<subscribers, hand, held, base, view>>
  <1>1. PICK keeps \in BOOLEAN : PublishUnder(p, keeps)
    BY Zenon DEF Publishes, publishCoreEvent, publishSysproxyGuardEvent
  <1>2. pub[p] \in Event /\ nextSeq \in Nat /\ subscribers \subseteq Subscriber
    BY <1>1 DEF PublishUnder, TypeOK, MgrType, HubType, EventOrNone
  <1>3. Numbered(pub[p]) \in Event /\ Numbered(pub[p]).seq = nextSeq + 1
    BY <1>2, NumberedType
  <1>4. \A s \in subscribers :
           chan'[s] = IF Len(chan[s]) < Buffer THEN Append(chan[s], Numbered(pub[p])) ELSE chan[s]
    BY <1>1, <1>2 DEF PublishUnder, Broadcast
  <1> QED
    BY <1>1, <1>3, <1>4 DEF PublishUnder

\* Every step keeps the account of the first events (publishCoreEvent's select,
\* SubscribeEvents, the handler loops).
LEMMA LossInvStep ==
    ASSUME TypeOK, Registered, HubInv, LossInv, [Next]_vars
    PROVE  LossInv'
  <1>0. /\ nextSeq \in Nat /\ subscribers \in SUBSET Subscriber /\ Buffer \in Nat /\ Buffer > 0
        /\ \A t \in Subscriber : /\ chan[t] \in Seq(Event) /\ Len(chan[t]) \in Nat
                                 /\ hand[t] \in HandState /\ base[t] \in Nat
    BY HubAssumption DEF TypeOK, HubType, SubType
  <1>1. CASE Manager \/ (\E p \in Publisher : Goroutine(p)) \/ UNCHANGED vars
    BY <1>1, PublisherSteps DEF LossInv, hubVars, subVars
  <1>2. ASSUME NEW p \in Publisher, Publishes(p)
        PROVE  LossInv'
    <2>1. PICK x \in Event :
              /\ x.seq = nextSeq + 1 /\ nextSeq' = nextSeq + 1
              /\ \A s \in subscribers :
                    chan'[s] = IF Len(chan[s]) < Buffer THEN Append(chan[s], x) ELSE chan[s]
              /\ UNCHANGED <<subscribers, hand, held, base, view>>
      BY <1>2, PublishReaches
    <2>2. ASSUME NEW s \in subscribers
          PROVE  /\ Filled(chan'[s], hand[s], base[s], nextSeq + 1)
                 /\ Kept(chan'[s], hand[s], held[s], view[s], base[s], nextSeq + 1)
      <3> DEFINE q == chan[s]
                 r == chan'[s]
                 b == base[s]
                 n == nextSeq
      <3>1. q \in Seq(Event) /\ Len(q) \in Nat /\ b \in Nat /\ n \in Nat /\ b <= n
        BY <1>0 DEF HubInv, SubInv, Numbering
      <3>2. Filled(q, hand[s], b, n) /\ Kept(q, hand[s], held[s], view[s], b, n)
        BY DEF LossInv
      <3>3. CASE Len(q) < Buffer
        <4>1. Len(r) = Len(q) + 1 /\ r[Len(q) + 1].seq = n + 1 /\ \A i \in 1..Len(q) : r[i] = q[i]
          <5>1. r = Append(q, x) /\ x.seq = n + 1
            BY <2>1, <3>3
          <5> HIDE DEF q, r, n
          <5> QED
            BY <3>1, <5>1, AppendChannel
        <4> HIDE DEF q, r, b, n
        <4>2. Filled(r, hand[s], b, n + 1)
          BY <3>1, <3>2, <4>1 DEF Filled
        <4>3. Kept(r, hand[s], held[s], view[s], b, n + 1)
          <5> SUFFICES ASSUME (n + 1) - b < Buffer, NEW m \in b + 1..n + 1
                       PROVE  \/ m \in view[s] \/ (hand[s] = "write" /\ held[s].seq = m)
                              \/ \E i \in 1..Len(r) : r[i].seq = m
            BY DEF Kept
          <5>1. CASE m = n + 1
            <6>1. Len(q) + 1 \in 1..Len(r)
              BY <3>1, <4>1
            <6> QED
              BY <4>1, <5>1, <6>1
          <5>2. CASE m \in b + 1..n
            <6>1. \/ m \in view[s] \/ (hand[s] = "write" /\ held[s].seq = m)
                  \/ \E i \in 1..Len(q) : q[i].seq = m
              BY <1>0, <3>1, <3>2, <5>2 DEF Kept
            <6>2. \A i \in 1..Len(q) : i \in 1..Len(r) /\ r[i].seq = q[i].seq
              BY <3>1, <4>1
            <6> QED
              BY <6>1, <6>2
          <5> QED
            BY <3>1, <5>1, <5>2
        <4> QED
          BY <4>2, <4>3 DEF q, r, b, n
      <3>4. CASE ~(Len(q) < Buffer)
        <4>1. r = q
          BY <2>1, <3>4
        <4> HIDE DEF q, r, b, n
        <4>2. ~((n + 1) - b < Buffer)
          BY <1>0, <3>1, <3>2, <3>4 DEF Filled
        <4>3. Filled(r, hand[s], b, n + 1) /\ Kept(r, hand[s], held[s], view[s], b, n + 1)
          BY <3>1, <3>2, <4>1, <4>2 DEF Filled, Kept
        <4> QED
          BY <4>3 DEF q, r, b, n
      <3> QED
        BY <3>3, <3>4
    <2> QED
      BY <2>1, <2>2 DEF LossInv
  <1>3. ASSUME NEW s \in Subscriber, Subscribe(s) \/ Handler(s) \/ Hangup(s)
        PROVE  LossInv'
    <2>0. nextSeq' = nextSeq /\ (\A t \in Subscriber : t # s => (t \in subscribers' <=> t \in subscribers))
          /\ subscribers' \subseteq Subscriber
      BY <1>0, <1>3 DEF Subscribe, Handler, Hangup, Greet, Take, WriteEvent, WriteFails, Leave, Unsubscribe, hubVars
    <2>1. ASSUME NEW t \in subscribers', t # s
          PROVE  /\ Filled(chan'[t], hand'[t], base'[t], nextSeq')
                 /\ Kept(chan'[t], hand'[t], held'[t], view'[t], base'[t], nextSeq')
      <3>1. /\ chan'[t] = chan[t] /\ hand'[t] = hand[t] /\ held'[t] = held[t]
            /\ view'[t] = view[t] /\ base'[t] = base[t]
        BY <1>3, <2>0, <2>1 DEF TypeOK, SubType, Subscribe, Handler, Hangup, Greet, Take, WriteEvent,
                          WriteFails, Leave, Unsubscribe
      <3> QED
        BY <2>0, <2>1, <3>1 DEF LossInv
    <2>3. ASSUME s \in subscribers'
          PROVE  /\ Filled(chan'[s], hand'[s], base'[s], nextSeq)
                 /\ Kept(chan'[s], hand'[s], held'[s], view'[s], base'[s], nextSeq)
      <3>1. CASE Subscribe(s)
        <4>1. /\ chan'[s] = chan[s] /\ hand[s] = "off" /\ hand'[s] = "greet" /\ base'[s] = nextSeq
          BY <3>1 DEF Subscribe, TypeOK, SubType
        <4>2. chan[s] = <<>>
          BY <4>1 DEF HubInv, SubInv, OneGreeting
        <4> QED
          BY <1>0, <4>1, <4>2, Fresh DEF Filled, Kept
      <3>2. CASE WriteFails(s) \/ Leave(s)
        BY <2>3, <3>2 DEF WriteFails, Leave, Unsubscribe
      <3>3. ASSUME ~Subscribe(s), ~WriteFails(s), ~Leave(s)
            PROVE  /\ Filled(chan'[s], hand'[s], base'[s], nextSeq)
                   /\ Kept(chan'[s], hand'[s], held'[s], view'[s], base'[s], nextSeq)
        <4>1. s \in subscribers /\ base'[s] = base[s]
          BY <1>3, <2>3, <3>3 DEF Handler, Hangup, Greet, Take, WriteEvent, hubVars
        <4> DEFINE q == chan[s]
                   r == chan'[s]
                   b == base[s]
                   n == nextSeq
        <4>2. Filled(q, hand[s], b, n) /\ Kept(q, hand[s], held[s], view[s], b, n)
          BY <4>1 DEF LossInv
        <4>3. q \in Seq(Event) /\ Len(q) \in Nat /\ b \in Nat /\ n \in Nat
          BY <1>0
        <4>4. CASE Greet(s)
          <5>1. /\ r = Append(q, Greeting(s)) /\ hand[s] = "greet" /\ hand'[s] = "serve"
                /\ view'[s] = view[s]
            BY <4>4 DEF Greet, TypeOK, SubType
          <5>2. Len(r) = Len(q) + 1 /\ \A i \in 1..Len(q) : r[i] = q[i] /\ i \in 1..Len(r)
            BY <4>3, <5>1, GreetingType, AppendChannel
          <5> HIDE DEF q, r, b, n
          <5>3. Filled(r, hand'[s], b, n)
            BY <4>2, <4>3, <5>1, <5>2 DEF Filled
          <5>4. Kept(r, hand'[s], held'[s], view'[s], b, n)
            BY <4>2, <5>1, <5>2 DEF Kept
          <5> QED
            BY <4>1, <5>3, <5>4 DEF q, r, b, n
        <4>5. CASE Take(s)
          <5>1. /\ r = Tail(q) /\ q # <<>> /\ hand[s] = "serve" /\ hand'[s] = "write"
                /\ held'[s] = Head(q) /\ view'[s] = view[s]
            BY <4>5 DEF Take, TypeOK, SubType
          <5>2. /\ Len(q) \in Nat \ {0} /\ Head(q) = q[1] /\ Len(r) = Len(q) - 1
                /\ \A i \in 1..Len(q) - 1 : r[i] = q[i + 1]
            BY <4>3, <5>1, TailChannel
          <5> HIDE DEF q, r, b, n
          <5>3. Filled(r, hand'[s], b, n)
            BY <4>2, <4>3, <5>1, <5>2 DEF Filled
          <5>4. \A i \in 1..Len(q) : i = 1 \/ (i - 1 \in 1..Len(r) /\ r[i - 1] = q[i])
            BY <5>2
          <5>5. Kept(r, hand'[s], held'[s], view'[s], b, n)
            <6> SUFFICES ASSUME n - b < Buffer, NEW m \in b + 1..n
                         PROVE  \/ m \in view'[s] \/ (hand'[s] = "write" /\ held'[s].seq = m)
                                \/ \E i \in 1..Len(r) : r[i].seq = m
              BY DEF Kept
            <6>1. m \in view[s] \/ \E i \in 1..Len(q) : q[i].seq = m
              BY <4>2, <5>1 DEF Kept
            <6> QED
              BY <5>1, <5>2, <5>4, <6>1
          <5> QED
            BY <4>1, <5>3, <5>5 DEF q, r, b, n
        <4>6. CASE WriteEvent(s)
          <5>1. /\ r = q /\ hand[s] = "write" /\ hand'[s] = "serve"
                /\ view'[s] = view[s] \cup {held[s].seq}
            BY <4>6 DEF WriteEvent, TypeOK, SubType
          <5> HIDE DEF q, r, b, n
          <5>2. Filled(r, hand'[s], b, n) /\ Kept(r, hand'[s], held'[s], view'[s], b, n)
            BY <4>2, <5>1 DEF Filled, Kept
          <5> QED
            BY <4>1, <5>2 DEF q, r, b, n
        <4>7. CASE Hangup(s)
          BY <4>1, <4>2, <4>7 DEF Hangup
        <4> QED
          BY <1>3, <3>3, <4>4, <4>5, <4>6, <4>7 DEF Handler
      <3> QED
        BY <3>1, <3>2, <3>3
    <2> QED
      BY <2>0, <2>1, <2>3 DEF LossInv
  <1> QED
    BY <1>1, <1>2, <1>3 DEF Next

\* For every capacity of the channels, a subscriber misses none of the first
\* Buffer - 1 events published after it joined, however publishers, the greeting
\* and the handler interleave, and what is published never meets the channel of
\* a handler that has returned (publishCoreEvent, publishSysproxyGuardEvent).
THEOREM NoLossAlways == Spec => []NoLoss
  <1>1. Init => LossInv
    BY DEF Init, LossInv
  <1>2. ASSUME TypeOK, Registered, LossInv
        PROVE  NoLoss
    <2>1. ASSUME NEW s \in subscribers, nextSeq - base[s] < Buffer, NEW m \in base[s] + 1..nextSeq
          PROVE  m \in view[s] \cup Pending(s)
      <3>1. \/ m \in view[s] \/ (hand[s] = "write" /\ held[s].seq = m)
            \/ \E i \in 1..Len(chan[s]) : chan[s][i].seq = m
        BY <1>2, <2>1 DEF LossInv, Kept
      <3>2. s \in Subscriber /\ chan[s] \in Seq(Event)
        BY <1>2 DEF TypeOK, HubType, SubType
      <3>3. DOMAIN chan[s] = 1..Len(chan[s])
        BY <3>2
      <3> QED
        BY <3>1, <3>3 DEF Pending
    <2> QED
      BY <1>2, <2>1 DEF NoLoss, NoEarlyLoss
  <1> QED
    BY <1>1, <1>2, LossInvStep, HubTypeCorrect, RegisteredAlways, HubInvAlways, PTL DEF Spec
=============================================================================
