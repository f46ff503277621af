---------------------------- MODULE LogWatchers ----------------------------
(***************************************************************************)
(* The watchers that read the output of the core: startupLogWatcher and    *)
(* coreLogEventWatcher of core/manager_logs.go, as startProcessLocked puts *)
(* them together.                                                          *)
(*                                                                         *)
(* os/exec runs one goroutine that copies the core's standard output and   *)
(* one for its standard error.  Each hands every chunk it reads to the     *)
(* writers of a MultiWriter, one after the other: the startup watcher,     *)
(* which tells the waiting start of a fatal line, the event watcher, which *)
(* publishes an event for certain lines, and the log file (LogWriter),     *)
(* which takes any chunk.  Both goroutines share the watchers.  The        *)
(* cleanup of the launch stops the event watcher, while a core that could  *)
(* not be stopped may go on writing.                                       *)
(*                                                                         *)
(* Text is a sequence of letters: n is the line feed, and xy stands for    *)
(* what a watcher looks for in a line, so that a chunk can end within it.  *)
(* (The carriage return before a line feed, which both watchers drop, is   *)
(* left out.)                                                              *)
(***************************************************************************)
EXTENDS Integers, Sequences, FiniteSets

CONSTANTS
  Streams,      \* the outputs of the core
  Reads,        \* the texts that one read of an output returns
  LineLimit,    \* startupLineLimit
  MaxChunks     \* bound: chunks that the core writes

Letters == {"x", "y", "n"}
Output == Seq(Letters)

ASSUME ReadsAssumption == Reads \subseteq Output \ {<<>>}
ASSUME LimitsAssumption == LineLimit \in Nat \ {0} /\ MaxChunks \in Nat

VARIABLES
  copier,     \* for each stream the goroutine's place and the chunk it holds
  chunks,     \* counter for the bound
  session,    \* the launch: starting, running, and the steps of its cleanup
  startup,    \* startupLogWatcher: lineBuffer, reported, and the channel fatal
  watcher,    \* coreLogEventWatcher: active, lineBuffer
  line,       \* what coreLogEventWatcher.Stop took from the line buffer
  published,  \* numbers of the lines for which an event was published
  startupFeed, eventFeed  \* for the properties: what each watcher was given

watchVars == <<copier, chunks, session, startup, watcher, line, published,
               startupFeed, eventFeed>>
----------------------------------------------------------------------------
(* Lines *)

LineEnds(text) == {i \in DOMAIN text : text[i] = "n"}

Count(text) == Cardinality(LineEnds(text))

\* The place of the letter before line k.
Before(text, k) ==
  IF k = 1 THEN 0
  ELSE CHOOSE i \in LineEnds(text) : Cardinality({j \in LineEnds(text) : j < i}) = k - 2

\* Line k of a text, without its line feed; the line behind the last line
\* feed is the unfinished one.
LineOf(text, k) ==
  SubSeq(text, Before(text, k) + 1,
         IF k > Count(text) THEN Len(text) ELSE Before(text, k + 1) - 1)

Unfinished(text) == LineOf(text, Count(text) + 1)

\* startupFatalLineError, and the rules of publishCoreLogEvent.
Matches(text) == \E i \in 1..(Len(text) - 1) : text[i] = "x" /\ text[i + 1] = "y"

\* The finished lines that match.
MatchingLines(text) == {k \in 1..Count(text) : Matches(LineOf(text, k))}

\* Mutant: an unfinished line is forgotten.
LineBufferDropped(combined) == <<>>

\* What a watcher keeps: the last LineLimit letters of the unfinished line.
LineBuffer(combined) ==
  LET rest == Unfinished(combined)
  IN  SubSeq(rest, (IF Len(rest) > LineLimit THEN Len(rest) - LineLimit ELSE 0) + 1, Len(rest))
----------------------------------------------------------------------------
(* The copying goroutines *)

Goto(s, pc) == copier' = [copier EXCEPT ![s].pc = pc]

\* The last writer, the log file, takes every chunk and returns no error,
\* which would end the copying: the goroutine reads on.
PassToLog(s) == copier' = [copier EXCEPT ![s] = [pc |-> "read", chunk |-> <<>>]]

\* The copying goroutine reads what the core wrote.
ReadOutput(s) ==
  /\ copier[s].pc = "read"
  /\ chunks < MaxChunks
  /\ \E c \in Reads : copier' = [copier EXCEPT ![s] = [pc |-> "startup", chunk |-> c]]
  /\ chunks' = chunks + 1
  /\ UNCHANGED <<session, startup, watcher, line, published, startupFeed, eventFeed>>

\* A fatal line, or an unfinished one, in the buffer followed by a chunk.
Fatal(combined) == MatchingLines(combined) # {} \/ Matches(LineBuffer(combined))

\* Mutant: every fatal line is sent.
StartupWriteRepeats(s) ==
  LET combined == startup.lineBuffer \o copier[s].chunk
  IN  /\ copier[s].pc = "startup"
      /\ Fatal(combined) => ~startup.fatal
      /\ startup' = [lineBuffer |-> LineBuffer(combined),
                     reported |-> startup.reported \/ Fatal(combined),
                     fatal |-> startup.fatal \/ Fatal(combined)]
      /\ startupFeed' = startupFeed \o copier[s].chunk
      /\ Goto(s, "event")
      /\ UNCHANGED <<chunks, session, watcher, line, published, eventFeed>>

\* startupLogWatcher.Write: the first fatal line is sent to a channel with
\* room for one error, under the mutex; a send to a full channel would block.
StartupWrite(s) ==
  LET combined == startup.lineBuffer \o copier[s].chunk
      report == Fatal(combined) /\ ~startup.reported
  IN  /\ copier[s].pc = "startup"
      /\ report => ~startup.fatal
      /\ startup' = [lineBuffer |-> LineBuffer(combined),
                     reported |-> startup.reported \/ report,
                     fatal |-> startup.fatal \/ report]
      /\ startupFeed' = startupFeed \o copier[s].chunk
      /\ Goto(s, "event")
      /\ UNCHANGED <<chunks, session, watcher, line, published, eventFeed>>

\* coreLogEventWatcher.Write before it takes the mutex.
EventCheck(s) ==
  /\ copier[s].pc = "event"
  /\ IF watcher.active THEN Goto(s, "locked") ELSE PassToLog(s)
  /\ UNCHANGED <<chunks, session, startup, watcher, line, published,
                 startupFeed, eventFeed>>

\* The numbers, in the whole output, of the lines that a chunk finishes and
\* that match: the lines are looked at one after the other.
Events(combined) ==
  LET first == Count(eventFeed)
      upTo[k \in 0..Count(combined)] ==
        IF k = 0 THEN <<>>
        ELSE IF k \in MatchingLines(combined) THEN Append(upTo[k - 1], first + k)
        ELSE upTo[k - 1]
  IN  upTo[Count(combined)]

\* What coreLogEventWatcher.Write does with a chunk under the mutex.
TakeIn(chunk) ==
  LET combined == watcher.lineBuffer \o chunk
  IN  /\ watcher' = [watcher EXCEPT !.lineBuffer = LineBuffer(combined)]
      /\ published' = published \o Events(combined)
      /\ eventFeed' = eventFeed \o chunk

\* Mutant: does not look again whether it was stopped meanwhile.
EventWriteUnchecked(s) ==
  /\ copier[s].pc = "locked"
  /\ TakeIn(copier[s].chunk)
  /\ PassToLog(s)
  /\ UNCHANGED <<chunks, session, startup, line, startupFeed>>

\* coreLogEventWatcher.Write under the mutex.
EventWrite(s) ==
  /\ copier[s].pc = "locked"
  /\ IF watcher.active
     THEN TakeIn(copier[s].chunk)
     ELSE UNCHANGED <<watcher, published, eventFeed>>
  /\ PassToLog(s)
  /\ UNCHANGED <<chunks, session, startup, line, startupFeed>>

----------------------------------------------------------------------------
(* The launch *)

outputVars == <<copier, chunks, startupFeed, eventFeed>>

\* waitForStartup receives the post-up notification.
StartupDone ==
  /\ session = "starting"
  /\ session' = "running"
  /\ UNCHANGED <<outputVars, startup, watcher, line, published>>

\* waitForStartup receives the fatal line, and the launch is cleaned up.
StartupFatal ==
  /\ session = "starting"
  /\ startup.fatal
  /\ startup' = [startup EXCEPT !.fatal = FALSE]
  /\ session' = "stop"
  /\ UNCHANGED <<outputVars, watcher, line, published>>

\* Any other end of the launch: an exit, a stop, a start that fails.
LaunchEnds ==
  /\ session \in {"starting", "running"}
  /\ session' = "stop"
  /\ UNCHANGED <<outputVars, startup, watcher, line, published>>

\* coreLogEventWatcher.Stop: active.Swap(false)
StopSwap ==
  /\ session = "stop"
  /\ watcher' = [watcher EXCEPT !.active = FALSE]
  /\ session' = "take"
  /\ UNCHANGED <<outputVars, startup, line, published>>

\* ... then the line buffer is taken under the mutex
StopTake ==
  /\ session = "take"
  /\ line' = watcher.lineBuffer
  /\ watcher' = [watcher EXCEPT !.lineBuffer = <<>>]
  /\ session' = "publish"
  /\ UNCHANGED <<outputVars, startup, published>>

\* ... and published after the unlock.
StopPublish ==
  /\ session = "publish"
  /\ published' = IF Matches(line) THEN Append(published, Count(eventFeed) + 1) ELSE published
  /\ session' = "over"
  /\ UNCHANGED <<outputVars, startup, watcher, line>>
----------------------------------------------------------------------------
WatchInit ==
  /\ copier = [s \in Streams |-> [pc |-> "read", chunk |-> <<>>]]
  /\ chunks = 0
  /\ session = "starting"
  /\ startup = [lineBuffer |-> <<>>, reported |-> FALSE, fatal |-> FALSE]
  /\ watcher = [active |-> TRUE, lineBuffer |-> <<>>]
  /\ line = <<>>
  /\ published = <<>>
  /\ startupFeed = <<>> /\ eventFeed = <<>>

PassOn(s) == StartupWrite(s) \/ EventCheck(s) \/ EventWrite(s)

\* The output ends after MaxChunks chunks.
OutputEnds ==
  /\ chunks = MaxChunks
  /\ \A s \in Streams : copier[s].pc = "read"
  /\ session = "over"
  /\ UNCHANGED watchVars

WatchNext ==
  \/ \E s \in Streams : ReadOutput(s) \/ PassOn(s)
  \/ StartupDone \/ StartupFatal \/ LaunchEnds
  \/ StopSwap \/ StopTake \/ StopPublish
  \/ OutputEnds

\* The copying goroutines are scheduled; nothing else is assumed to happen.
WatchSpec ==
  /\ WatchInit /\ [][WatchNext]_watchVars
  /\ \A s \in Streams : WF_watchVars(PassOn(s))
----------------------------------------------------------------------------
(* Properties *)

\* Every variable has its type.
WatchTypeOK ==
  /\ copier \in [Streams -> [pc : {"read", "startup", "event", "locked"}, chunk : Output]]
  /\ chunks \in 0..MaxChunks
  /\ session \in {"starting", "running", "stop", "take", "publish", "over"}
  /\ startup \in [lineBuffer : Output, reported : BOOLEAN, fatal : BOOLEAN]
  /\ watcher \in [active : BOOLEAN, lineBuffer : Output]
  /\ line \in Output
  /\ published \in Seq(Nat)
  /\ startupFeed \in Output /\ eventFeed \in Output

\* A line that is surely seen whole: it is not longer than what is kept of
\* an unfinished line.
ShortMatches(text) == {k \in MatchingLines(text) : Len(LineOf(text, k)) <= LineLimit}

Finish(text) == Append(text, "n")

\* The variables have their types, and however the output is cut into chunks
\* and whichever goroutine brings them, the event watcher publishes each
\* matching line once and in the order of the output; Stop publishes the
\* unfinished line, and nothing is taken in after it.
EventsOnce ==
  LET feed == IF session = "over" THEN Finish(eventFeed) ELSE eventFeed
      events == {published[i] : i \in DOMAIN published}
  IN  /\ WatchTypeOK
      /\ \A i, j \in DOMAIN published : i < j => published[i] < published[j]
      /\ ShortMatches(feed) \subseteq events
      /\ events \subseteq MatchingLines(feed)

\* The startup watcher reports a fatal line as soon as the output shows it,
\* even before the line is finished, and reports none that is not there.
FatalSeen ==
  /\ ShortMatches(Finish(startupFeed)) # {} => startup.reported
  /\ startup.reported => MatchingLines(Finish(startupFeed)) # {}

\* No chunk is stuck in the chain of writers: the goroutines always get back
\* to reading, without which cmd.Wait would never report the core's exit.
OutputDrains ==
  \A s \in Streams : copier[s].pc # "read" ~> copier[s].pc = "read"
=============================================================================
