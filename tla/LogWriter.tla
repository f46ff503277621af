----------------------------- MODULE LogWriter -----------------------------
(***************************************************************************)
(* The log file of the core, boundedLogWriter of core/log_writer.go.       *)
(*                                                                         *)
(* The goroutines that copy the core's output write to it, a request that  *)
(* changes the launch profile updates its settings, and the cleanup of the *)
(* launch closes it, while a core that could not be stopped may go on      *)
(* writing.  The operations hold one mutex and are single steps.  When the *)
(* file grows over its limit it is closed, its tail is read, written over  *)
(* it, and the file is opened again.  Every one of these system calls may  *)
(* fail, at most MaxFaults operations do.                                  *)
(*                                                                         *)
(* Text is a sequence of bytes, the line feed and others.                  *)
(***************************************************************************)
EXTENDS Integers, Sequences, SequencesExt, FiniteSetsExt

CONSTANTS
  Bytes,        \* bytes other than the line feed
  Chunks,       \* the texts that are written
  Paths,        \* log files
  Sizes,        \* limits for the log file, maxBytes
  MaxWrites,    \* bound: chunks that are written
  MaxUpdates,   \* bound: changes of the settings
  MaxFaults     \* bound: operations in which a system call fails

LineFeed == "\n"
NoPath == ""
Text == Seq(Bytes \cup {LineFeed})

ASSUME ChunksAssumption ==
  Chunks \subseteq Text \ {<<>>} /\ Chunks # {} /\ IsFiniteSet(Chunks)
ASSUME SizesAssumption ==
  Sizes \subseteq Nat \ {0} /\ Sizes # {} /\ IsFiniteSet(Sizes)
ASSUME NamesAssumption == NoPath \notin Paths /\ LineFeed \notin Bytes /\ Bytes # {}
ASSUME BoundsAssumption == {MaxWrites, MaxUpdates, MaxFaults} \subseteq Nat

VARIABLES
  writer,     \* boundedLogWriter: file, path, saveLogs, maxBytes, closed
  disk,       \* content of the log files
  writes, updates, faults,   \* counters for the bounds
  appended,   \* for the properties: all that was appended to each file
  failed      \* for the properties: whether the last operation failed

vars == <<writer, disk, writes, updates, faults, appended, failed>>
----------------------------------------------------------------------------
(* Text *)

\* The last n bytes of a text, all of it when it is shorter.
LastBytes(text, n) ==
  IF Len(text) <= n THEN text ELSE SubSeq(text, Len(text) - n + 1, Len(text))

LineFeeds(text) == {i \in DOMAIN text : text[i] = LineFeed}

From(text, i) == SubSeq(text, i, Len(text))

\* max(int64(float64(w.maxBytes)*logTrimLowWatermarkRatio), 1)
TargetBytes(maxBytes) == IF maxBytes = 1 THEN 1 ELSE (maxBytes * 7) \div 10

\* Mutant: cuts behind the last line feed instead of the first.
LogTailAfterLast(content, targetBytes) ==
  LET tail == LastBytes(content, targetBytes)
  IN  IF LineFeeds(tail) = {} THEN tail ELSE From(tail, Max(LineFeeds(tail)) + 1)

\* readLogTail: the last targetBytes, from behind the first line feed in
\* them unless nothing follows it.
LogTail(content, targetBytes) ==
  LET tail == LastBytes(content, targetBytes)
  IN  IF Len(content) > targetBytes /\ \E i \in LineFeeds(tail) : i < Len(tail)
      THEN From(tail, Min(LineFeeds(tail)) + 1) ELSE tail
----------------------------------------------------------------------------
(* The parts of an operation.  Each maps a record of the state to the set  *)
(* of its outcomes.                                                        *)

Log == [writer |-> writer, disk |-> disk, appended |-> appended, failed |-> FALSE]

Failed(l) == [l EXCEPT !.failed = TRUE]

\* closeFileLocked.  A Close that fails drops the handle too; its error only
\* adds to a message.
Closed(l) == [l EXCEPT !.writer.file = NoPath]

Opened(l) == [l EXCEPT !.writer.file = l.writer.path]

Appended(l, text) ==
  LET p == l.writer.file
  IN  [l EXCEPT !.disk[p] = @ \o text, !.appended[p] = @ \o text]

\* os.WriteFile over the log.  When it is cut short the file starts anew.
Rewritten(l, text) == [l EXCEPT !.disk[l.writer.path] = text]
CutShort(l, text) == [Rewritten(l, text) EXCEPT !.appended[l.writer.path] = text]

\* reopenLocked: opening or applyCoreLogFileAccess may fail.
Reopen(l) == {Opened(l), Failed(l)}

\* reopenLocked when its own error is dropped for an earlier one.
ReopenAfterError(l) == {Failed(r) : r \in Reopen(l)}

\* The part of enforceLimitLocked for a file over its limit: Close, readLogTail,
\* WriteFile, applyCoreLogFileAccess and reopenLocked may fail, in this order.
Trim(l) ==
  LET tail == LogTail(l.disk[l.writer.path], TargetBytes(l.writer.maxBytes))
      closed == Closed(l)
  IN  {Failed(closed)}
      \cup ReopenAfterError(closed)
      \cup (UNION {ReopenAfterError(CutShort(closed, SubSeq(tail, 1, i))) : i \in 0..Len(tail)})
      \cup ReopenAfterError(Rewritten(closed, tail))
      \cup Reopen(Rewritten(closed, tail))

\* enforceLimitLocked, which begins with a Stat of the open file.
EnforceLimit(l) ==
  CASE l.writer.file = NoPath -> {l}
    [] l.writer.file # NoPath /\ Len(l.disk[l.writer.path]) <= l.writer.maxBytes -> {l, Failed(l)}
    [] OTHER -> {Failed(l)} \cup Trim(l)

\* The callers close the file when the limit cannot be enforced.
EnforceOrClose(l) == {IF r.failed THEN Closed(r) ELSE r : r \in EnforceLimit(l)}

\* ensureOpenLocked.  When the limit cannot be enforced it returns an error
\* although the file may be open.
EnsureOpen(l) ==
  IF l.writer.file # NoPath THEN {l} ELSE {Failed(l)} \cup EnforceLimit(Opened(l))

\* One of the outcomes happens.
Becomes(outcomes) ==
  \E r \in outcomes :
    /\ r.failed => faults < MaxFaults
    /\ faults' = IF r.failed THEN faults + 1 ELSE faults
    /\ writer' = r.writer
    /\ disk' = r.disk
    /\ appended' = r.appended
    /\ failed' = r.failed
----------------------------------------------------------------------------
(* The operations *)

Saves(w) == w.saveLogs /\ w.path # NoPath

\* Mutant: the limit is only enforced when the file is opened.
WriteChunkUnlimited(l, p) ==
  UNION {IF e.failed THEN {e} ELSE {Appended(e, p)} : e \in EnsureOpen(l)}

\* Write to a file that can be opened; a write that fails leaves a part of
\* the chunk and closes the file.
WriteChunk(l, p) ==
  UNION {IF e.failed THEN {e}
         ELSE {Failed(Closed(Appended(e, SubSeq(p, 1, i)))) : i \in 0..(Len(p) - 1)}
              \cup EnforceOrClose(Appended(e, p)) : e \in EnsureOpen(l)}

\* Mutant: a writer that was closed opens the file again.
WriteReopens(p) ==
  /\ writes < MaxWrites
  /\ writes' = writes + 1
  /\ IF Saves(writer) THEN Becomes(WriteChunk(Log, p)) ELSE Becomes({Log})
  /\ UNCHANGED updates

\* boundedLogWriter.Write.  It never reports an error to its caller.
Write(p) ==
  /\ writes < MaxWrites
  /\ writes' = writes + 1
  /\ IF ~writer.closed /\ Saves(writer)
     THEN Becomes(WriteChunk(Log, p)) ELSE Becomes({Log})
  /\ UNCHANGED updates

Settings == [path : Paths \cup {NoPath}, saveLogs : BOOLEAN, maxBytes : Sizes]

With(l, s) ==
  [l EXCEPT !.writer.path = s.path, !.writer.saveLogs = s.saveLogs,
            !.writer.maxBytes = s.maxBytes]

\* boundedLogWriter.Update
Update(s) ==
  LET old == IF writer.path # s.path \/ ~s.saveLogs THEN Closed(Log) ELSE Log
      new == With(old, s)
  IN  /\ ~writer.closed
      /\ updates < MaxUpdates
      /\ updates' = updates + 1
      /\ IF Saves(s)
         THEN Becomes(UNION {IF e.failed THEN {e} ELSE EnforceOrClose(e) : e \in EnsureOpen(new)})
         ELSE Becomes({new})
      /\ UNCHANGED writes

\* boundedLogWriter.Close
Close ==
  /\ ~writer.closed
  /\ writer' = [writer EXCEPT !.closed = TRUE, !.file = NoPath]
  /\ failed' = FALSE
  /\ UNCHANGED <<disk, writes, updates, faults, appended>>
----------------------------------------------------------------------------
\* A log left by an earlier launch, within the largest of the limits.
OldLog == [i \in 1..Max(Sizes) |-> IF i = Max(Sizes) THEN LineFeed ELSE CHOOSE b \in Bytes : TRUE]

\* newBoundedLogWriter opens no file.
Init ==
  /\ writer \in [file : {NoPath}, path : Paths \cup {NoPath}, saveLogs : BOOLEAN,
                 maxBytes : Sizes, closed : {FALSE}]
  /\ disk \in [Paths -> {<<>>, OldLog}]
  /\ appended = disk
  /\ writes = 0 /\ updates = 0 /\ faults = 0
  /\ failed = FALSE

Next ==
  \/ \E p \in Chunks : Write(p)
  \/ \E s \in Settings : Update(s)
  \/ Close

Spec == Init /\ [][Next]_vars
----------------------------------------------------------------------------
(* Properties *)

\* Every variable has its type.
TypeOK ==
  /\ writer \in [file : Paths \cup {NoPath}, path : Paths \cup {NoPath},
                 saveLogs : BOOLEAN, maxBytes : Sizes, closed : BOOLEAN]
  /\ disk \in [Paths -> Text] /\ appended \in [Paths -> Text]
  /\ {writes, updates, faults} \subseteq Nat
  /\ failed \in BOOLEAN

\* The variables have their types, and the handle that the writer holds is that
\* of the configured path; it holds none once logging was switched off or the writer was closed: output
\* of a core that outlives its launch does not open the file again under the
\* writer of the next launch.
RightFile ==
  /\ TypeOK
  /\ writer.file # NoPath =>
       writer.file = writer.path /\ writer.saveLogs /\ ~writer.closed

\* After every operation that succeeded the open file is within its limit,
\* whatever failed before; and an operation that fails in the middle of a
\* trim lets at most one chunk more into a file.
Bounded ==
  /\ writer.file # NoPath /\ ~failed => Len(disk[writer.path]) <= writer.maxBytes
  /\ \A p \in Paths :
       Len(disk[p]) <= Max(Sizes) + faults * Max({Len(c) : c \in Chunks})

\* The last line of a text, with its line feed if it has one.
LastLine(text) ==
  LET ends == {0} \cup (LineFeeds(text) \ {Len(text)})
  IN  From(text, Max(ends) + 1)

\* Trimming only ever drops the oldest output: a log ends with what was
\* written to it last, and its last line is whole whenever it fits in what a
\* trim keeps.
TailKept ==
  \A p \in Paths :
    /\ disk[p] = LastBytes(appended[p], Len(disk[p]))
    /\ LET last == LastLine(appended[p])
       IN  Len(last) <= TargetBytes(Min(Sizes)) => Len(disk[p]) >= Len(last)
=============================================================================
