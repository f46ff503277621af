SPECIFICATION WatchSpec
CONSTANTS
  Streams = {"stdout", "stderr"}
  Reads <- MCReads
  LineLimit = 2
  MaxChunks = 4
INVARIANTS EventsOnce FatalSeen
PROPERTIES OutputDrains
