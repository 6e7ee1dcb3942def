\* Pages of one message, a buffer and a set of seen numbers with one place, one request and
\* one page under way.
CONSTANTS
  MaxSeq = 3
  Message = {m}
  NoMessage = null
  PageLimit = 1
  HistoryLimit = 1
  PendingLimit = 1
  SeenLimit = 1
  MaxAsked = 2
  MaxWire = 2
SPECIFICATION GapSpec
CONSTRAINT Small
VIEW Merged
INVARIANTS TypeOK CursorSkipsNothing
