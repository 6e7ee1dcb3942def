\* Logic died with two numbers prepared: the recovery round has a head and a tail, and the
\* topic has room for a replayed copy of a dead letter.
CONSTANTS
  Submitters = {}
  Repliers = {}
  Recovery = rt
  Keys = {k1, k2}
  Contents = {c1}
  MaxSeq = 2
  MaxHistory = 0
  ScanLimit = 1
  MaxCopies = 2
  NoOne = nobody
  NoMessage = null
SPECIFICATION CrashedSpec
INVARIANTS SentStaysAhead
PROPERTIES PreparedIsSettled ImplementsStableLog
