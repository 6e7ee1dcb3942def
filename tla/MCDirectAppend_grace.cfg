\* Two appends while the outbox still holds an older number, none outliving the 10 minutes.
CONSTANTS
  Submitters = {}
  Repliers = {}
  Recovery = rt
  Keys = {k1, k2, k3}
  Contents = {c1}
  MaxSeq = 3
  MaxHistory = 0
  ScanLimit = 1
  MaxCopies = 1
  NoOne = nobody
  NoMessage = null
  Appenders = {a1, a2}
  Grace = TRUE
VIEW DirectView
SPECIFICATION DirectCrashedSpec
INVARIANTS NoCollision WritersStayAhead
PROPERTIES ImplementsStableLog
