\* Two appends, one of which may stall for longer than the 10 minutes.
CONSTANTS
  Submitters = {}
  Repliers = {}
  Recovery = rt
  Keys = {k1, k2}
  Contents = {c1}
  MaxSeq = 2
  MaxHistory = 0
  ScanLimit = 1
  MaxCopies = 1
  NoOne = nobody
  NoMessage = null
  Appenders = {a1, a2}
  Grace = FALSE
SYMMETRY KeySymmetry
VIEW DirectView
SPECIFICATION DirectSpec
PROPERTIES ImplementsStableLog
