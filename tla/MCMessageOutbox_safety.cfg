\* Two numbers, two keys: reservations, sealing, collection
\* and crashes of both processes around one Submit thread.
CONSTANTS
  Submitters = {s1}
  Repliers = {}
  Recovery = rt
  Keys = {k1, k2}
  Contents = {c1}
  MaxSeq = 2
  MaxHistory = 0
  ScanLimit = 1
  MaxCopies = 1
  NoOne = nobody
  NoMessage = null
SYMMETRY KeySymmetry
VIEW WithoutSessionLast
SPECIFICATION Spec
INVARIANTS TypeOK AcceptedIsDurable SealedNeverSent
PROPERTIES ImplementsStableLog
