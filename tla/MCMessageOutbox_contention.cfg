\* One key and two contents, a Submit thread and a writer outside its mutex, beside
\* rows of the older allocator.
CONSTANTS
  Submitters = {s1}
  Repliers = {r1}
  Recovery = rt
  Keys = {k1}
  Contents = {c1, c2}
  MaxSeq = 2
  MaxHistory = 1
  ScanLimit = 1
  MaxCopies = 1
  NoOne = nobody
  NoMessage = null
SYMMETRY KeySymmetry
SPECIFICATION Spec
INVARIANTS OneMessagePerSeq AcceptedIsDurable
