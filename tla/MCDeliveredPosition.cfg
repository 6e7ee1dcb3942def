\* Three numbers of one body, pages of one row.
CONSTANTS
  MaxSeq = 3
  Message = {m}
  NoMessage = null
  PageLimit = 1
SPECIFICATION FairSpec
INVARIANTS TypeOK DeliveredWasHanded ResyncIsComplete
PROPERTIES PositionCatchesUp
