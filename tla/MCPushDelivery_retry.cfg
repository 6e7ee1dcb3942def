SPECIFICATION FairSpec
CONSTANTS
  s = s  g = g  r1 = r1  r2 = r2
  Threads = {s}
  Requests = {r1}
  Topic <- OneTopic
  RoomRequests = {r1}
  Attempts = 2
  UnaryTries = 2
  WriteTries = 2
  QueueMax = 1
  DedupMax = 2
  MaxFaults = 2
  None = None
INVARIANTS TypeOK HandledIsProcessed AckedIsDelivered FannedOutOnce
PROPERTIES WaitersAreWoken
CHECK_DEADLOCK FALSE
