SPECIFICATION Spec
CONSTANTS
  s = s  g = g  r1 = r1  r2 = r2
  Threads = {s, g}
  Requests = {r1, r2}
  Topic <- TwoTopics
  RoomRequests = {r2}
  Attempts = 1
  UnaryTries = 1
  WriteTries = 2
  QueueMax = 1
  DedupMax = 1
  MaxFaults = 1
  None = None
INVARIANTS HandledIsProcessed InFlightIsBegun RegisteredIsOwed
CHECK_DEADLOCK FALSE
