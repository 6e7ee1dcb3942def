\* Two connections over the life of the user, the watchdog and one push.
CONSTANTS
  Conn = {k1, k2}
  MaxGen = 2
  Pusher = {p}
  Watchdog = w
  MaxBumps = 1
SPECIFICATION FairRoomSpec
INVARIANTS RoomTypeOK NewestIsRouted RouteHasOwner EvictedStaysOut EvictedGetsNothing
PROPERTIES RemovedMemberLeaves
