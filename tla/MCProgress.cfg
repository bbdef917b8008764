CONSTANTS
  None = None
  Exited = Exited
  Unlimited = Unlimited
SPECIFICATION Spec
PROPERTIES
  WatchEnds
  WatchCatchesUp
  EventsReachTheEnd
  RequestsEnd
  WalksEnd
CHECK_DEADLOCK FALSE
