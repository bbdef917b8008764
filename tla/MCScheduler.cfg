SPECIFICATION Spec
CONSTANTS
  p1 = p1
  p2 = p2
  Profiles <- MCProfiles
  Requests <- MCRequests
  NoRequest = NoRequest
  MaxJobs = 3
  MaxHistory = 2
  MaxQueued = 1
  MaxCrashes = 1
  MaxFaults = 0
INVARIANTS
  FenceInvariant
  OneAnalysis
  HistoryBounded
PROPERTIES
  FencedPublicationSpec
CHECK_DEADLOCK FALSE
