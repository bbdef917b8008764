SPECIFICATION FairSpec
CONSTANTS
  p1 = p1
  p2 = p2
  Profiles <- MCProfiles
  Requests <- MCRequests
  NoRequest = NoRequest
  MaxJobs = 3
  MaxHistory = 2
  MaxQueued = 1
  MaxCrashes = 0
  MaxFaults = 0
PROPERTIES
  AcceptedFinishes
CHECK_DEADLOCK FALSE
