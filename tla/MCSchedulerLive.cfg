SPECIFICATION FairSpec
CONSTANTS
  p1 = p1
  p2 = p2
  Profiles <- MCProfiles
  Requests <- MCRequests
  NoRequest = NoRequest
  MaxJobs = 3
  MaxHistory = 4
  MaxQueued = 2
  MaxCrashes = 0
  MaxFaults = 0
PROPERTIES
  NoOvertaking
  AcceptedFinishes
CHECK_DEADLOCK FALSE
