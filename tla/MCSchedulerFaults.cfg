SPECIFICATION Spec
CONSTANTS
  p1 = p1
  p2 = p2
  Profiles <- MCProfiles
  Requests <- MCOneProfile
  NoRequest = NoRequest
  MaxJobs = 3
  MaxHistory = 2
  MaxQueued = 1
  MaxCrashes = 1
  MaxFaults = 1
INVARIANTS
  OneActivePerProfile
  RunningIsSupervised
PROPERTIES
  SupersededNeverPublishes
  PublicationsAdvance
  TerminalIsFinal
CHECK_DEADLOCK FALSE
