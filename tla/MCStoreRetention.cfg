SPECIFICATION Spec
CONSTANTS
  s1 = s1
  s2 = s2
  s3 = s3
  x = x
  main = main
  Snapshots <- MCThreeSnapshots
  Files = {}
  FilesOf <- MCShardsOnly
  ScopeOf <- MCScopes
  Heads = {main}
  Pins = {}
  Publications <- MCIndexed
  Publishers = {w1}
  Readers = {}
  Policies <- MCRetentionPolicies
  Identities = {i1}
  None = None
  MaxPins = 1
  MaxPublications = 3
  MaxCollections = 1
  MaxClock = 1
PROPERTIES
  RetentionHonoured
CHECK_DEADLOCK FALSE
