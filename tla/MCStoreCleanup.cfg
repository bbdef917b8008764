SPECIFICATION Spec
CONSTANTS
  s1 = s1
  s2 = s2
  s3 = s3
  x = x
  main = main
  Snapshots <- MCTwoSnapshots
  Files = {}
  FilesOf <- MCShardsOnly
  ScopeOf <- MCScopes
  Heads = {main}
  Pins = {}
  Publications <- MCIndexed
  Publishers = {w1}
  Readers = {}
  Policies <- MCHeadsOnly
  Identities = {i1, i2}
  None = None
  MaxPins = 1
  MaxPublications = 3
  MaxCollections = 2
  MaxClock = 0
INVARIANTS
  CleanupCanFinish
CHECK_DEADLOCK FALSE
