SPECIFICATION Spec
CONSTANTS
  s1 = s1
  s2 = s2
  s3 = s3
  x = x
  main = main
  Snapshots <- MCTwoSnapshots
  Files = {}
  FilesOf <- MCShardsOnly
  ScopeOf <- MCScopes
  Heads = {main}
  Pins = {pin}
  Publications <- MCIndexedAndImported
  Publishers = {w1}
  Readers = {r1}
  Policies <- MCHeadsOnly
  Identities = {i1}
  None = None
  MaxPins = 1
  MaxPublications = 2
  MaxCollections = 1
  MaxClock = 0
INVARIANTS
  ReadersKeepSnapshots
PROPERTIES
  SnapshotCatalogSpec
CHECK_DEADLOCK FALSE
