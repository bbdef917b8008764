SPECIFICATION Spec
CONSTANTS
  s1 = s1
  s2 = s2
  s3 = s3
  x = x
  main = main
  Snapshots <- MCTwoSnapshots
  Files = {x}
  FilesOf <- MCSharedFile
  ScopeOf <- MCScopes
  Heads = {main}
  Pins = {}
  Publications <- MCIndexed
  Publishers = {w1, w2}
  Readers = {}
  Policies <- MCHeadsOnly
  Identities = {i1}
  None = None
  MaxPins = 1
  MaxPublications = 3
  MaxCollections = 1
  MaxClock = 0
INVARIANTS
  CatalogIntact
PROPERTIES
  SnapshotCatalogSpec
CHECK_DEADLOCK FALSE
