CONSTANTS
  None = None
  Exited = Exited
  Unlimited = Unlimited
SPECIFICATION Spec
INVARIANTS
  NeighborhoodIsWhole
  DiffIsExact
  DataflowIsExact
  AlignmentIsRight
  ComplexityIsOfTheBody
  CallGraphIsCertain
  WindowIsTrue
  CapturesAreReal
  ArchivesAreWhole
  ImportsAreKept
  ShardsAreVerified
  PreparationsAreShared
  AnswersAreHonest
  TasksAreSupervised
  EventsAreReplayed
PROPERTIES
  SearchPagesJoin
  WatchPublishesFresh
CHECK_DEADLOCK FALSE
