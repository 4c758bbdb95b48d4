SPECIFICATION FairSpec
CONSTANTS
  MaxPipelines = 3
  MaxMessages = 3
INVARIANTS
  TypeOK
  OnlyLateStartsLeak
  OnlyCurrentIsWatched
  OverlayTellsState
PROPERTIES
  EveryStartResolves
CHECK_DEADLOCK FALSE
