SPECIFICATION FairSpec
CONSTANTS
  MaxSdks = 2
  MaxDatagrams = 1
CHECK_DEADLOCK FALSE
INVARIANTS
  TypeOK
  NoUseAfterFree
  OneDestroyer
  OneReceiver
  ThreadIsFree
PROPERTIES
  DestructorEnds
  DetachedIsDestroyed
