SPECIFICATION FairSpec
CONSTANTS
  MaxSdks = 2
  MaxDatagrams = 1
CHECK_DEADLOCK FALSE
PROPERTY StopReturns
