SPECIFICATION Spec
CONSTANTS
  MaxPipelines = 3
  MaxMessages = 3
INVARIANTS
  StartSurvivesReset
CHECK_DEADLOCK FALSE
