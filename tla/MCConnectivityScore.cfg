SPECIFICATION Spec
CONSTANTS
  Rtts <- MCRtts
  MaxPings = 10
INVARIANTS
  TypeOK
  CountersSound
  ScoresInRange
  AverageIsFaithful
  FastHostNeverLow
PROPERTIES
  ScoreFollowsPings
  AverageIsSluggish
