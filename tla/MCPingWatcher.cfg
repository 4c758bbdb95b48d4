SPECIFICATION FairSpec
CONSTANTS
  near = near
  far = far
  Names <- MCNames
  Addresses <- MCAddresses
  Answers <- MCAnswers
  MaxRequests = 3
INVARIANTS
  TypeOK
  PipelineOrdered
  PendingIsOnTheWay
PROPERTIES
  LatestAskCounts
  ImplementsMonitor
  EveryRequestResolves
