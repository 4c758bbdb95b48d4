SPECIFICATION Spec
CONSTANTS
  near = near
  far = far
  Names <- MCNames
  Addresses <- MCAddresses
  Answers <- MCAnswers
  MaxRequests = 3
PROPERTIES
  UpdatesWithEachCycle
