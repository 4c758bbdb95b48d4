SPECIFICATION FairSpec
CONSTANTS
  Keys = {"Q", "D", "Z"}
  StickSpeeds = {0, 50}
  MaxInFlight = 1
INVARIANTS
  TypeOK
  MotionHasACause
PROPERTIES
  StaysInStep
  CameraFollows
  StickIsObeyed
  HandsOffStops
