SPECIFICATION Spec
CONSTANTS
  siyi = siyi
  ai = ai
  a = a
  b = b
  NoPipeline = NoPipeline
  Cameras <- MCCameras
  Addresses <- MCAddresses
  DefaultAddress = a
  Answers <- MCAnswers
  MaxPings = 3
INVARIANTS
  TypeOK
  ShutdownFollowsScore
  VideoOnWhenNoneLow
  FastCamerasKeepVideo
  StreamIsConfiguredOrStartup
