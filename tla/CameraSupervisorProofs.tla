----------------------- MODULE CameraSupervisorProofs -----------------------
(***************************************************************************)
(* The flags of MainWindow and the scores of the watcher agree, and the    *)
(* video is on while no camera is low, for any cameras, addresses and ping *)
(* outcomes.  The flags alone do not imply it: the invariant adds that a   *)
(* stopped video is hidden, that a hidden one has a camera flagged, and    *)
(* that a watcher not running has no host whose score could be reset.      *)
(***************************************************************************)
EXTENDS CameraSupervisor, HostScoreProofs

ScoresSound == \A c \in DOMAIN monitor : Sound(monitor[c].score)

OffOnlyWhileFlagged ==
  /\ playing = NoPipeline => ~shown
  /\ ~shown => videoShutdownStates # {}

IdleWatcherIsEmpty == ~watching => DOMAIN monitor = {}

IInv ==
  /\ TypeOK
  /\ ScoresSound
  /\ ShutdownFollowsScore
  /\ OffOnlyWhileFlagged
  /\ IdleWatcherIsEmpty
  /\ StreamIsConfiguredOrStartup

----------------------------------------------------------------------------

\* A configuration gives every source an address, if only the default one.
LEMMA ConfiguredUriType ==
  ASSUME NEW source, NEW configured \in Configurations
  PROVE  ConfiguredUri(source, configured) \in Addresses
  BY AddressesAssumption DEF ConfiguredUri, Configurations

\* Hosts just enrolled are well typed, unpinged, and the configured cameras.
LEMMA EnrolledType ==
  ASSUME NEW configured \in Configurations
  PROVE  LET m == Enrolled(configured)
         IN  /\ DOMAIN m \subseteq Cameras
             /\ DOMAIN m = DOMAIN configured
             /\ m \in [DOMAIN m -> HostView]
             /\ \A c \in DOMAIN m : m[c].score = Reset
  <1>1. DOMAIN configured \subseteq Cameras
        /\ \A c \in DOMAIN configured : configured[c] \in Addresses
    BY DEF Configurations
  <1>2. ASSUME NEW a \in Addresses
        PROVE  Watch!New(a) \in HostView /\ Watch!New(a).score = Reset
    BY ResetSound DEF Watch!New, HostView, Sound
  <1> QED BY <1>1, <1>2 DEF Enrolled

\* Where no camera has been pinged, none is low.
LEMMA UnpingedNotLow ==
  ASSUME \A c \in DOMAIN monitor : monitor[c].score = Reset
  PROVE  LowCameras = {}
  BY ResetSound DEF LowCameras, Pinged

\* The constructor establishes the invariant.
LEMMA InitInv == Init => IInv
  <1> SUFFICES ASSUME Init PROVE IInv
    OBVIOUS
  <1>1. monitor = Enrolled(address) /\ address \in Configurations
    BY DEF Init
  <1>2. /\ DOMAIN monitor \subseteq Cameras
        /\ DOMAIN monitor = DOMAIN address
        /\ monitor \in [DOMAIN monitor -> HostView]
        /\ \A c \in DOMAIN monitor : monitor[c].score = Reset
    BY <1>1, EnrolledType
  <1>3. rtspUri \in Addresses /\ playing = rtspUri
    BY ConfiguredUriType DEF Init
  <1>4. TypeOK
    BY <1>2, <1>3 DEF Init, TypeOK
  <1>5. ScoresSound
    BY <1>2, ResetSound DEF ScoresSound
  <1>6. ShutdownFollowsScore
    BY <1>2, UnpingedNotLow DEF Init, ShutdownFollowsScore
  <1>7. OffOnlyWhileFlagged
    BY <1>3, AddressesAssumption DEF Init, OffOnlyWhileFlagged
  <1>8. IdleWatcherIsEmpty
    BY <1>2 DEF Init, IdleWatcherIsEmpty
  <1>9. StreamIsConfiguredOrStartup
    BY <1>3 DEF StreamIsConfiguredOrStartup
  <1> QED BY <1>4, <1>5, <1>6, <1>7, <1>8, <1>9 DEF IInv

----------------------------------------------------------------------------
(* Steps.                                                                  *)

\* Setting up the watcher leaves a running one alone, and an idle one had no
\* host: either way the flags still match the scores.
LEMMA InitializePingWatcherInv ==
  ASSUME IInv, InitializePingWatcher, address' \in Configurations,
         UNCHANGED videoShutdownStates
  PROVE  /\ DOMAIN monitor' \subseteq Cameras
         /\ monitor' \in [DOMAIN monitor' -> HostView]
         /\ watching' \in BOOLEAN
         /\ ScoresSound'
         /\ ShutdownFollowsScore'
         /\ IdleWatcherIsEmpty'
  <1>1. CASE watching
    <2>1. UNCHANGED <<monitor, watching>>
      BY <1>1 DEF InitializePingWatcher
    <2> QED
      BY <2>1 DEF IInv, TypeOK, ScoresSound, ShutdownFollowsScore, LowCameras,
                  Pinged, IsLow, IdleWatcherIsEmpty
  <1>2. CASE ~watching
    <2>1. monitor' = Enrolled(address') /\ watching' = (DOMAIN address' # {})
      BY <1>2 DEF InitializePingWatcher
    <2>2. /\ DOMAIN monitor' \subseteq Cameras
          /\ DOMAIN monitor' = DOMAIN address'
          /\ monitor' \in [DOMAIN monitor' -> HostView]
          /\ \A c \in DOMAIN monitor' : monitor'[c].score = Reset
      BY <2>1, EnrolledType
    <2>3. LowCameras = {} /\ LowCameras' = {}
      BY <1>2, <2>2, ResetSound DEF IInv, IdleWatcherIsEmpty, LowCameras, Pinged
    <2>4. ScoresSound'
      BY <2>2, ResetSound DEF ScoresSound
    <2>5. ShutdownFollowsScore'
      BY <2>3 DEF IInv, ShutdownFollowsScore
    <2>6. IdleWatcherIsEmpty'
      BY <2>1, <2>2 DEF IdleWatcherIsEmpty
    <2> QED BY <2>1, <2>2, <2>4, <2>5, <2>6
  <1> QED BY <1>1, <1>2

\* A new configuration is applied: the receiver restarts on its stream.
LEMMA ApplyConfigInv ==
  ASSUME IInv, ApplyConfig, videoSource' \in Cameras, address' \in Configurations
  PROVE  IInv'
  <1>1. /\ playing' = ConfiguredUri(videoSource', address')
        /\ InitializePingWatcher
        /\ UNCHANGED <<rtspUri, shown, videoShutdownStates>>
    BY DEF ApplyConfig
  <1>2. playing' \in Addresses
    BY <1>1, ConfiguredUriType
  <1>3. /\ DOMAIN monitor' \subseteq Cameras
        /\ monitor' \in [DOMAIN monitor' -> HostView]
        /\ watching' \in BOOLEAN
        /\ ScoresSound'
        /\ ShutdownFollowsScore'
        /\ IdleWatcherIsEmpty'
    BY <1>1, InitializePingWatcherInv
  <1>4. TypeOK'
    BY <1>1, <1>2, <1>3 DEF IInv, TypeOK
  <1>5. OffOnlyWhileFlagged'
    BY <1>1, <1>2, AddressesAssumption DEF IInv, OffOnlyWhileFlagged
  <1>6. StreamIsConfiguredOrStartup'
    BY <1>1 DEF StreamIsConfiguredOrStartup
  <1> QED BY <1>3, <1>4, <1>5, <1>6 DEF IInv

\* The 5 s poll sets up a watcher that is not running, and nothing else.
LEMMA RefreshInv ==
  ASSUME IInv, RefreshAllCameraStatus
  PROVE  IInv'
  <1>1. InitializePingWatcher /\ UNCHANGED <<config, rtspUri, video>>
    BY DEF RefreshAllCameraStatus
  <1>2. address' \in Configurations /\ UNCHANGED videoShutdownStates
    BY <1>1 DEF IInv, TypeOK, config, video
  <1>3. /\ DOMAIN monitor' \subseteq Cameras
        /\ monitor' \in [DOMAIN monitor' -> HostView]
        /\ watching' \in BOOLEAN
        /\ ScoresSound'
        /\ ShutdownFollowsScore'
        /\ IdleWatcherIsEmpty'
    BY <1>1, <1>2, InitializePingWatcherInv
  <1>4. TypeOK' /\ OffOnlyWhileFlagged' /\ StreamIsConfiguredOrStartup'
    BY <1>1, <1>3 DEF IInv, TypeOK, OffOnlyWhileFlagged,
                      StreamIsConfiguredOrStartup, config, video
  <1> QED BY <1>3, <1>4 DEF IInv

\* Asking about a host changes no score and no flag.
LEMMA PingSentInv ==
  ASSUME IInv, NEW name \in Cameras, PingSent(name)
  PROVE  IInv'
  <1>1. /\ name \in DOMAIN monitor
        /\ monitor' = [monitor EXCEPT ![name] = Watch!Asked(monitor[name])]
        /\ UNCHANGED <<config, rtspUri, video, watching>>
    BY DEF PingSent, Watch!Ask
  <1>2. monitor[name] \in HostView
    BY <1>1 DEF IInv, TypeOK
  <1>3. /\ Watch!Asked(monitor[name]) \in HostView
        /\ Watch!Asked(monitor[name]).score = monitor[name].score
    BY <1>2 DEF Watch!Asked, HostView
  <1>4. /\ DOMAIN monitor' = DOMAIN monitor
        /\ monitor' \in [DOMAIN monitor' -> HostView]
        /\ \A c \in DOMAIN monitor : monitor'[c].score = monitor[c].score
    BY <1>1, <1>3 DEF IInv, TypeOK
  <1>5. TypeOK' /\ ScoresSound' /\ OffOnlyWhileFlagged' /\ IdleWatcherIsEmpty'
        /\ StreamIsConfiguredOrStartup'
    BY <1>1, <1>4 DEF IInv, TypeOK, ScoresSound, OffOnlyWhileFlagged,
       IdleWatcherIsEmpty, StreamIsConfiguredOrStartup, config, video
  <1>6. LowCameras' = LowCameras
    BY <1>4 DEF LowCameras, Pinged, IsLow
  <1> QED BY <1>1, <1>5, <1>6 DEF IInv, ShutdownFollowsScore, video

\* What an answer does to the host it is about, and to no other.
LEMMA AnsweredHost ==
  ASSUME IInv, NEW name \in Cameras, NEW a \in Addresses, NEW answer \in Answers[a],
         PingAnswered(name, answer)
  PROVE  /\ name \in DOMAIN monitor
         /\ DOMAIN monitor' = DOMAIN monitor
         /\ monitor' \in [DOMAIN monitor' -> HostView]
         /\ \A c \in DOMAIN monitor \ {name} : monitor'[c] = monitor[c]
         /\ monitor'[name].score.totalPings > 0
         /\ ScoresSound'
  <1>1. /\ name \in DOMAIN monitor
        /\ monitor' = [monitor EXCEPT ![name] = Watch!Told(monitor[name], answer)]
    BY DEF PingAnswered, Watch!Answer
  <1>2. answer \in Answer
    BY AnswersAssumption
  <1>3. /\ answer.success \in BOOLEAN /\ answer.rtt \in Int
        /\ IF answer.success THEN answer.rtt \in Nat ELSE answer.rtt = -1
    BY <1>2 DEF Answer
  <1>4. /\ monitor[name] \in HostView
        /\ Sound(monitor[name].score)
        /\ monitor[name].score.totalPings \in Nat
    BY <1>1, SoundNumbers DEF IInv, TypeOK, ScoresSound
  <1> DEFINE s == UpdatePing(monitor[name].score, answer.success, answer.rtt)
  <1>5. /\ s \in HostConnectivityScore
        /\ Sound(s)
        /\ s.totalPings = monitor[name].score.totalPings + 1
    BY <1>3, <1>4, UpdatePingSound, SoundNumbers
  <1>6. Watch!Told(monitor[name], answer).score = s
        /\ Watch!Told(monitor[name], answer) \in HostView
    BY <1>3, <1>4, <1>5 DEF Watch!Told, HostView
  <1> HIDE DEF s
  <1>7. s.totalPings > 0
    BY <1>4, <1>5
  <1>8. monitor \in [DOMAIN monitor -> HostView]
    BY DEF IInv, TypeOK
  <1>9. /\ DOMAIN monitor' = DOMAIN monitor
        /\ monitor'[name] = Watch!Told(monitor[name], answer)
        /\ \A c \in DOMAIN monitor \ {name} : monitor'[c] = monitor[c]
        /\ monitor' \in [DOMAIN monitor' -> HostView]
    BY <1>1, <1>6, <1>8
  <1>10. ScoresSound'
    BY <1>5, <1>6, <1>9 DEF IInv, ScoresSound
  <1> QED BY <1>1, <1>6, <1>7, <1>9, <1>10

\* The flag of the host answered for follows its new score; the video goes
\* with the flag, whatever it was before.
LEMMA PingAnsweredInv ==
  ASSUME IInv, NEW name \in Cameras, NEW a \in Addresses, NEW answer \in Answers[a],
         PingAnswered(name, answer)
  PROVE  IInv'
  <1> DEFINE low == IsLow(monitor'[name].score)
  <1>1. /\ name \in DOMAIN monitor
        /\ DOMAIN monitor' = DOMAIN monitor
        /\ monitor' \in [DOMAIN monitor' -> HostView]
        /\ \A c \in DOMAIN monitor \ {name} : monitor'[c] = monitor[c]
        /\ monitor'[name].score.totalPings > 0
        /\ ScoresSound'
    BY AnsweredHost
  <1>2. /\ CheckAndHandleLowConnectivity(name, monitor'[name].score)
        /\ UNCHANGED <<config, rtspUri, watching>>
    BY DEF PingAnswered
  <1>3. \A c \in Cameras \ {name} : c \in LowCameras' <=> c \in LowCameras
    BY <1>1 DEF LowCameras, Pinged, IsLow
  <1>4. name \in LowCameras' <=> low
    BY <1>1 DEF LowCameras, Pinged
  <1>5. rtspUri \in Addresses /\ rtspUri # NoPipeline
    BY AddressesAssumption DEF IInv, TypeOK
  <1> HIDE DEF low
  <1>6. CASE ShutDownVideo(name) /\ low
    <2>1. /\ videoShutdownStates' = videoShutdownStates \cup {name}
          /\ playing' = NoPipeline /\ shown' = FALSE
      BY <1>6 DEF ShutDownVideo
    <2>2. TypeOK'
      BY <1>1, <1>2, <2>1 DEF IInv, TypeOK, config
    <2>3. ShutdownFollowsScore'
      BY <1>3, <1>4, <1>6, <2>1 DEF IInv, ShutdownFollowsScore, LowCameras
    <2> QED
      BY <1>1, <1>2, <2>1, <2>2, <2>3
      DEF IInv, OffOnlyWhileFlagged, IdleWatcherIsEmpty, StreamIsConfiguredOrStartup
  <1>7. CASE RestoreVideo(name) /\ ~low
    <2>1. /\ videoShutdownStates' = videoShutdownStates \ {name}
          /\ playing' = rtspUri /\ shown' = TRUE
      BY <1>7 DEF RestoreVideo
    <2>2. TypeOK'
      BY <1>1, <1>2, <1>5, <2>1 DEF IInv, TypeOK, config
    <2>3. ShutdownFollowsScore'
      BY <1>3, <1>4, <1>7, <2>1 DEF IInv, ShutdownFollowsScore, LowCameras
    <2> QED
      BY <1>1, <1>2, <1>5, <2>1, <2>2, <2>3
      DEF IInv, OffOnlyWhileFlagged, IdleWatcherIsEmpty, StreamIsConfiguredOrStartup
  <1>8. CASE (low <=> name \in videoShutdownStates) /\ UNCHANGED video
    <2>1. TypeOK'
      BY <1>1, <1>2, <1>8 DEF IInv, TypeOK, config, video
    <2>2. ShutdownFollowsScore'
      BY <1>3, <1>4, <1>8 DEF IInv, ShutdownFollowsScore, LowCameras, video
    <2> QED
      BY <1>1, <1>2, <1>8, <2>1, <2>2
      DEF IInv, OffOnlyWhileFlagged, IdleWatcherIsEmpty, StreamIsConfiguredOrStartup,
          config, video
  <1> QED BY <1>2, <1>6, <1>7, <1>8 DEF CheckAndHandleLowConnectivity, low

\* Every handler keeps it.
LEMMA StepInv == IInv /\ [Next]_vars => IInv'
  <1> SUFFICES ASSUME IInv, [Next]_vars PROVE IInv'
    OBVIOUS
  <1>1. CASE \E configured \in Configurations : SaveConfig(configured)
    BY <1>1, ApplyConfigInv DEF SaveConfig, IInv, TypeOK
  <1>2. CASE \E source \in Cameras : SelectVideoSource(source)
    BY <1>2, ApplyConfigInv DEF SelectVideoSource, UpdateVideoSourceInConfig, IInv, TypeOK
  <1>3. CASE RefreshAllCameraStatus
    BY <1>3, RefreshInv
  <1>4. CASE \E name \in Cameras : PingSent(name)
    BY <1>4, PingSentInv
  <1>5. CASE \E name \in Cameras : \E a \in Addresses : \E answer \in Answers[a] :
               PingAnswered(name, answer)
    BY <1>5, PingAnsweredInv
  <1>6. CASE UNCHANGED vars
    BY <1>6 DEF vars, config, video, IInv, TypeOK, ScoresSound, ShutdownFollowsScore,
       LowCameras, Pinged, IsLow, OffOnlyWhileFlagged, IdleWatcherIsEmpty,
       StreamIsConfiguredOrStartup
  <1> QED BY <1>1, <1>2, <1>3, <1>4, <1>5, <1>6 DEF Next

----------------------------------------------------------------------------
(* The theorems.                                                           *)

\* The inductive invariant holds in every reachable state.
THEOREM Invariance == Spec => []IInv
  BY InitInv, StepInv, PTL DEF Spec

\* The types of the configuration, of the video and of the watched hosts.
THEOREM TypeCorrect == Spec => []TypeOK
  <1>1. IInv => TypeOK
    BY DEF IInv
  <1> QED BY <1>1, Invariance, PTL

\* A camera is flagged in videoShutdownStates exactly while it has been
\* pinged and its score is low (mainwindow.cpp:3036-3087).
THEOREM FlagsFollowScores == Spec => []ShutdownFollowsScore
  <1>1. IInv => ShutdownFollowsScore
    BY DEF IInv
  <1> QED BY <1>1, Invariance, PTL

\* While no camera is low, the video plays and is shown; no visible widget
\* is without a pipeline.
THEOREM VideoIsOnWhenNoneLow == Spec => []VideoOnWhenNoneLow
  <1>1. IInv => VideoOnWhenNoneLow
    BY DEF IInv, ShutdownFollowsScore, OffOnlyWhileFlagged, VideoOnWhenNoneLow, TypeOK
  <1> QED BY <1>1, Invariance, PTL

\* Every camera's record is sound, across every reconfiguration.
THEOREM ScoresAreSound == Spec => []ScoresSound
  <1>1. IInv => ScoresSound
    BY DEF IInv
  <1> QED BY <1>1, Invariance, PTL

\* Cameras that average 20 ms or less never cost the operator the video,
\* however many pings are lost: the arithmetic of calculateScores()
\* (ping.h:129-168) through the flags of mainwindow.cpp:3036-3087.
THEOREM FastCamerasAlwaysKeepVideo == Spec => []FastCamerasKeepVideo
  <1>1. IInv => FastCamerasKeepVideo
    <2> SUFFICES ASSUME IInv,
                        \A c \in Cameras :
                          Pinged(c) => /\ monitor[c].score.successfulPings > 0
                                       /\ monitor[c].score.averageRtt <= 20
                 PROVE  playing # NoPipeline /\ shown
      BY DEF FastCamerasKeepVideo
    <2>1. ASSUME NEW c \in Cameras, Pinged(c)
          PROVE  ~IsLow(monitor[c].score)
      <3>1. Sound(monitor[c].score)
        BY <2>1 DEF IInv, ScoresSound, Pinged
      <3>2. /\ monitor[c].score.overallScore >= LowConnectivityThreshold + 5
            /\ monitor[c].score.overallScore \in 0..100
        BY <2>1, <3>1, FastRecordNeverLow, SoundNumbers
      <3> QED BY <3>2 DEF IsLow, LowConnectivityThreshold
    <2>2. LowCameras = {}
      BY <2>1 DEF LowCameras
    <2> QED BY <2>2 DEF IInv, ShutdownFollowsScore, OffOnlyWhileFlagged, TypeOK
  <1> QED BY <1>1, Invariance, PTL

\* The receiver plays the configured stream or the one of the startup.
THEOREM StreamIsOneOfTwo == Spec => []StreamIsConfiguredOrStartup
  <1>1. IInv => StreamIsConfiguredOrStartup
    BY DEF IInv
  <1> QED BY <1>1, Invariance, PTL

----------------------------------------------------------------------------
(* When the comments that the runs ForeignShutdown and UnwatchedCamera     *)
(* refute are true.                                                        *)

\* Nobody but the camera that is shown is watched.
OnlySourceWatched == [](DOMAIN monitor \subseteq {videoSource})

\* The comment at mainwindow.cpp:3047 is true of a window that watches only
\* the camera it shows: no save, change of source or poll stops the video, only
\* an answer for a watched camera that was not flagged before.
THEOREM LoneCameraStopsOnlyItself == Spec /\ OnlySourceWatched => StopsOnlyItsOwnVideo
  <1>1. IInv /\ DOMAIN monitor \subseteq {videoSource} /\ [Next]_vars =>
          [playing # NoPipeline /\ playing' = NoPipeline =>
             videoSource \in videoShutdownStates' \ videoShutdownStates]_vars
    <2> SUFFICES ASSUME IInv, DOMAIN monitor \subseteq {videoSource}, Next,
                        playing # NoPipeline, playing' = NoPipeline
                 PROVE  videoSource \in videoShutdownStates' \ videoShutdownStates
      OBVIOUS
    <2>1. ASSUME ApplyConfig, address' \in Configurations
          PROVE  FALSE
      BY <2>1, ConfiguredUriType, AddressesAssumption DEF ApplyConfig
    <2>2. PICK name \in Cameras :
            \E a \in Addresses : \E answer \in Answers[a] : PingAnswered(name, answer)
      BY <2>1 DEF Next, SaveConfig, SelectVideoSource, UpdateVideoSourceInConfig,
                  RefreshAllCameraStatus, PingSent, video, IInv, TypeOK
    <2>3. /\ name \in DOMAIN monitor
          /\ CheckAndHandleLowConnectivity(name, monitor'[name].score)
      BY <2>2 DEF PingAnswered, Watch!Answer
    <2>4. rtspUri # NoPipeline
      BY AddressesAssumption DEF IInv, TypeOK
    <2>5. name \notin videoShutdownStates /\ ShutDownVideo(name)
      BY <2>3, <2>4 DEF CheckAndHandleLowConnectivity, RestoreVideo, video
    <2>6. name = videoSource
      BY <2>3
    <2> QED BY <2>5, <2>6 DEF ShutDownVideo
  <1> QED BY <1>1, Invariance, PTL DEF Spec, OnlySourceWatched, StopsOnlyItsOwnVideo

\* No address is saved while the watcher runs.
SavedBeforeWatching == [][watching => UNCHANGED address]_vars

\* Asking and answering leave each host where it is.
LEMMA HostsStay ==
  ASSUME NEW name \in Cameras,
         \/ PingSent(name)
         \/ \E a \in Addresses : \E answer \in Answers[a] : PingAnswered(name, answer)
  PROVE  /\ DOMAIN monitor' = DOMAIN monitor
         /\ \A c \in DOMAIN monitor : monitor'[c].host = monitor[c].host
         /\ UNCHANGED address
  BY DEF PingSent, PingAnswered, Watch!Ask, Watch!Answer, Watch!Asked, Watch!Told, config

\* The comment at mainwindow.cpp:431 is true until a save finds the watcher
\* running: every configured camera is watched at its address, as long as
\* addresses are saved only where nothing was configured before.
THEOREM FirstConfigurationIsWatched ==
  Spec /\ SavedBeforeWatching => []MonitorsAllCameras
  <1>1. Init => MonitorsAllCameras
    BY DEF Init, MonitorsAllCameras, Enrolled, Watch!New
  <1>2. MonitorsAllCameras /\ [Next]_vars /\ [watching => UNCHANGED address]_vars
          => MonitorsAllCameras'
    <2> SUFFICES ASSUME MonitorsAllCameras, Next, watching => UNCHANGED address
                 PROVE  MonitorsAllCameras'
      BY DEF vars, config, MonitorsAllCameras
    <2>1. CASE InitializePingWatcher
      <3>1. CASE watching
        BY <2>1, <3>1 DEF InitializePingWatcher, MonitorsAllCameras
      <3>2. CASE ~watching
        BY <2>1, <3>2 DEF InitializePingWatcher, MonitorsAllCameras, Enrolled, Watch!New
      <3> QED BY <3>1, <3>2
    <2>2. ASSUME NEW name \in Cameras,
                 \/ PingSent(name)
                 \/ \E a \in Addresses : \E answer \in Answers[a] : PingAnswered(name, answer)
          PROVE  MonitorsAllCameras'
      BY <2>2, HostsStay DEF MonitorsAllCameras
    <2> QED
      BY <2>1, <2>2 DEF Next, SaveConfig, SelectVideoSource, ApplyConfig,
                        RefreshAllCameraStatus
  <1> QED BY <1>1, <1>2, PTL DEF Spec, SavedBeforeWatching
=============================================================================
