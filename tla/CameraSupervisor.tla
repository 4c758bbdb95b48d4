-------------------------- MODULE CameraSupervisor --------------------------
(***************************************************************************)
(* MainWindow between the configuration file, the ping watcher and the one *)
(* video receiver (mainwindow.cpp).  A save or a choice of video source    *)
(* restarts the receiver on the newly configured stream; a ping outcome    *)
(* that takes a camera's score across the threshold stops and hides the    *)
(* video, or reopens and shows it.  Every handler runs to its end on the   *)
(* GUI thread.  The watcher is taken as its abstraction, HostMonitor,      *)
(* which PingWatcher implements.                                           *)
(*                                                                         *)
(* An RTSP URI stands for the address it is made of: the port and the path *)
(* change nothing here.  The servo has no video and is never watched:      *)
(* loadAllCameraIps() looks for a key no save writes.                      *)
(***************************************************************************)
EXTENDS HostScore

CONSTANTS
  Cameras,          \* the cameras that may be the video source
  Addresses,        \* network addresses
  DefaultAddress,   \* the one assumed for a source without configuration
  NoPipeline,       \* what plays when the receiver has no pipeline
  Answers,          \* Answers[a]: the outcomes [success, rtt] of pinging a
  MaxPings          \* bound: answers counted for one camera

Answer == {a \in [success : BOOLEAN, rtt : Int] :
             IF a.success THEN a.rtt >= 0 ELSE a.rtt = -1}

ASSUME AddressesAssumption ==
  DefaultAddress \in Addresses /\ NoPipeline \notin Addresses
ASSUME AnswersAssumption == Answers \in [Addresses -> SUBSET Answer]
ASSUME MaxPingsAssumption == MaxPings \in Nat

VARIABLES
  videoSource,          \* configuration file and dropdown: the source chosen
  address,              \* configuration file: camera |-> address, if configured
  rtspUri,              \* member rtspUri: the stream opened at startup
  playing,              \* what the receiver's pipeline plays
  shown,                \* TRUE iff videoWidget is visible
  videoShutdownStates,  \* the cameras whose entry is true
  monitor,              \* the watcher's hosts, as HostMonitor has them
  watching              \* isWatching() of the watcher

config == <<videoSource, address>>
video == <<playing, shown, videoShutdownStates>>
vars == <<config, rtspUri, video, monitor, watching>>

Watch == INSTANCE HostMonitor WITH
  Names <- Cameras, NoScore <- Reset, ScoreAfter <- UpdatePing

Configurations == UNION {[S -> Addresses] : S \in SUBSET Cameras}

\* Mutant of ConfiguredUri: no URI for a source without configuration.
MutantNoFallback(source, configured) ==
  IF source \in DOMAIN configured THEN configured[source] ELSE NoPipeline

ConfiguredUri(source, configured) ==
  IF source \in DOMAIN configured THEN configured[source] ELSE DefaultAddress

Enrolled(configured) == [c \in DOMAIN configured |-> Watch!New(configured[c])]

\* The constructor: the receiver opens what the file says, the member
\* rtspUri remembers it for good, and the watcher is set up.
Init ==
  /\ videoSource \in Cameras
  /\ address \in Configurations
  /\ rtspUri = ConfiguredUri(videoSource, address)
  /\ playing = rtspUri
  /\ shown = TRUE
  /\ videoShutdownStates = {}
  /\ monitor = Enrolled(address)
  /\ watching = (DOMAIN address # {})

----------------------------------------------------------------------------
(* Configuration.                                                          *)

\* Mutant of InitializePingWatcher: a running watcher is given the new hosts.
MutantAlwaysReinitialized ==
  /\ monitor' = Enrolled(address')
  /\ watching' = (DOMAIN address' # {})

\* A watcher that is running is left as it is.
InitializePingWatcher ==
  IF watching
  THEN UNCHANGED <<monitor, watching>>
  ELSE /\ monitor' = Enrolled(address')
       /\ watching' = (DOMAIN address' # {})

\* Mutant of ApplyConfig: the URI is read before the file is written.
MutantAppliesOldUri ==
  /\ playing' = ConfiguredUri(videoSource, address)
  /\ InitializePingWatcher
  /\ UNCHANGED <<rtspUri, shown, videoShutdownStates>>

ApplyConfig ==
  /\ playing' = ConfiguredUri(videoSource', address')
  /\ InitializePingWatcher
  /\ UNCHANGED <<rtspUri, shown, videoShutdownStates>>

\* The save and SIYI default buttons: the cameras whose fields are filled in.
\* (The default button writes the old format, which the controller's creation
\* inside ApplyConfig saves again in the new one.)
SaveConfig(configured) ==
  /\ DOMAIN configured # {}
  /\ address' = configured
  /\ UNCHANGED videoSource
  /\ ApplyConfig

UpdateVideoSourceInConfig(source) ==
  /\ videoSource' = source
  /\ UNCHANGED address

\* The dropdown: the new source need not be configured.
SelectVideoSource(source) ==
  /\ source # videoSource
  /\ UpdateVideoSourceInConfig(source)
  /\ ApplyConfig

\* cameraPoll, every 5 seconds.
RefreshAllCameraStatus ==
  /\ UNCHANGED <<config, rtspUri, video>>
  /\ InitializePingWatcher

----------------------------------------------------------------------------
(* Supervision.                                                            *)

IsLow(score) == score.overallScore < LowConnectivityThreshold

\* Mutant of ShutDownVideo: the widget stays.
MutantStopsWithoutHiding(name) ==
  /\ videoShutdownStates' = videoShutdownStates \cup {name}
  /\ playing' = NoPipeline
  /\ UNCHANGED shown

ShutDownVideo(name) ==
  /\ videoShutdownStates' = videoShutdownStates \cup {name}
  /\ playing' = NoPipeline
  /\ shown' = FALSE

\* Mutant of RestoreVideo: the widget stays hidden.
MutantRestoresHidden(name) ==
  /\ videoShutdownStates' = videoShutdownStates \ {name}
  /\ playing' = rtspUri
  /\ UNCHANGED shown

RestoreVideo(name) ==
  /\ videoShutdownStates' = videoShutdownStates \ {name}
  /\ playing' = rtspUri
  /\ shown' = TRUE

CheckAndHandleLowConnectivity(name, score) ==
  \/ IsLow(score) /\ name \notin videoShutdownStates /\ ShutDownVideo(name)
  \/ ~IsLow(score) /\ name \in videoShutdownStates /\ RestoreVideo(name)
  \/ (IsLow(score) <=> name \in videoShutdownStates) /\ UNCHANGED video

PingSent(name) ==
  /\ watching
  /\ Watch!Ask(name)
  /\ UNCHANGED <<config, rtspUri, video, watching>>

\* onPingResult() and the slots of MainWindow it calls.
PingAnswered(name, answer) ==
  /\ Watch!Answer(name, answer)
  /\ monitor[name].score.totalPings < MaxPings
  /\ CheckAndHandleLowConnectivity(name, monitor'[name].score)
  /\ UNCHANGED <<config, rtspUri, watching>>

Next ==
  \/ \E configured \in Configurations : SaveConfig(configured)
  \/ \E source \in Cameras : SelectVideoSource(source)
  \/ RefreshAllCameraStatus
  \/ \E name \in Cameras : PingSent(name)
  \/ \E name \in Cameras : \E a \in Addresses : \E answer \in Answers[a] :
       PingAnswered(name, answer)

Spec == Init /\ [][Next]_vars

----------------------------------------------------------------------------
(* Invariants.                                                             *)

HostView == [host : Addresses, lastStatus : BOOLEAN, lastRtt : Int,
             score : HostConnectivityScore, awaiting : BOOLEAN]

\* Configuration, video and hosts keep their types; only configured cameras
\* are ever watched.
TypeOK ==
  /\ videoSource \in Cameras
  /\ address \in Configurations
  /\ rtspUri \in Addresses
  /\ playing \in Addresses \cup {NoPipeline}
  /\ shown \in BOOLEAN
  /\ videoShutdownStates \subseteq Cameras
  /\ DOMAIN monitor \subseteq Cameras
  /\ monitor \in [DOMAIN monitor -> HostView]
  /\ watching \in BOOLEAN

Pinged(name) == name \in DOMAIN monitor /\ monitor[name].score.totalPings > 0

LowCameras == {c \in Cameras : Pinged(c) /\ IsLow(monitor[c].score)}

\* The flags of videoShutdownStates and the scores of the watcher, two maps
\* kept by two classes, agree after every step: a camera is flagged exactly
\* while it has been pinged and its score is low.  No reconfiguration may
\* reset one and leave the other.
ShutdownFollowsScore == videoShutdownStates = LowCameras

\* While no camera is low the video plays and is shown, whatever shutdowns,
\* restores and reconfigurations went before: nothing leaves it off for good.
\* A visible widget always has a pipeline drawing into it, low camera or not.
VideoOnWhenNoneLow ==
  /\ LowCameras = {} => shown
  /\ shown => playing # NoPipeline

\* While every camera pinged has answered at least once and averages 20 ms or
\* less, the video plays and is shown, however many pings have been lost and
\* whatever the other handlers did: the penalties cannot cost such cameras
\* the video.
FastCamerasKeepVideo ==
  (\A c \in Cameras :
     Pinged(c) => /\ monitor[c].score.successfulPings > 0
                  /\ monitor[c].score.averageRtt <= 20) =>
    playing # NoPipeline /\ shown

\* The stream played is the one configured now or the one of the startup: a
\* restore may bring the second back, but no stream of a configuration in
\* between survives.
StreamIsConfiguredOrStartup ==
  playing \in {NoPipeline, rtspUri, ConfiguredUri(videoSource, address)}

----------------------------------------------------------------------------
(* What comments of the code say.                                          *)

\* mainwindow.cpp:3047, at the receiver->stop() of a camera gone low: "Stop
\* video display for this camera".  So the camera that stops the video is
\* the one the video comes from.
StopsOnlyItsOwnVideo ==
  [][playing # NoPipeline /\ playing' = NoPipeline =>
       videoSource \in videoShutdownStates' \ videoShutdownStates]_vars

\* mainwindow.cpp:431, at refreshAllCameraStatus(): "Monitor all cameras
\* instead of just one".  So every configured camera is watched, at the
\* address it is configured with.
MonitorsAllCameras ==
  \A c \in DOMAIN address : c \in DOMAIN monitor /\ monitor[c].host = address[c]
=============================================================================
