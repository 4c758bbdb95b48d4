# TLA+ models of HexaCam

HexaCam is a Qt desktop program that shows the RTSP video of a SIYI or an AI
camera, steers the camera's gimbal over UDP, and pings the cameras all the
while to stop the video of one that is hardly reachable. This directory holds
TLA+ models of its core, the TLC configurations that check them on small
instances, and TLAPS proofs of what holds for instances of any size. File and
line references are to the repository's sources.

## 1. The system

| Component | State | Operations | Talks to |
|---|---|---|---|
| Connectivity score (`ping.h`) | counters, running average, extremes and scores of one host | `updatePing`, `calculateScores`, `reset` | held by the watcher |
| Ping watcher (`ping.h`, `ping.cpp`) | map of hosts with their pending request id, timer, next id; one worker thread | `addHost`, `removeHost`, `startWatching`, `stopWatching`, `performPingCycle`, `onPingResult`; worker: `pingHost` | worker by queued calls, main window by signals emitted synchronously |
| Camera supervision (`mainwindow.cpp`) | `videoShutdownStates`, `rtspUri`, visibility of the video widget, one watcher | `initializePingWatcher`, the ping slots, `checkAndHandleLowConnectivity`, `applyConfig` | watcher, receiver, controller, configuration file |
| Configuration (`mainwindow.cpp`) | a JSON file in an old and a new format, form fields, dropdown | load, validate, save, save defaults, migrate | every other part reads the file |
| Video receiver (`VideoReceiver.cpp`, `VideoRecorderWidget.cpp`) | the GStreamer pipeline, its sink, the saved window | `start` (on a pool thread), `stop`, `setRtspUri`, `bus_call` | signals `cameraStarted` and `cameraError` to window and overlay |
| SIYI controller (`SiyiCameraController.cpp`) | SDK object, receive thread, running flag, life mutex | `start`, `stop`, speed, zoom, `setRtspUri` | SDK |
| SIYI protocol (`sdk.cpp`, `message.cpp`, `crc16.cpp`) | sequence number, last state received | encode, decode, receive loop | UDP socket |
| Servo controller and client (`ServoCameraController.cpp`, `servo_client.cpp`) | socket, timeout, last position | connect, request, disconnect | UDP socket |
| Gimbal input (`mainwindow.cpp`) | axis values, keys held, mode, 50 ms command timer | joystick, key and button handlers | controller |
| Recording (`mainwindow.cpp`) | ffmpeg process, recording state | start, stop, clock | receiver (is it playing?) |

Everything of the main window runs on the GUI thread, one handler at a time.
The concurrency is elsewhere: the ping worker behind two event queues, the pool
thread on which the receiver starts, the SIYI receive thread.

Behaviours that are hard, by component:

* **Watcher**: answers later than the next question, answers about an address
  the host has lost, hosts removed with pings queued, a worker slower than the
  timer. Correct means: an answer counts for the host that asked, once, for its
  present address, and nobody waits for ever.
* **Score**: truncating average, stacked penalties, long runs. Correct means:
  ranges, consistent counters, scores that move with the pings.
* **Supervision**: several cameras and several reconfigurations act on one
  receiver and one widget. Correct means: flags agree with scores, nothing
  leaves the video off for good, the video comes from the configured source.
* **Receiver**: a pipeline pointer used by a pool thread while the GUI thread
  releases it, errors swallowed by the throttle. Correct means: no use after
  release, an erring stream is eventually restarted.
* **SIYI controller**: a stop that gives a thread 300 ms and then detaches it,
  an SDK object that two threads own, a destructor that joins threads blocked in
  a call without timeout, descriptors that are reused. Correct means: no SDK is
  freed under a thread, leaked or destroyed twice, and a stop ends.
* **SIYI protocol**: numbers cut to a byte out of printed hexadecimal digits.
  Correct means: the camera reads the speed that was meant.
* **Configuration**: migration inside an apply, three readers with different
  defaults, a file truncated before it is written, an end of the program at any
  point. Correct means: the window shows and commands what the file says, and
  no setting is lost.
* **Input**: opposite keys, changes of mode with a key held, a link that loses
  commands. Correct means: no motion without a cause, and the camera ends up
  doing what the window says.
* **Recording**: stop must remain possible when the stream has ended.

PROJECT.json lists the hazards with their lines.

## 2. Modules

| Module | What it is |
|---|---|
| `HostScore` | pure operators: the score record and `UpdatePing` |
| `ConnectivityScore` | state machine of one record under pings and resets |
| `HostMonitor` | abstract specification of the watcher: enrol, dismiss, ask, answer |
| `PingWatcher` | the watcher: GUI thread, worker thread, two queues; implements `HostMonitor` |
| `CameraSupervisor` | main window, configuration and receiver, on top of `HostMonitor` |
| `VideoReceiver` | the receiver's pipelines against pool threads, GStreamer's messages, overlay |
| `SiyiController` | the SDK objects a controller makes one after another, their threads, sockets and ends |
| `SiyiProtocol` | pure operators: the numbers in a SIYI message |
| `GimbalControl` | keys, joystick, buttons and modes, on top of `SiyiProtocol`, and the link to the camera |
| `AppConfig` | the configuration file, its formats and the window made from it |
| `...Proofs` (eight) | the theorems of the module they are named after; those of `SiyiProtocol` are in `GimbalControlProofs` |
| `MC...` | instances for TLC |

`PingWatcher` and `CameraSupervisor` both keep `HostScore` records. The
supervisor uses the watcher through its abstraction, `Watch == INSTANCE
HostMonitor`; that the real watcher implements it is a checked and proved
refinement (`ImplementsMonitor`). The operators named `Mutant...` are plausible
wrong versions of the operator below them. No specification uses them: each one
shows that some property tells it from the code.

**HostScore.** One operator per block of `calculateScores()` and `updatePing()`.
Left out: names, error text, time stamps. The loss percentage, a double in the
code, is compared exactly: with 32-bit counters the double falls on the same
side of the limits.

**PingWatcher.** One action per method; `performPingCycle()` is taken apart into
`BeginPingCycle` and one `QueuePing` per host in key order, because the worker
runs between two iterations. No other GUI handler does (`GuiIdle`). The worker's
`pingHost` is `WorkerTake` and `WorkerFinish`; between them the GUI may do
anything. The order in which `hosts` is searched for a result is kept.
`Answers[a]` says what a ping of `a` may find. The durations of pings and timer
are left out: a ping may outlast any number of ticks. That is more than real
timing allows on a good day, but one ping may take 5 s by its own limits (1 s to
start, 3 s to finish, 1 s to be killed) and the tick is 3 s.

**CameraSupervisor.** The file is two variables, `videoSource` and `address`
(camera to address, for the cameras with a configuration). An URI stands for its
address. `ApplyConfig` restarts the receiver and calls `InitializePingWatcher`,
as the code does. `PingAnswered` is the whole of `onPingResult()` with the slots
it calls, because the signals are delivered in the same thread. The camera
controller, texts and colours are left out, as are failures to open the file and
to create the pipeline.

**VideoReceiver.** What `CameraSupervisor` sees as one step, stop or reopen, is
here what it is: state to NULL and watch off (`TearDown`), unref (`Release`),
member cleared (`Clear`), on the GUI thread or, when the window closes, on a pool
thread at the same time. `Reopen` is `setRtspUri()` with the `start()` that every
caller adds; it leaves a task in `starts`. GStreamer is external: a pipeline that
was set to PLAYING comes to play (`StreamStarts`) or fails (`StreamFails`), and
says so on its bus; error and end of stream are one message, because `bus_call()`
treats them alike. A message refers to the pipeline that posted it. When the task
of a `start()` takes a pipeline out of NULL between `TearDown` and `Release`, the
bus accepts messages again and nobody takes them, so the unref does not destroy
the pipeline, which may play on. A task that comes later still finds a pipeline
that is destroyed; a call on one is undefined: it may end the
program (`crashed`) or be refused by GStreamer's check of its argument, which
`start()` reports as a failed start. `StopReleased` is the second of two
overlapping stops on a pipeline whose reference the first has given up.
The two seconds of the throttle are a timer
that is recent or expired. Two history variables name what the properties
except: `revived`, the pipelines a task took out of NULL since a stop set it, and
`swallowed`, the broken pipelines one of whose failures the throttle dropped.
Left out: sinks and window handle, the analysis of the
caps, the order of the destructors after `~MainWindow()` has stopped the receiver.

**SiyiController.** An SDK owns a socket, two polling threads (one here, they
differ in period and request only) and a receiving thread; the controller adds a
second receiving thread that shares the SDK. `stop()` is `StopBegins` (the flag),
`StopJoins` or `StopDetaches` (the 300 ms, which may end at any moment) and
`StopReleases`; `~SIYI_SDK()` is `CloseSocket`, `EndThreads` and, once its threads
are `Joined`, `GuiDestroys` or `ThreadDestroys`, by who dropped the last
reference. The kernel is external: a call to `recvfrom()` looks its descriptor up
when it starts and keeps its socket from then on, a close does not wake it, and
the number of a closed descriptor may be given to the next socket. Answers may be
lost. The life mutex is left out because the GUI thread alone takes it:
`setRtspUri()`, which would take it twice (SiyiCameraController.cpp:300), is
called by nobody. Of what an answer says one thing is kept: whether it is too short
for its parser (sdk.cpp:307), which then throws. The controller's thread catches
that outside its loop and ends with its flag still set, which the history
variable `threw` records; in the SDK's own thread nothing catches it, and the
program ends (`crashed`). A start that failed ends the program too, as
mainwindow.cpp:2830 uses the pointer it has just reset. The plain `bool`s that
tell threads to leave are read and written without synchronisation; the model
takes the outcome in which a write is seen some time later.

**SiyiProtocol and GimbalControl.** A message is a string of hexadecimal digits
in the code; the functions that print an int and keep digits from one end of the
result are residues here. `GimbalControl` has an action for each handler;
`currentYawSpeed` and `currentPitchSpeed` are one function of the axis. A
keyboard repeats: `Repeat` is the release or press of a key that stays down.
`SetGimbalSpeed` puts a command on its way or not (it was lost, or both tries
failed), `Deliver` brings it to the camera, which turns at the speeds of the last
command it got. `excused` is a history variable for the two legitimate ways a
speed loses its key: a click on an arrow button, and a release that went to a
text field. The axes' curve from deflection to speed is reduced to a set of speeds
with 0, the dead zone. The SIYI controller is taken as running, because a window
without one has crashed (see `SiyiController`).

**AppConfig.** The functions of the window call one another, so each of them is
an operator from the record `app` to the record after it, and each handler is one
action made of these: `ApplyConfig` may save from inside, through
`createCameraControllerFromConfig()`, where the static flag `applying` stops
`saveConfig()` short of applying again (`SaveInApply`). A file is in the new
format, the old one, missing or unreadable; the settings of a camera are its
address or `None`. Each handler takes a `disk`: it works, refuses to open the
file, or is full and leaves it empty; a handler that writes several times meets
the same disk each time. `Quit` is the end of the program, in the middle of a
write too. `stale` notes that the file was rewritten between the reading of the
controller's address and its use. The key `videoSource` that
`updateVideoSourceInConfig()` adds to an old file is left out: only the status
display reads it there.

## 3. What is checked

| Run | States | Bounds | Shows |
|---|---|---|---|
| `score` | 76 thousand | 10 pings between resets; times 3, 20, 30, 160 | types, counters, ranges, a faithful average, threshold; score follows pings |
| `watcher` | 57 thousand | 2 hosts, 2 addresses, no cycle from the third request on | pipeline order, pending requests, latest question counts, refinement, every request resolves |
| `supervisor` | 563 thousand | 2 cameras, 2 addresses, 3 pings each | flags follow scores, video on when none low and so while all are fast, no empty widget, one of two streams |
| `receiver` | 70 thousand | 3 pipelines, no stream fails with 3 messages on its bus | only a late start leaks a pipeline, only the present one is watched, overlay tells the state but for two named exceptions, every start resolves |
| `siyi` | 43 thousand | 2 SDKs, 1 datagram to a socket at a time | SDKs are whole while used, destroyed once, receivers go on until told or thrown out, each on its own socket, thread handle free, ends come |
| `control` | 648 thousand | 2 opposite keys and one of the other axis, a stick at rest or at its end, 1 command on its way | no motion without a cause; a camera in step stays so, others come to follow window, stick and released keys |
| `config` | 32 thousand | 1 address beside the five defaults | window, file and controller agree; migration; no setting lost; a restart shows what was saved |
| `start_race` | violated | as `receiver` | a reset destroys a pipeline that a queued start will use |
| `lost_updates` | violated | as `watcher` | a cycle discards the answers to the one before |
| `foreign_shutdown` | violated | as `supervisor` | a camera that is not the source stops the video |
| `unwatched_camera` | violated | as `supervisor` | a save does not reach the watcher |
| `siyi_stop` | violated | as `siyi` | a stop waits for ever to join a thread in `recvfrom()` |

Why the bounds are enough. *score*: all penalty and bonus thresholds (3 failures,
5 successes, the cap at 4 failures, the bonus of 5 after 10 successes) and all
loss bands occur within ten pings, and the times fall into the best, the last
good and two bad bands. *watcher*: three requests and two hosts give two requests
of the same host on their way at once with a third between them, and changes of
address and removals at any point; a cycle begun at the bound still finishes, so
up to four ids occur. *supervisor*: three pings take a camera low, up and low
again; sources and addresses change without bound. *receiver*: three
pipelines let the task, the report and the messages of one outlive it by one and
by two; three messages hold a change of state between two failures. *siyi*: two SDKs
are a stopped one, whose threads linger, and its successor, which may get its
descriptor; a datagram is there or not, more of them change nothing but how often
a call returns. *control*: two opposite keys, held in any combination and
repeated, with a key of the other axis; an axis of the stick in or out of its dead
zone; with one command on its way and any number lost, every delay a stop can
meet occurs. *config*: the address of one's own, the defaults and none are all
that readers and writers tell apart; handlers, failures and restarts are not
bounded. The theorems remove the bounds.

Action properties: `ScoreFollowsPings`, `AverageIsSluggish`, `LatestAskCounts`,
`StaysInStep`, `SettingsSurvive`. Refinement: `ImplementsMonitor`. Liveness:
`EveryRequestResolves`, `EveryStartResolves`, `DestructorEnds`,
`DetachedIsDestroyed`, `CameraFollows`, `StickIsObeyed`, `HandsOffStops`.

**Fairness** (`watcher`, `receiver`, `siyi` and `control` have it, `FairSpec`). In `watcher`: weak
fairness for the worker's two steps: its event loop runs, and a ping ends because
`pingHostWithStats()` waits with limits and kills. Weak fairness for the loop of a cycle, which is
straight-line code. Strong fairness for `OnPingResult`: results are events
posted to the GUI thread, delivered in order between other events; a timer or
user may run first any number of times, but not for ever. Users and the timer
have no fairness.
In `receiver`: weak fairness for GStreamer's end of a change of state, by playing
or failing; for each pipeline's messages and reports on the GUI thread, each pool
task and each stop, whose code has no loop. Nothing forces a user to act, a stream
to fail or the timer to expire.
In `siyi`: weak fairness for every step of a thread that does not wait, and for
the end of the 300 ms; strong fairness for the calls that wait on a socket, which
the kernel wakes in turn, and for an answer of the camera to a socket that is
polled. All of it holds while the program runs: none of it keeps an uncaught
exception from ending it. The last one assumes a camera that answers now and then,
not that its answers are long enough; `DestructorEnds`
and `StopReturns` say what becomes of a stop when the SDK's polling is over too.
In `control`: weak fairness for the two timers' handlers and the network; strong
fairness for a command of the timer that arrives: a link may lose any number of
commands, but not all of them from some time on. Nothing forces the operator. The
three properties speak of an operator who leaves alone, from some time on, what
their premises name.

**Deadlock** is checked in the runs of the first three modules, where hosts and
pings can always be added, reset or asked, and in `control` and `config`. It is
off in `receiver` and `start_race`, as a closed or crashed program stops, and in
`siyi` and `siyi_stop`, where the program may have crashed, hang in the
destructor, or have made all its SDKs.

## 4. What is proved

For all values of the constants that satisfy the modules' assumptions:

* *HostScoreProofs*: `Sound` says when a record is one that resets and pings
  alone can make: counters that add up, an average between the extremes, derived
  scores that are those of the present counters. `ResetSound` and
  `UpdatePingSound` establish and preserve it for any time an `int` holds;
  `SoundScoreMonotone` carries the order of two sound records' terms over to
  their scores. The three machines that hold such records, the two below and
  the main window, cite these lemmas and prove nothing about scores of their own.
* *ConnectivityScoreProofs*: every property of run `score`. The inductive
  invariant is `Sound(score)` with the history of the times (their sum bounds
  count times average, their extremes are those of the record).
  `FastHostIsNeverLow` rests on the bounds of each term of the score;
  monotonicity of the terms gives `ScoreAlwaysFollowsPings`; lemmas on integer
  division give `AverageIsAlwaysFaithful` and the average's sluggishness.
  `AverageOverflowsNoEarlierThanSum` bounds the product of ping.h:118 by the plain
  sum of the times: in the average, unbounded integers are a faithful stand-in for
  `int` as long as the times of a host add up to at most `INT_MAX`. Assumption: times are
  natural numbers below `INT_MAX`.
* *PingWatcherProofs*: type correctness, `PipelineOrdered`, `PendingIsOnTheWay`,
  `LatestAskCounts`, and the refinement `ImplementsMonitor`. The pending id alone
  is not inductive: the invariant adds that the id pending is the last one given
  to its host, that a result reports what pinging its address may report, and
  that every record is sound (`WatchedScoresAreSound`). The refinement maps
  `pendingRequestId` to the flag `awaiting` and forgets queues and ids; worker
  steps stutter. `PatientTicksLoseNoUpdate` is the other side of the run
  `lost_updates`: under the premise that a cycle starts only with no ping on its
  way (`PatientTicks`), each cycle does update each host; its proof adds that then
  no host is pending when a cycle begins. Assumptions: host names are numbers
  (only their order matters), successful answers have a natural time, failures
  the time -1.
* *CameraSupervisorProofs*: all invariants of run `supervisor`. The invariant
  adds that a stopped video is hidden, that a hidden one has a camera flagged,
  that an idle watcher has no hosts, so that setting it up resets no score a flag
  was set from, and that every record is sound (`ScoresAreSound`).
  `FastCamerasAlwaysKeepVideo` joins the arithmetic of the score with the flags:
  cameras that average 20 ms or less have scores above the threshold, hence no
  flags, hence the video. `LoneCameraStopsOnlyItself` and
  `FirstConfigurationIsWatched` are the other sides of the runs
  `foreign_shutdown` and `unwatched_camera`: the comments they refute are true of
  a window that watches only the camera it shows, and until addresses are saved
  while the watcher runs.
* *VideoReceiverProofs*: all invariants of run `receiver`, for any number of
  pipelines and messages. `OnlyLateStartsEverLeak` needs an account of what keeps
  each pipeline alive (`Accounted`): it is watched, hence the member's; or a task
  took it out of NULL; or a stop has set it to NULL and emptied its bus and is
  about to release it, which then destroys it. The invariant adds
  what a stop has achieved at each stage, so that the second of two
  overlapping stops finds nothing to spoil, that until a stop releases it the
  member's pipeline is there, and that a closing window opens
  nothing. For the overlay it adds that the changes of state waiting on the bus
  lead from `wasPlaying` to the pipeline's present state without telling twice
  in a row that it plays, and that a broken stream which still counts as playing
  has a failure waiting on its bus or had one swallowed; lemmas say how taking and
  appending a message keep that. `OverlayAlwaysTellsState` thus leaves exactly two
  exceptions, both named in the property. `OnlyTwoRacesCrash` says that a destroyed pipeline ends the program only
  through a start that comes too late or between the two stops of a closing
  window.
  `PromptStartsSurviveReset` is the other side of the run `start_race`: if stops
  begin only when the pool has run every start, the comment the run refutes is
  true. Under the same premise no pipeline leaks at all (`PromptStartsNeverLeak`).
  Assumption: at least one pipeline.
* *SiyiControllerProofs*: all invariants of run `siyi`, for any number of SDKs.
  The invariant says for each SDK and each state of the GUI thread how far its
  threads may have come: an SDK is unborn in every respect or in none, the
  controller's thread has the reference it needs until it is gone, a flag that is
  set belongs to the present SDK, whose thread is in its loop or was thrown out of
  it, and the handle stands for a thread exactly while
  the controller runs and has not joined or detached. A second invariant,
  `SocketInv`, is about descriptors: open sockets have different numbers, an SDK's
  own thread listens as long as its socket is open, and where it waits then is
  that socket. It gives the last parts of `OneReceiver`, and `OpenSocketIsFound`: the reuse of a descriptor
  confuses only the threads of an SDK that is being destroyed. Two theorems hold
  the safety that `DestructorEnds` and the run `siyi_stop` turn on:
  `OnlySilenceHoldsStop`, a destructor can always go on unless its receiving
  thread waits where no datagram is, and `DestructorWaitsBounded`, a decreasing
  measure of the steps it may still have to wait for.
* *GimbalControlProofs*: first the numbers, for every int: a speed survives the
  way through the hexadecimal digits up to the clamp (`SpeedRoundTrip`), two messages
  in a row carry different numbers except the two around the restart, which both
  carry 0 (`NeighboursDifferButAtRestart`), 256 in a row have 256 numbers up to the
  restart (`SeqTellsApart`), after which they repeat (`SeqRepeats`), lengths below 256 are exact. Then type
  correctness, for which the invariant adds that the bytes on their way are those
  of speeds in the window's range (of other bytes the camera would make other
  speeds), and `MotionHasACause`, for which it adds that a servo has no pitch
  speed but an excused one. `CameraStaysInStep` follows from a lemma for each
  handler that what it sends is what it leaves in the window, and from
  `SpeedRoundTrip`; `HandsOffIsStill` is the part of `HandsOffStops` that is
  safety, so that only the arrival of a resent command is left to TLC.
* *AppConfigProofs*: all properties of run `config`, for any set of hosts.
  Each function of the window has a lemma on what it leaves of the record:
  `applyConfig()` always leaves video and controller in agreement with the file
  (`ApplyConfigFacts`), `saveConfig()` does the same or nothing, a start on a file
  of the new format writes nothing and shows all of it. The invariant
  adds that a program that is off has an empty form and that, on a disk that
  works, a running one has a file. `SettingsSurvive`, an action property, follows
  from the same lemmas. Assumption: the word for no settings is no host.

Five theorems have a premise beyond the specification: `PatientTicks`,
`PromptStarts` (two of them), `OnlySourceWatched` and `SavedBeforeWatching`. The code guarantees
none of them, which is what the violated runs show, and ordinary behaviours
satisfy each: pings faster than the interval, pool threads faster than the
operator, one camera that is also the source, a configuration saved once. With a
violated run such a theorem says where the documentation stops being right.

The seven liveness properties (`EveryRequestResolves`, `EveryStartResolves`,
`DestructorEnds`, `DetachedIsDestroyed`, `CameraFollows`, `StickIsObeyed`,
`HandsOffStops`) are only model-checked: liveness under fairness is out of the
prover's reach. The five violated properties are only model-checked too, the last
of them, `StopReturns`, being one of liveness.
The inductive invariants themselves were checked with TLC before they were
proved.

## 5. What the models found

`lost_updates`, `foreign_shutdown`, `unwatched_camera`, `start_race` and
`siyi_stop` are violated by what the code does; PROJECT.json "findings" quotes the
sentence each contradicts. The model-checked invariants bound the damage:
`StreamIsConfiguredOrStartup` says which stale stream a restore may bring back,
`AverageIsSluggish` which slowdown the average does not see, `DestructorEnds` that
nothing but a silent socket holds a stop up, `OnlyLateStartsLeak` by which race alone
a pipeline outlives its stop, `OverlayTellsState` in which two cases the overlay is
wrong, `OneReceiver` what an answer too short to parse leaves of the receiving, `ControllerMatchesVideo` that a
rewritten old file is the only way to command another configured camera than the one shown,
`excused` the only ways to leave a speed without a key. Other findings met while
reading are listed there without a run.

`FastHostNeverLow` deserves a look by whoever maintains the threshold: a camera
that answered quickly once keeps its video although it has been down for days.
Configuration mode deserves one too: it is the mode in which nothing is resent, so
`CameraFollows` does not speak of it, and a camera that turns when the operator
enters it goes on turning.

## 6. Not modelled, and the plan

The share of the repository's lines that the map covers is small and stays small:
of its 54 thousand lines of C and C++, well over half are headers of SDL under
`src/QJoysticks/lib`, 3 thousand an unused JSON parser, and a third of
`mainwindow.cpp` is layout, texts and code that is commented out. Of the
program's own code the following is not modelled:

* **Servo controller and client**: no request can be sent. The worker that would
  send them is commented out, `setGimbalPosition()` is a placeholder, and no file
  that the program saves selects the controller. What its presence does to the
  keys is in `GimbalControl`, when it comes about in `AppConfig`.
* **Recording**: one process under one handler, which blocks the GUI thread until
  the process has ended. Its two faults, a stop refused once the stream has ended
  and the address of the startup, are findings without a run.
* **SIYI protocol**: the CRC and the decoding of answers, but for whether a parser
  throws; no part of the program uses what an answer says. Zoom and autofocus, each one message without state.
* **Signal handler** (nothing instantiates it), `ping_old.cpp` (not built),
  layout, colours, texts, the debug button of a build with `_DEBUG`, Qt's own
  shutdown of a thread with a backlog.

The plan has left: the composition of `SiyiController` and `AppConfig`, where
each apply is a stop and a start; the process of a recording against the state
of the stream; the CRC as a function against a reference; a proof that
`CameraSupervisor` implements a one-camera abstraction when only one camera is
configured.
