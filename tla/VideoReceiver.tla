---------------------------- MODULE VideoReceiver ----------------------------
(***************************************************************************)
(* The receiver of the camera's stream (VideoReceiver.cpp) and the "Signal *)
(* Lost" overlay over it (VideoRecorderWidget.cpp).  One GStreamer         *)
(* pipeline at a time is built, started, watched and destroyed by the GUI  *)
(* thread; start() also sets its state from a pool thread, and closing the *)
(* window stops it on a pool thread while the destructor of the window     *)
(* stops it on the GUI thread.                                             *)
(*                                                                         *)
(* Pipelines are numbered as they are built, 0 is the null pointer.  A     *)
(* call on a destroyed pipeline is undefined: it ends the program, or      *)
(* GStreamer's check of its argument fails.  GStreamer's state lock makes  *)
(* the changes of state of one pipeline exclude each other, so each is one *)
(* step.  States short of PLAYING are told apart only by their target.     *)
(***************************************************************************)
EXTENDS Naturals, Sequences

CONSTANTS
  MaxPipelines,   \* bound: pipelines built
  MaxMessages     \* bound: no stream fails with so many messages on its bus

ASSUME MaxPipelinesAssumption == MaxPipelines \in Nat \ {0}
ASSUME MaxMessagesAssumption == MaxMessages \in Nat

Null == 0
Pipelines == 1 .. MaxPipelines
Threads == {"gui", "pool"}

VARIABLES
  pipeline,     \* the member: a pipeline or Null
  life,         \* life[p]: unborn, down (NULL or READY), starting, playing, destroyed
  broken,       \* pipelines whose stream has failed since it was last started
  watched,      \* pipelines whose bus messages reach bus_call()
  bus,          \* bus[p]: messages Playing, NotPlaying, Failure not yet handled
  wasPlaying,   \* the static of bus_call()
  errorTimer,   \* its other static: invalid, recent (at most 2 s) or expired
  lastSignal,   \* the signal last emitted to window and overlay
  starts,       \* pipelines whose start() waits for a pool thread
  failures,     \* failed starts whose report is posted to the GUI thread
  stage,        \* stage[t]: how far the stop() run by thread t has come
  reopening,    \* TRUE iff the GUI thread's stop is followed by a new pipeline
  crashed,      \* TRUE iff a call on a destroyed pipeline ended the program
  revived,      \* history: pipelines a task took out of NULL since stop() set it
  swallowed     \* history: broken pipelines with a failure that was not handled

history == <<revived, swallowed>>
gst == <<life, broken, watched, bus, history>>
signals == <<wasPlaying, errorTimer, lastSignal>>
tasks == <<starts, failures>>
stopping == <<stage, reopening>>
vars == <<pipeline, gst, signals, tasks, stopping, crashed>>

Closing == stage["pool"] # "idle"
GuiIdle == stage["gui"] = "idle" /\ ~Closing

\* The member points to a pipeline whose reference a stop() has given up.
Dangling ==
  pipeline # Null /\ (life[pipeline] = "destroyed" \/ \E u \in Threads : stage[u] = "released")
Unborn == {p \in Pipelines : life[p] = "unborn"}

\* The constructor builds the first pipeline and sets it to PLAYING.
Init ==
  /\ pipeline = 1
  /\ life = [p \in Pipelines |-> IF p = 1 THEN "starting" ELSE "unborn"]
  /\ broken = {}
  /\ watched = {1}
  /\ bus = [p \in Pipelines |-> IF p = 1 THEN <<"NotPlaying">> ELSE << >>]
  /\ wasPlaying = FALSE
  /\ errorTimer = "invalid"
  /\ lastSignal = "none"
  /\ starts = {}
  /\ failures = {}
  /\ stage = [t \in Threads |-> "idle"]
  /\ reopening = FALSE
  /\ crashed = FALSE
  /\ revived = {}
  /\ swallowed = {}

----------------------------------------------------------------------------
(* GStreamer.                                                              *)

\* The change of state that set_state(PLAYING) began ends.
StreamStarts(p) ==
  /\ life[p] = "starting"
  /\ p \notin broken
  /\ life' = [life EXCEPT ![p] = "playing"]
  /\ bus' = [bus EXCEPT ![p] = Append(@, "Playing")]
  /\ UNCHANGED <<pipeline, broken, watched, history, signals, tasks, stopping, crashed>>

\* An error or the end of the stream; one loss may be reported many times.
StreamFails(p) ==
  /\ life[p] \in {"starting", "playing"}
  /\ Len(bus[p]) < MaxMessages
  /\ broken' = broken \cup {p}
  /\ bus' = [bus EXCEPT ![p] = Append(@, "Failure")]
  /\ UNCHANGED <<pipeline, life, watched, history, signals, tasks, stopping, crashed>>

----------------------------------------------------------------------------
(* Building, starting and stopping.                                        *)

\* createPipeline(), which plays what it builds.
CreatePipeline(p) ==
  /\ pipeline' = p
  /\ life' = [life EXCEPT ![p] = "starting"]
  /\ bus' = [bus EXCEPT ![p] = <<"NotPlaying">>]
  /\ watched' = watched \cup {p}
  /\ UNCHANGED <<broken, history>>

\* start(), called after setRtspUri(): the pointer is copied for the pool.
Start(p) ==
  /\ starts' = starts \cup {p}
  /\ UNCHANGED failures

\* receiver->stop() of a camera gone low.
Stop ==
  /\ GuiIdle
  /\ pipeline # Null
  /\ stage' = [stage EXCEPT !["gui"] = "begun"]
  /\ UNCHANGED <<pipeline, gst, signals, tasks, reopening, crashed>>

\* setRtspUri() and start(), of a restore or of applyConfig(); what stop()
\* or setRtspUri() does to the pipeline there is comes first.
Reopen ==
  /\ GuiIdle
  /\ Unborn # {}
  /\ stage' = [stage EXCEPT !["gui"] = "begun"]
  /\ reopening' = TRUE
  /\ UNCHANGED <<pipeline, gst, signals, tasks, crashed>>

\* closeEvent() leaves stop() to the pool and ends the event loop, after
\* which ~MainWindow() calls stop() too.
Close ==
  /\ GuiIdle
  /\ stage' = [t \in Threads |-> "begun"]
  /\ UNCHANGED <<pipeline, gst, signals, tasks, reopening, crashed>>

Ended(t) == IF Closing THEN "done" ELSE "idle"

\* The end of a stop() by thread t, or the rest of setRtspUri() and start().
Finish(t) ==
  /\ stage' = [stage EXCEPT ![t] = Ended(t)]
  /\ IF t = "gui" /\ reopening
     THEN \E p \in Unborn :
            /\ \A q \in Unborn : p <= q
            /\ CreatePipeline(p)
            /\ Start(p)
            /\ reopening' = FALSE
     ELSE /\ pipeline' = Null
          /\ UNCHANGED <<gst, tasks, reopening>>
  /\ UNCHANGED <<signals, crashed>>

\* No pipeline: nothing to stop.
NothingToStop(t) ==
  /\ stage[t] = "begun"
  /\ pipeline = Null
  /\ Finish(t)

\* set_state(NULL), which flushes the bus.
SetNull(p) ==
  /\ life' = [life EXCEPT ![p] = "down"]
  /\ broken' = broken \ {p}
  /\ bus' = [bus EXCEPT ![p] = << >>]
  /\ revived' = revived \ {p}
  /\ swallowed' = swallowed \ {p}

\* Mutant of TearDown: the bus watch stays.
MutantKeptWatch(t) ==
  /\ stage[t] = "begun"
  /\ pipeline # Null
  /\ ~Dangling
  /\ SetNull(pipeline)
  /\ stage' = [stage EXCEPT ![t] = "tornDown"]
  /\ UNCHANGED <<pipeline, watched, signals, tasks, reopening, crashed>>

\* set_state(NULL) and the removal of the bus watch.
TearDown(t) ==
  /\ stage[t] = "begun"
  /\ pipeline # Null
  /\ ~Dangling
  /\ SetNull(pipeline)
  /\ watched' = watched \ {pipeline}
  /\ stage' = [stage EXCEPT ![t] = "tornDown"]
  /\ UNCHANGED <<pipeline, signals, tasks, reopening, crashed>>

\* The last reference is gone.
Destroy(p) ==
  /\ life' = [life EXCEPT ![p] = "destroyed"]
  /\ broken' = broken \ {p}
  /\ bus' = [bus EXCEPT ![p] = << >>]
  /\ swallowed' = swallowed \ {p}
  /\ UNCHANGED <<watched, revived>>

\* Mutant of Release: no gst_object_unref().
MutantNotReleased(t) ==
  /\ stage[t] = "tornDown"
  /\ ~Dangling
  /\ stage' = [stage EXCEPT ![t] = "released"]
  /\ UNCHANGED <<pipeline, gst, signals, tasks, reopening, crashed>>

\* gst_object_unref() of the member, read again; null is refused.  Messages
\* that a task has caused since the flush refer to the pipeline, and with the
\* watch gone nobody takes them: they keep it alive.
Release(t) ==
  /\ stage[t] = "tornDown"
  /\ ~Dangling
  /\ IF pipeline # Null /\ bus[pipeline] = << >> THEN Destroy(pipeline) ELSE UNCHANGED gst
  /\ stage' = [stage EXCEPT ![t] = "released"]
  /\ UNCHANGED <<pipeline, signals, tasks, reopening, crashed>>

\* The member is cleared.
Clear(t) == stage[t] = "released" /\ Finish(t)

\* stop() meets a pipeline whose reference the other thread has given up but
\* which it has not cleared: a flush or another unref may end what lived on.
StopReleased(t) ==
  /\ stage[t] \in {"begun", "tornDown"}
  /\ Dangling
  /\ Destroy(pipeline) \/ (stage[t] = "tornDown" /\ UNCHANGED gst)
  /\ stage' = [stage EXCEPT ![t] = "released"]
  /\ crashed' \in BOOLEAN
  /\ UNCHANGED <<pipeline, signals, tasks, reopening>>

StopStep(t) ==
  NothingToStop(t) \/ TearDown(t) \/ Release(t) \/ Clear(t) \/ StopReleased(t)

----------------------------------------------------------------------------
(* The task start() gives to the pool.                                     *)

\* Leaving NULL ends the flushing of the bus and posts a message.
Revive(p) ==
  /\ bus' = [bus EXCEPT ![p] = Append(@, "NotPlaying")]
  /\ revived' = revived \cup {p}

\* set_state(PLAYING) brings a live pipeline up; one that plays stays.
StartSucceeds(p) ==
  /\ life[p] \in {"down", "starting", "playing"}
  /\ life' = [life EXCEPT ![p] = IF @ = "playing" THEN @ ELSE "starting"]
  /\ broken' = IF life[p] = "playing" THEN broken ELSE broken \ {p}
  /\ swallowed' = IF life[p] = "playing" THEN swallowed ELSE swallowed \ {p}
  /\ IF life[p] = "down" THEN Revive(p) ELSE UNCHANGED <<bus, revived>>
  /\ UNCHANGED <<watched, failures, crashed>>

\* A pipeline in NULL fails there or on its way from READY.
StartFails(p) ==
  /\ life[p] \in {"down", "starting"}
  /\ broken' = broken \cup {p}
  /\ failures' = failures \cup {p}
  /\ \/ life[p] = "down" /\ Revive(p)
     \/ UNCHANGED <<bus, revived>>
  /\ UNCHANGED <<life, watched, swallowed, crashed>>

\* Mutant of StartDestroyed: the task uses the member, not its copy.
MutantReportsMember(p) ==
  /\ life[p] = "destroyed"
  /\ crashed' \in BOOLEAN
  /\ failures' = failures \cup {pipeline}
  /\ UNCHANGED gst

\* The copied pointer is to a pipeline destroyed since.
StartDestroyed(p) ==
  /\ life[p] = "destroyed"
  /\ crashed' \in BOOLEAN
  /\ failures' = failures \cup {p}
  /\ UNCHANGED gst

\* The receiver itself is gone: the task returns.
StartForgotten ==
  /\ stage["gui"] = "done"
  /\ UNCHANGED <<gst, failures, crashed>>

RunStart(p) ==
  /\ p \in starts
  /\ starts' = starts \ {p}
  /\ StartSucceeds(p) \/ StartFails(p) \/ StartDestroyed(p) \/ StartForgotten
  /\ UNCHANGED <<pipeline, signals, stopping>>

----------------------------------------------------------------------------
(* What reaches the GUI thread.                                            *)

\* The report of a failed start, whatever has happened to the pipeline since.
ShowStartFailure(p) ==
  /\ GuiIdle
  /\ p \in failures
  /\ failures' = failures \ {p}
  /\ lastSignal' = "Failed to start"
  /\ UNCHANGED <<pipeline, gst, wasPlaying, errorTimer, starts, stopping, crashed>>

\* Mutant of StateChanged: a stream that stops is not noted.
MutantNotedOnce(p, nowPlaying) ==
  /\ wasPlaying' = (wasPlaying \/ nowPlaying)
  /\ lastSignal' = IF p # pipeline \/ nowPlaying = wasPlaying THEN lastSignal
                   ELSE IF nowPlaying THEN "cameraStarted" ELSE "Stream stopped"

\* STATE_CHANGED: signals only for a change of the last known state.
StateChanged(p, nowPlaying) ==
  IF p # pipeline \/ nowPlaying = wasPlaying
  THEN UNCHANGED <<wasPlaying, lastSignal>>
  ELSE /\ wasPlaying' = nowPlaying
       /\ lastSignal' = IF nowPlaying THEN "cameraStarted" ELSE "Stream stopped"

\* Messages posted when the pipeline goes to READY.
Stopped == IF life[pipeline] = "playing" THEN <<"NotPlaying">> ELSE << >>

\* Mutant of Recover: the pipeline is left in READY.
MutantLeftReady(rest) ==
  /\ life' = [life EXCEPT ![pipeline] = "down"]
  /\ broken' = broken \ {pipeline}
  /\ swallowed' = swallowed \ {pipeline}
  /\ bus' = [rest EXCEPT ![pipeline] = @ \o Stopped]

\* To READY and to PLAYING again; the message handled is off the bus.
Recover(rest) ==
  /\ life' = [life EXCEPT ![pipeline] = "starting"]
  /\ broken' = broken \ {pipeline}
  /\ swallowed' = swallowed \ {pipeline}
  /\ bus' = [rest EXCEPT ![pipeline] = @ \o Stopped]

\* bus_call() takes the first message of a watched bus.  Without a pipeline it
\* returns at once, but then no message comes (OnlyCurrentIsWatched).
Delivers(p, messages) ==
  /\ GuiIdle
  /\ p \in watched
  /\ pipeline # Null
  /\ bus[p] # << >>
  /\ Head(bus[p]) \in messages

Taken(p) == [bus EXCEPT ![p] = Tail(@)]

\* The throttle runs from the first message of all.
Throttle == IF errorTimer = "invalid" THEN "recent" ELSE errorTimer

HandleStateChange(p) ==
  /\ Delivers(p, {"Playing", "NotPlaying"})
  /\ StateChanged(p, Head(bus[p]) = "Playing")
  /\ errorTimer' = Throttle
  /\ bus' = Taken(p)
  /\ UNCHANGED <<pipeline, life, broken, watched, history, tasks, stopping, crashed>>

HandleFailure(p) ==
  /\ Delivers(p, {"Failure"})
  /\ Throttle = "expired"
  /\ Recover(Taken(p))
  /\ lastSignal' = "Failure"
  /\ errorTimer' = "recent"
  /\ UNCHANGED <<pipeline, watched, revived, wasPlaying, tasks, stopping, crashed>>

\* A failure at most 2 s after the last one handled, or after the first message
\* of all: no signal, no recovery.
SwallowFailure(p) ==
  /\ Delivers(p, {"Failure"})
  /\ Throttle = "recent"
  /\ errorTimer' = Throttle
  /\ bus' = Taken(p)
  /\ swallowed' = swallowed \cup ({p} \cap broken)
  /\ UNCHANGED <<pipeline, life, broken, watched, revived, wasPlaying, lastSignal,
                 tasks, stopping, crashed>>

BusCall(p) == HandleStateChange(p) \/ HandleFailure(p) \/ SwallowFailure(p)

\* More than 2 s pass.
TimerExpires ==
  /\ errorTimer = "recent"
  /\ errorTimer' = "expired"
  /\ UNCHANGED <<pipeline, gst, wasPlaying, lastSignal, tasks, stopping, crashed>>

----------------------------------------------------------------------------

Running ==
  \/ \E p \in Pipelines : StreamStarts(p) \/ StreamFails(p)
  \/ \E p \in Pipelines : RunStart(p) \/ ShowStartFailure(p) \/ BusCall(p)
  \/ \E t \in Threads : StopStep(t)
  \/ Stop \/ Reopen \/ Close
  \/ TimerExpires

Next == ~crashed /\ Running

Spec == Init /\ [][Next]_vars

\* GStreamer ends every change of state it begins, by playing or by failing;
\* the event loop handles what is posted; a stop() and a pool task go on.
Fairness ==
  /\ \A p \in Pipelines :
       /\ WF_vars(~crashed /\ (StreamStarts(p) \/ StreamFails(p)))
       /\ WF_vars(~crashed /\ BusCall(p))
       /\ WF_vars(~crashed /\ RunStart(p))
       /\ WF_vars(~crashed /\ ShowStartFailure(p))
  /\ \A t \in Threads : WF_vars(~crashed /\ StopStep(t))

FairSpec == Spec /\ Fairness

----------------------------------------------------------------------------
(* Properties.                                                             *)

Life == {"unborn", "down", "starting", "playing", "destroyed"}
Message == {"Playing", "NotPlaying", "Failure"}
Signal == {"none", "cameraStarted", "Stream stopped", "Failure", "Failed to start"}
Stage == {"idle", "begun", "tornDown", "released", "done"}

\* Every variable keeps its type.
TypeOK ==
  /\ pipeline \in Pipelines \cup {Null}
  /\ life \in [Pipelines -> Life]
  /\ broken \subseteq Pipelines
  /\ watched \subseteq Pipelines
  /\ bus \in [Pipelines -> Seq(Message)]
  /\ wasPlaying \in BOOLEAN
  /\ errorTimer \in {"invalid", "recent", "expired"}
  /\ lastSignal \in Signal
  /\ starts \subseteq Pipelines
  /\ failures \subseteq Pipelines
  /\ stage \in [Threads -> Stage]
  /\ reopening \in BOOLEAN
  /\ crashed \in BOOLEAN
  /\ revived \subseteq Pipelines
  /\ swallowed \subseteq broken

Alive == {p \in Pipelines : life[p] \in {"down", "starting", "playing"}}

\* A pipeline that stop() or setRtspUri() gave up is destroyed even if two
\* stops overlap or a start() still holds it: a forgotten stream lives on only
\* if the task of a start() ran between the set_state(NULL) and the unref.
OnlyLateStartsLeak == Alive \subseteq {pipeline} \cup revived

\* bus_call() hears only the pipeline of the member, which it restarts
\* without asking whose failure it handles: a failure of a pipeline that was
\* replaced never restarts its successor.
OnlyCurrentIsWatched == watched \subseteq {pipeline}

\* The overlay is shown by every signal but "cameraStarted".  With no message
\* waiting it tells whether the stream plays, over any sequence of stops, new
\* pipelines and recoveries, which one static flag has to follow, but for two
\* exceptions.  It stays hidden over a dead stream only if a failure of that
\* stream was swallowed, as one is within 2 s of one handled or of the first
\* message of all, and it covers a playing one only if the report of a failed
\* start came late.
OverlayTellsState ==
  pipeline \in watched /\ bus[pipeline] = << >> =>
    /\ lastSignal = "cameraStarted" =>
         life[pipeline] = "playing" /\ (pipeline \in broken => pipeline \in swallowed)
    /\ life[pipeline] = "playing" => lastSignal \in {"cameraStarted", "Failed to start"}

Resolved(p) ==
  \/ life[p] = "playing" /\ bus[p] = << >>
  \/ p \in broken
  \/ pipeline # p
  \/ Closing
  \/ crashed

\* A pipeline does not hang between states: built, started or recovered, it
\* comes to play and its messages are handled, or its stream fails (again),
\* or it is replaced.
EveryStartResolves == \A p \in Pipelines : pipeline = p ~> Resolved(p)

----------------------------------------------------------------------------
(* What comments of the code say.                                          *)

\* VideoReceiver.cpp:667, at start(): "Create local copy of pipeline pointer
\* so the worker thread doesn't race with pipeline being reset on the main
\* thread."  So the pipeline a task will start outlives its reset.
StartSurvivesReset == \A p \in starts : life[p] # "destroyed"
=============================================================================
