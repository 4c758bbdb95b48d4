------------------------- MODULE VideoReceiverProofs -------------------------
(***************************************************************************)
(* The receiver listens to no pipeline but its own and, late starts apart, *)
(* keeps no other alive, for any number of pipelines and messages.  What   *)
(* the invariant adds is what a stop, two of which may overlap, has        *)
(* achieved at each of its stages, and what keeps a pipeline alive.        *)
(***************************************************************************)
EXTENDS VideoReceiver, TLAPS

\* What keeps pipeline p alive: it is watched and starting or playing, a task
\* brought it up late, or the stop that took it down has still to release it.
Accounted(p) ==
  \/ p \in watched
  \/ p \in revived
  \/ /\ p = pipeline /\ ~Dangling
     /\ life[p] = "down" /\ bus[p] = << >>
     /\ \E t \in Threads : stage[t] = "tornDown"

\* Until a stop releases it, the pipeline of the member is there; a stop past
\* its first step has left nothing watched; a window that closes opens no
\* pipeline.
StagesSound ==
  /\ \A p \in watched : life[p] \in {"starting", "playing"}
  /\ \A p \in Alive : Accounted(p)
  /\ pipeline # Null => pipeline \in Alive \/ \E t \in Threads : stage[t] = "released"
  /\ \A t \in Threads : stage[t] \in {"tornDown", "released"} => watched = {}
  /\ Closing => ~reopening
  /\ reopening => stage["gui"] # "idle"

IInv == TypeOK /\ OnlyCurrentIsWatched /\ StagesSound

\* The inductive invariant holds once the constructor has built the first
\* pipeline.
LEMMA InitIInv == Init => IInv
<1> USE MaxPipelinesAssumption DEF Pipelines, Null, Threads
<1> SUFFICES ASSUME Init PROVE IInv
  OBVIOUS
<1>1. TypeOK
  <2>1. <<"NotPlaying">> \in Seq(Message) /\ << >> \in Seq(Message)
    BY DEF Message
  <2>2. bus \in [Pipelines -> Seq(Message)]
    BY <2>1 DEF Init
  <2>3. life \in [Pipelines -> Life] /\ stage \in [Threads -> Stage]
    BY DEF Init, Life, Stage
  <2>4. 1 \in Pipelines
    OBVIOUS
  <2> QED
    BY <2>2, <2>3, <2>4 DEF Init, TypeOK, Signal
<1>2. OnlyCurrentIsWatched
  BY DEF Init, OnlyCurrentIsWatched
<1>3. StagesSound
  BY DEF Init, StagesSound, Closing, Alive, Accounted
<1> QED
  BY <1>1, <1>2, <1>3 DEF IInv

\* With stage and member unchanged, a step keeps every pipeline accounted for
\* if it kills none, brings up none but as late starts, and leaves alone what
\* waits for its release.
LEMMA AccountKept ==
  ASSUME IInv, UNCHANGED <<pipeline, watched, stopping>>,
         \A q \in Pipelines :
           \/ life'[q] = life[q]
           \/ life[q] \in {"down", "starting", "playing"} /\ life'[q] \in {"starting", "playing"},
         \A q \in Pipelines :
           \/ q \in revived'
           \/ q \in watched
           \/ life'[q] = life[q] /\ (life[q] = "down" => bus'[q] = bus[q]),
         revived \subseteq revived'
  PROVE  OnlyCurrentIsWatched' /\ StagesSound'
<1> USE DEF IInv
<1>1. UNCHANGED <<pipeline, watched, stage, reopening>>
  BY DEF stopping
<1>2. \A q \in Pipelines : (life'[q] = "destroyed") = (life[q] = "destroyed")
  OBVIOUS
<1>3. Alive' = Alive /\ Closing' = Closing /\ Dangling' = Dangling
  BY <1>1, <1>2 DEF Alive, Closing, Dangling, TypeOK, Null
<1>4. \A q \in Alive' : Accounted(q)'
  BY <1>1, <1>3 DEF StagesSound, Accounted, Alive
<1>5. \A q \in watched' : life'[q] \in {"starting", "playing"}
  BY <1>1 DEF StagesSound, TypeOK
<1> QED
  BY <1>1, <1>3, <1>4, <1>5 DEF StagesSound, OnlyCurrentIsWatched

\* GStreamer's own steps: a stream starts, or fails.
LEMMA StreamStep ==
  ASSUME IInv, NEW p \in Pipelines, StreamStarts(p) \/ StreamFails(p)
  PROVE  IInv'
<1> USE DEF IInv
<1>1. TypeOK'
  <2>1. CASE StreamStarts(p)
    <3>1. life' \in [Pipelines -> Life]
      BY <2>1 DEF StreamStarts, TypeOK, Life
    <3>2. bus' \in [Pipelines -> Seq(Message)]
      <4>1. Append(bus[p], "Playing") \in Seq(Message)
        BY DEF TypeOK, Message
      <4> QED
        BY <2>1, <4>1 DEF StreamStarts, TypeOK
    <3> QED
      BY <2>1, <3>1, <3>2 DEF StreamStarts, TypeOK, history, signals, tasks, stopping
  <2>2. CASE StreamFails(p)
    <3>1. Append(bus[p], "Failure") \in Seq(Message)
      BY DEF TypeOK, Message
    <3>2. bus' \in [Pipelines -> Seq(Message)]
      BY <2>2, <3>1 DEF StreamFails, TypeOK
    <3> QED
      BY <2>2, <3>2 DEF StreamFails, TypeOK, history, signals, tasks, stopping
  <2> QED
    BY <2>1, <2>2
<1>2. OnlyCurrentIsWatched' /\ StagesSound'
  <2>1. UNCHANGED <<pipeline, watched, stopping, revived>>
    BY DEF StreamStarts, StreamFails, history
  <2>2. \A q \in Pipelines : q # p => life'[q] = life[q] /\ bus'[q] = bus[q]
    BY DEF StreamStarts, StreamFails, TypeOK
  <2>3. /\ life[p] \in {"starting", "playing"}
        /\ life'[p] \in {"starting", "playing"}
    BY DEF StreamStarts, StreamFails, TypeOK
  <2>4. p \in watched \/ p \in revived
    BY <2>3 DEF StagesSound, Alive, Accounted
  <2> QED
    BY <2>1, <2>2, <2>3, <2>4, AccountKept
<1> QED
  BY <1>1, <1>2

\* The GUI's decisions to stop, reopen and close only begin a stop.
LEMMA BeginStep ==
  ASSUME IInv, Stop \/ Reopen \/ Close
  PROVE  IInv'
<1> USE DEF IInv
<1>1. TypeOK'
  <2>1. stage' \in [Threads -> Stage]
    BY DEF Stop, Reopen, Close, TypeOK, Stage
  <2>2. reopening' \in BOOLEAN
    BY DEF Stop, Reopen, Close, TypeOK
  <2> QED
    BY <2>1, <2>2 DEF Stop, Reopen, Close, TypeOK, gst, history, signals, tasks
<1>2. OnlyCurrentIsWatched'
  BY DEF Stop, Reopen, Close, OnlyCurrentIsWatched, gst
<1>3. StagesSound'
  <2>1. UNCHANGED <<pipeline, life, watched, bus, revived>>
    BY DEF Stop, Reopen, Close, gst, history
  <2>2. \A t \in Threads : stage[t] = "idle"
    BY DEF Stop, Reopen, Close, GuiIdle, Closing, Threads
  <2>3. \A t \in Threads : stage'[t] \in {"idle", "begun"}
    BY <2>2 DEF Stop, Reopen, Close, TypeOK
  <2>4. Alive' = Alive /\ \A p \in Alive : p \in watched \/ p \in revived
    BY <2>1, <2>2 DEF Alive, StagesSound, Accounted
  <2>5. Closing' => ~reopening'
    BY <2>2 DEF Stop, Reopen, Close, Closing, StagesSound, TypeOK, Threads
  <2>6. reopening' => stage'["gui"] # "idle"
    BY <2>2 DEF Stop, Reopen, Close, StagesSound, TypeOK, Threads
  <2> QED
    BY <2>1, <2>2, <2>3, <2>4, <2>5, <2>6 DEF StagesSound, Accounted
<1> QED
  BY <1>1, <1>2, <1>3

\* The last step of a stop, with or without a new pipeline, when only late
\* starts have left anything alive.
LEMMA FinishStep ==
  ASSUME IInv, NEW t \in Threads, Finish(t), stage[t] # "idle", watched = {},
         Alive \subseteq revived
  PROVE  IInv'
<1> USE MaxPipelinesAssumption DEF IInv
<1>0. stage' = [stage EXCEPT ![t] = Ended(t)] /\ UNCHANGED <<signals, crashed>>
  BY DEF Finish
<1>a. stage' \in [Threads -> Stage]
  BY <1>0 DEF TypeOK, Stage, Ended
<1>1. CASE t = "gui" /\ reopening
  <2>1. ~Closing /\ t = "gui"
    BY <1>1 DEF StagesSound
  <2>2. PICK p \in Unborn :
          /\ CreatePipeline(p)
          /\ Start(p)
          /\ reopening' = FALSE
    BY <1>1 DEF Finish
  <2>3. p \in Pipelines /\ p # Null /\ "gui" \in Threads /\ "pool" \in Threads
    BY <2>2 DEF Unborn, Pipelines, Null, Threads
  <2>4. TypeOK'
    <3>1. life' \in [Pipelines -> Life]
      BY <2>2, <2>3 DEF CreatePipeline, TypeOK, Life
    <3>2. <<"NotPlaying">> \in Seq(Message)
      BY DEF Message
    <3>3. bus' \in [Pipelines -> Seq(Message)]
      BY <2>2, <2>3, <3>2 DEF CreatePipeline, TypeOK
    <3> QED
      BY <1>0, <1>a, <2>2, <2>3, <3>1, <3>3
      DEF CreatePipeline, Start, TypeOK, history, signals
  <2>5. watched' = {p} /\ pipeline' = p
    BY <2>2 DEF CreatePipeline
  <2>6. \A q \in Pipelines : q # p => life'[q] = life[q]
    BY <2>2, <2>3 DEF CreatePipeline, TypeOK
  <2>7. life'[p] = "starting"
    BY <2>2, <2>3 DEF CreatePipeline, TypeOK
  <2>8. OnlyCurrentIsWatched'
    BY <2>5 DEF OnlyCurrentIsWatched
  <2>9. StagesSound'
    <3>1. stage'["gui"] = "idle" /\ stage'["pool"] = "idle"
      BY <1>0, <2>1, <2>3 DEF Closing, Ended, TypeOK
    <3>2. revived' = revived
      BY <2>2 DEF CreatePipeline, history
    <3>3. \A q \in Alive' : q \in watched' \/ q \in revived'
      BY <2>5, <2>6, <3>2 DEF Alive
    <3>4. p \in Alive'
      BY <2>3, <2>7 DEF Alive
    <3> QED
      BY <2>2, <2>5, <2>7, <3>1, <3>3, <3>4 DEF StagesSound, Accounted, Closing, Threads
  <2> QED
    BY <2>4, <2>8, <2>9
<1>2. CASE ~(t = "gui" /\ reopening)
  <2>1. pipeline' = Null /\ UNCHANGED <<gst, tasks, reopening>>
    BY <1>2 DEF Finish
  <2>2. TypeOK'
    BY <1>0, <1>a, <2>1 DEF TypeOK, gst, history, tasks, signals
  <2>3. OnlyCurrentIsWatched'
    BY <2>1 DEF OnlyCurrentIsWatched, gst
  <2>4. StagesSound'
    <3>1. Closing' = Closing
      BY <1>0 DEF Closing, Ended, TypeOK, Threads
    <3>2. reopening => stage'["gui"] = stage["gui"]
      BY <1>0, <1>2 DEF TypeOK, Threads
    <3>3. watched' = {} /\ reopening' = reopening
      BY <2>1 DEF gst
    <3>4. \A q \in Alive' : q \in revived'
      BY <2>1 DEF gst, history, Alive
    <3> QED
      BY <2>1, <3>1, <3>2, <3>3, <3>4 DEF StagesSound, Accounted
  <2> QED
    BY <2>2, <2>3, <2>4
<1> QED
  BY <1>1, <1>2

\* What the end of a pipeline leaves has its type.
LEMMA DestroyTypes ==
  ASSUME TypeOK, NEW p \in Pipelines, Destroy(p)
  PROVE  /\ life' \in [Pipelines -> Life] /\ bus' \in [Pipelines -> Seq(Message)]
         /\ broken' \subseteq Pipelines /\ swallowed' \subseteq broken'
         /\ revived' \subseteq Pipelines /\ watched' \subseteq Pipelines
<1>1. << >> \in Seq(Message)
  OBVIOUS
<1> QED
  BY <1>1 DEF Destroy, TypeOK, Life

\* A step of a stop, on either thread.
LEMMA StopStepStep ==
  ASSUME IInv, NEW t \in Threads, StopStep(t)
  PROVE  IInv'
<1> USE DEF IInv
<1>0. Null \notin Pipelines
  BY DEF Null, Pipelines
<1>1. CASE NothingToStop(t)
  <2>1. watched = {}
    BY <1>1, <1>0 DEF NothingToStop, OnlyCurrentIsWatched, TypeOK
  <2>2. Alive \subseteq revived
    BY <1>0, <1>1, <2>1 DEF NothingToStop, StagesSound, Accounted, Alive
  <2> QED
    BY <1>1, <2>1, <2>2, FinishStep DEF NothingToStop
<1>2. CASE Clear(t)
  <2>1. watched = {} /\ stage[t] = "released" /\ Finish(t)
    BY <1>2 DEF Clear, StagesSound
  <2>2. Alive \subseteq revived
    BY <1>0, <2>1 DEF StagesSound, Accounted, Alive, Dangling
  <2> QED
    BY <2>1, <2>2, FinishStep
<1>3. CASE TearDown(t)
  <2>1. pipeline \in Pipelines /\ watched' = {}
    BY <1>3 DEF TearDown, TypeOK, OnlyCurrentIsWatched
  <2>2. TypeOK'
    <3>1. life' \in [Pipelines -> Life] /\ stage' \in [Threads -> Stage]
      BY <1>3 DEF TearDown, SetNull, TypeOK, Life, Stage
    <3>2. << >> \in Seq(Message)
      OBVIOUS
    <3>3. bus' \in [Pipelines -> Seq(Message)]
      BY <1>3, <2>1, <3>2 DEF TearDown, SetNull, TypeOK
    <3> QED
      BY <1>3, <2>1, <3>1, <3>3 DEF TearDown, SetNull, TypeOK, signals, tasks
  <2>3. OnlyCurrentIsWatched'
    BY <2>1 DEF OnlyCurrentIsWatched
  <2>4. StagesSound'
    <3>1. Closing' = Closing
      BY <1>3 DEF TearDown, Closing, TypeOK, Threads
    <3>2. \A u \in Threads : stage'[u] = "released" => u # t /\ stage[u] = "released"
      BY <1>3 DEF TearDown, TypeOK
    <3>3. stage'["gui"] = "idle" => stage["gui"] = "idle"
      BY <1>3 DEF TearDown, TypeOK, Threads
    <3>4. /\ life'[pipeline] = "down" /\ bus'[pipeline] = << >> /\ stage'[t] = "tornDown"
          /\ UNCHANGED <<pipeline, reopening>> /\ ~Dangling
      BY <1>3, <2>1 DEF TearDown, SetNull, TypeOK
    <3>5. ~Dangling'
      BY <3>2, <3>4, <2>1 DEF Dangling
    <3>6. \A q \in Pipelines : q # pipeline => life'[q] = life[q] /\ (q \in revived => q \in revived')
      BY <1>3 DEF TearDown, SetNull, TypeOK
    <3>7. \A q \in Alive' : Accounted(q)'
      <4>1. \A q \in Alive' : q # pipeline => q \in revived'
        BY <3>6 DEF Alive, StagesSound, Accounted, OnlyCurrentIsWatched
      <4> QED
        BY <3>4, <3>5, <4>1 DEF Accounted
    <3>8. pipeline' \in Alive'
      BY <2>1, <3>4 DEF Alive
    <3> QED
      BY <2>1, <3>1, <3>3, <3>4, <3>7, <3>8 DEF StagesSound
  <2> QED
    BY <2>2, <2>3, <2>4
<1>4. CASE Release(t)
  <2>1. watched = {} /\ UNCHANGED <<watched, pipeline, reopening, revived>>
    BY <1>4 DEF Release, StagesSound, Destroy, gst, history
  <2>2. pipeline # Null => pipeline \in Pipelines
    BY DEF TypeOK
  <2>3. TypeOK'
    BY <1>4, <2>2, DestroyTypes DEF Release, TypeOK, Stage, gst, history, signals, tasks, Destroy
  <2>4. OnlyCurrentIsWatched'
    BY <2>1 DEF OnlyCurrentIsWatched
  <2>5. \A q \in Alive' : q \in revived'
    <3>1. SUFFICES ASSUME NEW q \in Alive', q \notin revived PROVE FALSE
      BY <2>1
    <3>2. q \in Alive
      BY <1>4, <3>1 DEF Release, Destroy, gst, Alive, TypeOK
    <3>3. q = pipeline /\ bus[q] = << >> /\ q \in Pipelines
      BY <2>1, <3>1, <3>2 DEF StagesSound, Accounted, Alive
    <3>4. life'[q] = "destroyed"
      BY <1>0, <1>4, <3>3 DEF Release, Destroy, TypeOK
    <3> QED
      BY <3>1, <3>4 DEF Alive
  <2>6. StagesSound'
    <3>1. Closing' = Closing
      BY <1>4 DEF Release, Closing, TypeOK, Threads
    <3>2. stage'["gui"] = "idle" => stage["gui"] = "idle"
      BY <1>4 DEF Release, TypeOK, Threads
    <3>3. stage'[t] = "released"
      BY <1>4 DEF Release, TypeOK
    <3> QED
      BY <2>1, <2>5, <3>1, <3>2, <3>3 DEF StagesSound, Accounted
  <2> QED
    BY <2>3, <2>4, <2>6
<1>5. CASE StopReleased(t)
  <2>1. pipeline \in Pipelines /\ UNCHANGED <<watched, pipeline, reopening, revived>>
    BY <1>5 DEF StopReleased, Dangling, Destroy, gst, history, TypeOK
  <2>2. watched = {}
    BY <1>5, <2>1 DEF StopReleased, Dangling, StagesSound, OnlyCurrentIsWatched, Alive
  <2>3. TypeOK'
    BY <1>5, <2>1, DestroyTypes
    DEF StopReleased, TypeOK, Stage, gst, history, signals, tasks, Destroy
  <2>4. OnlyCurrentIsWatched'
    BY <2>1 DEF OnlyCurrentIsWatched
  <2>5. \A q \in Alive' : q \in revived'
    <3>1. \A q \in Alive' : q \in Alive
      BY <1>5 DEF StopReleased, Destroy, gst, Alive, TypeOK
    <3>2. \A q \in Alive : q \in revived
      BY <1>5, <2>2 DEF StopReleased, StagesSound, Accounted
    <3> QED
      BY <2>1, <3>1, <3>2
  <2>6. StagesSound'
    <3>1. Closing' = Closing
      BY <1>5 DEF StopReleased, Closing, TypeOK, Threads
    <3>2. stage'["gui"] = "idle" => stage["gui"] = "idle"
      BY <1>5 DEF StopReleased, TypeOK, Threads
    <3>3. stage'[t] = "released"
      BY <1>5 DEF StopReleased, TypeOK
    <3> QED
      BY <2>1, <2>2, <2>5, <3>1, <3>2, <3>3 DEF StagesSound, Accounted
  <2> QED
    BY <2>3, <2>4, <2>6
<1> QED
  BY <1>1, <1>2, <1>3, <1>4, <1>5 DEF StopStep

\* The task of a start() never brings a destroyed pipeline back, and a
\* pipeline in NULL only as a late start.
LEMMA RunStartStep ==
  ASSUME IInv, NEW p \in Pipelines, RunStart(p)
  PROVE  IInv'
<1> USE DEF IInv
<1>1. UNCHANGED <<pipeline, watched, signals, stopping>>
  BY DEF RunStart, StartSucceeds, StartFails, StartDestroyed, StartForgotten, gst
<1>2. TypeOK'
  <2>1. life' \in [Pipelines -> Life]
    BY DEF RunStart, StartSucceeds, StartFails, StartDestroyed, StartForgotten, gst, TypeOK, Life
  <2>2. Append(bus[p], "NotPlaying") \in Seq(Message)
    BY DEF TypeOK, Message
  <2>3. bus' \in [Pipelines -> Seq(Message)] /\ revived' \subseteq Pipelines
    BY <2>2 DEF RunStart, StartSucceeds, StartFails, StartDestroyed, StartForgotten, Revive,
                gst, history, TypeOK
  <2>4. broken' \subseteq Pipelines /\ swallowed' \subseteq broken' /\ failures' \subseteq Pipelines
    BY DEF RunStart, StartSucceeds, StartFails, StartDestroyed, StartForgotten, gst, history, TypeOK
  <2>5. crashed' \in BOOLEAN /\ starts' \subseteq Pipelines
    BY DEF RunStart, StartSucceeds, StartFails, StartDestroyed, StartForgotten, TypeOK
  <2> QED
    BY <1>1, <2>1, <2>3, <2>4, <2>5 DEF TypeOK, signals, stopping
<1>3. \A q \in Pipelines :
        \/ life'[q] = life[q]
        \/ life[q] \in {"down", "starting", "playing"} /\ life'[q] \in {"starting", "playing"}
  BY DEF RunStart, StartSucceeds, StartFails, StartDestroyed, StartForgotten, gst, TypeOK
<1>4. revived \subseteq revived'
  BY DEF RunStart, StartSucceeds, StartFails, StartDestroyed, StartForgotten, Revive, gst, history
<1>5. ASSUME NEW q \in Pipelines, q \notin revived', q \notin watched
      PROVE  life'[q] = life[q] /\ (life[q] = "down" => bus'[q] = bus[q])
  <2>1. CASE q # p
    BY <2>1 DEF RunStart, StartSucceeds, StartFails, StartDestroyed, StartForgotten, Revive,
                gst, history, TypeOK
  <2>2. CASE q = p /\ StartSucceeds(p)
    <3>1. life[p] \in {"starting", "playing"} => p \in revived
      BY <1>5, <2>2 DEF StagesSound, Accounted, Alive
    <3> QED
      BY <1>4, <1>5, <2>2, <3>1 DEF StartSucceeds, Revive
  <2>3. CASE q = p /\ ~StartSucceeds(p)
    BY <1>5, <2>3 DEF RunStart, StartFails, StartDestroyed, StartForgotten, Revive, gst, history
  <2> QED
    BY <2>1, <2>2, <2>3
<1> QED
  BY <1>1, <1>2, <1>3, <1>4, <1>5, AccountKept

\* A bus message and the report of a failed start.
LEMMA EventStep ==
  ASSUME IInv, NEW p \in Pipelines, BusCall(p) \/ ShowStartFailure(p)
  PROVE  IInv'
<1> USE DEF IInv
<1>1. UNCHANGED <<pipeline, watched, stopping, crashed, starts>> /\ GuiIdle
  BY DEF BusCall, HandleStateChange, HandleFailure, SwallowFailure, Delivers,
         ShowStartFailure, gst, tasks
<1>2. \A t \in Threads : stage[t] = "idle"
  BY <1>1 DEF GuiIdle, Closing, Threads
<1>3. life' = life \/ (p \in watched /\ pipeline # Null /\ life' = [life EXCEPT ![pipeline] = "starting"])
  BY DEF BusCall, HandleStateChange, HandleFailure, SwallowFailure, Delivers, Recover,
         ShowStartFailure, gst
<1>4. bus' \in [Pipelines -> Seq(Message)]
  <2>1. CASE ShowStartFailure(p)
    BY <2>1 DEF ShowStartFailure, gst, TypeOK
  <2>2. CASE BusCall(p)
    <3>1. bus[p] # << >>
      BY <2>2 DEF BusCall, HandleStateChange, HandleFailure, SwallowFailure, Delivers
    <3>2. Tail(bus[p]) \in Seq(Message)
      BY <3>1 DEF TypeOK
    <3>3. Taken(p) \in [Pipelines -> Seq(Message)]
      BY <3>2 DEF Taken, TypeOK
    <3>4. Stopped \in Seq(Message)
      <4>1. <<"NotPlaying">> \in Seq(Message) /\ << >> \in Seq(Message)
        BY DEF Message
      <4> QED
        BY <4>1 DEF Stopped
    <3>5. bus' = Taken(p) \/ bus' = [Taken(p) EXCEPT ![pipeline] = @ \o Stopped]
      BY <2>2 DEF BusCall, HandleStateChange, HandleFailure, SwallowFailure, Recover
    <3>6. \A q \in Pipelines : Taken(p)[q] \o Stopped \in Seq(Message)
      BY <3>3, <3>4
    <3> QED
      BY <3>3, <3>5, <3>6
  <2> QED
    BY <2>1, <2>2
<1>5. TypeOK'
  <2>1. /\ life' \in [Pipelines -> Life] /\ failures' \subseteq Pipelines
        /\ broken' \subseteq Pipelines /\ swallowed' \subseteq broken' /\ revived' \subseteq Pipelines
    BY <1>3 DEF BusCall, HandleStateChange, HandleFailure, SwallowFailure, Recover,
                ShowStartFailure, gst, history, tasks, TypeOK, Life
  <2>2. /\ wasPlaying' \in BOOLEAN
        /\ errorTimer' \in {"invalid", "recent", "expired"}
        /\ lastSignal' \in Signal
    BY DEF BusCall, HandleStateChange, HandleFailure, SwallowFailure, StateChanged,
           Throttle, ShowStartFailure, TypeOK, Signal
  <2> QED
    BY <1>1, <1>4, <2>1, <2>2 DEF TypeOK, stopping
<1>6. OnlyCurrentIsWatched' /\ StagesSound'
  <2>1. revived' = revived
    BY DEF BusCall, HandleStateChange, HandleFailure, SwallowFailure, ShowStartFailure, gst, history
  <2>2. \A q \in Pipelines : q \notin watched => life'[q] = life[q] /\ bus'[q] = bus[q]
    <3>1. BusCall(p) => p = pipeline /\ pipeline \in watched
      BY DEF BusCall, HandleStateChange, HandleFailure, SwallowFailure, Delivers, OnlyCurrentIsWatched
    <3> QED
      BY <3>1 DEF BusCall, HandleStateChange, HandleFailure, SwallowFailure, Recover, Taken,
                  ShowStartFailure, gst, TypeOK
  <2>3. \A q \in watched : q \in Pipelines /\ life[q] \in {"starting", "playing"}
    BY DEF StagesSound, TypeOK
  <2>4. \A q \in Pipelines :
          life'[q] = life[q] \/
          (life[q] \in {"down", "starting", "playing"} /\ life'[q] \in {"starting", "playing"})
    BY <1>3, <2>2, <2>3 DEF TypeOK
  <2> QED
    BY <1>1, <2>1, <2>2, <2>4, AccountKept
<1> QED
  BY <1>5, <1>6

\* Every step keeps the inductive invariant.
LEMMA NextIInv == IInv /\ [Next]_vars => IInv'
<1> SUFFICES ASSUME IInv, [Next]_vars PROVE IInv'
  OBVIOUS
<1>1. CASE \E p \in Pipelines : StreamStarts(p) \/ StreamFails(p)
  BY <1>1, StreamStep
<1>2. CASE \E p \in Pipelines : RunStart(p)
  BY <1>2, RunStartStep
<1>3. CASE \E p \in Pipelines : BusCall(p) \/ ShowStartFailure(p)
  BY <1>3, EventStep
<1>4. CASE \E t \in Threads : StopStep(t)
  BY <1>4, StopStepStep
<1>5. CASE Stop \/ Reopen \/ Close
  BY <1>5, BeginStep
<1>6. CASE TimerExpires \/ UNCHANGED vars
  BY <1>6 DEF TimerExpires, IInv, TypeOK, OnlyCurrentIsWatched, StagesSound, Accounted,
              Alive, Dangling, Closing, vars, gst, history, signals, tasks, stopping
<1> QED
  BY <1>1, <1>2, <1>3, <1>4, <1>5, <1>6 DEF Next, Running

\* The inductive invariant holds in every reachable state.
LEMMA AlwaysIInv == Spec => []IInv
  BY InitIInv, NextIInv, PTL DEF Spec

\* Pipelines, buses, signals, tasks and stages keep their types, for any
\* number of pipelines and messages.
THEOREM TypeCorrect == Spec => []TypeOK
<1>1. IInv => TypeOK
  BY DEF IInv
<1> QED
  BY <1>1, AlwaysIInv, PTL

\* However stops, closing and tasks of start() interleave, a pipeline outlives
\* its place in the member only if a task brought it up between set_state(NULL)
\* and gst_object_unref() of the stop that gave it up (stop(), setRtspUri()).
THEOREM OnlyLateStartsEverLeak == Spec => []OnlyLateStartsLeak
<1>1. IInv => OnlyLateStartsLeak
  BY DEF IInv, OnlyCurrentIsWatched, StagesSound, Accounted, OnlyLateStartsLeak
<1> QED
  BY <1>1, AlwaysIInv, PTL

\* bus_call() hears only the pipeline of the member, which it may therefore
\* restart without asking whose failure it handles.
THEOREM OnlyCurrentIsEverWatched == Spec => []OnlyCurrentIsWatched
<1>1. IInv => OnlyCurrentIsWatched
  BY DEF IInv
<1> QED
  BY <1>1, AlwaysIInv, PTL

----------------------------------------------------------------------------
(* The overlay.  The static flag lags behind the pipeline by the messages  *)
(* that wait on the bus; these must lead from the one to the other.        *)

\* Whether the stream plays after message i of b, message 0 being the past.
After(b, from, i) == IF i = 0 THEN from ELSE b[i] = "Playing"

IsState(b, i) == i = 0 \/ b[i] # "Failure"

\* Between i and j, b has only failures.
Quiet(b, i, j) == \A k \in 1 .. Len(b) : i < k /\ k < j => b[k] = "Failure"

\* The changes of state on bus b never tell twice in a row that the stream
\* plays, and lead from the state `from' to the state `to'.
Leads(b, from, to) ==
  /\ \A i, j \in 0 .. Len(b) :
       i < j /\ IsState(b, i) /\ IsState(b, j) /\ Quiet(b, i, j) =>
         ~(After(b, from, i) /\ b[j] = "Playing")
  /\ \A i \in 0 .. Len(b) :
       IsState(b, i) /\ Quiet(b, i, Len(b) + 1) => (After(b, from, i) <=> to)

StatePending(b) == \E i \in 1 .. Len(b) : b[i] # "Failure"
FailurePending(b) == \E i \in 1 .. Len(b) : b[i] = "Failure"

OverlaySound ==
  /\ lastSignal = "cameraStarted" => wasPlaying
  /\ pipeline \in watched =>
       /\ Leads(bus[pipeline], wasPlaying, life[pipeline] = "playing")
       /\ wasPlaying =>
            \/ lastSignal \in {"cameraStarted", "Failed to start"}
            \/ StatePending(bus[pipeline])
       /\ life[pipeline] = "playing" /\ pipeline \in broken =>
            pipeline \in swallowed \/ FailurePending(bus[pipeline])

\* What Tail returns, index by index.
LEMMA TailFacts ==
  ASSUME NEW b \in Seq(Message), b # << >>
  PROVE  /\ Tail(b) \in Seq(Message)
         /\ Len(b) \in Nat /\ Len(b) >= 1 /\ Len(Tail(b)) = Len(b) - 1
         /\ Head(b) = b[1]
         /\ \A k \in 1 .. Len(b) - 1 : Tail(b)[k] = b[k + 1]
BY DEF Message

\* Handling a change of state moves the past on to it.
LEMMA ChangeTaken ==
  ASSUME NEW b \in Seq(Message), b # << >>, b[1] # "Failure",
         NEW from \in BOOLEAN, NEW to \in BOOLEAN, Leads(b, from, to)
  PROVE  /\ Leads(Tail(b), b[1] = "Playing", to)
         /\ ~(from /\ b[1] = "Playing")
<1> DEFINE c == Tail(b)
           n == Len(b)
<1>1. n \in Nat /\ n >= 1 /\ Len(c) = n - 1 /\ \A k \in 1 .. n - 1 : c[k] = b[k + 1]
  BY TailFacts
<1> HIDE DEF c, n
<1>2. \A i \in 0 .. n - 1 : IsState(c, i) => IsState(b, i + 1)
  BY <1>1 DEF IsState
<1>3. \A i \in 0 .. n - 1 : After(c, b[1] = "Playing", i) <=> After(b, from, i + 1)
  <2> SUFFICES ASSUME NEW i \in 0 .. n - 1
               PROVE  After(c, b[1] = "Playing", i) <=> After(b, from, i + 1)
    OBVIOUS
  <2>1. i # 0 => c[i] = b[i + 1]
    BY <1>1
  <2> QED
    BY <1>1, <2>1 DEF After
<1>4. \A i \in 0 .. n - 1, j \in 0 .. n : Quiet(c, i, j) => Quiet(b, i + 1, j + 1)
  <2> SUFFICES ASSUME NEW i \in 0 .. n - 1, NEW j \in 0 .. n, Quiet(c, i, j),
                      NEW k \in 1 .. n, i + 1 < k, k < j + 1
               PROVE  b[k] = "Failure"
    BY DEF Quiet, n
  <2>1. k - 1 \in 1 .. n - 1 /\ i < k - 1 /\ k - 1 < j
    BY <1>1
  <2>2. c[k - 1] = "Failure"
    BY <1>1, <2>1 DEF Quiet
  <2>3. c[k - 1] = b[k]
    BY <1>1, <2>1
  <2> QED
    BY <2>2, <2>3
<1>5. ASSUME NEW i \in 0 .. n - 1, NEW j \in 0 .. n - 1,
             i < j, IsState(c, i), IsState(c, j), Quiet(c, i, j)
      PROVE  ~(After(c, b[1] = "Playing", i) /\ c[j] = "Playing")
  <2>1. i + 1 \in 0 .. n /\ j + 1 \in 0 .. n /\ i + 1 < j + 1
    BY <1>1, <1>5
  <2>2. IsState(b, i + 1) /\ IsState(b, j + 1) /\ Quiet(b, i + 1, j + 1)
    BY <1>1, <1>2, <1>4, <1>5
  <2>3. ~(After(b, from, i + 1) /\ b[j + 1] = "Playing")
    BY <2>1, <2>2 DEF Leads, n
  <2>4. c[j] = b[j + 1]
    BY <1>1, <1>5
  <2> QED
    BY <1>3, <2>3, <2>4
<1>6. ASSUME NEW i \in 0 .. n - 1, IsState(c, i), Quiet(c, i, n)
      PROVE  After(c, b[1] = "Playing", i) <=> to
  <2>1. i + 1 \in 0 .. n /\ IsState(b, i + 1) /\ Quiet(b, i + 1, n + 1)
    BY <1>1, <1>2, <1>4, <1>6
  <2>2. After(b, from, i + 1) <=> to
    BY <2>1 DEF Leads, n
  <2> QED
    BY <1>3, <2>2
<1>7. Leads(c, b[1] = "Playing", to)
  <2>1. Len(c) + 1 = n
    BY <1>1
  <2> QED
    BY <1>1, <1>5, <1>6, <2>1 DEF Leads
<1>8. ~(from /\ b[1] = "Playing")
  <2>1. Quiet(b, 0, 1) /\ IsState(b, 0) /\ IsState(b, 1)
    BY DEF Quiet, IsState
  <2>2. 0 \in 0 .. Len(b) /\ 1 \in 0 .. Len(b)
    BY <1>1 DEF n
  <2> QED
    BY <2>1, <2>2 DEF Leads, After
<1> QED
  BY <1>7, <1>8 DEF c

\* Dropping a failure from the front changes nothing.
LEMMA FailureTaken ==
  ASSUME NEW b \in Seq(Message), b # << >>, b[1] = "Failure",
         NEW from \in BOOLEAN, NEW to \in BOOLEAN, Leads(b, from, to)
  PROVE  /\ Leads(Tail(b), from, to)
         /\ StatePending(b) => StatePending(Tail(b))
<1> DEFINE c == Tail(b)
           n == Len(b)
           Old(i) == IF i = 0 THEN 0 ELSE i + 1
<1>1. n \in Nat /\ n >= 1 /\ Len(c) = n - 1 /\ \A k \in 1 .. n - 1 : c[k] = b[k + 1]
  BY TailFacts
<1> HIDE DEF c, n
<1>2. \A i \in 0 .. n - 1 : IsState(c, i) => IsState(b, Old(i))
  BY <1>1 DEF IsState
<1>3. \A i \in 0 .. n - 1 : After(c, from, i) <=> After(b, from, Old(i))
  BY <1>1 DEF After
<1>4. \A i \in 0 .. n - 1, j \in 0 .. n : Quiet(c, i, j) => Quiet(b, Old(i), j + 1)
  <2> SUFFICES ASSUME NEW i \in 0 .. n - 1, NEW j \in 0 .. n, Quiet(c, i, j),
                      NEW k \in 1 .. n, Old(i) < k, k < j + 1
               PROVE  b[k] = "Failure"
    BY DEF Quiet, n
  <2>1. CASE k = 1
    BY <2>1
  <2>2. CASE k # 1
    <3>1. k - 1 \in 1 .. n - 1 /\ i < k - 1 /\ k - 1 < j
      BY <1>1, <2>2
    <3>2. c[k - 1] = "Failure" /\ c[k - 1] = b[k]
      BY <1>1, <3>1 DEF Quiet
    <3> QED
      BY <3>2
  <2> QED
    BY <2>1, <2>2
<1>5. ASSUME NEW i \in 0 .. n - 1, NEW j \in 0 .. n - 1,
             i < j, IsState(c, i), IsState(c, j), Quiet(c, i, j)
      PROVE  ~(After(c, from, i) /\ c[j] = "Playing")
  <2>1. Old(i) \in 0 .. n /\ j + 1 \in 0 .. n /\ Old(i) < j + 1 /\ Old(j) = j + 1
    BY <1>1, <1>5
  <2>2. IsState(b, Old(i)) /\ IsState(b, j + 1) /\ Quiet(b, Old(i), j + 1)
    BY <1>1, <1>2, <1>4, <1>5, <2>1
  <2>3. ~(After(b, from, Old(i)) /\ b[j + 1] = "Playing")
    BY <2>1, <2>2 DEF Leads, n
  <2>4. c[j] = b[j + 1]
    BY <1>1, <1>5
  <2> QED
    BY <1>3, <2>3, <2>4
<1>6. ASSUME NEW i \in 0 .. n - 1, IsState(c, i), Quiet(c, i, n)
      PROVE  After(c, from, i) <=> to
  <2>1. Old(i) \in 0 .. n /\ IsState(b, Old(i)) /\ Quiet(b, Old(i), n + 1)
    BY <1>1, <1>2, <1>4, <1>6
  <2>2. After(b, from, Old(i)) <=> to
    BY <2>1 DEF Leads, n
  <2> QED
    BY <1>3, <2>2
<1>7. Leads(c, from, to)
  <2>1. Len(c) + 1 = n
    BY <1>1
  <2> QED
    BY <1>1, <1>5, <1>6, <2>1 DEF Leads
<1>8. ASSUME StatePending(b) PROVE StatePending(c)
  <2>1. PICK i \in 1 .. n : b[i] # "Failure"
    BY <1>8 DEF StatePending, n
  <2>2. i - 1 \in 1 .. Len(c) /\ c[i - 1] = b[i]
    BY <1>1, <2>1
  <2> QED
    BY <2>1, <2>2 DEF StatePending
<1> QED
  BY <1>7, <1>8 DEF c

\* What Append returns, index by index.
LEMMA AppendFacts ==
  ASSUME NEW b \in Seq(Message), NEW m \in Message
  PROVE  /\ Len(b) \in Nat /\ Len(Append(b, m)) = Len(b) + 1
         /\ Append(b, m)[Len(b) + 1] = m
         /\ \A k \in 1 .. Len(b) : Append(b, m)[k] = b[k]
BY DEF Message

\* A message that comes in: a failure changes nothing, a change of state
\* must be one.
LEMMA MessageAppended ==
  ASSUME NEW b \in Seq(Message), NEW m \in Message,
         NEW from \in BOOLEAN, NEW to \in BOOLEAN, NEW new \in BOOLEAN,
         Leads(b, from, to),
         m = "Failure" => new = to,
         m # "Failure" => (new <=> m = "Playing") /\ new # to
  PROVE  /\ Leads(Append(b, m), from, new)
         /\ StatePending(b) \/ m # "Failure" => StatePending(Append(b, m))
<1> DEFINE c == Append(b, m)
           n == Len(b)
<1>1. n \in Nat /\ Len(c) = n + 1 /\ c[n + 1] = m /\ \A k \in 1 .. n : c[k] = b[k]
  BY AppendFacts
<1> HIDE DEF c, n
<1>2. \A i \in 0 .. n : IsState(c, i) <=> IsState(b, i)
  BY <1>1 DEF IsState
<1>3. \A i \in 0 .. n : After(c, from, i) <=> After(b, from, i)
  BY <1>1 DEF After
<1>4. \A i \in 0 .. n, j \in 0 .. n + 2 : Quiet(c, i, j) => Quiet(b, i, j)
  BY <1>1 DEF Quiet, n
<1>5. ASSUME NEW i \in 0 .. n + 1, NEW j \in 0 .. n + 1,
             i < j, IsState(c, i), IsState(c, j), Quiet(c, i, j)
      PROVE  ~(After(c, from, i) /\ c[j] = "Playing")
  <2>1. i \in 0 .. n
    BY <1>1, <1>5
  <2>2. CASE j = n + 1
    <3>1. m # "Failure"
      BY <1>1, <1>5, <2>2 DEF IsState
    <3>2. After(b, from, i) <=> to
      BY <1>1, <1>2, <1>4, <1>5, <2>1, <2>2 DEF Leads, n
    <3> QED
      BY <1>1, <1>3, <2>1, <2>2, <3>1, <3>2
  <2>3. CASE j # n + 1
    <3>1. j \in 0 .. n /\ j \in 1 .. n
      BY <1>1, <1>5, <2>3
    <3>2. IsState(b, i) /\ IsState(b, j) /\ Quiet(b, i, j)
      BY <1>1, <1>2, <1>4, <1>5, <2>1, <3>1
    <3>3. ~(After(b, from, i) /\ b[j] = "Playing")
      BY <1>5, <2>1, <3>1, <3>2 DEF Leads, n
    <3> QED
      BY <1>1, <1>3, <2>1, <3>1, <3>3
  <2> QED
    BY <2>2, <2>3
<1>6. ASSUME NEW i \in 0 .. n + 1, IsState(c, i), Quiet(c, i, n + 2)
      PROVE  After(c, from, i) <=> new
  <2>1. CASE i = n + 1
    <3>1. m # "Failure"
      BY <1>1, <1>6, <2>1 DEF IsState
    <3> QED
      BY <1>1, <2>1, <3>1 DEF After
  <2>2. CASE i # n + 1
    <3>1. i \in 0 .. n
      BY <1>1, <2>2
    <3>2. m = "Failure"
      BY <1>1, <1>6, <3>1 DEF Quiet
    <3>3. IsState(b, i) /\ Quiet(b, i, n + 1)
      <4>1. Quiet(b, i, n + 2)
        BY <1>1, <1>4, <1>6, <3>1
      <4> QED
        BY <1>1, <1>2, <1>6, <3>1, <4>1 DEF Quiet, n
    <3>4. After(b, from, i) <=> to
      BY <3>1, <3>3 DEF Leads, n
    <3> QED
      BY <1>3, <3>1, <3>2, <3>4
  <2> QED
    BY <2>1, <2>2
<1>7. Leads(c, from, new)
  <2>1. Len(c) + 1 = n + 2 /\ Len(c) = n + 1
    BY <1>1
  <2> QED
    BY <1>5, <1>6, <2>1 DEF Leads
<1>8. ASSUME StatePending(b) \/ m # "Failure" PROVE StatePending(c)
  <2>1. CASE m # "Failure"
    <3>1. n + 1 \in 1 .. Len(c)
      BY <1>1
    <3> QED
      BY <1>1, <2>1, <3>1 DEF StatePending
  <2>2. CASE StatePending(b)
    <3>1. PICK i \in 1 .. n : b[i] # "Failure"
      BY <2>2 DEF StatePending, n
    <3>2. i \in 1 .. Len(c) /\ c[i] = b[i]
      BY <1>1, <3>1
    <3> QED
      BY <3>1, <3>2 DEF StatePending
  <2> QED
    BY <1>8, <2>1, <2>2
<1> QED
  BY <1>7, <1>8 DEF c

\* A failure stays pending while other messages come and go.
LEMMA FailureStaysPending ==
  ASSUME NEW b \in Seq(Message)
  PROVE  /\ \A m \in Message :
              FailurePending(b) \/ m = "Failure" => FailurePending(Append(b, m))
         /\ b # << >> /\ b[1] # "Failure" /\ FailurePending(b) => FailurePending(Tail(b))
<1>1. ASSUME NEW m \in Message, FailurePending(b) \/ m = "Failure"
      PROVE  FailurePending(Append(b, m))
  <2>1. CASE m = "Failure"
    <3>1. Len(b) + 1 \in 1 .. Len(Append(b, m)) /\ Append(b, m)[Len(b) + 1] = m
      BY AppendFacts
    <3> QED
      BY <2>1, <3>1 DEF FailurePending
  <2>2. CASE FailurePending(b)
    <3>1. PICK i \in 1 .. Len(b) : b[i] = "Failure"
      BY <2>2 DEF FailurePending
    <3>2. i \in 1 .. Len(Append(b, m)) /\ Append(b, m)[i] = b[i]
      BY <3>1, AppendFacts
    <3> QED
      BY <3>1, <3>2 DEF FailurePending
  <2> QED
    BY <1>1, <2>1, <2>2
<1>2. ASSUME b # << >>, b[1] # "Failure", FailurePending(b)
      PROVE  FailurePending(Tail(b))
  <2>1. PICK i \in 1 .. Len(b) : b[i] = "Failure"
    BY <1>2 DEF FailurePending
  <2>2. i # 1
    BY <1>2, <2>1
  <2>3. i - 1 \in 1 .. Len(Tail(b)) /\ Tail(b)[i - 1] = b[i]
    BY <1>2, <2>1, <2>2, TailFacts
  <2> QED
    BY <2>1, <2>3 DEF FailurePending
<1> QED
  BY <1>1, <1>2

\* With nothing pending the past is the present.
LEMMA NothingPending ==
  ASSUME NEW b \in Seq(Message), NEW from \in BOOLEAN, NEW to \in BOOLEAN,
         Leads(b, from, to), ~StatePending(b)
  PROVE  from = to
<1>1. Len(b) \in Nat
  OBVIOUS
<1>2. IsState(b, 0) /\ Quiet(b, 0, Len(b) + 1) /\ 0 \in 0 .. Len(b)
  BY <1>1 DEF IsState, Quiet, StatePending
<1> QED
  BY <1>2 DEF Leads, After

OInv == IInv /\ OverlaySound

\* The overlay's invariant holds of the pipeline the constructor built.
LEMMA InitOverlay == Init => OverlaySound
<1> SUFFICES ASSUME Init PROVE OverlaySound
  OBVIOUS
<1>1. bus[1] = <<"NotPlaying">> /\ life[1] = "starting" /\ wasPlaying = FALSE /\ pipeline = 1
  <2>1. 1 \in Pipelines
    BY MaxPipelinesAssumption DEF Pipelines
  <2>2. bus[1] = <<"NotPlaying">>
    BY <2>1 DEF Init
  <2>3. life[1] = "starting"
    BY <2>1 DEF Init
  <2> QED
    BY <2>2, <2>3 DEF Init
<1>2. Leads(<<"NotPlaying">>, FALSE, FALSE)
  BY DEF Leads, After, IsState, Quiet
<1> QED
  BY <1>1, <1>2 DEF Init, OverlaySound

\* Types of what the overlay's invariant is about.
LEMMA OverlayTypes ==
  ASSUME IInv, pipeline \in watched
  PROVE  /\ pipeline \in Pipelines
         /\ bus[pipeline] \in Seq(Message)
         /\ wasPlaying \in BOOLEAN
         /\ (life[pipeline] = "playing") \in BOOLEAN
BY DEF IInv, TypeOK

\* GStreamer posts a change of state only when the state changes.
LEMMA StreamOverlay ==
  ASSUME OInv, NEW p \in Pipelines, StreamStarts(p) \/ StreamFails(p)
  PROVE  OverlaySound'
<1> USE DEF OInv
<1>1. UNCHANGED <<pipeline, watched, wasPlaying, lastSignal>>
  BY DEF StreamStarts, StreamFails, signals
<1>a. swallowed' = swallowed
  BY DEF StreamStarts, StreamFails, history
<1>2. CASE pipeline \notin watched
  BY <1>1, <1>2 DEF OverlaySound
<1>3. CASE pipeline \in watched /\ p # pipeline
  <2>1. /\ bus'[pipeline] = bus[pipeline] /\ life'[pipeline] = life[pipeline]
        /\ pipeline \in broken' <=> pipeline \in broken
    BY <1>3, OverlayTypes DEF StreamStarts, StreamFails, IInv, TypeOK
  <2> QED
    BY <1>1, <1>a, <2>1 DEF OverlaySound
<1>4. CASE pipeline \in watched /\ p = pipeline /\ StreamStarts(p)
  <2>1. /\ bus'[p] = Append(bus[p], "Playing")
        /\ life[p] = "starting" /\ life'[p] = "playing" /\ p \notin broken'
    BY <1>4 DEF StreamStarts, IInv, TypeOK
  <2>2. bus[p] \in Seq(Message) /\ wasPlaying \in BOOLEAN /\ "Playing" \in Message
    BY <1>4, OverlayTypes DEF Message
  <2>3. Leads(bus[p], wasPlaying, FALSE)
    BY <1>4, <2>1 DEF OverlaySound
  <2>4. Leads(bus'[p], wasPlaying, TRUE) /\ StatePending(bus'[p])
    BY <2>1, <2>2, <2>3, MessageAppended
  <2> QED
    BY <1>1, <1>4, <2>1, <2>4 DEF OverlaySound
<1>5. CASE pipeline \in watched /\ p = pipeline /\ StreamFails(p)
  <2>1. bus'[p] = Append(bus[p], "Failure") /\ life' = life
    BY <1>5 DEF StreamFails, IInv, TypeOK
  <2>2. bus[p] \in Seq(Message) /\ wasPlaying \in BOOLEAN /\ "Failure" \in Message
    BY <1>5, OverlayTypes DEF Message
  <2>3. Leads(bus[p], wasPlaying, life[p] = "playing")
    BY <1>5 DEF OverlaySound
  <2>4. /\ Leads(bus'[p], wasPlaying, life[p] = "playing")
        /\ StatePending(bus[p]) => StatePending(bus'[p])
    BY <2>1, <2>2, <2>3, MessageAppended
  <2>5. FailurePending(bus'[p])
    BY <2>1, <2>2, FailureStaysPending
  <2> QED
    BY <1>1, <1>5, <2>1, <2>4, <2>5 DEF OverlaySound
<1> QED
  BY <1>2, <1>3, <1>4, <1>5

\* A stop leaves nothing watched; a new pipeline's first message says that
\* it does not play yet.
LEMMA StopOverlay ==
  ASSUME OInv, NEW t \in Threads, StopStep(t)
  PROVE  OverlaySound'
<1> USE DEF OInv
<1>1. UNCHANGED <<wasPlaying, lastSignal>>
  BY DEF StopStep, NothingToStop, TearDown, Release, Clear, StopReleased, Finish, signals
<1>2. CASE NothingToStop(t) \/ Clear(t)
  <2>1. Finish(t)
    BY <1>2 DEF NothingToStop, Clear
  <2>2. CASE t = "gui" /\ reopening
    <3>1. PICK p \in Unborn : CreatePipeline(p)
      BY <2>1, <2>2 DEF Finish
    <3>2. pipeline' = p /\ bus'[p] = <<"NotPlaying">> /\ life'[p] = "starting"
      BY <3>1 DEF CreatePipeline, Unborn, IInv, TypeOK
    <3>3. Leads(<<"NotPlaying">>, wasPlaying, FALSE) /\ StatePending(<<"NotPlaying">>)
      BY DEF Leads, After, IsState, Quiet, StatePending
    <3> QED
      BY <1>1, <3>2, <3>3 DEF OverlaySound
  <2>3. CASE ~(t = "gui" /\ reopening)
    <3>1. pipeline' = Null /\ watched' = watched
      BY <2>1, <2>3 DEF Finish, gst
    <3>2. pipeline' \notin watched'
      BY <3>1 DEF IInv, TypeOK, Pipelines, Null
    <3> QED
      BY <1>1, <3>2 DEF OverlaySound
  <2> QED
    BY <2>2, <2>3
<1>3. CASE TearDown(t)
  <2>1. pipeline' \notin watched'
    BY <1>3 DEF TearDown
  <2> QED
    BY <1>1, <2>1 DEF OverlaySound
<1>4. CASE Release(t)
  <2>1. watched' = {}
    BY <1>4 DEF Release, Destroy, gst, IInv, StagesSound
  <2> QED
    BY <1>1, <2>1 DEF OverlaySound
<1>5. CASE StopReleased(t)
  <2>1. watched' = {}
    BY <1>5 DEF StopReleased, Dangling, Destroy, gst, IInv, StagesSound, OnlyCurrentIsWatched, TypeOK
  <2> QED
    BY <1>1, <2>1 DEF OverlaySound
<1> QED
  BY <1>2, <1>3, <1>4, <1>5 DEF StopStep

\* The task of a start() does not touch what plays.
LEMMA RunStartOverlay ==
  ASSUME OInv, NEW p \in Pipelines, RunStart(p)
  PROVE  OverlaySound'
<1> USE DEF OInv
<1>1. UNCHANGED <<pipeline, watched, wasPlaying, lastSignal>>
  BY DEF RunStart, StartSucceeds, StartFails, StartDestroyed, StartForgotten, gst, signals
<1>2. CASE pipeline \in watched
  <2>1. life[pipeline] \in {"starting", "playing"} /\ pipeline \in Pipelines
    BY <1>2 DEF IInv, StagesSound, TypeOK
  <2>2. /\ bus'[pipeline] = bus[pipeline]
        /\ (life'[pipeline] = "playing") = (life[pipeline] = "playing")
        /\ life[pipeline] = "playing" /\ pipeline \in broken' => pipeline \in broken
        /\ life[pipeline] = "playing" /\ pipeline \in swallowed => pipeline \in swallowed'
    BY <2>1 DEF RunStart, StartSucceeds, StartFails, StartDestroyed, StartForgotten, Revive,
                gst, history, IInv, TypeOK
  <2> QED
    BY <1>1, <2>2 DEF OverlaySound
<1>3. CASE pipeline \notin watched
  BY <1>1, <1>3 DEF OverlaySound
<1> QED
  BY <1>2, <1>3

\* Handling a message moves the flag, the signal and the bus together.
LEMMA BusCallOverlay ==
  ASSUME OInv, NEW p \in Pipelines, BusCall(p)
  PROVE  OverlaySound'
<1> USE DEF OInv
<1> DEFINE b == bus[p]
           plays == life[p] = "playing"
<1>1. p = pipeline /\ pipeline \in watched /\ b # << >> /\ UNCHANGED <<pipeline, watched>>
  BY DEF BusCall, HandleStateChange, HandleFailure, SwallowFailure, Delivers, IInv, OnlyCurrentIsWatched
<1>2. b \in Seq(Message) /\ wasPlaying \in BOOLEAN /\ plays \in BOOLEAN
  BY <1>1, OverlayTypes
<1>3. Leads(b, wasPlaying, plays)
  BY <1>1 DEF OverlaySound
<1>4. Head(b) = b[1] /\ Taken(p)[p] = Tail(b) /\ Taken(p) \in [Pipelines -> Seq(Message)]
  <2>1. Head(b) = b[1] /\ Tail(b) \in Seq(Message)
    BY <1>1, <1>2, TailFacts
  <2> QED
    BY <2>1 DEF Taken, IInv, TypeOK
<1> HIDE DEF b, plays
<1>5. CASE HandleStateChange(p)
  <2>1. b[1] # "Failure" /\ bus'[p] = Tail(b) /\ life' = life /\ StateChanged(p, b[1] = "Playing")
    BY <1>4, <1>5 DEF HandleStateChange, Delivers, b
  <2>2. Leads(Tail(b), b[1] = "Playing", plays) /\ ~(wasPlaying /\ b[1] = "Playing")
    BY <1>1, <1>2, <1>3, <2>1, ChangeTaken
  <2>3. /\ wasPlaying' = (b[1] = "Playing")
        /\ lastSignal' = "cameraStarted" => wasPlaying'
        /\ wasPlaying' => lastSignal' = "cameraStarted"
    <3>1. CASE (b[1] = "Playing") = wasPlaying
      BY <1>1, <2>1, <2>2, <3>1 DEF StateChanged, OverlaySound
    <3>2. CASE (b[1] = "Playing") # wasPlaying
      BY <1>1, <2>1, <3>2 DEF StateChanged
    <3> QED
      BY <3>1, <3>2
  <2>4. FailurePending(b) => FailurePending(bus'[p])
    BY <1>1, <1>2, <2>1, FailureStaysPending
  <2>5. UNCHANGED <<broken, swallowed>>
    BY <1>5 DEF HandleStateChange, history
  <2> QED
    BY <1>1, <2>1, <2>2, <2>3, <2>4, <2>5 DEF OverlaySound, plays, b
<1>6. CASE HandleFailure(p) \/ SwallowFailure(p)
  <2>1. b[1] = "Failure" /\ wasPlaying' = wasPlaying
    BY <1>4, <1>6 DEF HandleFailure, SwallowFailure, Delivers, b
  <2>2. /\ Leads(Tail(b), wasPlaying, plays)
        /\ StatePending(b) => StatePending(Tail(b))
    BY <1>1, <1>2, <1>3, <2>1, FailureTaken
  <2>3. Tail(b) \in Seq(Message)
    BY <1>1, <1>2, TailFacts
  <2>4. CASE SwallowFailure(p)
    <3>1. bus'[p] = Tail(b) /\ life' = life /\ lastSignal' = lastSignal
      BY <1>4, <2>4 DEF SwallowFailure
    <3>2. p \in broken' => p \in swallowed'
      BY <2>4 DEF SwallowFailure
    <3> QED
      BY <1>1, <2>1, <2>2, <3>1, <3>2 DEF OverlaySound, b, plays
  <2>5. CASE HandleFailure(p)
    <3>1. /\ lastSignal' = "Failure" /\ life'[p] = "starting"
          /\ bus'[p] = Tail(b) \o Stopped
      BY <1>1, <1>4, <2>5 DEF HandleFailure, Recover, IInv, TypeOK
    <3>2. Leads(bus'[p], wasPlaying, FALSE) /\ (wasPlaying => StatePending(bus'[p]))
      <4>1. CASE plays
        <5>1. Tail(b) \o Stopped = Append(Tail(b), "NotPlaying")
          BY <1>1, <2>3, <4>1 DEF Stopped, plays
        <5>2. Leads(Tail(b), wasPlaying, TRUE) /\ "NotPlaying" \in Message
          BY <2>2, <4>1, <1>2 DEF Message
        <5> QED
          BY <1>2, <2>3, <3>1, <5>1, <5>2, MessageAppended
      <4>2. CASE ~plays
        <5>1. Tail(b) \o Stopped = Tail(b)
          BY <1>1, <2>3, <4>2 DEF Stopped, plays
        <5>2. wasPlaying => StatePending(b)
          BY <1>2, <1>3, <4>2, NothingPending
        <5> QED
          BY <1>2, <2>2, <3>1, <4>2, <5>1, <5>2
      <4> QED
        BY <4>1, <4>2
    <3> QED
      BY <1>1, <2>1, <3>1, <3>2 DEF OverlaySound
  <2> QED
    BY <1>6, <2>4, <2>5
<1> QED
  BY <1>5, <1>6 DEF BusCall

\* Every step keeps the overlay's invariant.
LEMMA NextOverlay == OInv /\ [Next]_vars => OverlaySound'
<1> SUFFICES ASSUME OInv, [Next]_vars PROVE OverlaySound'
  OBVIOUS
<1>1. CASE \E p \in Pipelines : StreamStarts(p) \/ StreamFails(p)
  BY <1>1, StreamOverlay
<1>2. CASE \E p \in Pipelines : RunStart(p)
  BY <1>2, RunStartOverlay
<1>3. CASE \E p \in Pipelines : BusCall(p)
  BY <1>3, BusCallOverlay
<1>4. CASE \E p \in Pipelines : ShowStartFailure(p)
  BY <1>4 DEF ShowStartFailure, gst, history, OInv, OverlaySound
<1>5. CASE \E t \in Threads : StopStep(t)
  BY <1>5, StopOverlay
<1>6. CASE Stop \/ Reopen \/ Close \/ TimerExpires \/ UNCHANGED vars
  <2>1. UNCHANGED <<pipeline, life, broken, watched, bus, swallowed, wasPlaying, lastSignal>>
    BY <1>6 DEF Stop, Reopen, Close, TimerExpires, vars, gst, history, signals
  <2> QED
    BY <2>1 DEF OInv, OverlaySound
<1> QED
  BY <1>1, <1>2, <1>3, <1>4, <1>5, <1>6 DEF Next, Running

\* With no message waiting the overlay tells whether the stream plays, with
\* two exceptions: the late report of a failed start covers a stream that
\* plays, and a failure that the throttle swallowed leaves a dead stream
\* uncovered (bus_call() and the overlay).
THEOREM OverlayAlwaysTellsState == Spec => []OverlayTellsState
<1>1. Init => OInv
  BY InitIInv, InitOverlay DEF OInv
<1>2. OInv /\ [Next]_vars => OInv'
  BY NextIInv, NextOverlay DEF OInv
<1>3. OInv => OverlayTellsState
  <2> SUFFICES ASSUME OInv, pipeline \in watched, bus[pipeline] = << >>
               PROVE  /\ lastSignal = "cameraStarted" =>
                           /\ life[pipeline] = "playing"
                           /\ pipeline \in broken => pipeline \in swallowed
                      /\ life[pipeline] = "playing" =>
                           lastSignal \in {"cameraStarted", "Failed to start"}
    BY DEF OverlayTellsState
  <2>1. ~StatePending(bus[pipeline]) /\ ~FailurePending(bus[pipeline])
    BY DEF StatePending, FailurePending
  <2>2. wasPlaying = (life[pipeline] = "playing")
    BY <2>1, NothingPending, OverlayTypes DEF OInv, OverlaySound
  <2> QED
    BY <2>1, <2>2 DEF OInv, OverlaySound
<1> QED
  BY <1>1, <1>2, <1>3, PTL DEF Spec

----------------------------------------------------------------------------
(* The calls on destroyed pipelines.                                       *)

\* Only two races end the program: a start() whose pipeline was destroyed
\* before a pool thread came to run its task, and the two stops of a window
\* that closes.  No restore, recovery, stop or change of the address ends it
\* by a call on a destroyed pipeline.
THEOREM OnlyTwoRacesCrash ==
  Spec => [][crashed' => \/ crashed
                         \/ Closing
                         \/ \E p \in starts : life[p] = "destroyed"]_vars
<1> DEFINE Race == crashed' => \/ crashed
                               \/ Closing
                               \/ \E p \in starts : life[p] = "destroyed"
<1>1. IInv /\ [Next]_vars => [Race]_vars
  <2> SUFFICES ASSUME IInv, Next, ~crashed, crashed', ~Closing
               PROVE  \E p \in starts : life[p] = "destroyed"
    BY DEF IInv, TypeOK
  <2>1. ASSUME NEW p \in Pipelines, StreamStarts(p) \/ StreamFails(p) PROVE FALSE
    BY <2>1 DEF StreamStarts, StreamFails
  <2>2. ASSUME NEW p \in Pipelines, RunStart(p)
        PROVE  p \in starts /\ life[p] = "destroyed"
    BY <2>2 DEF RunStart, StartSucceeds, StartFails, StartDestroyed, StartForgotten
  <2>3. ASSUME NEW p \in Pipelines, BusCall(p) \/ ShowStartFailure(p) PROVE FALSE
    BY <2>3 DEF BusCall, HandleStateChange, HandleFailure, SwallowFailure, ShowStartFailure
  <2>4. ASSUME NEW t \in Threads, StopStep(t) PROVE FALSE
    <3>1. StopReleased(t)
      BY <2>4 DEF StopStep, NothingToStop, TearDown, Release, Clear, Finish
    <3>2. PICK u \in Threads : stage[u] = "released"
      BY <3>1 DEF StopReleased, Dangling, IInv, StagesSound, Alive
    <3>3. stage["pool"] # "idle"
      BY <3>1, <3>2 DEF StopReleased, Threads
    <3> QED
      BY <3>3 DEF Closing
  <2>5. ~(Stop \/ Reopen \/ Close \/ TimerExpires)
    BY DEF Stop, Reopen, Close, TimerExpires
  <2> QED
    BY <2>1, <2>2, <2>3, <2>4, <2>5 DEF Next, Running
<1> QED
  BY <1>1, AlwaysIInv, PTL DEF Spec

\* Every stop finds the pool done with the tasks of start().
PromptStarts == [][Stop \/ Reopen \/ Close => starts = {}]_vars

\* Then a task waits only while nothing is being stopped, for a pipeline
\* that is there, and none comes late.
StartsWait ==
  /\ revived = {}
  /\ starts # {} =>
       /\ \A t \in Threads : stage[t] = "idle"
       /\ \A p \in starts : life[p] \in {"down", "starting", "playing"}

\* Every step keeps it so, if the pool is prompt.
LEMMA NextStartsWait ==
  ASSUME IInv, StartsWait, [Next]_vars, Stop \/ Reopen \/ Close => starts = {}
  PROVE  StartsWait'
<1> USE DEF IInv
<1>1. ASSUME starts' \subseteq starts, stage' = stage, revived' = {},
             \A q \in Pipelines :
               \/ life'[q] = life[q]
               \/ life'[q] \in {"down", "starting", "playing"}
      PROVE  StartsWait'
  BY <1>1 DEF StartsWait, TypeOK
<1>2. ASSUME NEW p \in Pipelines, StreamStarts(p) \/ StreamFails(p)
      PROVE  StartsWait'
  BY <1>1, <1>2 DEF StreamStarts, StreamFails, StartsWait, history, stopping, tasks, TypeOK
<1>3. ASSUME NEW p \in Pipelines, RunStart(p)
      PROVE  StartsWait'
  <2>1. \A t \in Threads : stage[t] = "idle"
    BY <1>3 DEF RunStart, StartsWait
  <2>2. p \in watched /\ life[p] # "down"
    BY <1>3, <2>1 DEF RunStart, StartsWait, StagesSound, Accounted, Alive
  <2>3. revived' = {}
    BY <1>3, <2>2
    DEF RunStart, StartSucceeds, StartFails, StartDestroyed, StartForgotten, StartsWait, gst, history
  <2> QED
    BY <1>1, <1>3, <2>3
    DEF RunStart, StartSucceeds, StartFails, StartDestroyed, StartForgotten, gst, stopping, TypeOK
<1>4. ASSUME NEW p \in Pipelines, BusCall(p) \/ ShowStartFailure(p)
      PROVE  StartsWait'
  BY <1>1, <1>4 DEF BusCall, HandleStateChange, HandleFailure, SwallowFailure, Recover,
                    ShowStartFailure, StartsWait, gst, history, stopping, tasks, TypeOK
<1>5. ASSUME NEW t \in Threads, StopStep(t)
      PROVE  StartsWait'
  <2>1. starts = {}
    BY <1>5 DEF StartsWait, StopStep, NothingToStop, TearDown, Release, Clear, StopReleased
  <2>2. revived' = {}
    BY <1>5 DEF StartsWait, StopStep, NothingToStop, TearDown, SetNull, Release, Clear,
                StopReleased, Finish, CreatePipeline, Destroy, gst, history
  <2>3. CASE starts' = {}
    BY <2>2, <2>3 DEF StartsWait
  <2>4. CASE starts' # {}
    <3>1. Finish(t) /\ t = "gui" /\ reopening
      BY <1>5, <2>1, <2>4
      DEF StopStep, NothingToStop, TearDown, Release, Clear, StopReleased, Finish, tasks
    <3>2. PICK p \in Unborn : CreatePipeline(p) /\ Start(p)
      BY <3>1 DEF Finish
    <3>3. starts' = {p} /\ life'[p] = "starting"
      BY <2>1, <3>2 DEF Start, CreatePipeline, Unborn, TypeOK
    <3>4. stage'["gui"] = "idle" /\ stage'["pool"] = "idle"
      BY <3>1 DEF Finish, Ended, StagesSound, Closing, TypeOK, Threads
    <3> QED
      BY <2>2, <3>3, <3>4 DEF StartsWait, Threads
  <2> QED
    BY <2>3, <2>4
<1>6. CASE Stop \/ Reopen \/ Close
  BY <1>6 DEF Stop, Reopen, Close, gst, history, tasks, StartsWait
<1>7. CASE TimerExpires \/ UNCHANGED vars
  BY <1>1, <1>7 DEF TimerExpires, StartsWait, vars, gst, history, stopping, tasks
<1> QED
  BY <1>2, <1>3, <1>4, <1>5, <1>6, <1>7 DEF Next, Running

\* A prompt pool keeps its tasks to nothing being stopped.
LEMMA AlwaysStartsWait == Spec /\ PromptStarts => [](IInv /\ StartsWait)
<1>1. Init => IInv /\ StartsWait
  <2>1. Init => StartsWait
    BY DEF Init, StartsWait
  <2> QED
    BY <2>1, InitIInv
<1>2. /\ IInv /\ StartsWait /\ [Next]_vars
      /\ [Stop \/ Reopen \/ Close => starts = {}]_vars
      => (IInv /\ StartsWait)'
  <2>1. UNCHANGED vars /\ StartsWait => StartsWait'
    BY DEF StartsWait, vars, gst, history, tasks, stopping
  <2> QED
    BY <2>1, NextIInv, NextStartsWait
<1> QED
  BY <1>1, <1>2, PTL DEF Spec, PromptStarts

\* When the comment at VideoReceiver.cpp:667 is true, which the run StartRace
\* shows false in general: if no stop begins while a task of start() is still
\* to be run, the pipeline each task copied is there when the task runs, so
\* of the two races only the one of the window that closes is left.
THEOREM PromptStartsSurviveReset == Spec /\ PromptStarts => []StartSurvivesReset
<1>1. IInv /\ StartsWait => StartSurvivesReset
  BY DEF StartsWait, StartSurvivesReset
<1> QED
  BY <1>1, AlwaysStartsWait, PTL

\* Late starts are the only leak: if no stop begins while a task of start() is
\* still to be run, the pipeline of the member is the only one there is, also
\* when the two stops of a window that closes overlap.
THEOREM PromptStartsNeverLeak == Spec /\ PromptStarts => [](Alive \subseteq {pipeline})
<1>1. IInv /\ StartsWait => Alive \subseteq {pipeline}
  BY DEF IInv, StartsWait, OnlyCurrentIsWatched, StagesSound, Accounted
<1> QED
  BY <1>1, AlwaysStartsWait, PTL
=============================================================================
