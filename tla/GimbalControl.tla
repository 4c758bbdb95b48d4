--------------------------- MODULE GimbalControl ----------------------------
(***************************************************************************)
(* How the operator turns the camera: the keys, the joystick and the       *)
(* buttons of MainWindow set two speeds; handlers and a timer send both to *)
(* the camera through the controller, in datagrams that may be lost.  The  *)
(* handlers run one at a time on the GUI thread.                           *)
(*                                                                         *)
(* The window has a running controller whenever it handles an event: the   *)
(* constructor makes one first, and one that does not start ends the       *)
(* program.  A servo controller takes no speeds.  A joystick is what       *)
(* SDL_JoystickOpen() finds under the selected index, which starts         *)
(* uninitialized; choosing another is a change of its axes.  The requests  *)
(* for follow mode that go before some commands are left out.              *)
(***************************************************************************)
EXTENDS SiyiProtocol, Sequences

CONSTANTS
  Keys,            \* the keys and the buttons of the same directions in use
  StickSpeeds,     \* the speeds the axes of a joystick may be turned into
  MaxInFlight      \* bound: datagrams on their way at a time

MoveSpeed == 50
Axes == {"yaw", "pitch"}
AllKeys == {"Z", "S", "Q", "D"}

ASSUME KeysAssumption == Keys \subseteq AllKeys
ASSUME StickSpeedsAssumption ==
  0 \in StickSpeeds /\ StickSpeeds \subseteq -MoveSpeed .. MoveSpeed
ASSUME MaxInFlightAssumption == MaxInFlight \in Nat \ {0}

VARIABLES
  inputMode,   \* None, Keyboard, Joystick or Configuration
  speed,       \* speed["yaw"] is currentYawSpeed, speed["pitch"] currentPitchSpeed
  isServo,     \* TRUE iff the controller is a ServoCameraController
  held,        \* the keys that are down
  editing,     \* TRUE iff a QLineEdit has the focus
  stick,       \* the speeds the axes of the joystick stand for
  plugged,     \* TRUE iff there is a joystick under the selected index
  inFlight,    \* speed commands on their way to the camera
  camera,      \* the speeds the camera turns at
  excused      \* history: the axes that no key has set since a button was
               \* clicked or a key's release was left to a QLineEdit

window == <<inputMode, speed, isServo>>
input == <<held, editing, stick, plugged>>
link == <<inFlight, camera>>
vars == <<window, input, link, excused>>

AxisOf(key) == IF key \in {"Z", "S"} THEN "pitch" ELSE "yaw"
SpeedOf(key) == IF key \in {"Z", "Q"} THEN -MoveSpeed ELSE MoveSpeed
Still == [a \in Axes |-> 0]
Speeds == -MoveSpeed .. MoveSpeed
Commands == [Axes -> Byte]

Init ==
  /\ inputMode = "None"
  /\ speed = Still
  /\ isServo \in BOOLEAN
  /\ held = {}
  /\ editing \in BOOLEAN
  /\ stick \in [Axes -> StickSpeeds]
  /\ plugged \in BOOLEAN
  /\ inFlight = << >>
  /\ camera = Still
  /\ excused = {}

----------------------------------------------------------------------------
(* Sending.                                                                *)

\* setGimbalSpeed(): the command, or its second try, goes out, or both fail;
\* what goes out may be lost on the way.
SetGimbalSpeed(s) ==
  /\ UNCHANGED camera
  /\ \/ /\ ~isServo
        /\ Len(inFlight) < MaxInFlight
        /\ inFlight' = Append(inFlight, [a \in Axes |-> SpeedByte(s[a])])
     \/ UNCHANGED inFlight

Commanding == inputMode \in {"Keyboard", "Joystick"}

\* Mutant of SendGimbalCommands: a stop is sent once, by its handler.
MutantSendsMotionOnly ==
  /\ Commanding
  /\ speed # Still
  /\ SetGimbalSpeed(speed)
  /\ UNCHANGED <<window, input, excused>>

\* commandTimer, every 50 ms.
SendGimbalCommands ==
  /\ Commanding
  /\ SetGimbalSpeed(speed)
  /\ UNCHANGED <<window, input, excused>>

\* The camera turns at the speeds of the command it gets until the next.
Deliver ==
  /\ inFlight # << >>
  /\ camera' = [a \in Axes |-> AsSigned(Head(inFlight)[a])]
  /\ inFlight' = Tail(inFlight)
  /\ UNCHANGED <<window, input, excused>>

----------------------------------------------------------------------------
(* Modes.                                                                  *)

SwitchTo(mode) ==
  /\ inputMode' = mode
  /\ speed' = Still
  /\ excused' = {}
  /\ SetGimbalSpeed(Still)
  /\ UNCHANGED <<isServo, input>>

\* Mutant of OnSwitchToKeyboard: the camera is stopped, the speeds are kept.
MutantKeepsSpeed ==
  /\ inputMode' = "Keyboard"
  /\ excused' = {}
  /\ SetGimbalSpeed(Still)
  /\ editing' = FALSE
  /\ UNCHANGED <<speed, isServo, held, stick, plugged>>

\* Takes the focus from the QLineEdit.
OnSwitchToKeyboard ==
  /\ inputMode' = "Keyboard"
  /\ speed' = Still
  /\ excused' = {}
  /\ SetGimbalSpeed(Still)
  /\ editing' = FALSE
  /\ UNCHANGED <<isServo, held, stick, plugged>>

OnSwitchToJoystick == SwitchTo("Joystick")

\* Nothing is sent and nothing is stopped.
OnSwitchToConfiguration ==
  /\ inputMode' = "Configuration"
  /\ UNCHANGED <<speed, isServo, input, link, excused>>

\* applyConfig() with the saved file, whose format makes a SIYI controller.
\* The datagrams of the old connection may still arrive.
ApplyConfig ==
  /\ isServo' = FALSE
  /\ UNCHANGED <<inputMode, speed, input, link, excused>>

----------------------------------------------------------------------------
(* Keys.  The system repeats a key held down as releases and presses.      *)

KeyPressEvent(key) ==
  IF inputMode = "Keyboard" /\ ~editing /\ ~(isServo /\ AxisOf(key) = "pitch")
  THEN /\ speed' = [speed EXCEPT ![AxisOf(key)] = SpeedOf(key)]
       /\ excused' = excused \ {AxisOf(key)}
       /\ SetGimbalSpeed(speed')
  ELSE UNCHANGED <<speed, excused, link>>

\* Mutant of KeyReleaseEvent: only the release of the first key of an axis stops it.
MutantStopsOneDirection(key) ==
  IF inputMode = "Keyboard" /\ ~editing /\ ~(isServo /\ AxisOf(key) = "pitch")
  THEN /\ speed' = IF SpeedOf(key) < 0
                   THEN [speed EXCEPT ![AxisOf(key)] = 0] ELSE speed
       /\ excused' = excused \ {AxisOf(key)}
       /\ SetGimbalSpeed(speed')
  ELSE /\ excused' = IF editing THEN excused \cup {AxisOf(key)} ELSE excused
       /\ UNCHANGED <<speed, link>>

KeyReleaseEvent(key) ==
  IF inputMode = "Keyboard" /\ ~editing /\ ~(isServo /\ AxisOf(key) = "pitch")
  THEN /\ speed' = [speed EXCEPT ![AxisOf(key)] = 0]
       /\ excused' = excused \ {AxisOf(key)}
       /\ SetGimbalSpeed(speed')
  ELSE /\ excused' = IF editing THEN excused \cup {AxisOf(key)} ELSE excused
       /\ UNCHANGED <<speed, link>>

Press(key) ==
  /\ key \notin held
  /\ held' = held \cup {key}
  /\ KeyPressEvent(key)
  /\ UNCHANGED <<inputMode, isServo, editing, stick, plugged>>

Release(key) ==
  /\ key \in held
  /\ held' = held \ {key}
  /\ KeyReleaseEvent(key)
  /\ UNCHANGED <<inputMode, isServo, editing, stick, plugged>>

Repeat(key) ==
  /\ key \in held
  /\ KeyPressEvent(key) \/ KeyReleaseEvent(key)
  /\ UNCHANGED <<inputMode, isServo, input>>

Focus(edit) ==
  /\ editing' = edit
  /\ UNCHANGED <<window, held, stick, plugged, link, excused>>

----------------------------------------------------------------------------
(* Buttons on the screen, which work in every mode.                        *)

OnFull(key) ==
  /\ speed' = [Still EXCEPT ![AxisOf(key)] = SpeedOf(key)]
  /\ excused' = Axes
  /\ SetGimbalSpeed(speed')
  /\ UNCHANGED <<inputMode, isServo, input>>

OnStop ==
  /\ speed' = Still
  /\ excused' = {}
  /\ SetGimbalSpeed(Still)
  /\ UNCHANGED <<inputMode, isServo, input>>

----------------------------------------------------------------------------
(* The joystick.                                                           *)

MoveStick(s) ==
  /\ stick' = s
  /\ UNCHANGED <<window, held, editing, plugged, link, excused>>

Plug ==
  /\ plugged' = ~plugged
  /\ UNCHANGED <<window, held, editing, stick, link, excused>>

\* Mutant of PollAxisValues: an axis in its dead zone is skipped.
MutantSkipsDeadZone ==
  /\ inputMode = "Joystick"
  /\ plugged
  /\ speed' = [a \in Axes |-> IF stick[a] = 0 THEN speed[a] ELSE stick[a]]
  /\ UNCHANGED <<inputMode, isServo, input, link, excused>>

\* pollTimer, every 50 ms.
PollAxisValues ==
  /\ inputMode = "Joystick"
  /\ plugged
  /\ speed' = stick
  /\ UNCHANGED <<inputMode, isServo, input, link, excused>>

Next ==
  \/ SendGimbalCommands \/ Deliver
  \/ OnSwitchToKeyboard \/ OnSwitchToJoystick \/ OnSwitchToConfiguration
  \/ ApplyConfig
  \/ \E key \in Keys : Press(key) \/ Release(key) \/ Repeat(key)
  \/ \E edit \in BOOLEAN : Focus(edit)
  \/ \E key \in Keys : OnFull(key)
  \/ OnStop
  \/ \E s \in [Axes -> StickSpeeds] : MoveStick(s)
  \/ Plug
  \/ PollAxisValues

Spec == Init /\ [][Next]_vars

----------------------------------------------------------------------------
(* Fairness: both timers fire again and again, and neither the sockets nor  *)
(* the network lose every command for ever.                                *)

SendThatArrives == SendGimbalCommands /\ inFlight' # inFlight

Fairness ==
  /\ SF_vars(SendThatArrives)
  /\ WF_vars(Deliver)
  /\ WF_vars(PollAxisValues)

FairSpec == Spec /\ Fairness

----------------------------------------------------------------------------
(* Properties.                                                             *)

\* The type invariant: the window's speeds, the bytes on their way and what
\* the camera makes of them stay in range.
TypeOK ==
  /\ inputMode \in {"None", "Keyboard", "Joystick", "Configuration"}
  /\ speed \in [Axes -> Speeds]
  /\ isServo \in BOOLEAN
  /\ held \subseteq Keys
  /\ editing \in BOOLEAN
  /\ stick \in [Axes -> StickSpeeds]
  /\ plugged \in BOOLEAN
  /\ inFlight \in Seq(Commands)
  /\ Len(inFlight) <= MaxInFlight
  /\ camera \in [Axes -> Speeds]
  /\ excused \subseteq Axes

\* In keyboard mode an axis that turns has a cause: a key of that direction is
\* down.  Neither a switch of modes and back, nor the release of keys in any
\* order, nor their repetition leaves a speed behind; a click on a button and a
\* release that went to a QLineEdit do, until the next key of the axis.
MotionHasACause ==
  inputMode = "Keyboard" =>
    \A a \in Axes \ excused :
      speed[a] # 0 =>
        \E key \in held : AxisOf(key) = a /\ SpeedOf(key) = speed[a]

\* The camera turns at the window's speeds, and so would it by any command
\* still on its way.
InStep ==
  /\ camera = speed
  /\ \A i \in 1 .. Len(inFlight) : \A a \in Axes : AsSigned(inFlight[i][a]) = speed[a]

\* Once in step, the camera stays in step until the window's speeds change: no
\* handler sends anything but the speeds it leaves in the window (the button
\* of a _DEBUG build would), a command that comes late only repeats them, and
\* no byte is read as another speed than the one it was made from.
StaysInStep == [][InStep /\ UNCHANGED speed => InStep']_vars

\* Whatever commands are lost, in the modes that resend the camera ends up
\* turning at the window's speeds, zero or not, once these stay as they are.
CameraFollows ==
  /\ <>[](Commanding /\ ~isServo)
  /\ <>[][FALSE]_speed
  => <>[](camera = speed)

\* A joystick that stays as it is, and whose speeds no button changes, is what
\* the camera ends up following: also one that was let go of.
StickIsObeyed ==
  /\ <>[](inputMode = "Joystick" /\ plugged /\ ~isServo)
  /\ <>[][FALSE]_stick
  /\ <>[][speed' = stick]_speed
  => <>[](camera = stick)

\* The operator who takes the hands off the keys stops the camera: it ends up
\* still, although it turned in another mode before, commands were lost and
\* none of the keys was released in this mode.
HandsOffStops ==
  <>[](inputMode = "Keyboard" /\ ~isServo /\ held = {} /\ excused = {})
  => <>[](camera = Still)
=============================================================================
