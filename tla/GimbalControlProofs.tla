------------------------ MODULE GimbalControlProofs -------------------------
(***************************************************************************)
(* Theorems of SiyiProtocol and GimbalControl.  MotionHasACause is         *)
(* inductive with TypeOK and a fact about servo controllers, for which the *)
(* keys of the pitch do nothing: ServoPitch.  A step that leaves the held  *)
(* keys, the mode and the excused axes alone and the speeds unchanged or   *)
(* zero keeps it.                                                          *)
(***************************************************************************)
EXTENDS GimbalControl, SequenceTheorems, TLAPS

(***************************************************************************)
(* The numbers of the protocol.                                            *)
(***************************************************************************)

\* The camera reads the speed that gimbal_speed_msg() was called with, within
\* the limits of 100: cutting the sign off with the leading digits loses nothing.
THEOREM SpeedRoundTrip ==
  ASSUME NEW v \in Int
  PROVE  AsSigned(SpeedByte(v)) = Clamp(-100, v, 100)
<1>1. CASE v < -100
  BY <1>1 DEF AsSigned, SpeedByte, LastDigits, Clamp
<1>2. CASE v > 100
  BY <1>2 DEF AsSigned, SpeedByte, LastDigits, Clamp
<1>3. CASE -100 <= v /\ v <= 100
  BY <1>3 DEF AsSigned, SpeedByte, LastDigits, Clamp
<1> QED
  BY <1>1, <1>2, <1>3

LEMMA SpeedByteType ==
  ASSUME NEW v \in Int
  PROVE  SpeedByte(v) \in Byte
BY DEF SpeedByte, LastDigits, Byte, Clamp

\* The member _seq of increment_seq() never leaves the range its guard accepts
\* but by the one step that the guard then resets.
THEOREM SeqStaysInRange ==
  ASSUME NEW v \in Nat, v <= 65536
  PROVE  NextSeq(v) \in Nat /\ NextSeq(v) <= 65536
BY DEF NextSeq

\* The number in the message is the low byte of that member.
THEOREM SeqFieldIsLowByte ==
  ASSUME NEW v \in Nat, v <= 65536
  PROVE  SeqField(v) = LastDigits(NextSeq(v))
BY DEF NextSeq, SeqField, LastDigits

\* Two messages built one after the other have different numbers, except the
\* two around the restart, which both have 0: that of 65535, of whose five
\* digits the first two are dropped, and the one the guard of increment_seq()
\* starts again.
THEOREM NeighboursDifferButAtRestart ==
  ASSUME NEW v \in Nat, v <= 65536
  PROVE  SeqField(v) = SeqField(NextSeq(v)) <=> v = 65535
BY DEF NextSeq, SeqField, LastDigits

\* Up to the restart, 256 messages in a row have 256 numbers.
THEOREM SeqTellsApart ==
  ASSUME NEW v \in Nat, NEW d \in 1 .. 255, v + d <= 65535
  PROVE  SeqField(v) # SeqField(v + d)
<1>1. SeqField(v) = (v + 1) % 256 /\ SeqField(v + d) = (v + d + 1) % 256
  BY DEF SeqField, LastDigits
<1> QED
  BY <1>1

\* The two bytes of the number hold one: messages 256 apart have the same.
THEOREM SeqRepeats ==
  ASSUME NEW v \in Nat, v <= 65535 - 256
  PROVE  SeqField(v + 256) = SeqField(v)
BY DEF SeqField, LastDigits

\* A length below 256 bytes is what the message says.
THEOREM LengthIsExact ==
  ASSUME NEW n \in Byte
  PROVE  LengthField(n) = n
BY DEF LengthField, LastDigits, Byte

(***************************************************************************)
(* The type invariant.                                                     *)
(***************************************************************************)

LEMMA KeyType ==
  ASSUME NEW key \in Keys
  PROVE  AxisOf(key) \in Axes /\ SpeedOf(key) \in Speeds
BY DEF AxisOf, SpeedOf, Axes, Speeds, MoveSpeed

LEMMA StillType == Still \in [Axes -> Speeds]
BY DEF Still, Speeds, MoveSpeed

\* What is sent is a command, and there is never more than may be on its way.
LEMMA SendType ==
  ASSUME NEW s \in [Axes -> Speeds],
         inFlight \in Seq(Commands), Len(inFlight) <= MaxInFlight,
         camera \in [Axes -> Speeds],
         SetGimbalSpeed(s)
  PROVE  /\ inFlight' \in Seq(Commands)
         /\ Len(inFlight') <= MaxInFlight
         /\ camera' \in [Axes -> Speeds]
<1>1. camera' \in [Axes -> Speeds]
  BY DEF SetGimbalSpeed
<1>2. CASE UNCHANGED inFlight
  BY <1>1, <1>2
<1>3. CASE ~(UNCHANGED inFlight)
  <2>0. \A a \in Axes : s[a] \in Int
    <3>1. \A v \in Speeds : v \in Int
      BY DEF Speeds, MoveSpeed
    <3> QED
      BY <3>1
  <2> DEFINE c == [a \in Axes |-> SpeedByte(s[a])]
  <2>1. inFlight' = Append(inFlight, c) /\ Len(inFlight) < MaxInFlight
    BY <1>3 DEF SetGimbalSpeed
  <2>2. c \in Commands
    BY <2>0, SpeedByteType DEF Commands
  <2>3. inFlight' \in Seq(Commands) /\ Len(inFlight') = Len(inFlight) + 1
    <3> HIDE DEF c
    <3> QED
      BY <2>1, <2>2
  <2> QED
    BY <1>1, <2>1, <2>3, MaxInFlightAssumption
<1> QED
  BY <1>2, <1>3

\* A command that was built from the window's speeds is read as speeds in
\* the window's range; of other bytes nothing is known, hence SaneBytes.
SaneByte == {b \in Byte : AsSigned(b) \in Speeds}

SaneBytes == \A i \in 1 .. Len(inFlight) : \A a \in Axes : inFlight[i][a] \in SaneByte

LEMMA SaneSpeedByte ==
  ASSUME NEW v \in Speeds
  PROVE  SpeedByte(v) \in SaneByte
<1>1. v \in Int /\ Clamp(-100, v, 100) = v
  BY DEF Speeds, MoveSpeed, Clamp
<1> QED
  BY <1>1, SpeedByteType, SpeedRoundTrip DEF SaneByte

LEMMA SendSane ==
  ASSUME NEW s \in [Axes -> Speeds], inFlight \in Seq(Commands),
         SaneBytes, SetGimbalSpeed(s)
  PROVE  SaneBytes'
<1>1. CASE UNCHANGED inFlight
  BY <1>1 DEF SaneBytes
<1>2. CASE ~(UNCHANGED inFlight)
  <2> DEFINE c == [a \in Axes |-> SpeedByte(s[a])]
  <2>1. inFlight' = Append(inFlight, c)
    BY <1>2 DEF SetGimbalSpeed
  <2>2. \A a \in Axes : c[a] \in SaneByte
    BY SaneSpeedByte
  <2> HIDE DEF c
  <2>3. /\ Len(inFlight') = Len(inFlight) + 1
        /\ \A i \in 1 .. Len(inFlight) : inFlight'[i] = inFlight[i]
        /\ inFlight'[Len(inFlight) + 1] = c
    BY <2>1
  <2>4. Len(inFlight) \in Nat
    OBVIOUS
  <2>5. ASSUME NEW i \in 1 .. Len(inFlight'), NEW a \in Axes
        PROVE  inFlight'[i][a] \in SaneByte
    <3>1. CASE i \in 1 .. Len(inFlight)
      BY <3>1, <2>3 DEF SaneBytes
    <3>2. CASE i = Len(inFlight) + 1
      BY <3>2, <2>2, <2>3
    <3> QED
      BY <3>1, <3>2, <2>3, <2>4
  <2> QED
    BY <2>5 DEF SaneBytes
<1> QED
  BY <1>1, <1>2

\* With a servo controller the keys leave the pitch alone, so that what turns
\* it in keyboard mode is a button.
ServoPitch ==
  isServo /\ inputMode = "Keyboard" => speed["pitch"] = 0 \/ "pitch" \in excused

IInv == TypeOK /\ SaneBytes /\ MotionHasACause /\ ServoPitch

(***************************************************************************)
(* Steps.  Wire is what every step does to the link, Cause what the steps  *)
(* of the keys and of the modes do to the speeds.                          *)
(***************************************************************************)

Wire ==
  /\ inFlight \in Seq(Commands)
  /\ Len(inFlight) <= MaxInFlight
  /\ camera \in [Axes -> Speeds]
  /\ SaneBytes

LEMMA SendWire ==
  ASSUME NEW s \in [Axes -> Speeds], Wire, SetGimbalSpeed(s)
  PROVE  Wire'
BY SendType, SendSane DEF Wire

LEMMA KeepWire ==
  ASSUME Wire, UNCHANGED link
  PROVE  Wire'
BY DEF Wire, link, SaneBytes

LEMMA WireOfIInv ==
  ASSUME IInv
  PROVE  Wire
BY DEF IInv, TypeOK, Wire

\* What is left to show of a step once the link is dealt with.
Rest ==
  /\ inputMode \in {"None", "Keyboard", "Joystick", "Configuration"}
  /\ speed \in [Axes -> Speeds]
  /\ isServo \in BOOLEAN
  /\ held \subseteq Keys
  /\ editing \in BOOLEAN
  /\ stick \in [Axes -> StickSpeeds]
  /\ plugged \in BOOLEAN
  /\ excused \subseteq Axes
  /\ MotionHasACause
  /\ ServoPitch

LEMMA IInvSplit == IInv => Wire /\ Rest
BY DEF IInv, TypeOK, Wire, Rest

LEMMA IInvJoin ==
  ASSUME Wire', Rest'
  PROVE  IInv'
BY DEF IInv, TypeOK, Wire, Rest

LEMMA AxisNames == "yaw" \in Axes /\ "pitch" \in Axes
BY DEF Axes

\* The handler of a key that goes down.
LEMMA KeyPressStep ==
  ASSUME IInv, NEW key \in Keys, KeyPressEvent(key), key \in held',
         held \subseteq held', held' \subseteq Keys,
         UNCHANGED <<inputMode, isServo, editing, stick, plugged>>
  PROVE  IInv'
<1> USE DEF Rest
<1>1. Wire /\ Rest
  BY IInvSplit
<1>2. AxisOf(key) \in Axes /\ SpeedOf(key) \in Speeds
  BY KeyType
<1>3. CASE inputMode = "Keyboard" /\ ~editing /\ ~(isServo /\ AxisOf(key) = "pitch")
  <2>1. /\ speed' = [speed EXCEPT ![AxisOf(key)] = SpeedOf(key)]
        /\ excused' = excused \ {AxisOf(key)}
        /\ SetGimbalSpeed(speed')
    BY <1>3 DEF KeyPressEvent
  <2>2. speed' \in [Axes -> Speeds]
    BY <1>1, <1>2, <2>1
  <2>3. Wire'
    BY <1>1, <2>1, <2>2, SendWire
  <2>4. MotionHasACause'
    BY <1>1, <1>2, <1>3, <2>1 DEF MotionHasACause
  <2>5. ServoPitch'
    BY <1>1, <1>2, <1>3, <2>1, AxisNames DEF ServoPitch
  <2> QED
    BY <1>1, <2>1, <2>2, <2>3, <2>4, <2>5, IInvJoin
<1>4. CASE ~(inputMode = "Keyboard" /\ ~editing /\ ~(isServo /\ AxisOf(key) = "pitch"))
  <2>1. UNCHANGED <<speed, excused, link>>
    BY <1>4 DEF KeyPressEvent
  <2>2. MotionHasACause'
    BY <1>1, <2>1 DEF MotionHasACause
  <2>3. ServoPitch'
    BY <1>1, <2>1 DEF ServoPitch
  <2> QED
    BY <1>1, <2>1, <2>2, <2>3, KeepWire, IInvJoin
<1> QED
  BY <1>3, <1>4

\* The handler of a key that goes up, or is taken to by the repetition.
LEMMA KeyReleaseStep ==
  ASSUME IInv, NEW key \in Keys, KeyReleaseEvent(key),
         held \ {key} \subseteq held', held' \subseteq held,
         UNCHANGED <<inputMode, isServo, editing, stick, plugged>>
  PROVE  IInv'
<1> USE DEF Rest
<1>1. Wire /\ Rest
  BY IInvSplit
<1>2. AxisOf(key) \in Axes
  BY KeyType
<1>3. CASE inputMode = "Keyboard" /\ ~editing /\ ~(isServo /\ AxisOf(key) = "pitch")
  <2>1. /\ speed' = [speed EXCEPT ![AxisOf(key)] = 0]
        /\ excused' = excused \ {AxisOf(key)}
        /\ SetGimbalSpeed(speed')
    BY <1>3 DEF KeyReleaseEvent
  <2>2. speed' \in [Axes -> Speeds]
    BY <1>1, <1>2, <2>1 DEF Speeds, MoveSpeed
  <2>3. Wire'
    BY <1>1, <2>1, <2>2, SendWire
  <2>4. MotionHasACause'
    <3>1. ASSUME NEW a \in Axes \ excused', speed'[a] # 0
          PROVE  \E k \in held' : AxisOf(k) = a /\ SpeedOf(k) = speed'[a]
      <4>1. a # AxisOf(key) /\ speed'[a] = speed[a] /\ a \in Axes \ excused
        BY <1>1, <1>2, <2>1, <3>1
      <4>2. PICK k \in held : AxisOf(k) = a /\ SpeedOf(k) = speed[a]
        BY <1>1, <1>3, <3>1, <4>1 DEF MotionHasACause
      <4> QED
        BY <4>1, <4>2
    <3> QED
      BY <3>1 DEF MotionHasACause
  <2>5. ServoPitch'
    BY <1>1, <1>2, <1>3, <2>1, AxisNames DEF ServoPitch
  <2> QED
    BY <1>1, <2>1, <2>2, <2>3, <2>4, <2>5, IInvJoin
<1>4. CASE ~(inputMode = "Keyboard" /\ ~editing /\ ~(isServo /\ AxisOf(key) = "pitch"))
  <2>1. /\ excused' = IF editing THEN excused \cup {AxisOf(key)} ELSE excused
        /\ UNCHANGED <<speed, link>>
    BY <1>4 DEF KeyReleaseEvent
  <2>2. MotionHasACause'
    <3>1. ASSUME inputMode = "Keyboard", NEW a \in Axes \ excused', speed[a] # 0
          PROVE  \E k \in held' : AxisOf(k) = a /\ SpeedOf(k) = speed[a]
      <4>1. a \in Axes \ excused
        BY <2>1, <3>1
      <4>2. PICK k \in held : AxisOf(k) = a /\ SpeedOf(k) = speed[a]
        BY <1>1, <3>1, <4>1 DEF MotionHasACause
      <4>3. k # key
        <5>1. CASE editing
          BY <5>1, <2>1, <3>1, <4>2
        <5>2. CASE ~editing
          <6>1. isServo /\ AxisOf(key) = "pitch"
            BY <1>4, <3>1, <5>2
          <6>2. speed["pitch"] = 0 \/ "pitch" \in excused
            BY <1>1, <3>1, <6>1 DEF ServoPitch
          <6> QED
            BY <3>1, <4>1, <4>2, <6>1, <6>2
        <5> QED
          BY <5>1, <5>2
      <4> QED
        BY <4>2, <4>3
    <3> QED
      BY <2>1, <3>1 DEF MotionHasACause
  <2>3. ServoPitch'
    BY <1>1, <2>1 DEF ServoPitch
  <2>4. excused' \subseteq Axes
    BY <1>1, <1>2, <2>1
  <2> QED
    BY <1>1, <2>1, <2>2, <2>3, <2>4, KeepWire, IInvJoin
<1> QED
  BY <1>3, <1>4

\* The handlers that stop the camera.
LEMMA StopStep ==
  ASSUME IInv, SetGimbalSpeed(Still), speed' = Still, excused' = {},
         inputMode' \in {"None", "Keyboard", "Joystick", "Configuration"},
         editing' \in BOOLEAN, UNCHANGED <<isServo, held, stick, plugged>>
  PROVE  IInv'
<1>1. Wire /\ Rest
  BY IInvSplit
<1>2. Wire'
  BY <1>1, StillType, SendWire
<1>3. MotionHasACause' /\ ServoPitch'
  BY AxisNames DEF MotionHasACause, ServoPitch, Still
<1> QED
  BY <1>1, <1>2, <1>3, StillType, IInvJoin DEF Rest

\* The steps that leave the window alone.
LEMMA InputStep ==
  ASSUME IInv, UNCHANGED <<window, held, excused>>, Wire',
         editing' \in BOOLEAN, plugged' \in BOOLEAN,
         stick' \in [Axes -> StickSpeeds]
  PROVE  IInv'
<1>1. Rest
  BY IInvSplit
<1>2. MotionHasACause' /\ ServoPitch'
  BY <1>1 DEF Rest, MotionHasACause, ServoPitch, window
<1> QED
  BY <1>1, <1>2, IInvJoin DEF Rest, window

(***************************************************************************)
(* The invariant.                                                          *)
(***************************************************************************)

LEMMA InitIInv == Init => IInv
<1> SUFFICES ASSUME Init PROVE IInv
  OBVIOUS
<1>1. SaneBytes
  BY DEF Init, SaneBytes
<1>2. MotionHasACause /\ ServoPitch
  BY DEF Init, MotionHasACause, ServoPitch
<1>3. Len(inFlight) <= MaxInFlight /\ inFlight \in Seq(Commands)
  BY MaxInFlightAssumption DEF Init
<1> QED
  BY <1>1, <1>2, <1>3, StillType DEF Init, IInv, TypeOK

LEMMA NextIInv == IInv /\ [Next]_vars => IInv'
<1> SUFFICES ASSUME IInv, [Next]_vars PROVE IInv'
  OBVIOUS
<1>0. Wire /\ Rest
  BY IInvSplit
<1>1. CASE SendGimbalCommands
  <2>1. SetGimbalSpeed(speed) /\ UNCHANGED <<window, input, excused>>
    BY <1>1 DEF SendGimbalCommands
  <2>2. Wire'
    BY <1>0, <2>1, SendWire DEF Rest
  <2> QED
    BY <1>0, <2>1, <2>2, InputStep DEF input, Rest
<1>2. CASE Deliver
  <2>1. /\ inFlight # << >>
        /\ camera' = [a \in Axes |-> AsSigned(Head(inFlight)[a])]
        /\ inFlight' = Tail(inFlight)
        /\ UNCHANGED <<window, input, excused>>
    BY <1>2 DEF Deliver
  <2>2. /\ Head(inFlight) = inFlight[1]
        /\ Len(inFlight) \in Nat \ {0}
        /\ Len(inFlight') = Len(inFlight) - 1
        /\ inFlight' \in Seq(Commands)
        /\ \A i \in 1 .. Len(inFlight') : inFlight'[i] = inFlight[i + 1]
    BY <1>0, <2>1, HeadTailProperties DEF Wire
  <2>3. camera' \in [Axes -> Speeds]
    BY <1>0, <2>1, <2>2 DEF Wire, SaneBytes, SaneByte
  <2>4. SaneBytes'
    BY <1>0, <2>2 DEF Wire, SaneBytes
  <2>5. Wire'
    BY <1>0, <2>2, <2>3, <2>4, MaxInFlightAssumption DEF Wire
  <2> QED
    BY <1>0, <2>1, <2>5, InputStep DEF input, Rest
<1>3. CASE OnSwitchToKeyboard
  BY <1>3, StopStep DEF OnSwitchToKeyboard
<1>4. CASE OnSwitchToJoystick
  BY <1>0, <1>4, StopStep DEF OnSwitchToJoystick, SwitchTo, input, Rest
<1>5. CASE OnSwitchToConfiguration
  <2>1. MotionHasACause' /\ ServoPitch'
    BY <1>5 DEF OnSwitchToConfiguration, MotionHasACause, ServoPitch
  <2> QED
    BY <1>0, <1>5, <2>1, KeepWire, IInvJoin DEF OnSwitchToConfiguration, Rest, input
<1>6. CASE ApplyConfig
  <2>1. MotionHasACause' /\ ServoPitch'
    BY <1>0, <1>6 DEF ApplyConfig, MotionHasACause, ServoPitch, Rest, input
  <2> QED
    BY <1>0, <1>6, <2>1, KeepWire, IInvJoin DEF ApplyConfig, Rest, input
<1>7. ASSUME NEW key \in Keys, Press(key)
      PROVE  IInv'
  BY <1>0, <1>7, KeyPressStep DEF Press, Rest
<1>8. ASSUME NEW key \in Keys, Release(key)
      PROVE  IInv'
  BY <1>0, <1>8, KeyReleaseStep DEF Release, Rest
<1>9. ASSUME NEW key \in Keys, Repeat(key)
      PROVE  IInv'
  <2>1. key \in held /\ UNCHANGED <<inputMode, isServo, held, editing, stick, plugged>>
    BY <1>9 DEF Repeat, input
  <2>2. CASE KeyPressEvent(key)
    BY <1>0, <2>1, <2>2, KeyPressStep DEF Rest
  <2>3. CASE KeyReleaseEvent(key)
    BY <1>0, <2>1, <2>3, KeyReleaseStep DEF Rest
  <2> QED
    BY <1>9, <2>2, <2>3 DEF Repeat
<1>10. ASSUME NEW edit \in BOOLEAN, Focus(edit)
       PROVE  IInv'
  BY <1>0, <1>10, InputStep, KeepWire DEF Focus, Rest
<1>11. ASSUME NEW key \in Keys, OnFull(key)
       PROVE  IInv'
  <2>1. speed' \in [Axes -> Speeds]
    BY <1>11, StillType, KeyType DEF OnFull
  <2>2. Wire'
    BY <1>0, <1>11, <2>1, SendWire DEF OnFull
  <2>3. MotionHasACause' /\ ServoPitch'
    BY <1>11, AxisNames DEF OnFull, MotionHasACause, ServoPitch
  <2> QED
    BY <1>0, <1>11, <2>1, <2>2, <2>3, IInvJoin DEF OnFull, Rest, input
<1>12. CASE OnStop
  BY <1>0, <1>12, StopStep DEF OnStop, input, Rest
<1>13. ASSUME NEW s \in [Axes -> StickSpeeds], MoveStick(s)
       PROVE  IInv'
  BY <1>0, <1>13, InputStep, KeepWire DEF MoveStick, Rest
<1>14. CASE Plug
  BY <1>0, <1>14, InputStep, KeepWire DEF Plug, Rest
<1>15. CASE PollAxisValues
  <2>1. speed' \in [Axes -> Speeds]
    BY <1>0, <1>15, StickSpeedsAssumption DEF PollAxisValues, Rest, Speeds
  <2>2. MotionHasACause' /\ ServoPitch'
    BY <1>15 DEF PollAxisValues, MotionHasACause, ServoPitch
  <2> QED
    BY <1>0, <1>15, <2>1, <2>2, KeepWire, IInvJoin DEF PollAxisValues, Rest, input
<1>16. CASE UNCHANGED vars
  BY <1>0, <1>16, InputStep, KeepWire DEF vars, input, Rest
<1> QED
  BY <1>1, <1>2, <1>3, <1>4, <1>5, <1>6, <1>7, <1>8, <1>9, <1>10, <1>11, <1>12,
     <1>13, <1>14, <1>15, <1>16 DEF Next

LEMMA IInvHolds == Spec => []IInv
BY InitIInv, NextIInv, PTL DEF Spec

\* The window's speeds, the bytes sent and the speeds of the camera stay in
\* their ranges, for every set of keys, every joystick and every delay.
THEOREM TypeCorrect == Spec => []TypeOK
<1>1. IInv => TypeOK
  BY DEF IInv
<1> QED
  BY <1>1, IInvHolds, PTL

\* In keyboard mode what turns the camera is a key that is down.
THEOREM NoSpeedLeftBehind == Spec => []MotionHasACause
<1>1. IInv => MotionHasACause
  BY DEF IInv
<1> QED
  BY <1>1, IInvHolds, PTL

(***************************************************************************)
(* The camera stays in step.                                               *)
(***************************************************************************)

\* Every command reads as these speeds.
AllRead(commands, s) ==
  \A i \in 1 .. Len(commands) : \A a \in Axes : AsSigned(commands[i][a]) = s[a]

\* What SetGimbalSpeed sends reads as the speeds it was called with.
LEMMA SendReads ==
  ASSUME NEW s \in [Axes -> Speeds], inFlight \in Seq(Commands),
         AllRead(inFlight, s), SetGimbalSpeed(s)
  PROVE  AllRead(inFlight', s) /\ UNCHANGED camera
<1>0. UNCHANGED camera
  BY DEF SetGimbalSpeed
<1>1. CASE UNCHANGED inFlight
  BY <1>0, <1>1
<1>2. CASE ~(UNCHANGED inFlight)
  <2> DEFINE c == [a \in Axes |-> SpeedByte(s[a])]
  <2>1. inFlight' = Append(inFlight, c)
    BY <1>2 DEF SetGimbalSpeed
  <2>2. \A a \in Axes : AsSigned(c[a]) = s[a]
    <3>1. \A v \in Speeds : v \in Int /\ Clamp(-100, v, 100) = v
      BY DEF Speeds, MoveSpeed, Clamp
    <3>2. \A v \in Speeds : AsSigned(SpeedByte(v)) = v
      BY <3>1, SpeedRoundTrip
    <3> QED
      BY <3>2
  <2> HIDE DEF c
  <2>3. /\ Len(inFlight') = Len(inFlight) + 1
        /\ \A i \in 1 .. Len(inFlight) : inFlight'[i] = inFlight[i]
        /\ inFlight'[Len(inFlight) + 1] = c
        /\ Len(inFlight) \in Nat
    BY <2>1
  <2>4. ASSUME NEW i \in 1 .. Len(inFlight'), NEW a \in Axes
        PROVE  AsSigned(inFlight'[i][a]) = s[a]
    <3>1. CASE i \in 1 .. Len(inFlight)
      BY <3>1, <2>3 DEF AllRead
    <3>2. CASE i = Len(inFlight) + 1
      BY <3>2, <2>2, <2>3
    <3> QED
      BY <3>1, <3>2, <2>3
  <2> QED
    BY <1>0, <2>4 DEF AllRead
<1> QED
  BY <1>1, <1>2

\* What every step that leaves the speeds alone does to the link: nothing,
\* send the speeds of the window, or deliver.
LEMMA LinkStep ==
  ASSUME IInv, Next, UNCHANGED speed
  PROVE  UNCHANGED link \/ SetGimbalSpeed(speed) \/ Deliver
<1>1. CASE SendGimbalCommands
  BY <1>1 DEF SendGimbalCommands
<1>2. CASE OnSwitchToKeyboard \/ OnSwitchToJoystick \/ OnStop
  BY <1>2 DEF OnSwitchToKeyboard, OnSwitchToJoystick, SwitchTo, OnStop
<1>3. CASE OnSwitchToConfiguration \/ ApplyConfig \/ Plug \/ PollAxisValues
  BY <1>3 DEF OnSwitchToConfiguration, ApplyConfig, Plug, PollAxisValues
<1>4. ASSUME NEW key \in Keys, KeyPressEvent(key) \/ KeyReleaseEvent(key)
      PROVE  UNCHANGED link \/ SetGimbalSpeed(speed)
  BY <1>4 DEF KeyPressEvent, KeyReleaseEvent
<1>5. ASSUME NEW key \in Keys, Press(key) \/ Release(key) \/ Repeat(key)
      PROVE  UNCHANGED link \/ SetGimbalSpeed(speed)
  BY <1>4, <1>5 DEF Press, Release, Repeat
<1>6. ASSUME NEW edit \in BOOLEAN, Focus(edit) PROVE UNCHANGED link
  BY <1>6 DEF Focus
<1>7. ASSUME NEW key \in Keys, OnFull(key) PROVE SetGimbalSpeed(speed)
  BY <1>7 DEF OnFull
<1>8. ASSUME NEW s \in [Axes -> StickSpeeds], MoveStick(s) PROVE UNCHANGED link
  BY <1>8 DEF MoveStick
<1> QED
  BY <1>1, <1>2, <1>3, <1>5, <1>6, <1>7, <1>8 DEF Next

\* Once the camera and the commands on their way agree with the window's
\* speeds, they do until these change, for every length of the way and every
\* order of the handlers (mainwindow.cpp:822-1150): each of them sends what it
\* leaves in the window, and SpeedRoundTrip says how the camera reads it.
THEOREM CameraStaysInStep == Spec => StaysInStep
<1>1. IInv /\ [Next]_vars => [InStep /\ UNCHANGED speed => InStep']_vars
  <2> SUFFICES ASSUME IInv, Next, InStep, UNCHANGED speed PROVE InStep'
    OBVIOUS
  <2>1. /\ speed \in [Axes -> Speeds] /\ camera = speed
        /\ inFlight \in Seq(Commands) /\ AllRead(inFlight, speed)
    BY DEF IInv, TypeOK, InStep, AllRead
  <2>2. CASE UNCHANGED link
    BY <2>1, <2>2 DEF link, InStep, AllRead
  <2>3. CASE SetGimbalSpeed(speed)
    <3>1. AllRead(inFlight', speed) /\ UNCHANGED camera
      BY <2>1, <2>3, SendReads
    <3> QED
      BY <2>1, <3>1 DEF InStep, AllRead
  <2>4. CASE Deliver
    <3>1. /\ Head(inFlight) = inFlight[1]
          /\ Len(inFlight) \in Nat \ {0}
          /\ Len(inFlight') = Len(inFlight) - 1
          /\ \A i \in 1 .. Len(inFlight') : inFlight'[i] = inFlight[i + 1]
      BY <2>1, <2>4, HeadTailProperties DEF Deliver
    <3>2. camera' = [a \in Axes |-> AsSigned(inFlight[1][a])]
      BY <2>4, <3>1 DEF Deliver
    <3>3. camera' = speed
      BY <2>1, <3>1, <3>2 DEF AllRead
    <3>4. AllRead(inFlight', speed)
      BY <2>1, <3>1 DEF AllRead
    <3> QED
      BY <3>3, <3>4 DEF InStep, AllRead
  <2> QED
    BY <2>2, <2>3, <2>4, LinkStep
<1> QED
  BY <1>1, IInvHolds, PTL DEF Spec, StaysInStep

\* Hands off the keys: in keyboard mode with no key down, no button clicked
\* and no release lost to a QLineEdit, the window's speeds are zero, so that
\* a camera in step is still.  What HandsOffStops adds is only that a resent
\* command arrives some day.
HandsOff == inputMode = "Keyboard" /\ held = {} /\ excused = {}

THEOREM HandsOffIsStill ==
  Spec => [](HandsOff => speed = Still /\ (InStep => camera = Still))
<1>1. IInv => (HandsOff => speed = Still /\ (InStep => camera = Still))
  <2> SUFFICES ASSUME IInv, HandsOff PROVE speed = Still
    BY DEF InStep
  <2>1. \A a \in Axes : speed[a] = 0
    BY DEF IInv, MotionHasACause, HandsOff
  <2>2. speed \in [Axes -> Speeds]
    BY DEF IInv, TypeOK
  <2> QED
    BY <2>1, <2>2 DEF Still
<1> QED
  BY <1>1, IInvHolds, PTL
=============================================================================
