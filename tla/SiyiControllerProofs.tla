------------------------ MODULE SiyiControllerProofs ------------------------
(***************************************************************************)
(* What holds of SiyiController however many SDKs are made.                *)
(***************************************************************************)
EXTENDS SiyiController, TLAPS

InStop == gui \in {"polling", "releasing"}
Whole(s) == InLoop(s) \/ receive[s] = "exited"

\* What the GUI thread holds in each of its states.
GuiInv ==
  /\ running => sdkPtr # Null /\ receive[sdkPtr] # "none"
  /\ InStop => running
  /\ gui = "idle" /\ ~running => sdkPtr = Null
  /\ gui = "destroying" => sdkPtr # Null
  /\ sdkPtr # Null => stage[sdkPtr] \notin {"unborn", "destroyed"}
  /\ sdkPtr # Null /\ gui # "destroying" => stage[sdkPtr] = "live"
  /\ joinable => running /\ gui \in {"idle", "polling"}

\* How far the threads of an SDK are, by its stage.
StageInv ==
  \A s \in Sdks :
    /\ stage[s] = "unborn" => receive[s] = "none"
    /\ stage[s] \in {"closed", "dead"} => InDestructor(s)
    /\ stage[s] = "destroyed" =>
         own[s] = "done" /\ poller[s] = "done" /\ receive[s] \in {"none", "gone"}

\* Who holds a reference to an SDK.
ReferenceInv ==
  \A s \in Sdks :
    /\ Whole(s) => stage[s] = "live" /\ ~DestroyedByGui(s)
    /\ receive[s] = "none" => stage[s] \in {"unborn", "destroyed"} \/ DestroyedByGui(s)
    /\ receive[s] = "gone" => sdkPtr = s \/ stage[s] = "destroyed"
    /\ receive[s] = "destroying" =>
         sdkPtr # s /\ stage[s] \in {"live", "closed", "dead"}

FlagInv ==
  /\ \A s \in Sdks : flag[s] => sdkPtr = s /\ gui = "idle"
  /\ running /\ gui = "idle" => flag[sdkPtr] /\ (InLoop(sdkPtr) \/ sdkPtr \in threw)

\* Open sockets have numbers of their own, so that an SDK whose socket is open
\* finds that socket under its number, and its own thread goes on to listen.
Listening == {"test", "call", "waiting"}
SocketInv ==
  /\ \A s, x \in Sdks :
       stage[s] = "live" /\ stage[x] = "live" /\ sockfd[s] = sockfd[x] => s = x
  /\ \A s \in Sdks : stage[s] = "live" /\ own[s] = "waiting" => waitsOn[s] = s
  /\ \A s \in Sdks : stage[s] = "live" => own[s] \in Listening

\* SocketInv is kept apart: no other part needs it, and it needs of the others
\* the types alone.
IInv == TypeOK /\ GuiInv /\ StageInv /\ ReferenceInv /\ FlagInv

----------------------------------------------------------------------------
\* The channel's length stays in its bounds.
LEMMA ChannelBounds ==
  ASSUME NEW d \in [Sdks -> 0 .. MaxDatagrams], NEW x \in Sdks
  PROVE  /\ d[x] > 0 => [d EXCEPT ![x] = @ - 1] \in [Sdks -> 0 .. MaxDatagrams]
         /\ d[x] < MaxDatagrams =>
              [d EXCEPT ![x] = @ + 1] \in [Sdks -> 0 .. MaxDatagrams]
  <1>1. d[x] \in 0 .. MaxDatagrams
    OBVIOUS
  <1>2. d[x] > 0 => d[x] - 1 \in 0 .. MaxDatagrams
    BY <1>1, MaxDatagramsAssumption
  <1>3. d[x] < MaxDatagrams => d[x] + 1 \in 0 .. MaxDatagrams
    BY <1>1, MaxDatagramsAssumption
  <1> QED
    BY <1>2, <1>3

LEMMA InitIInv == Init => IInv
  <1> SUFFICES ASSUME Init
               PROVE  IInv
    OBVIOUS
  <1> USE DEF Init, Sdks, Null
  <1>1. 1 \in Descriptors /\ 0 \in 0 .. MaxDatagrams
    BY MaxSdksAssumption, MaxDatagramsAssumption DEF Descriptors
  <1>2. TypeOK
    BY <1>1 DEF TypeOK
  <1>3. GuiInv /\ FlagInv
    BY DEF GuiInv, FlagInv, InStop
  <1>4. StageInv /\ ReferenceInv
    BY DEF StageInv, ReferenceInv, Whole, InLoop, InDestructor, DestroyedByGui,
           DestroyedByThread
  <1> QED
    BY <1>2, <1>3, <1>4 DEF IInv

LEMMA StartSucceedsInv ==
  ASSUME IInv, StartSucceeds
  PROVE  IInv'
  <1>1. PICK s \in Sdks : StartSucceeds!(s)
    BY DEF StartSucceeds
  <1>2. stage[s] = "unborn"
    BY <1>1 DEF First, Unborn
  <1> USE DEF NewSdk, controller, member, threads, sockets, Sdks, Null, IInv
  <1>3. TypeOK'
    <2>1. sockfd' \in [Sdks -> Descriptors]
      BY <1>1 DEF TypeOK, FreeDescriptors
    <2> QED
      BY <1>1, <2>1 DEF TypeOK
  <1>4. GuiInv'
    BY <1>1, <1>2
       DEF TypeOK, GuiInv, StageInv, ReferenceInv, FlagInv, InStop, Whole,
           InLoop, InDestructor, DestroyedByGui, DestroyedByThread
  <1>5. StageInv'
    BY <1>1, <1>2
       DEF TypeOK, GuiInv, StageInv, ReferenceInv, FlagInv, InStop, Whole,
           InLoop, InDestructor, DestroyedByGui, DestroyedByThread
  <1>6. ReferenceInv'
    BY <1>1, <1>2
       DEF TypeOK, GuiInv, StageInv, ReferenceInv, FlagInv, InStop, Whole,
           InLoop, InDestructor, DestroyedByGui, DestroyedByThread
  <1>7. FlagInv'
    BY <1>1, <1>2
       DEF TypeOK, GuiInv, StageInv, ReferenceInv, FlagInv, InStop, Whole,
           InLoop, InDestructor, DestroyedByGui, DestroyedByThread
  <1> QED
    BY <1>3, <1>4, <1>5, <1>6, <1>7

LEMMA StartFailsInv ==
  ASSUME IInv, StartFails
  PROVE  IInv'
  <1>1. PICK s \in Sdks : StartFails!(s)
    BY DEF StartFails
  <1>2. stage[s] = "unborn"
    BY <1>1 DEF First, Unborn
  <1> USE DEF NewSdk, controller, member, threads, sockets, Sdks, Null, IInv
  <1>3. TypeOK'
    <2>1. sockfd' \in [Sdks -> Descriptors]
      BY <1>1 DEF TypeOK, FreeDescriptors
    <2> QED
      BY <1>1, <2>1 DEF TypeOK
  <1>4. GuiInv'
    BY <1>1, <1>2
       DEF TypeOK, GuiInv, StageInv, ReferenceInv, FlagInv, InStop, Whole,
           InLoop, InDestructor, DestroyedByGui, DestroyedByThread
  <1>5. StageInv'
    BY <1>1, <1>2
       DEF TypeOK, GuiInv, StageInv, ReferenceInv, FlagInv, InStop, Whole,
           InLoop, InDestructor, DestroyedByGui, DestroyedByThread
  <1>6. ReferenceInv'
    BY <1>1, <1>2
       DEF TypeOK, GuiInv, StageInv, ReferenceInv, FlagInv, InStop, Whole,
           InLoop, InDestructor, DestroyedByGui, DestroyedByThread
  <1>7. FlagInv'
    BY <1>1, <1>2
       DEF TypeOK, GuiInv, StageInv, ReferenceInv, FlagInv, InStop, Whole,
           InLoop, InDestructor, DestroyedByGui, DestroyedByThread
  <1> QED
    BY <1>3, <1>4, <1>5, <1>6, <1>7

LEMMA StopBeginsInv ==
  ASSUME IInv, StopBegins
  PROVE  IInv'
  BY MaxSdksAssumption, MaxDatagramsAssumption
     DEF StopBegins, IInv, GuiInv, StageInv, ReferenceInv, FlagInv, TypeOK,
         InStop, Whole, InLoop, InDestructor, DestroyedByGui,
         DestroyedByThread, Null, Sdks, Descriptors, controller, member, threads,
         sockets

LEMMA StopJoinsInv ==
  ASSUME IInv, StopJoins
  PROVE  IInv'
  BY MaxSdksAssumption, MaxDatagramsAssumption
     DEF StopJoins, IInv, GuiInv, StageInv, ReferenceInv, FlagInv, TypeOK,
         InStop, Whole, InLoop, InDestructor, DestroyedByGui,
         DestroyedByThread, Null, Sdks, Descriptors, controller, member, threads,
         sockets

LEMMA StopDetachesInv ==
  ASSUME IInv, StopDetaches
  PROVE  IInv'
  BY MaxSdksAssumption, MaxDatagramsAssumption
     DEF StopDetaches, IInv, GuiInv, StageInv, ReferenceInv, FlagInv, TypeOK,
         InStop, Whole, InLoop, InDestructor, DestroyedByGui,
         DestroyedByThread, Null, Sdks, Descriptors, controller, member, threads,
         sockets

LEMMA StopReleasesInv ==
  ASSUME IInv, StopReleases
  PROVE  IInv'
  <1> USE DEF StopReleases, controller, member, threads, sockets, Sdks, Null, IInv
  <1>1. TypeOK'
    BY MaxSdksAssumption, MaxDatagramsAssumption DEF TypeOK, Descriptors
  <1>2. GuiInv'
    BY
       DEF TypeOK, GuiInv, StageInv, ReferenceInv, FlagInv, InStop, Whole,
           InLoop, InDestructor, DestroyedByGui, DestroyedByThread
  <1>3. StageInv'
    BY
       DEF TypeOK, GuiInv, StageInv, ReferenceInv, FlagInv, InStop, Whole,
           InLoop, InDestructor, DestroyedByGui, DestroyedByThread
  <1>4. ReferenceInv'
    <2>1. sdkPtr \in Sdks /\ stage[sdkPtr] = "live" /\ receive[sdkPtr] # "none"
      BY DEF TypeOK, GuiInv, InStop
    <2>2. receive[sdkPtr] # "gone" => Whole(sdkPtr)
      BY <2>1 DEF TypeOK, ReferenceInv, Whole, InLoop
    <2>3. CASE receive[sdkPtr] = "gone"
      BY <2>1, <2>3 DEF TypeOK, ReferenceInv, Whole, InLoop, DestroyedByGui
    <2>4. CASE receive[sdkPtr] # "gone"
      BY <2>1, <2>2, <2>4
         DEF TypeOK, ReferenceInv, Whole, InLoop, DestroyedByGui
    <2> QED
      BY <2>3, <2>4
  <1>5. FlagInv'
    BY
       DEF TypeOK, GuiInv, StageInv, ReferenceInv, FlagInv, InStop, Whole,
           InLoop, InDestructor, DestroyedByGui, DestroyedByThread
  <1> QED
    BY <1>1, <1>2, <1>3, <1>4, <1>5

LEMMA TestFlagInv ==
  ASSUME NEW s \in Sdks, IInv, TestFlag(s)
  PROVE  IInv'
  BY MaxSdksAssumption, MaxDatagramsAssumption
     DEF TestFlag, IInv, GuiInv, StageInv, ReferenceInv, FlagInv, TypeOK,
         InStop, Whole, InLoop, InDestructor, DestroyedByGui,
         DestroyedByThread, Null, Sdks, Descriptors, controller, member, threads,
         sockets

LEMMA ReceiveInv ==
  ASSUME NEW s \in Sdks, IInv, Receive(s)
  PROVE  IInv'
  <1> USE DEF Receive, controller, member, threads, sockets, Sdks, Null, IInv
  <1>1. TypeOK'
    <2>1. datagrams \in [Sdks -> 0 .. MaxDatagrams] /\ s \in Sdks
      BY DEF TypeOK
    <2>2. datagrams' \in [Sdks -> 0 .. MaxDatagrams]
      BY <2>1, ChannelBounds
    <2> QED
      BY <2>2 DEF TypeOK
  <1>2. GuiInv'
    BY
       DEF TypeOK, GuiInv, StageInv, ReferenceInv, FlagInv, InStop, Whole,
           InLoop, InDestructor, DestroyedByGui, DestroyedByThread
  <1>3. StageInv'
    BY
       DEF TypeOK, GuiInv, StageInv, ReferenceInv, FlagInv, InStop, Whole,
           InLoop, InDestructor, DestroyedByGui, DestroyedByThread
  <1>4. ReferenceInv'
    BY
       DEF TypeOK, GuiInv, StageInv, ReferenceInv, FlagInv, InStop, Whole,
           InLoop, InDestructor, DestroyedByGui, DestroyedByThread
  <1>5. FlagInv'
    BY
       DEF TypeOK, GuiInv, StageInv, ReferenceInv, FlagInv, InStop, Whole,
           InLoop, InDestructor, DestroyedByGui, DestroyedByThread
  <1> QED
    BY <1>1, <1>2, <1>3, <1>4, <1>5

LEMMA ThreadReleasesInv ==
  ASSUME NEW s \in Sdks, IInv, ThreadReleases(s)
  PROVE  IInv'
  BY MaxSdksAssumption, MaxDatagramsAssumption
     DEF ThreadReleases, IInv, GuiInv, StageInv, ReferenceInv, FlagInv,
         TypeOK, InStop, Whole, InLoop, InDestructor, DestroyedByGui,
         DestroyedByThread, Null, Sdks, Descriptors, controller, member, threads,
         sockets

LEMMA OwnTestsInv ==
  ASSUME NEW s \in Sdks, IInv, OwnTests(s)
  PROVE  IInv'
  BY MaxSdksAssumption, MaxDatagramsAssumption
     DEF OwnTests, IsLive, IInv, GuiInv, StageInv, ReferenceInv, FlagInv,
         TypeOK, InStop, Whole, InLoop, InDestructor, DestroyedByGui,
         DestroyedByThread, Null, Sdks, Descriptors, controller, member, threads,
         sockets

LEMMA OwnCallsInv ==
  ASSUME NEW s \in Sdks, IInv, OwnCalls(s)
  PROVE  IInv'
  <1> USE DEF OwnCalls, SocketUnder, controller, member, threads, sockets, Sdks, Null,
          IInv
  <1>1. TypeOK'
    <2>1. waitsOn' \in [Sdks -> Sdks]
      BY DEF TypeOK
    <2>2. own' \in [Sdks -> {"none", "test", "call", "waiting", "done"}]
      BY DEF TypeOK
    <2> QED
      BY <2>1, <2>2 DEF TypeOK
  <1>2. GuiInv'
    BY
       DEF TypeOK, GuiInv, StageInv, ReferenceInv, FlagInv, InStop, Whole,
           InLoop, InDestructor, DestroyedByGui, DestroyedByThread
  <1>3. StageInv'
    BY
       DEF TypeOK, GuiInv, StageInv, ReferenceInv, FlagInv, InStop, Whole,
           InLoop, InDestructor, DestroyedByGui, DestroyedByThread
  <1>4. ReferenceInv'
    BY
       DEF TypeOK, GuiInv, StageInv, ReferenceInv, FlagInv, InStop, Whole,
           InLoop, InDestructor, DestroyedByGui, DestroyedByThread
  <1>5. FlagInv'
    BY
       DEF TypeOK, GuiInv, StageInv, ReferenceInv, FlagInv, InStop, Whole,
           InLoop, InDestructor, DestroyedByGui, DestroyedByThread
  <1> QED
    BY <1>1, <1>2, <1>3, <1>4, <1>5

LEMMA OwnReceivesInv ==
  ASSUME NEW s \in Sdks, IInv, OwnReceives(s)
  PROVE  IInv'
  <1> USE DEF OwnReceives, controller, member, threads, sockets, Sdks, Null, IInv
  <1>1. TypeOK'
    <2>1. datagrams \in [Sdks -> 0 .. MaxDatagrams] /\ waitsOn[s] \in Sdks
      BY DEF TypeOK
    <2>2. datagrams' \in [Sdks -> 0 .. MaxDatagrams]
      BY <2>1, ChannelBounds
    <2> QED
      BY <2>2 DEF TypeOK
  <1>2. GuiInv'
    BY
       DEF TypeOK, GuiInv, StageInv, ReferenceInv, FlagInv, InStop, Whole,
           InLoop, InDestructor, DestroyedByGui, DestroyedByThread
  <1>3. StageInv'
    BY
       DEF TypeOK, GuiInv, StageInv, ReferenceInv, FlagInv, InStop, Whole,
           InLoop, InDestructor, DestroyedByGui, DestroyedByThread
  <1>4. ReferenceInv'
    BY
       DEF TypeOK, GuiInv, StageInv, ReferenceInv, FlagInv, InStop, Whole,
           InLoop, InDestructor, DestroyedByGui, DestroyedByThread
  <1>5. FlagInv'
    BY
       DEF TypeOK, GuiInv, StageInv, ReferenceInv, FlagInv, InStop, Whole,
           InLoop, InDestructor, DestroyedByGui, DestroyedByThread
  <1> QED
    BY <1>1, <1>2, <1>3, <1>4, <1>5

LEMMA PollAnsweredInv ==
  ASSUME NEW s \in Sdks, IInv, PollAnswered(s)
  PROVE  IInv'
  <1> USE DEF PollAnswered, SocketUnder, IsLive, controller, member, threads, sockets,
          Sdks, Null, IInv
  <1>1. TypeOK'
    <2>1. PICK x \in SocketUnder(s) : /\ datagrams[x] < MaxDatagrams
                                      /\ datagrams' = [datagrams EXCEPT ![x] = @ + 1]
      OBVIOUS
    <2>2. datagrams' \in [Sdks -> 0 .. MaxDatagrams]
      BY <2>1, ChannelBounds DEF TypeOK
    <2> QED
      BY <2>2 DEF TypeOK
  <1>2. GuiInv'
    BY
       DEF TypeOK, GuiInv, StageInv, ReferenceInv, FlagInv, InStop, Whole,
           InLoop, InDestructor, DestroyedByGui, DestroyedByThread
  <1>3. StageInv'
    BY
       DEF TypeOK, GuiInv, StageInv, ReferenceInv, FlagInv, InStop, Whole,
           InLoop, InDestructor, DestroyedByGui, DestroyedByThread
  <1>4. ReferenceInv'
    BY
       DEF TypeOK, GuiInv, StageInv, ReferenceInv, FlagInv, InStop, Whole,
           InLoop, InDestructor, DestroyedByGui, DestroyedByThread
  <1>5. FlagInv'
    BY
       DEF TypeOK, GuiInv, StageInv, ReferenceInv, FlagInv, InStop, Whole,
           InLoop, InDestructor, DestroyedByGui, DestroyedByThread
  <1> QED
    BY <1>1, <1>2, <1>3, <1>4, <1>5

LEMMA PollEndsInv ==
  ASSUME NEW s \in Sdks, IInv, PollEnds(s)
  PROVE  IInv'
  BY MaxSdksAssumption, MaxDatagramsAssumption
     DEF PollEnds, IsLive, IInv, GuiInv, StageInv, ReferenceInv, FlagInv,
         TypeOK, InStop, Whole, InLoop, InDestructor, DestroyedByGui,
         DestroyedByThread, Null, Sdks, Descriptors, controller, member, threads,
         sockets

LEMMA LoseDatagramInv ==
  ASSUME NEW s \in Sdks, IInv, LoseDatagram(s)
  PROVE  IInv'
  <1> USE DEF LoseDatagram, controller, member, threads, sockets, Sdks, Null, IInv
  <1>1. TypeOK'
    <2>1. datagrams \in [Sdks -> 0 .. MaxDatagrams] /\ s \in Sdks
      BY DEF TypeOK
    <2>2. datagrams' \in [Sdks -> 0 .. MaxDatagrams]
      BY <2>1, ChannelBounds
    <2> QED
      BY <2>2 DEF TypeOK
  <1>2. GuiInv'
    BY
       DEF TypeOK, GuiInv, StageInv, ReferenceInv, FlagInv, InStop, Whole,
           InLoop, InDestructor, DestroyedByGui, DestroyedByThread
  <1>3. StageInv'
    BY
       DEF TypeOK, GuiInv, StageInv, ReferenceInv, FlagInv, InStop, Whole,
           InLoop, InDestructor, DestroyedByGui, DestroyedByThread
  <1>4. ReferenceInv'
    BY
       DEF TypeOK, GuiInv, StageInv, ReferenceInv, FlagInv, InStop, Whole,
           InLoop, InDestructor, DestroyedByGui, DestroyedByThread
  <1>5. FlagInv'
    BY
       DEF TypeOK, GuiInv, StageInv, ReferenceInv, FlagInv, InStop, Whole,
           InLoop, InDestructor, DestroyedByGui, DestroyedByThread
  <1> QED
    BY <1>1, <1>2, <1>3, <1>4, <1>5

LEMMA CloseSocketInv ==
  ASSUME NEW s \in Sdks, IInv, CloseSocket(s)
  PROVE  IInv'
  BY MaxSdksAssumption, MaxDatagramsAssumption
     DEF CloseSocket, IInv, GuiInv, StageInv, ReferenceInv, FlagInv, TypeOK,
         InStop, Whole, InLoop, InDestructor, DestroyedByGui,
         DestroyedByThread, Null, Sdks, Descriptors, controller, member, threads,
         sockets

LEMMA EndThreadsInv ==
  ASSUME NEW s \in Sdks, IInv, EndThreads(s)
  PROVE  IInv'
  BY MaxSdksAssumption, MaxDatagramsAssumption
     DEF EndThreads, IInv, GuiInv, StageInv, ReferenceInv, FlagInv, TypeOK,
         InStop, Whole, InLoop, InDestructor, DestroyedByGui,
         DestroyedByThread, Null, Sdks, Descriptors, controller, member, threads,
         sockets

LEMMA GuiDestroysInv ==
  ASSUME NEW s \in Sdks, IInv, GuiDestroys(s)
  PROVE  IInv'
  <1> USE DEF GuiDestroys, Joined, controller, member, threads, sockets, Sdks, Null,
          IInv
  <1>1. TypeOK'
    BY MaxSdksAssumption, MaxDatagramsAssumption DEF TypeOK, Descriptors
  <1>2. GuiInv'
    BY
       DEF TypeOK, GuiInv, StageInv, ReferenceInv, FlagInv, InStop, Whole,
           InLoop, InDestructor, DestroyedByGui, DestroyedByThread
  <1>3. StageInv'
    BY
       DEF TypeOK, GuiInv, StageInv, ReferenceInv, FlagInv, InStop, Whole,
           InLoop, InDestructor, DestroyedByGui, DestroyedByThread
  <1>4. ReferenceInv'
    BY
       DEF TypeOK, GuiInv, StageInv, ReferenceInv, FlagInv, InStop, Whole,
           InLoop, InDestructor, DestroyedByGui, DestroyedByThread
  <1>5. FlagInv'
    BY
       DEF TypeOK, GuiInv, StageInv, ReferenceInv, FlagInv, InStop, Whole,
           InLoop, InDestructor, DestroyedByGui, DestroyedByThread
  <1> QED
    BY <1>1, <1>2, <1>3, <1>4, <1>5

LEMMA ThreadDestroysInv ==
  ASSUME NEW s \in Sdks, IInv, ThreadDestroys(s)
  PROVE  IInv'
  BY MaxSdksAssumption, MaxDatagramsAssumption
     DEF ThreadDestroys, Joined, IInv, GuiInv, StageInv, ReferenceInv,
         FlagInv, TypeOK, InStop, Whole, InLoop, InDestructor, DestroyedByGui,
         DestroyedByThread, Null, Sdks, Descriptors, controller, member, threads,
         sockets

LEMMA NextIInv == IInv /\ [Next]_vars => IInv'
  <1> SUFFICES ASSUME IInv, [Next]_vars
               PROVE  IInv'
    OBVIOUS
  <1>1. CASE UNCHANGED vars
    BY <1>1
       DEF vars, controller, member, threads, sockets, IInv, TypeOK, GuiInv, StageInv,
                ReferenceInv, FlagInv, InStop, Whole, InLoop, InDestructor,
                DestroyedByGui, DestroyedByThread
  <1>2. CASE StartSucceeds \/ StartFails \/ StopBegins \/ StopJoins \/ StopDetaches
               \/ StopReleases
    BY <1>2, StartSucceedsInv, StartFailsInv, StopBeginsInv, StopJoinsInv,
       StopDetachesInv, StopReleasesInv
  <1>3. ASSUME NEW s \in Sdks,
               ReceiveThread(s) \/ OwnThread(s) \/ PollAnswered(s) \/ PollEnds(s)
                 \/ LoseDatagram(s) \/ Destructor(s)
        PROVE  IInv'
    BY <1>3, TestFlagInv, ReceiveInv, ThreadReleasesInv, OwnTestsInv,
       OwnCallsInv,
       OwnReceivesInv, PollAnsweredInv, PollEndsInv, LoseDatagramInv, CloseSocketInv,
       EndThreadsInv, GuiDestroysInv, ThreadDestroysInv
       DEF ReceiveThread, OwnThread, Destructor
  <1> QED
    BY <1>1, <1>2, <1>3 DEF Next

LEMMA AlwaysIInv == Spec => []IInv
  BY InitIInv, NextIInv, PTL DEF Spec

----------------------------------------------------------------------------
(* Who listens to which socket.                                            *)

\* An SDK is made with a number no open socket has, and is not waiting yet.
LEMMA NewSdkSocketInv ==
  ASSUME TypeOK, SocketInv, NEW s \in Sdks, NewSdk(s), UNCHANGED waitsOn
  PROVE  SocketInv'
  <1>1. PICK n \in FreeDescriptors : sockfd' = [sockfd EXCEPT ![s] = n]
    BY DEF NewSdk
  <1>2. /\ stage' = [stage EXCEPT ![s] = "live"]
        /\ own' = [own EXCEPT ![s] = "test"]
    BY DEF NewSdk
  <1>3. /\ sockfd'[s] = n /\ stage'[s] = "live" /\ own'[s] = "test"
        /\ \A x \in Sdks \ {s} :
             sockfd'[x] = sockfd[x] /\ stage'[x] = stage[x] /\ own'[x] = own[x]
    BY <1>1, <1>2 DEF TypeOK
  <1>4. \A x \in Sdks : stage[x] = "live" => sockfd[x] # n
    BY <1>1 DEF FreeDescriptors
  <1> QED
    BY <1>3, <1>4 DEF SocketInv, Listening

\* recvfrom() waits on the socket found; an SDK whose own is open finds it.
LEMMA OwnCallsSocketInv ==
  ASSUME TypeOK, SocketInv, NEW s \in Sdks, OwnCalls(s)
  PROVE  SocketInv'
  <1>1. UNCHANGED <<stage, sockfd>>
    BY DEF OwnCalls, sockets
  <1>2. CASE \E x \in SocketUnder(s) :
               /\ own' = [own EXCEPT ![s] = "waiting"]
               /\ waitsOn' = [waitsOn EXCEPT ![s] = x]
    <2>1. PICK x \in SocketUnder(s) :
                 /\ own' = [own EXCEPT ![s] = "waiting"]
                 /\ waitsOn' = [waitsOn EXCEPT ![s] = x]
      BY <1>2
    <2>2. x \in Sdks /\ stage[x] = "live" /\ sockfd[x] = sockfd[s]
      BY DEF SocketUnder
    <2>3. stage[s] = "live" => x = s
      BY <2>2 DEF SocketInv
    <2>4. /\ waitsOn'[s] = x
          /\ \A y \in Sdks \ {s} : own'[y] = own[y] /\ waitsOn'[y] = waitsOn[y]
      BY <2>1 DEF TypeOK
    <2> QED
      BY <1>1, <2>1, <2>3, <2>4 DEF SocketInv, Listening, TypeOK
  <1>3. CASE own' = [own EXCEPT ![s] = "test"] /\ UNCHANGED waitsOn
    BY <1>1, <1>3 DEF SocketInv, Listening, TypeOK
  <1> QED
    BY <1>2, <1>3 DEF OwnCalls

\* The other steps open no socket, make no call and change no number.
LEMMA QuietSocketInv ==
  ASSUME TypeOK, SocketInv, UNCHANGED <<sockfd, waitsOn>>,
         \A s \in Sdks : stage'[s] = "live" => stage[s] = "live",
         \A s \in Sdks : own'[s] = "waiting" => own[s] = "waiting",
         \A s \in Sdks : stage'[s] = "live" => own'[s] \in {own[s]} \cup Listening
  PROVE  SocketInv'
  BY DEF SocketInv

LEMMA NextSocketInv == TypeOK /\ SocketInv /\ [Next]_vars => SocketInv'
  <1> SUFFICES ASSUME TypeOK, SocketInv, [Next]_vars
               PROVE  SocketInv'
    OBVIOUS
  <1>1. CASE StartSucceeds
    BY <1>1, NewSdkSocketInv DEF StartSucceeds
  <1>2. CASE StartFails
    BY <1>2, NewSdkSocketInv DEF StartFails
  <1>3. CASE StopBegins \/ StopJoins \/ StopDetaches \/ StopReleases
    BY <1>3, QuietSocketInv
       DEF StopBegins, StopJoins, StopDetaches, StopReleases, threads, sockets
  <1>4. ASSUME NEW s \in Sdks,
               ReceiveThread(s) \/ PollAnswered(s) \/ PollEnds(s) \/ LoseDatagram(s)
        PROVE  SocketInv'
    BY <1>4, QuietSocketInv
       DEF ReceiveThread, TestFlag, Receive, ThreadReleases, PollAnswered, PollEnds,
           LoseDatagram, threads, sockets
  <1>5. ASSUME NEW s \in Sdks, OwnTests(s) \/ OwnReceives(s)
        PROVE  SocketInv'
    <2>1. UNCHANGED <<stage, sockfd, waitsOn>>
      BY <1>5 DEF OwnTests, OwnReceives, sockets
    <2>2. /\ own'[s] \in {own[s], "test", "call"} \/ stage[s] # "live"
          /\ own'[s] = "waiting" => own[s] = "waiting"
          /\ \A x \in Sdks \ {s} : own'[x] = own[x]
      BY <1>5 DEF OwnTests, OwnReceives, IsLive, TypeOK
    <2> QED
      BY <2>1, <2>2, QuietSocketInv DEF Listening
  <1>6. ASSUME NEW s \in Sdks, OwnCalls(s) PROVE SocketInv'
    BY <1>6, OwnCallsSocketInv
  <1>7. ASSUME NEW s \in Sdks, Destructor(s) PROVE SocketInv'
    <2>1. UNCHANGED <<sockfd, waitsOn, own>>
      BY <1>7 DEF Destructor, CloseSocket, EndThreads, GuiDestroys, ThreadDestroys,
                  threads
    <2>2. /\ stage'[s] # "live"
          /\ \A x \in Sdks \ {s} : stage'[x] = stage[x]
      BY <1>7 DEF Destructor, CloseSocket, EndThreads, GuiDestroys, ThreadDestroys,
                  TypeOK
    <2> QED
      BY <2>1, <2>2, QuietSocketInv
  <1>8. CASE UNCHANGED vars
    BY <1>8, QuietSocketInv DEF vars, threads, sockets
  <1> QED
    BY <1>1, <1>2, <1>3, <1>4, <1>5, <1>6, <1>7, <1>8 DEF Next, OwnThread

LEMMA AlwaysSocketInv == Spec => []SocketInv
  <1>1. Init => SocketInv
    BY DEF Init, SocketInv
  <1>2. IInv => TypeOK
    BY DEF IInv
  <1> QED
    BY <1>1, <1>2, NextSocketInv, AlwaysIInv, PTL DEF Spec

----------------------------------------------------------------------------
(* Theorems.                                                               *)

\* Pointers, thread states and sockets keep their types.
THEOREM TypeCorrect == Spec => []TypeOK
  <1>1. IInv => TypeOK
    BY DEF IInv
  <1> QED
    BY <1>1, AlwaysIInv, PTL

\* No thread runs on an SDK that is freed, however often the controller is
\* restarted and however many threads it has detached.
THEOREM NeverUsedAfterFree == Spec => []NoUseAfterFree
  <1>1. IInv => NoUseAfterFree
    BY DEF IInv, StageInv, ReferenceInv, Whole, NoUseAfterFree
  <1> QED
    BY <1>1, AlwaysIInv, PTL

\* Every SDK made is destroyed by exactly one of the two that may do it.
THEOREM DestroyedOnce == Spec => []OneDestroyer
  <1>1. IInv => OneDestroyer
    <2> SUFFICES ASSUME IInv, NEW s \in Sdks
                 PROVE  /\ stage[s] \notin {"unborn", "destroyed"} =>
                             sdkPtr = s \/ InLoop(s)
                               \/ receive[s] \in {"exited", "destroying"}
                        /\ ~(DestroyedByGui(s) /\ DestroyedByThread(s))
      BY DEF OneDestroyer
    <2>1. receive[s] \in {"none", "test", "waiting", "exited", "destroying", "gone"}
      BY DEF IInv, TypeOK
    <2> QED
      BY <2>1 DEF IInv, ReferenceInv, InLoop, DestroyedByGui, DestroyedByThread
  <1> QED
    BY <1>1, AlwaysIInv, PTL

\* The threads a controller was done with have all been told to leave; while it
\* runs and is not being stopped, its SDK's own thread receives, and so does its
\* own unless an answer too short to parse took it out of its loop; and an SDK
\* whose socket is open takes no other's datagrams.
THEOREM OnlyPresentReceives == Spec => []OneReceiver
  <1>1. IInv /\ SocketInv => OneReceiver
    <2> SUFFICES ASSUME IInv, SocketInv
                 PROVE  OneReceiver
      OBVIOUS
    <2>1. running /\ gui = "idle" => stage[sdkPtr] = "live" /\ own[sdkPtr] \in Listening
      BY DEF IInv, TypeOK, GuiInv, SocketInv
    <2> QED
      BY <2>1 DEF IInv, FlagInv, SocketInv, Listening, OneReceiver
  <1> QED
    BY <1>1, AlwaysIInv, AlwaysSocketInv, PTL

\* Two open sockets never have the same number, and the requests of an SDK
\* whose socket is open go out through that socket: the reuse of a descriptor
\* (sdk.cpp:25) confuses only the threads of an SDK being destroyed.
THEOREM OpenSocketIsFound ==
  Spec => [](\A s \in Sdks : stage[s] = "live" => SocketUnder(s) = {s})
  <1>1. SocketInv => (\A s \in Sdks : stage[s] = "live" => SocketUnder(s) = {s})
    BY DEF SocketInv, SocketUnder
  <1> QED
    BY <1>1, AlwaysSocketInv, PTL

\* start() never assigns over a thread.
THEOREM NeverAssignsOverThread == Spec => []ThreadIsFree
  <1>1. IInv => ThreadIsFree
    BY DEF IInv, GuiInv, ThreadIsFree
  <1> QED
    BY <1>1, AlwaysIInv, PTL


----------------------------------------------------------------------------
(* What a destructor that is under way may wait for.  This is the safety   *)
(* that DestructorEnds rests on: fairness adds that steps that can be      *)
(* taken are taken.                                                        *)

\* An SDK that was made has had its threads.
BornInv == \A s \in Sdks : stage[s] # "unborn" => own[s] # "none" /\ poller[s] # "none"

\* The steps that ~SIYI_SDK() may take itself, or its threads for it.
CanGoOn(s) ==
  \/ stage[s] \in {"live", "closed"} \/ Joined(s)
  \/ poller[s] = "on" /\ ~IsLive(s)
  \/ own[s] \in {"test", "call"}
  \/ own[s] = "waiting" /\ datagrams[waitsOn[s]] > 0

\* How many steps of its threads the destructor that has ended the loops may
\* still have to wait for.
OwnWork(o) == IF o = "call" THEN 3 ELSE IF o = "waiting" THEN 2 ELSE IF o = "test" THEN 1 ELSE 0
PollerWork(p) == IF p = "on" THEN 1 ELSE 0
Work(s) == OwnWork(own[s]) + PollerWork(poller[s])

OnlySocketHolds == \A s \in Sdks : InDestructor(s) => CanGoOn(s) \/ LeftWaiting(s)

WorkRunsOut ==
  [][\A s \in Sdks :
       stage[s] = "dead" =>
         /\ stage'[s] \in {"dead", "destroyed"}
         /\ \/ own'[s] = own[s] /\ poller'[s] = poller[s]
            \/ Work(s)' < Work(s)]_vars

\* A step that makes an SDK gives it its threads; no other sets one back.
LEMMA NextBornInv == TypeOK /\ BornInv /\ [Next]_vars => BornInv'
  <1> SUFFICES ASSUME TypeOK, BornInv, [Next]_vars
               PROVE  BornInv'
    OBVIOUS
  <1>1. ASSUME NEW s \in Sdks, NewSdk(s)
        PROVE  BornInv'
    BY <1>1 DEF NewSdk, BornInv, TypeOK
  <1>2. ASSUME \A s \in Sdks : stage[s] = "unborn" => stage'[s] = "unborn",
               \A s \in Sdks : own[s] # "none" => own'[s] # "none",
               \A s \in Sdks : poller[s] # "none" => poller'[s] # "none"
        PROVE  BornInv'
    BY <1>2 DEF BornInv
  <1>3. CASE StartSucceeds \/ StartFails
    BY <1>1, <1>3 DEF StartSucceeds, StartFails
  <1>4. CASE StopBegins \/ StopJoins \/ StopDetaches \/ StopReleases \/ UNCHANGED vars
    BY <1>2, <1>4
       DEF StopBegins, StopJoins, StopDetaches, StopReleases, vars, threads, sockets
  <1>5. ASSUME NEW s \in Sdks,
               ReceiveThread(s) \/ OwnThread(s) \/ PollAnswered(s) \/ PollEnds(s)
                 \/ LoseDatagram(s)
        PROVE  BornInv'
    BY <1>2, <1>5
       DEF TypeOK, ReceiveThread, TestFlag, Receive, ThreadReleases, OwnThread, OwnTests,
           OwnCalls, OwnReceives, PollAnswered, PollEnds, LoseDatagram, threads, sockets
  <1>6. ASSUME NEW s \in Sdks, Destructor(s)
        PROVE  BornInv'
    <2>1. \A x \in Sdks : stage[x] = "unborn" => stage'[x] = "unborn"
      BY <1>6 DEF TypeOK, Destructor, CloseSocket, EndThreads, GuiDestroys, ThreadDestroys,
                  Joined
    <2>2. UNCHANGED <<own, poller>>
      BY <1>6 DEF Destructor, CloseSocket, EndThreads, GuiDestroys, ThreadDestroys, threads
    <2> QED
      BY <1>2, <2>1, <2>2
  <1> QED
    BY <1>3, <1>4, <1>5, <1>6 DEF Next

\* ~SIYI_SDK(), on whichever thread it runs and whenever it is looked at, can
\* go on, or its receiving thread waits in recvfrom() on a socket where no
\* datagram is (sdk.cpp:25-33): no other wait holds a stop up.
THEOREM OnlySilenceHoldsStop == Spec => []OnlySocketHolds
  <1>1. Init => BornInv
    BY DEF Init, BornInv
  <1>2. IInv /\ BornInv => OnlySocketHolds
    <2> SUFFICES ASSUME IInv, BornInv, NEW s \in Sdks, InDestructor(s), ~CanGoOn(s)
                 PROVE  LeftWaiting(s)
      BY DEF OnlySocketHolds
    <2>1. stage[s] \notin {"unborn", "destroyed"}
      BY DEF IInv, GuiInv, ReferenceInv, InDestructor, DestroyedByGui, DestroyedByThread,
             Sdks, Null
    <2>2. stage[s] = "dead" /\ ~IsLive(s) /\ own[s] # "none" /\ poller[s] = "done"
      BY <2>1 DEF IInv, TypeOK, CanGoOn, BornInv, IsLive
    <2>3. own[s] = "waiting"
      BY <2>2 DEF IInv, TypeOK, CanGoOn, Joined
    <2>4. datagrams[waitsOn[s]] \in 0 .. MaxDatagrams /\ ~(datagrams[waitsOn[s]] > 0)
      BY <2>3 DEF IInv, TypeOK, CanGoOn
    <2> QED
      BY <2>3, <2>4, MaxDatagramsAssumption DEF LeftWaiting
  <1>3. IInv => TypeOK
    BY DEF IInv
  <1>4. Spec => []BornInv
    BY <1>1, <1>3, NextBornInv, AlwaysIInv, PTL DEF Spec
  <1> QED
    BY <1>2, <1>4, AlwaysIInv, PTL

\* Once live is false, each thread of the SDK takes at most three more steps,
\* whatever becomes of descriptors and datagrams, so that a destructor that
\* can go on does not do so for ever.
THEOREM DestructorWaitsBounded == Spec => WorkRunsOut
  <1>1. IInv /\ [Next]_vars =>
          [\A s \in Sdks :
             stage[s] = "dead" =>
               /\ stage'[s] \in {"dead", "destroyed"}
               /\ \/ own'[s] = own[s] /\ poller'[s] = poller[s]
                  \/ Work(s)' < Work(s)]_vars
    <2> SUFFICES ASSUME TypeOK, Next, NEW s \in Sdks, stage[s] = "dead"
                 PROVE  /\ stage'[s] \in {"dead", "destroyed"}
                        /\ \/ own'[s] = own[s] /\ poller'[s] = poller[s]
                           \/ Work(s)' < Work(s)
      BY DEF IInv
    <2>1. CASE StartSucceeds \/ StartFails
      <3>1. PICK x \in Sdks : First(x) /\ NewSdk(x)
        BY <2>1 DEF StartSucceeds, StartFails
      <3>2. x # s
        BY <3>1 DEF First, Unborn
      <3> QED
        BY <3>1, <3>2 DEF NewSdk, TypeOK
    <2>2. CASE StopBegins \/ StopJoins \/ StopDetaches \/ StopReleases
      BY <2>2 DEF StopBegins, StopJoins, StopDetaches, StopReleases, threads, sockets
    <2>3. ASSUME NEW x \in Sdks, ReceiveThread(x) \/ PollAnswered(x) \/ LoseDatagram(x)
          PROVE  UNCHANGED <<stage, own, poller>>
      BY <2>3 DEF ReceiveThread, TestFlag, Receive, ThreadReleases, PollAnswered,
                  LoseDatagram, threads, sockets
    <2>4. ASSUME NEW x \in Sdks, OwnThread(x)
          PROVE  /\ UNCHANGED <<stage, poller>>
                 /\ own'[s] = own[s] \/ OwnWork(own'[s]) < OwnWork(own[s])
      <3>1. UNCHANGED <<stage, poller>>
        BY <2>4 DEF OwnThread, OwnTests, OwnCalls, OwnReceives, sockets
      <3>2. CASE x # s
        <4>1. own'[s] = own[s]
          BY <2>4, <3>2 DEF OwnThread, OwnTests, OwnCalls, OwnReceives, TypeOK
        <4> QED
          BY <3>1, <4>1
      <3>3. CASE x = s
        <4>1. ~IsLive(s)
          BY DEF IsLive
        <4>2. \/ own[s] = "test" /\ own'[s] = "done"
              \/ own[s] = "call" /\ own'[s] \in {"waiting", "test"}
              \/ own[s] = "waiting" /\ own'[s] \in {"waiting", "test"}
          BY <2>4, <3>3, <4>1 DEF OwnThread, OwnTests, OwnCalls, OwnReceives, TypeOK
        <4> QED
          BY <3>1, <4>2 DEF OwnWork
      <3> QED
        BY <3>1, <3>2, <3>3
    <2>5. ASSUME NEW x \in Sdks, PollEnds(x)
          PROVE  /\ UNCHANGED <<stage, own>>
                 /\ poller'[s] = poller[s] \/ PollerWork(poller'[s]) < PollerWork(poller[s])
      BY <2>5 DEF PollEnds, PollerWork, TypeOK, sockets
    <2>6. ASSUME NEW x \in Sdks, Destructor(x)
          PROVE  UNCHANGED <<own, poller>> /\ stage'[s] \in {"dead", "destroyed"}
      BY <2>6 DEF Destructor, CloseSocket, EndThreads, GuiDestroys, ThreadDestroys, threads,
                  TypeOK
    <2>7. /\ OwnWork(own[s]) \in Nat /\ OwnWork(own'[s]) \in Nat
          /\ PollerWork(poller[s]) \in Nat /\ PollerWork(poller'[s]) \in Nat
      BY DEF OwnWork, PollerWork
    <2>8. Work(s) = OwnWork(own[s]) + PollerWork(poller[s])
          /\ Work(s)' = OwnWork(own'[s]) + PollerWork(poller'[s])
      BY DEF Work
    <2> QED
      BY <2>1, <2>2, <2>3, <2>4, <2>5, <2>6, <2>7, <2>8 DEF Next
  <1> QED
    BY <1>1, AlwaysIInv, PTL DEF Spec, WorkRunsOut
=============================================================================
