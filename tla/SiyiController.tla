--------------------------- MODULE SiyiController ---------------------------
(***************************************************************************)
(* The life of the connection to a SIYI camera: SiyiCameraController, the  *)
(* SIYI_SDK objects it makes one after another, and their threads.         *)
(*                                                                         *)
(* An SDK owns a UDP socket, threads that poll the camera and a thread     *)
(* that receives; the controller starts one more thread that receives from *)
(* the same socket and shares the ownership of the SDK.  Stopping gives    *)
(* that thread 300 ms to see its flag and detaches it otherwise; whoever   *)
(* drops the last reference runs the SDK's destructor, which closes the    *)
(* socket and joins the SDK's own threads.                                 *)
(*                                                                         *)
(* SDKs are numbered as they are made, 0 is the null pointer.  A recvfrom()*)
(* has no timeout: it returns when a datagram is there, or with an error   *)
(* when its descriptor is closed at the call.  A call that waits keeps its *)
(* socket alive, whatever happens to the descriptor, and the number of a   *)
(* closed descriptor may be given to the next socket.  Of what a datagram  *)
(* says only this matters here: that a payload shorter than its command's  *)
(* parser expects makes the parser throw.  The two polling threads of an   *)
(* SDK differ only in period and request and are one here.                 *)
(***************************************************************************)
EXTENDS Naturals

CONSTANTS
  MaxSdks,        \* bound: SDKs made
  MaxDatagrams    \* bound: datagrams on their way to one socket, or in it

ASSUME MaxSdksAssumption == MaxSdks \in Nat \ {0}
ASSUME MaxDatagramsAssumption == MaxDatagrams \in Nat \ {0}

Null == 0
Sdks == 1 .. MaxSdks
Descriptors == 1 .. MaxSdks

VARIABLES
  sdkPtr,        \* the member: an SDK or Null
  running,       \* the member running
  joinable,      \* TRUE iff the member receiveThread stands for a thread
  gui,           \* what the GUI thread does: idle, polling, releasing,
                 \* destroying (in ~SIYI_SDK)
  crashed,       \* TRUE iff the program has ended by an error
  stage,         \* stage[s]: unborn, live, closed (the socket is), dead
                 \* (live = false too), destroyed
  sockfd,        \* sockfd[s]: the number of the socket's descriptor
  flag,          \* flag[s]: what sdkLoopFlagPtr made for s points to
  receive,       \* receive[s]: the controller's thread: none, test, waiting,
                 \* exited, destroying (in ~SIYI_SDK), gone
  own,           \* own[s]: the SDK's receiving thread: none, test, call,
                 \* waiting, done
  waitsOn,       \* waitsOn[s]: the SDK whose socket own[s] waits on
  poller,        \* poller[s]: the polling threads: none, on, done
  threw,         \* history: SDKs whose receive[s] an exception took out of its
                 \* loop though its flag was set and still is
  datagrams      \* datagrams[s]: sent by the camera to the socket of s

member == <<sdkPtr, running, joinable, gui>>
controller == <<member, crashed>>
threads == <<flag, receive, own, waitsOn, poller, threw>>
sockets == <<stage, sockfd, datagrams>>
vars == <<controller, threads, sockets>>

Unborn == {s \in Sdks : stage[s] = "unborn"}

Init ==
  /\ sdkPtr = Null
  /\ running = FALSE
  /\ joinable = FALSE
  /\ gui = "idle"
  /\ crashed = FALSE
  /\ stage = [s \in Sdks |-> "unborn"]
  /\ sockfd = [s \in Sdks |-> 1]
  /\ flag = [s \in Sdks |-> FALSE]
  /\ receive = [s \in Sdks |-> "none"]
  /\ own = [s \in Sdks |-> "none"]
  /\ waitsOn = [s \in Sdks |-> s]
  /\ poller = [s \in Sdks |-> "none"]
  /\ threw = {}
  /\ datagrams = [s \in Sdks |-> 0]

----------------------------------------------------------------------------
(* Sockets.  An open socket is found under its descriptor's number, by     *)
(* whoever still uses the number.                                          *)

SocketUnder(s) == {x \in Sdks : stage[x] = "live" /\ sockfd[x] = sockfd[s]}

FreeDescriptors == Descriptors \ {sockfd[x] : x \in {y \in Sdks : stage[y] = "live"}}

\* The constructor of SIYI_SDK: a socket and three threads.
NewSdk(s) ==
  /\ stage' = [stage EXCEPT ![s] = "live"]
  /\ \E n \in FreeDescriptors : sockfd' = [sockfd EXCEPT ![s] = n]
  /\ own' = [own EXCEPT ![s] = "test"]
  /\ poller' = [poller EXCEPT ![s] = "on"]

----------------------------------------------------------------------------
(* The GUI thread: MainWindow starts and stops the controller.             *)

First(s) == s \in Unborn /\ \A x \in Unborn : s <= x

\* The answers to the requests start() ends with are among those of the
\* polling threads.
StartSucceeds ==
  \E s \in Sdks :
    /\ gui = "idle" /\ ~running
    /\ First(s)
    /\ NewSdk(s)
    /\ sdkPtr' = s
    /\ running' = TRUE
    /\ joinable' = TRUE
    /\ flag' = [flag EXCEPT ![s] = TRUE]
    /\ receive' = [receive EXCEPT ![s] = "test"]
    /\ UNCHANGED <<gui, crashed, waitsOn, threw, datagrams>>

\* The first request cannot be sent: no route, for one.  The SDK is given up.
StartFails ==
  \E s \in Sdks :
    /\ gui = "idle" /\ ~running
    /\ First(s)
    /\ NewSdk(s)
    /\ sdkPtr' = s
    /\ gui' = "destroying"
    /\ UNCHANGED <<running, joinable, crashed, flag, receive, waitsOn, threw, datagrams>>

\* Mutant of StopBegins: the flag is left alone.
MutantStopsWithoutFlag ==
  /\ gui = "idle" /\ running
  /\ gui' = "polling"
  /\ UNCHANGED <<sdkPtr, running, joinable, crashed, threads, sockets>>

StopBegins ==
  /\ gui = "idle" /\ running
  /\ flag' = [flag EXCEPT ![sdkPtr] = FALSE]
  /\ threw' = threw \ {sdkPtr}
  /\ gui' = "polling"
  /\ UNCHANGED <<sdkPtr, running, joinable, crashed, receive, own, waitsOn, poller, sockets>>

\* Within 300 ms the thread says it has exited, and is joined.
StopJoins ==
  /\ gui = "polling"
  /\ receive[sdkPtr] = "gone"
  /\ joinable' = FALSE
  /\ gui' = "releasing"
  /\ UNCHANGED <<sdkPtr, running, crashed, threads, sockets>>

\* Mutant of StopDetaches: the handle is kept.
MutantStopsWithoutDetach ==
  /\ gui = "polling"
  /\ gui' = "releasing"
  /\ UNCHANGED <<sdkPtr, running, joinable, crashed, threads, sockets>>

\* The 300 ms are over.  The thread may have exited since the last look.
StopDetaches ==
  /\ gui = "polling"
  /\ joinable' = FALSE
  /\ gui' = "releasing"
  /\ UNCHANGED <<sdkPtr, running, crashed, threads, sockets>>

\* sdkPtr.reset(): the destructor runs here unless the thread has a reference.
StopReleases ==
  /\ gui = "releasing"
  /\ IF receive[sdkPtr] = "gone"
     THEN gui' = "destroying" /\ UNCHANGED <<sdkPtr, running>>
     ELSE gui' = "idle" /\ sdkPtr' = Null /\ running' = FALSE
  /\ UNCHANGED <<joinable, crashed, threads, sockets>>

----------------------------------------------------------------------------
(* The receiving thread of the controller.  Its references keep the socket *)
(* open while it is in the loop.                                           *)

TestFlag(s) ==
  /\ receive[s] = "test"
  /\ receive' = [receive EXCEPT ![s] = IF flag[s] THEN "waiting" ELSE "exited"]
  /\ UNCHANGED <<controller, flag, own, waitsOn, poller, threw, sockets>>

\* An answer is handled, or is too short: the exception ends the loop, even if
\* the flag is still set, and the thread catches it and goes on to its end.
Receive(s) ==
  /\ receive[s] = "waiting"
  /\ datagrams[s] > 0
  /\ datagrams' = [datagrams EXCEPT ![s] = @ - 1]
  /\ \/ receive' = [receive EXCEPT ![s] = "test"] /\ UNCHANGED threw
     \/ receive' = [receive EXCEPT ![s] = "exited"] /\ threw' = threw \cup {x \in {s} : flag[x]}
  /\ UNCHANGED <<controller, flag, own, waitsOn, poller, stage, sockfd>>

\* Mutant of ThreadReleases: the lambda captures a plain pointer.
MutantCapturesPointer(s) ==
  /\ receive[s] = "exited"
  /\ receive' = [receive EXCEPT ![s] = "gone"]
  /\ UNCHANGED <<controller, flag, own, waitsOn, poller, threw, sockets>>

\* The lambda's captures go.
ThreadReleases(s) ==
  /\ receive[s] = "exited"
  /\ receive' = [receive EXCEPT ![s] = IF sdkPtr = s THEN "gone" ELSE "destroying"]
  /\ UNCHANGED <<controller, flag, own, waitsOn, poller, threw, sockets>>

----------------------------------------------------------------------------
(* The threads of an SDK and its destructor.                               *)

IsLive(s) == stage[s] \in {"live", "closed"}

OwnTests(s) ==
  /\ own[s] = "test"
  /\ own' = [own EXCEPT ![s] = IF IsLive(s) THEN "call" ELSE "done"]
  /\ UNCHANGED <<controller, flag, receive, waitsOn, poller, threw, sockets>>

\* recvfrom() on a number that is no socket's returns at once.
OwnCalls(s) ==
  /\ own[s] = "call"
  /\ \/ \E x \in SocketUnder(s) :
          /\ own' = [own EXCEPT ![s] = "waiting"]
          /\ waitsOn' = [waitsOn EXCEPT ![s] = x]
     \/ /\ SocketUnder(s) = {}
        /\ own' = [own EXCEPT ![s] = "test"]
        /\ UNCHANGED waitsOn
  /\ UNCHANGED <<controller, flag, receive, poller, threw, sockets>>

\* Mutant of OwnReceives: a recvfrom() that does not wait.
MutantReceivesNothing(s) ==
  /\ own[s] = "waiting"
  /\ datagrams' = [datagrams EXCEPT ![waitsOn[s]] = @ - 1]
  /\ own' = [own EXCEPT ![s] = "test"]
  /\ UNCHANGED <<controller, flag, receive, waitsOn, poller, threw, stage, sockfd>>

\* Nothing catches what is thrown in the SDK's own thread.
OwnReceives(s) ==
  /\ own[s] = "waiting"
  /\ datagrams[waitsOn[s]] > 0
  /\ datagrams' = [datagrams EXCEPT ![waitsOn[s]] = @ - 1]
  /\ \/ own' = [own EXCEPT ![s] = "test"] /\ UNCHANGED crashed
     \/ crashed' = TRUE /\ UNCHANGED own
  /\ UNCHANGED <<member, flag, receive, waitsOn, poller, threw, stage, sockfd>>

\* A request goes out through the socket found and the camera answers it.
\* (One without answer changes nothing.)
PollAnswered(s) ==
  /\ poller[s] = "on" /\ IsLive(s)
  /\ \E x \in SocketUnder(s) :
       /\ datagrams[x] < MaxDatagrams
       /\ datagrams' = [datagrams EXCEPT ![x] = @ + 1]
  /\ UNCHANGED <<controller, threads, stage, sockfd>>

PollEnds(s) ==
  /\ poller[s] = "on" /\ ~IsLive(s)
  /\ poller' = [poller EXCEPT ![s] = "done"]
  /\ UNCHANGED <<controller, flag, receive, own, waitsOn, threw, sockets>>

LoseDatagram(s) ==
  /\ datagrams[s] > 0
  /\ datagrams' = [datagrams EXCEPT ![s] = @ - 1]
  /\ UNCHANGED <<controller, threads, stage, sockfd>>

DestroyedByGui(s) == gui = "destroying" /\ sdkPtr = s
DestroyedByThread(s) == receive[s] = "destroying"
InDestructor(s) == DestroyedByGui(s) \/ DestroyedByThread(s)

CloseSocket(s) ==
  /\ InDestructor(s)
  /\ stage[s] = "live"
  /\ stage' = [stage EXCEPT ![s] = "closed"]
  /\ UNCHANGED <<controller, threads, sockfd, datagrams>>

\* Mutant of EndThreads: live stays true.
MutantKeepsLive(s) ==
  /\ InDestructor(s)
  /\ stage[s] = "closed"
  /\ UNCHANGED vars

EndThreads(s) ==
  /\ InDestructor(s)
  /\ stage[s] = "closed"
  /\ stage' = [stage EXCEPT ![s] = "dead"]
  /\ UNCHANGED <<controller, threads, sockfd, datagrams>>

\* Mutant of Joined: the receiving thread is not joined.
MutantForgetsOwn(s) == stage[s] = "dead" /\ poller[s] = "done"

Joined(s) == stage[s] = "dead" /\ poller[s] = "done" /\ own[s] = "done"

\* After a start that failed MainWindow uses the controller it has reset.
GuiDestroys(s) ==
  /\ DestroyedByGui(s)
  /\ Joined(s)
  /\ stage' = [stage EXCEPT ![s] = "destroyed"]
  /\ sdkPtr' = Null
  /\ running' = FALSE
  /\ gui' = "idle"
  /\ crashed' = ~running
  /\ UNCHANGED <<joinable, threads, sockfd, datagrams>>

ThreadDestroys(s) ==
  /\ DestroyedByThread(s)
  /\ Joined(s)
  /\ stage' = [stage EXCEPT ![s] = "destroyed"]
  /\ receive' = [receive EXCEPT ![s] = "gone"]
  /\ UNCHANGED <<controller, flag, own, waitsOn, poller, threw, sockfd, datagrams>>

ReceiveThread(s) == TestFlag(s) \/ Receive(s) \/ ThreadReleases(s)
OwnThread(s) == OwnTests(s) \/ OwnCalls(s) \/ OwnReceives(s)
Destructor(s) ==
  CloseSocket(s) \/ EndThreads(s) \/ GuiDestroys(s) \/ ThreadDestroys(s)

Next ==
  /\ ~crashed
  /\ \/ StartSucceeds \/ StartFails \/ StopBegins \/ StopJoins \/ StopDetaches \/ StopReleases
     \/ \E s \in Sdks :
          \/ ReceiveThread(s) \/ OwnThread(s) \/ PollAnswered(s) \/ PollEnds(s)
          \/ LoseDatagram(s) \/ Destructor(s)

Spec == Init /\ [][Next]_vars

\* While the program runs, every thread is scheduled; the kernel wakes the
\* calls waiting on one socket in turn, so that each gets a datagram when
\* datagrams keep coming; and the camera answers some request of a socket that
\* is polled.  Losses are not fair, nor are starts and stops, nor is any answer
\* sure to be long enough.
Fairness ==
  /\ WF_vars(~crashed /\ (StopJoins \/ StopDetaches)) /\ WF_vars(~crashed /\ StopReleases)
  /\ \A s \in Sdks :
       /\ WF_vars(~crashed /\ TestFlag(s)) /\ WF_vars(~crashed /\ ThreadReleases(s))
       /\ WF_vars(~crashed /\ OwnTests(s)) /\ WF_vars(~crashed /\ OwnCalls(s))
       /\ WF_vars(~crashed /\ PollEnds(s)) /\ WF_vars(~crashed /\ Destructor(s))
       /\ SF_vars(~crashed /\ Receive(s)) /\ SF_vars(~crashed /\ OwnReceives(s))
       /\ SF_vars(~crashed /\ PollAnswered(s))

FairSpec == Spec /\ Fairness

----------------------------------------------------------------------------
(* Invariants.                                                             *)

\* Pointers, thread states and sockets keep their types.
TypeOK ==
  /\ sdkPtr \in Sdks \cup {Null}
  /\ running \in BOOLEAN
  /\ joinable \in BOOLEAN
  /\ gui \in {"idle", "polling", "releasing", "destroying"}
  /\ crashed \in BOOLEAN
  /\ stage \in [Sdks -> {"unborn", "live", "closed", "dead", "destroyed"}]
  /\ sockfd \in [Sdks -> Descriptors]
  /\ flag \in [Sdks -> BOOLEAN]
  /\ receive \in [Sdks -> {"none", "test", "waiting", "exited", "destroying", "gone"}]
  /\ own \in [Sdks -> {"none", "test", "call", "waiting", "done"}]
  /\ waitsOn \in [Sdks -> Sdks]
  /\ poller \in [Sdks -> {"none", "on", "done"}]
  /\ threw \subseteq Sdks
  /\ datagrams \in [Sdks -> 0 .. MaxDatagrams]

InLoop(s) == receive[s] \in {"test", "waiting"}

\* An SDK that is stopped while its threads run is not freed under them: as
\* long as the controller's thread is in the loop its SDK is whole, socket
\* included, and no thread of its own outlives it.
NoUseAfterFree ==
  \A s \in Sdks :
    /\ InLoop(s) => stage[s] = "live"
    /\ stage[s] = "destroyed" =>
         own[s] = "done" /\ poller[s] = "done" /\ receive[s] \in {"none", "gone"}

\* No SDK leaks and none is destroyed twice: one that is made and not yet
\* destroyed is the controller's, or its receiving thread will destroy it,
\* and GUI thread and receiving thread never both do.
OneDestroyer ==
  \A s \in Sdks :
    /\ stage[s] \notin {"unborn", "destroyed"} =>
         sdkPtr = s \/ InLoop(s) \/ receive[s] \in {"exited", "destroying"}
    /\ ~(DestroyedByGui(s) /\ DestroyedByThread(s))

\* A thread in the loop that the controller is done with was told to leave it:
\* at most one receiving thread goes on, that of the present SDK.  While the
\* controller runs and is not being stopped, that thread leaves only by an
\* answer too short to parse, and the SDK's own thread receives whatever
\* becomes of the other.  An SDK whose socket is open listens to that one: only
\* one that is being destroyed may take the datagrams of a successor that got
\* its descriptor's number.
OneReceiver ==
  /\ \A s \in Sdks : flag[s] => sdkPtr = s /\ gui = "idle"
  /\ running /\ gui = "idle" =>
       /\ flag[sdkPtr]
       /\ InLoop(sdkPtr) \/ sdkPtr \in threw
       /\ stage[sdkPtr] = "live" /\ own[sdkPtr] \in {"test", "call", "waiting"}
  /\ \A s \in Sdks : stage[s] = "live" /\ own[s] = "waiting" => waitsOn[s] = s

\* start() assigns receiveThread, which ends the program when the member still
\* stands for a thread: however the stop before went, it does not.
ThreadIsFree == ~running => ~joinable

----------------------------------------------------------------------------
(* Liveness, under FairSpec.                                               *)

\* ~SIYI_SDK waits to join a thread in a recvfrom() no datagram will end.
LeftWaiting(s) == own[s] = "waiting" /\ datagrams[waitsOn[s]] = 0

\* A stop, a detached thread's last step or a failed start that has come to
\* the destructor ends it, unless the SDK's own thread was left waiting on a
\* socket where nothing is on its way: nothing else can hold a stop up.
DestructorEnds ==
  \A s \in Sdks : InDestructor(s) ~>
                     ~InDestructor(s) \/ LeftWaiting(s) \/ crashed

\* An SDK the controller has let go of is not polled and listened to for ever:
\* if its camera answers, the detached thread comes to destroy it.
DetachedIsDestroyed ==
  \A s \in Sdks : stage[s] = "live" /\ sdkPtr # s ~>
                     stage[s] # "live" \/ crashed

----------------------------------------------------------------------------
(* What comments of the code say.                                          *)

\* CameraController.h:11 says of stop() "stop and cleanup",
\* SiyiCameraController.cpp:158 "thread didn't exit quickly -- detaching".
\* So a stop ends while the program runs, though the camera keeps answering or
\* falls silent.
StopReturns == gui = "polling" ~> gui = "idle" \/ crashed
=============================================================================
