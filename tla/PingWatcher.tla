---------------------------- MODULE PingWatcher ----------------------------
(***************************************************************************)
(* ContinuousPingWatcher and its PingWorker (ping.h, ping.cpp).  The GUI   *)
(* thread owns the hosts and, on every tick of pingTimer, queues one ping  *)
(* per host to the worker thread; the worker runs them one at a time, in   *)
(* the order of its event queue, each a blocking child process; the        *)
(* results come back through the event queue of the GUI thread.  The two   *)
(* threads share nothing but those two queues.                             *)
(*                                                                         *)
(* What the ping process finds is an input: Answers[a] is what pinging the *)
(* address a may report.                                                   *)
(***************************************************************************)
EXTENDS HostScore, Sequences, FiniteSets

CONSTANTS
  Names,        \* the keys of QMap hosts: numbers, for their order
  Addresses,    \* network addresses
  Answers,      \* Answers[a]: the outcomes [success, rtt] of pinging a
  MaxRequests   \* bound: no cycle starts once this many ids are given

\* parsePingOutput() gives a success no negative time, a failure none at all.
Answer == {a \in [success : BOOLEAN, rtt : Int] :
             IF a.success THEN a.rtt >= 0 ELSE a.rtt = -1}

ASSUME NamesAssumption == Names \subseteq Nat
ASSUME AnswersAssumption == Answers \in [Addresses -> SUBSET Answer]
ASSUME MaxRequestsAssumption == MaxRequests \in Nat

NoRequest == -1

VARIABLES
  hosts,           \* name |-> HostInfo, for the hosts added
  watching,        \* TRUE iff pingTimer is running
  cycling,         \* hosts the running performPingCycle() has yet to reach
  nextRequestId,
  requests,        \* event queue of the worker thread
  pinging,         \* the request PingWorker::pingHost is blocked in, if any
  results,         \* event queue of the GUI thread
  asked            \* history: asked[id] is the host the id was given for

queues == <<requests, pinging, results>>
vars == <<hosts, watching, cycling, nextRequestId, queues, asked>>

Request == [requestId : Nat \ {0}, host : Addresses]
Result  == [requestId : Nat \ {0}, host : Addresses, success : BOOLEAN, rtt : Int]

HostInfo == [host : Addresses, lastStatus : BOOLEAN, lastRtt : Int,
             pendingRequestId : (Nat \ {0}) \cup {NoRequest},
             score : HostConnectivityScore]

\* Mutant of NewHostInfo: 0 taken for "no request", as ids count from 1.
MutantZeroIsNoRequest(address) ==
  [host |-> address, lastStatus |-> FALSE, lastRtt |-> -1,
   pendingRequestId |-> 0, score |-> Reset]

NewHostInfo(address) ==
  [host |-> address, lastStatus |-> FALSE, lastRtt |-> -1,
   pendingRequestId |-> NoRequest, score |-> Reset]

Init ==
  /\ hosts = << >>
  /\ watching = FALSE
  /\ cycling = {}
  /\ nextRequestId = 0
  /\ requests = << >>
  /\ pinging = {}
  /\ results = << >>
  /\ asked = << >>

----------------------------------------------------------------------------
(* The GUI thread.  Only performPingCycle() is taken apart, one iteration  *)
(* of its loop at a time; nothing else runs on this thread meanwhile.      *)

GuiIdle == cycling = {}

\* Mutant of AddHost: a known name keeps the request it waits for.
MutantKeptPending(name, address) ==
  /\ GuiIdle
  /\ hosts' = [n \in DOMAIN hosts \cup {name} |->
                 IF n # name THEN hosts[n]
                 ELSE IF n \in DOMAIN hosts
                 THEN [NewHostInfo(address) EXCEPT !.pendingRequestId = hosts[n].pendingRequestId]
                 ELSE NewHostInfo(address)]
  /\ UNCHANGED <<watching, cycling, nextRequestId, queues, asked>>

\* A known name is given the new address and forgets everything else,
\* which is what a new name starts from.
AddHost(name, address) ==
  /\ GuiIdle
  /\ hosts' = [n \in DOMAIN hosts \cup {name} |->
                 IF n = name THEN NewHostInfo(address) ELSE hosts[n]]
  /\ UNCHANGED <<watching, cycling, nextRequestId, queues, asked>>

RemoveHost(name) ==
  /\ GuiIdle
  /\ hosts' = [n \in DOMAIN hosts \ {name} |-> hosts[n]]
  /\ UNCHANGED <<watching, cycling, nextRequestId, queues, asked>>

StartWatching ==
  /\ GuiIdle
  /\ ~watching
  /\ watching' = TRUE
  /\ UNCHANGED <<hosts, cycling, nextRequestId, queues, asked>>

StopWatching ==
  /\ GuiIdle
  /\ watching
  /\ watching' = FALSE
  /\ UNCHANGED <<hosts, cycling, nextRequestId, queues, asked>>

\* The timer ticks, whether or not the pings of the last tick are answered.
BeginPingCycle ==
  /\ GuiIdle
  /\ watching
  /\ nextRequestId < MaxRequests
  /\ cycling' = DOMAIN hosts
  /\ UNCHANGED <<hosts, watching, nextRequestId, queues, asked>>

\* Mutant of QueuePing: a host already waiting keeps its older request.
MutantFirstAskCounts(name) ==
  /\ name \in cycling
  /\ \A n \in cycling : name <= n
  /\ cycling' = cycling \ {name}
  /\ nextRequestId' = nextRequestId + 1
  /\ hosts' = [hosts EXCEPT ![name].pendingRequestId =
                 IF @ = NoRequest THEN nextRequestId' ELSE @]
  /\ requests' = Append(requests, [requestId |-> nextRequestId',
                                   host      |-> hosts[name].host])
  /\ asked' = Append(asked, name)
  /\ UNCHANGED <<watching, pinging, results>>

QueuePing(name) ==
  /\ name \in cycling
  /\ \A n \in cycling : name <= n
  /\ cycling' = cycling \ {name}
  /\ nextRequestId' = nextRequestId + 1
  /\ hosts' = [hosts EXCEPT ![name].pendingRequestId = nextRequestId']
  /\ requests' = Append(requests, [requestId |-> nextRequestId',
                                   host      |-> hosts[name].host])
  /\ asked' = Append(asked, name)
  /\ UNCHANGED <<watching, pinging, results>>

\* onPingResult() looks for a host that still waits for this very request.
Waiting(requestId) ==
  {n \in DOMAIN hosts : hosts[n].pendingRequestId = requestId}

\* Mutant of Credited: the request stays pending.
MutantStillPending(info, result) ==
  [info EXCEPT !.lastStatus = result.success,
               !.lastRtt    = result.rtt,
               !.score      = UpdatePing(@, result.success, result.rtt)]

Credited(info, result) ==
  [info EXCEPT !.lastStatus       = result.success,
               !.lastRtt          = result.rtt,
               !.pendingRequestId = NoRequest,
               !.score            = UpdatePing(@, result.success, result.rtt)]

CreditResult(name) ==
  /\ GuiIdle
  /\ results # << >>
  /\ name \in Waiting(Head(results).requestId)
  /\ \A n \in Waiting(Head(results).requestId) : name <= n
  /\ hosts' = [hosts EXCEPT ![name] = Credited(@, Head(results))]
  /\ results' = Tail(results)
  /\ UNCHANGED <<watching, cycling, nextRequestId, requests, pinging, asked>>

DropResult ==
  /\ GuiIdle
  /\ results # << >>
  /\ Waiting(Head(results).requestId) = {}
  /\ results' = Tail(results)
  /\ UNCHANGED <<hosts, watching, cycling, nextRequestId, requests, pinging, asked>>

OnPingResult == DropResult \/ \E name \in DOMAIN hosts : CreditResult(name)

----------------------------------------------------------------------------
(* The worker thread.                                                      *)

WorkerTake ==
  /\ pinging = {}
  /\ requests # << >>
  /\ pinging' = {Head(requests)}
  /\ requests' = Tail(requests)
  /\ UNCHANGED <<hosts, watching, cycling, nextRequestId, results, asked>>

ResultOf(request, answer) ==
  [requestId |-> request.requestId, host |-> request.host,
   success |-> answer.success, rtt |-> answer.rtt]

\* Mutants of WorkerFinish: a result overtakes those waiting, and a ping
\* that fails reports nothing.
MutantOvertakingResult ==
  \E request \in pinging : \E answer \in Answers[request.host] :
    /\ pinging' = {}
    /\ results' = <<ResultOf(request, answer)>> \o results
    /\ UNCHANGED <<hosts, watching, cycling, nextRequestId, requests, asked>>

MutantSilentFailure ==
  \E request \in pinging : \E answer \in Answers[request.host] :
    /\ pinging' = {}
    /\ results' = IF answer.success
                  THEN Append(results, ResultOf(request, answer)) ELSE results
    /\ UNCHANGED <<hosts, watching, cycling, nextRequestId, requests, asked>>

WorkerFinish ==
  \E request \in pinging : \E answer \in Answers[request.host] :
    /\ pinging' = {}
    /\ results' = Append(results, ResultOf(request, answer))
    /\ UNCHANGED <<hosts, watching, cycling, nextRequestId, requests, asked>>

----------------------------------------------------------------------------
Next ==
  \/ \E name \in Names : \E address \in Addresses : AddHost(name, address)
  \/ \E name \in Names : RemoveHost(name)
  \/ StartWatching
  \/ StopWatching
  \/ BeginPingCycle
  \/ \E name \in Names : QueuePing(name)
  \/ OnPingResult
  \/ WorkerTake
  \/ WorkerFinish

Spec == Init /\ [][Next]_vars

\* The worker's event loop runs, and a ping ends: QProcess is waited for
\* with time limits and then killed.  The GUI thread leaves the loop of a
\* cycle, and its event loop delivers posted events again and again however
\* often timers keep it busy in between, hence strong fairness.
Fairness ==
  /\ WF_vars(WorkerTake)
  /\ WF_vars(WorkerFinish)
  /\ WF_vars(\E name \in Names : QueuePing(name))
  /\ SF_vars(OnPingResult)

FairSpec == Spec /\ Fairness

----------------------------------------------------------------------------
(* Invariants.                                                             *)

\* The pings asked for whose results are still to be handled.
OnTheWay ==
  {[requestId |-> results[i].requestId, host |-> results[i].host] : i \in DOMAIN results}
    \cup pinging \cup {requests[i] : i \in DOMAIN requests}

\* Hosts, queues and counters keep their types, and the worker runs one ping
\* at a time.
TypeOK ==
  /\ DOMAIN hosts \subseteq Names
  /\ hosts \in [DOMAIN hosts -> HostInfo]
  /\ watching \in BOOLEAN
  /\ cycling \subseteq DOMAIN hosts
  /\ nextRequestId \in Nat
  /\ requests \in Seq(Request)
  /\ pinging \subseteq Request
  /\ \A p, q \in pinging : p = q
  /\ results \in Seq(Result)
  /\ asked \in Seq(Names)
  /\ Len(asked) = nextRequestId

\* Along the two queues and the worker between them, request ids increase
\* strictly.
InOrder ==
  /\ \A i, j \in DOMAIN results :
       i < j => results[i].requestId < results[j].requestId
  /\ \A i \in DOMAIN results : \A p \in pinging :
       results[i].requestId < p.requestId
  /\ \A i \in DOMAIN results, j \in DOMAIN requests :
       results[i].requestId < requests[j].requestId
  /\ \A p \in pinging : \A j \in DOMAIN requests :
       p.requestId < requests[j].requestId
  /\ \A i, j \in DOMAIN requests :
       i < j => requests[i].requestId < requests[j].requestId
  /\ \A q \in OnTheWay : q.requestId <= nextRequestId

\* Whatever was asked after a ping still on the way is on the way too.
NoneLost ==
  \A q \in OnTheWay : \A later \in q.requestId..nextRequestId :
    \E r \in OnTheWay : r.requestId = later

\* The pipeline of the two queues and the worker holds exactly the last few
\* ids given, each once, oldest first: no id is given twice, no ping is lost
\* between the threads and no result overtakes an older one, so that a
\* cycle's answers all arrive, in the order of its hosts.
PipelineOrdered == InOrder /\ NoneLost

\* A host that waits for a request waits for one that is on its way, was
\* given for this host, and pings the address the host has now: it never
\* waits for an answer that cannot come, nor takes one about an address it
\* no longer has, even when the address changes while a ping runs.
PendingIsOnTheWay ==
  \A n \in DOMAIN hosts :
    hosts[n].pendingRequestId # NoRequest =>
      /\ [requestId |-> hosts[n].pendingRequestId, host |-> hosts[n].host] \in OnTheWay
      /\ asked[hosts[n].pendingRequestId] = n

----------------------------------------------------------------------------
(* Action properties.                                                      *)

\* A result counts only for the host its id was given for, and only if that
\* host has not been asked again since: of the answers a slow worker brings
\* late, the one to the latest question counts and the others are dropped.
OnlyLatestAskCounts ==
  \A n \in DOMAIN hosts \cap DOMAIN hosts' :
    hosts'[n].score.totalPings > hosts[n].score.totalPings =>
      LET id == Head(results).requestId
      IN  /\ asked[id] = n
          /\ \A later \in (id + 1)..nextRequestId : asked[later] # n

LatestAskCounts == [][OnlyLatestAskCounts]_vars

\* What CONNECTIVITY_DISPLAY.md:84 says: updates come with each ping cycle.
\* A host asked again before its last answer loses the earlier cycle's
\* update, so no cycle may replace a request still pending.
NoCycleLosesAnUpdate ==
  \A n \in DOMAIN hosts \cap DOMAIN hosts' :
    hosts[n].pendingRequestId # NoRequest =>
      hosts'[n].pendingRequestId \in {hosts[n].pendingRequestId, NoRequest}

UpdatesWithEachCycle == [][NoCycleLosesAnUpdate]_vars

----------------------------------------------------------------------------
(* Refinement and liveness.                                                *)

View(info) ==
  [host |-> info.host, lastStatus |-> info.lastStatus, lastRtt |-> info.lastRtt,
   score |-> info.score, awaiting |-> info.pendingRequestId # NoRequest]

Seen == [n \in DOMAIN hosts |-> View(hosts[n])]

Monitor == INSTANCE HostMonitor WITH
  monitor <- Seen, NoScore <- Reset, ScoreAfter <- UpdatePing

\* The queues, the ids and the worker implement the abstract monitor: every
\* step of the code is a step of HostMonitor or leaves its state alone.
ImplementsMonitor == Monitor!Spec

Awaits(name, requestId) ==
  name \in DOMAIN hosts /\ hosts[name].pendingRequestId = requestId

\* No host waits for ever: every request is answered, or given up because
\* its host is asked again, given a new address or removed; stopping the
\* watch does not strand the pings already queued.
EveryRequestResolves ==
  \A name \in Names : \A id \in 1..(MaxRequests + Cardinality(Names)) :
    Awaits(name, id) ~> ~Awaits(name, id)
=============================================================================
