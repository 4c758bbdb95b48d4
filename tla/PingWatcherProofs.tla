------------------------- MODULE PingWatcherProofs -------------------------
(* Theorems about PingWatcher, for every set of hosts, addresses and ping  *)
(* outcomes and every number of requests.                                  *)
EXTENDS PingWatcher, HostScoreProofs

----------------------------------------------------------------------------
(* The inductive invariant.  Beyond the properties themselves it needs     *)
(* that the request a host waits for is the last one given for it, that a  *)
(* result reports what pinging its address may report, and that the record *)
(* of every host is sound (HostScoreProofs).                               *)

PendingIsLatest ==
  \A n \in DOMAIN hosts :
    hosts[n].pendingRequestId # NoRequest =>
      \A later \in (hosts[n].pendingRequestId + 1)..nextRequestId : asked[later] # n

ResultsAreAnswers ==
  \A i \in DOMAIN results :
    [success |-> results[i].success, rtt |-> results[i].rtt] \in Answers[results[i].host]

ScoresSound == \A n \in DOMAIN hosts : Sound(hosts[n].score)

IInv ==
  /\ TypeOK
  /\ InOrder
  /\ NoneLost
  /\ PendingIsOnTheWay
  /\ PendingIsLatest
  /\ ResultsAreAnswers
  /\ ScoresSound

----------------------------------------------------------------------------
(* One lemma per kind of step.                                             *)

\* A host just added is well typed, waits for nothing and has no score.
LEMMA NewHostInfoType ==
  ASSUME NEW address \in Addresses
  PROVE  /\ NewHostInfo(address) \in HostInfo
         /\ NewHostInfo(address).pendingRequestId = NoRequest
         /\ NewHostInfo(address).score = Reset
  BY ResetSound DEF NewHostInfo, HostInfo, NoRequest, Sound

\* What is on the way are requests.
LEMMA OnTheWayType ==
  ASSUME TypeOK
  PROVE  OnTheWay \subseteq Request
  <1>1. /\ \A i \in DOMAIN results : results[i] \in Result
        /\ \A i \in DOMAIN requests : requests[i] \in Request
        /\ pinging \subseteq Request
    BY DEF TypeOK
  <1> QED BY <1>1 DEF OnTheWay, Request, Result

\* Results, the running ping and the queued requests are on the way.
LEMMA OnTheWayMembers ==
  /\ \A i \in DOMAIN results :
       [requestId |-> results[i].requestId, host |-> results[i].host] \in OnTheWay
  /\ \A p \in pinging : p \in OnTheWay
  /\ \A j \in DOMAIN requests : requests[j] \in OnTheWay
  BY DEF OnTheWay

\* The constructor establishes the invariant.
LEMMA InitInv == Init => IInv
  <1> SUFFICES ASSUME Init PROVE IInv
    OBVIOUS
  <1>1. DOMAIN hosts = {} /\ hosts = [n \in {} |-> hosts[n]]
    BY DEF Init
  <1>2. DOMAIN results = {} /\ DOMAIN requests = {} /\ pinging = {} /\ cycling = {}
    BY DEF Init
  <1>3. TypeOK
    <2>1. DOMAIN hosts \subseteq Names /\ hosts \in [DOMAIN hosts -> HostInfo]
      BY <1>1
    <2>2. requests \in Seq(Request) /\ results \in Seq(Result) /\ asked \in Seq(Names)
      BY DEF Init
    <2> QED BY <1>2, <2>1, <2>2 DEF Init, TypeOK
  <1>4. OnTheWay = {}
    BY <1>2 DEF OnTheWay
  <1>5. InOrder
    BY <1>2, <1>4 DEF InOrder
  <1> QED BY <1>1, <1>2, <1>3, <1>4, <1>5 DEF IInv, PendingIsOnTheWay, PendingIsLatest,
                                       ResultsAreAnswers, ScoresSound, NoneLost

\* A host added or changed waits for nothing.
LEMMA AddHostInv ==
  ASSUME IInv, NEW name \in Names, NEW address \in Addresses, AddHost(name, address)
  PROVE  IInv'
  <1> DEFINE fresh == NewHostInfo(address)
  <1>1. fresh \in HostInfo /\ fresh.pendingRequestId = NoRequest /\ fresh.score = Reset
    BY NewHostInfoType
  <1>2. Sound(fresh.score)
    BY <1>1, ResetSound
  <1>3. /\ DOMAIN hosts' = DOMAIN hosts \cup {name}
        /\ hosts'[name] = fresh
        /\ \A n \in DOMAIN hosts' : n # name => n \in DOMAIN hosts /\ hosts'[n] = hosts[n]
        /\ hosts' = [n \in DOMAIN hosts' |-> hosts'[n]]
    BY DEF AddHost
  <1>4. UNCHANGED <<watching, cycling, nextRequestId, queues, asked>>
    BY DEF AddHost
  <1> HIDE DEF fresh
  <1>5. TypeOK'
    BY <1>1, <1>3, <1>4 DEF IInv, TypeOK, queues
  <1>6. OnTheWay' = OnTheWay /\ InOrder' /\ NoneLost'
    BY <1>4 DEF IInv, InOrder, NoneLost, OnTheWay, queues
  <1>7. PendingIsOnTheWay'
    BY <1>1, <1>3, <1>4, <1>6 DEF IInv, PendingIsOnTheWay
  <1>8. PendingIsLatest' /\ ScoresSound'
    BY <1>1, <1>2, <1>3, <1>4 DEF IInv, PendingIsLatest, ScoresSound
  <1>9. ResultsAreAnswers'
    BY <1>4 DEF IInv, ResultsAreAnswers, queues
  <1> QED BY <1>5, <1>6, <1>7, <1>8, <1>9 DEF IInv

\* The hosts that stay are as they were.
LEMMA RemoveHostInv ==
  ASSUME IInv, NEW name \in Names, RemoveHost(name)
  PROVE  IInv'
  <1>1. /\ DOMAIN hosts' \subseteq DOMAIN hosts
        /\ \A n \in DOMAIN hosts' : hosts'[n] = hosts[n]
        /\ hosts' = [n \in DOMAIN hosts' |-> hosts'[n]]
        /\ cycling = {}
        /\ UNCHANGED <<watching, cycling, nextRequestId, queues, asked>>
    BY DEF RemoveHost, GuiIdle
  <1>2. TypeOK'
    BY <1>1 DEF IInv, TypeOK, queues
  <1>3. OnTheWay' = OnTheWay /\ InOrder' /\ NoneLost'
    BY <1>1 DEF IInv, InOrder, NoneLost, OnTheWay, queues
  <1>4. PendingIsOnTheWay'
    BY <1>1, <1>3 DEF IInv, PendingIsOnTheWay
  <1>5. PendingIsLatest' /\ ScoresSound' /\ ResultsAreAnswers'
    BY <1>1 DEF IInv, PendingIsLatest, ScoresSound, ResultsAreAnswers, queues
  <1> QED BY <1>2, <1>3, <1>4, <1>5 DEF IInv

\* The watch is started or stopped, or a cycle begins.
LEMMA WatchInv ==
  ASSUME IInv, UNCHANGED <<hosts, nextRequestId, queues, asked>>,
         watching' \in BOOLEAN, cycling' \subseteq DOMAIN hosts
  PROVE  IInv'
  <1>1. UNCHANGED <<hosts, nextRequestId, requests, pinging, results, asked>>
    BY DEF queues
  <1>2. TypeOK'
    BY <1>1 DEF IInv, TypeOK
  <1>3. OnTheWay' = OnTheWay
    BY <1>1 DEF OnTheWay
  <1>4. InOrder' /\ NoneLost' /\ PendingIsOnTheWay'
    BY <1>1, <1>3 DEF IInv, InOrder, NoneLost, PendingIsOnTheWay
  <1>5. PendingIsLatest' /\ ResultsAreAnswers' /\ ScoresSound'
    BY <1>1 DEF IInv, PendingIsLatest, ResultsAreAnswers, ScoresSound
  <1> QED BY <1>2, <1>4, <1>5 DEF IInv

\* The id just given is larger than every one on the way.
LEMMA QueuePingInv ==
  ASSUME IInv, NEW name \in Names, QueuePing(name)
  PROVE  IInv'
  <1> DEFINE id  == nextRequestId + 1
             ask == [requestId |-> id, host |-> hosts[name].host]
  <1>1. /\ name \in DOMAIN hosts /\ hosts[name] \in HostInfo
        /\ hosts \in [DOMAIN hosts -> HostInfo]
        /\ id \in Nat \ {0} /\ id # NoRequest
    BY DEF QueuePing, IInv, TypeOK, NoRequest
  <1>2. ask \in Request /\ ask.requestId = id /\ ask.host = hosts[name].host
    BY <1>1 DEF Request, HostInfo
  <1>3. /\ hosts' = [hosts EXCEPT ![name].pendingRequestId = id]
        /\ requests' = Append(requests, ask)
        /\ asked' = Append(asked, name)
        /\ nextRequestId' = id
        /\ cycling' = cycling \ {name}
        /\ UNCHANGED <<watching, pinging, results>>
    BY DEF QueuePing
  <1>4. /\ DOMAIN hosts' = DOMAIN hosts
        /\ hosts'[name] \in HostInfo
        /\ hosts'[name].pendingRequestId = id
        /\ hosts'[name].host = hosts[name].host
        /\ hosts'[name].score = hosts[name].score
        /\ \A n \in DOMAIN hosts : n # name => hosts'[n] = hosts[n]
        /\ hosts' \in [DOMAIN hosts -> HostInfo]
    BY <1>1, <1>3 DEF HostInfo
  <1> HIDE DEF ask
  <1>5. /\ requests \in Seq(Request) /\ asked \in Seq(Names)
        /\ Len(asked) = nextRequestId /\ nextRequestId \in Nat
        /\ results \in Seq(Result) /\ pinging \subseteq Request
    BY DEF IInv, TypeOK
  <1>6. /\ requests' \in Seq(Request)
        /\ Len(requests') = Len(requests) + 1
        /\ \A i \in 1..Len(requests) : requests'[i] = requests[i]
        /\ requests'[Len(requests) + 1] = ask
        /\ DOMAIN requests = 1..Len(requests)
        /\ DOMAIN requests' = 1..(Len(requests) + 1)
    BY <1>2, <1>3, <1>5
  <1>7. /\ asked' \in Seq(Names) /\ Len(asked') = id
        /\ \A i \in 1..nextRequestId : asked'[i] = asked[i]
        /\ asked'[id] = name
    BY <1>3, <1>5
  <1>8. OnTheWay' = OnTheWay \cup {ask}
    <2>1. {requests'[i] : i \in DOMAIN requests'}
            = {requests[i] : i \in DOMAIN requests} \cup {ask}
      BY <1>5, <1>6
    <2> QED BY <1>3, <2>1 DEF OnTheWay
  <1>9. TypeOK'
    BY <1>1, <1>3, <1>4, <1>6, <1>7 DEF IInv, TypeOK
  <1>10. InOrder'
    <2>1. \A q \in OnTheWay : q.requestId \in Nat /\ q.requestId < id
      BY <1>5, OnTheWayType DEF IInv, InOrder, Request
    <2>2. /\ \A i \in DOMAIN results : results[i].requestId < id
          /\ \A p \in pinging : p.requestId < id
          /\ \A j \in DOMAIN requests : requests[j].requestId < id
      BY <2>1, OnTheWayMembers
    <2>3. \A q \in OnTheWay' : q.requestId <= id
      BY <1>1, <1>2, <1>8, <2>1
    <2> QED BY <1>2, <1>3, <1>5, <1>6, <2>2, <2>3 DEF IInv, InOrder
  <1>11. PendingIsOnTheWay'
    <2> SUFFICES ASSUME NEW n \in DOMAIN hosts', hosts'[n].pendingRequestId # NoRequest
                 PROVE  /\ [requestId |-> hosts'[n].pendingRequestId,
                             host |-> hosts'[n].host] \in OnTheWay'
                        /\ asked'[hosts'[n].pendingRequestId] = n
      BY DEF PendingIsOnTheWay
    <2>1. CASE n = name
      BY <1>4, <1>7, <1>8, <2>1 DEF ask
    <2>2. CASE n # name
      <3>1. /\ [requestId |-> hosts[n].pendingRequestId, host |-> hosts[n].host] \in OnTheWay
            /\ asked[hosts[n].pendingRequestId] = n
        BY <1>4, <2>2 DEF IInv, PendingIsOnTheWay
      <3>2. hosts[n].pendingRequestId \in 1..nextRequestId
        BY <1>1, <1>4, <1>5, <2>2, <3>1 DEF IInv, InOrder, HostInfo, NoRequest
      <3> QED BY <1>4, <1>7, <1>8, <2>2, <3>1, <3>2
    <2> QED BY <2>1, <2>2
  <1>12. PendingIsLatest'
    <2> SUFFICES ASSUME NEW n \in DOMAIN hosts', hosts'[n].pendingRequestId # NoRequest,
                        NEW later \in (hosts'[n].pendingRequestId + 1)..id
                 PROVE  asked'[later] # n
      BY <1>3 DEF PendingIsLatest
    <2>1. CASE n = name
      BY <1>1, <1>4, <2>1
    <2>2. CASE n # name
      <3>1. hosts[n].pendingRequestId \in Nat
        BY <1>1, <1>4, <2>2 DEF HostInfo, NoRequest
      <3>2. CASE later = id
        BY <1>7, <2>2, <3>2
      <3>3. CASE later # id
        <4>1. later \in (hosts[n].pendingRequestId + 1)..nextRequestId
          BY <1>4, <1>5, <2>2, <3>1, <3>3
        <4> QED BY <1>4, <1>5, <1>7, <2>2, <3>1, <4>1 DEF IInv, PendingIsLatest
      <3> QED BY <3>2, <3>3
    <2> QED BY <2>1, <2>2
  <1>13. ResultsAreAnswers' /\ ScoresSound'
    BY <1>3, <1>4 DEF IInv, ResultsAreAnswers, ScoresSound
  <1>14. NoneLost'
    <2> SUFFICES ASSUME NEW q \in OnTheWay', NEW later \in q.requestId..id
                 PROVE  \E r \in OnTheWay' : r.requestId = later
      BY <1>3 DEF NoneLost
    <2>1. CASE later = id
      BY <1>2, <1>8, <2>1
    <2>2. CASE later # id
      <3>1. q \in OnTheWay /\ q.requestId \in Nat
        BY <1>2, <1>5, <1>8, <2>2, OnTheWayType DEF IInv, Request
      <3>2. later \in q.requestId..nextRequestId
        BY <1>5, <2>2, <3>1
      <3> QED BY <1>8, <3>1, <3>2 DEF IInv, NoneLost
    <2> QED BY <2>1, <2>2
  <1> QED BY <1>9, <1>10, <1>11, <1>12, <1>13, <1>14 DEF IInv

\* A result is taken from the queue: what was on the way and has another id
\* still is, and nothing else has the id of the result.
LEMMA HeadHandled ==
  ASSUME IInv, results # << >>, results' = Tail(results),
         UNCHANGED <<requests, pinging, nextRequestId>>
  PROVE  /\ Head(results) \in Result
         /\ results' \in Seq(Result)
         /\ InOrder'
         /\ NoneLost'
         /\ ResultsAreAnswers'
         /\ \A q \in OnTheWay : q.requestId # Head(results).requestId => q \in OnTheWay'
         /\ \A q \in OnTheWay : q.requestId = Head(results).requestId
                               => q.host = Head(results).host
  <1> DEFINE head == results[1]
  <1>1. /\ results \in Seq(Result) /\ Len(results) \in Nat \ {0}
        /\ DOMAIN results = 1..Len(results)
        /\ Head(results) = head /\ head \in Result
        /\ requests \in Seq(Request) /\ pinging \subseteq Request
    BY DEF IInv, TypeOK
  <1>2. /\ results' \in Seq(Result)
        /\ DOMAIN results' = 1..(Len(results) - 1)
        /\ \A i \in DOMAIN results' : i + 1 \in DOMAIN results /\ results'[i] = results[i + 1]
    BY <1>1
  <1>3. \A i \in DOMAIN results : i # 1 => i - 1 \in DOMAIN results' /\ results'[i - 1] = results[i]
    BY <1>1, <1>2
  <1>4. \A q \in OnTheWay : q.requestId # head.requestId => q \in OnTheWay'
    <2> SUFFICES ASSUME NEW q \in OnTheWay, q.requestId # head.requestId
                 PROVE  q \in OnTheWay'
      OBVIOUS
    <2>1. CASE \E i \in DOMAIN results :
                 q = [requestId |-> results[i].requestId, host |-> results[i].host]
      <3>1. PICK i \in DOMAIN results :
                   q = [requestId |-> results[i].requestId, host |-> results[i].host]
        BY <2>1
      <3>2. q = [requestId |-> results'[i - 1].requestId, host |-> results'[i - 1].host]
            /\ i - 1 \in DOMAIN results'
        BY <1>3, <3>1
      <3> QED BY <3>2 DEF OnTheWay
    <2>2. CASE q \in pinging
      BY <2>2 DEF OnTheWay
    <2>3. CASE \E j \in DOMAIN requests : q = requests[j]
      BY <2>3 DEF OnTheWay
    <2> QED BY <2>1, <2>2, <2>3 DEF OnTheWay
  <1>5. OnTheWay' \subseteq OnTheWay
    <2>1. \A i \in DOMAIN results' :
            [requestId |-> results'[i].requestId, host |-> results'[i].host] \in OnTheWay
      BY <1>2, OnTheWayMembers
    <2> QED BY <2>1 DEF OnTheWay
  <1>6. \A q \in OnTheWay : q.requestId = head.requestId => q.host = head.host
    <2> SUFFICES ASSUME NEW q \in OnTheWay, q.requestId = head.requestId
                 PROVE  q.host = head.host
      OBVIOUS
    <2>1. CASE \E i \in DOMAIN results :
                 q = [requestId |-> results[i].requestId, host |-> results[i].host]
      <3>1. PICK i \in DOMAIN results :
                   q = [requestId |-> results[i].requestId, host |-> results[i].host]
        BY <2>1
      <3>2. \A k \in DOMAIN results : results[k].requestId \in Nat
        <4>1. \A k \in DOMAIN results : results[k] \in Result
          BY <1>1
        <4> QED BY <4>1 DEF Result
      <3>3. i = 1
        <4>1. i # 1 => results[1].requestId < results[i].requestId
          BY <1>1 DEF IInv, InOrder
        <4>2. results[i].requestId = results[1].requestId
          BY <3>1
        <4> QED BY <1>1, <3>2, <4>1, <4>2
      <3> QED BY <3>1, <3>3
    <2>2. CASE q \in pinging
      BY <1>1, <2>2 DEF IInv, InOrder, Request, Result
    <2>3. CASE \E j \in DOMAIN requests : q = requests[j]
      <3>1. PICK j \in DOMAIN requests : q = requests[j]
        BY <2>3
      <3>2. requests[j].requestId \in Nat /\ head.requestId \in Nat
        BY <1>1, <3>1 DEF Request, Result
      <3> QED BY <1>1, <3>1, <3>2 DEF IInv, InOrder
    <2> QED BY <2>1, <2>2, <2>3 DEF OnTheWay
  <1>7. InOrder'
    BY <1>2, <1>5 DEF IInv, InOrder
  <1>8. ResultsAreAnswers'
    BY <1>2 DEF IInv, ResultsAreAnswers
  <1>9. \A q \in OnTheWay' : q.requestId \in Nat /\ head.requestId < q.requestId
    <2>1. /\ \A i \in DOMAIN results' : head.requestId < results'[i].requestId
          /\ \A p \in pinging : head.requestId < p.requestId
          /\ \A j \in DOMAIN requests : head.requestId < requests[j].requestId
      BY <1>1, <1>2 DEF IInv, InOrder
    <2>2. \A q \in OnTheWay' : q.requestId \in Nat
      BY <1>5, OnTheWayType DEF IInv, Request
    <2> QED BY <2>1, <2>2 DEF OnTheWay
  <1>10. NoneLost'
    <2> SUFFICES ASSUME NEW q \in OnTheWay', NEW later \in q.requestId..nextRequestId
                 PROVE  \E r \in OnTheWay' : r.requestId = later
      BY DEF NoneLost
    <2>1. PICK r \in OnTheWay : r.requestId = later
      BY <1>5 DEF IInv, NoneLost
    <2>2. later # head.requestId
      BY <1>1, <1>9 DEF Result, IInv, TypeOK
    <2> QED BY <1>4, <2>1, <2>2
  <1> QED BY <1>1, <1>2, <1>4, <1>6, <1>7, <1>8, <1>10

\* No host waited for the result dropped.
LEMMA DropResultInv ==
  ASSUME IInv, DropResult
  PROVE  IInv'
  <1>1. /\ results # << >> /\ results' = Tail(results)
        /\ Waiting(Head(results).requestId) = {}
        /\ UNCHANGED <<hosts, watching, cycling, nextRequestId, requests, pinging, asked>>
    BY DEF DropResult
  <1>2. /\ results' \in Seq(Result) /\ InOrder' /\ NoneLost' /\ ResultsAreAnswers'
        /\ \A q \in OnTheWay : q.requestId # Head(results).requestId => q \in OnTheWay'
    BY <1>1, HeadHandled
  <1>3. TypeOK' /\ PendingIsLatest' /\ ScoresSound'
    BY <1>1, <1>2 DEF IInv, TypeOK, PendingIsLatest, ScoresSound
  <1>4. PendingIsOnTheWay'
    BY <1>1, <1>2 DEF IInv, PendingIsOnTheWay, Waiting
  <1> QED BY <1>2, <1>3, <1>4 DEF IInv

\* What crediting a result does to the host that waited for it.
LEMMA CreditEffect ==
  ASSUME IInv, NEW name \in DOMAIN hosts, CreditResult(name)
  PROVE  /\ hosts[name] \in HostInfo
         /\ hosts[name].pendingRequestId = Head(results).requestId
         /\ hosts[name].pendingRequestId # NoRequest
         /\ Head(results).host = hosts[name].host
         /\ [success |-> Head(results).success, rtt |-> Head(results).rtt]
              \in Answers[hosts[name].host]
         /\ hosts' = [hosts EXCEPT ![name] = Credited(hosts[name], Head(results))]
         /\ Credited(hosts[name], Head(results)) \in HostInfo
         /\ LET info == Credited(hosts[name], Head(results))
             IN  /\ info.pendingRequestId = NoRequest
                 /\ info.host = hosts[name].host
                 /\ info.lastStatus = Head(results).success
                 /\ info.lastRtt = Head(results).rtt
                 /\ info.score = UpdatePing(hosts[name].score, Head(results).success,
                                            Head(results).rtt)
                 /\ Sound(info.score)
  <1> DEFINE head  == Head(results)
             old   == hosts[name]
             info  == Credited(old, head)
             score == UpdatePing(old.score, head.success, head.rtt)
             found == [success |-> head.success, rtt |-> head.rtt]
  <1>1. /\ results # << >> /\ results' = Tail(results)
        /\ name \in Waiting(head.requestId)
        /\ hosts' = [hosts EXCEPT ![name] = info]
        /\ UNCHANGED <<requests, pinging, nextRequestId>>
    BY DEF CreditResult
  <1>2. /\ head \in Result
        /\ \A q \in OnTheWay : q.requestId = head.requestId => q.host = head.host
    BY <1>1, HeadHandled
  <1>3. old \in HostInfo
    BY DEF IInv, TypeOK
  <1>4. old.pendingRequestId = head.requestId /\ old.pendingRequestId # NoRequest
    BY <1>1, <1>2 DEF Waiting, NoRequest, Result
  <1>5. head.host = old.host
    <2>1. [requestId |-> old.pendingRequestId, host |-> old.host] \in OnTheWay
      BY <1>4 DEF IInv, PendingIsOnTheWay
    <2> QED BY <1>2, <1>4, <2>1
  <1>6. found \in Answers[old.host]
    <2>1. head = results[1] /\ 1 \in DOMAIN results
      BY <1>1 DEF IInv, TypeOK
    <2> QED BY <1>5, <2>1 DEF IInv, ResultsAreAnswers
  <1>7. found \in Answer
    BY <1>3, <1>6, AnswersAssumption DEF HostInfo
  <1>8. score \in HostConnectivityScore /\ Sound(score)
    <2>1. /\ found.success = head.success /\ found.rtt = head.rtt
          /\ head.success \in BOOLEAN /\ head.rtt \in Int
          /\ IF head.success THEN head.rtt \in Nat ELSE head.rtt = -1
      BY <1>2, <1>7 DEF Answer, Result
    <2>2. Sound(old.score)
      BY DEF IInv, ScoresSound
    <2>3. Sound(score)
      BY <2>1, <2>2, UpdatePingSound
    <2> QED BY <2>3, SoundNumbers
  <1>9. info = [old EXCEPT !.lastStatus = head.success, !.lastRtt = head.rtt,
                           !.pendingRequestId = NoRequest, !.score = score]
    BY DEF Credited
  <1>10. head.success \in BOOLEAN /\ head.rtt \in Int
    BY <1>2 DEF Result
  <1> HIDE DEF head, old, info, score, found
  <1>11. info \in HostInfo
    BY <1>3, <1>8, <1>9, <1>10, Zenon DEF HostInfo
  <1>12. /\ info.pendingRequestId = NoRequest
         /\ info.host = old.host
         /\ info.lastStatus = head.success
         /\ info.lastRtt = head.rtt
         /\ info.score = score
    BY <1>3, <1>9 DEF HostInfo
  <1> QED BY <1>1, <1>3, <1>4, <1>5, <1>6, <1>8, <1>11, <1>12
          DEF head, old, info, score, found

\* The host credited waits no more; the others waited for something else.
LEMMA CreditResultInv ==
  ASSUME IInv, NEW name \in DOMAIN hosts, CreditResult(name)
  PROVE  IInv'
  <1> DEFINE head == Head(results)
             info == Credited(hosts[name], head)
  <1>1. /\ results # << >> /\ results' = Tail(results)
        /\ UNCHANGED <<watching, cycling, nextRequestId, requests, pinging, asked>>
    BY DEF CreditResult
  <1>2. /\ results' \in Seq(Result) /\ InOrder' /\ NoneLost' /\ ResultsAreAnswers'
        /\ \A q \in OnTheWay : q.requestId # head.requestId => q \in OnTheWay'
    BY <1>1, HeadHandled
  <1>3. /\ hosts[name].pendingRequestId = head.requestId
        /\ head.requestId # NoRequest
        /\ hosts' = [hosts EXCEPT ![name] = info]
        /\ info \in HostInfo
        /\ info.pendingRequestId = NoRequest
        /\ Sound(info.score)
    BY CreditEffect
  <1> HIDE DEF head, info
  <1>4. /\ DOMAIN hosts' = DOMAIN hosts
        /\ hosts'[name] = info
        /\ \A n \in DOMAIN hosts : n # name => hosts'[n] = hosts[n]
        /\ hosts' \in [DOMAIN hosts -> HostInfo]
    BY <1>3 DEF IInv, TypeOK
  <1>5. TypeOK'
    BY <1>1, <1>2, <1>4 DEF IInv, TypeOK
  <1>6. PendingIsOnTheWay'
    <2> SUFFICES ASSUME NEW n \in DOMAIN hosts', hosts'[n].pendingRequestId # NoRequest
                 PROVE  /\ [requestId |-> hosts'[n].pendingRequestId,
                             host |-> hosts'[n].host] \in OnTheWay'
                        /\ asked'[hosts'[n].pendingRequestId] = n
      BY DEF PendingIsOnTheWay
    <2>1. n # name /\ hosts'[n] = hosts[n]
      BY <1>3, <1>4
    <2>2. /\ [requestId |-> hosts[n].pendingRequestId, host |-> hosts[n].host] \in OnTheWay
          /\ asked[hosts[n].pendingRequestId] = n
          /\ asked[head.requestId] = name
      BY <1>3, <1>4, <2>1 DEF IInv, PendingIsOnTheWay
    <2>3. hosts[n].pendingRequestId # head.requestId
      BY <2>1, <2>2
    <2> QED BY <1>1, <1>2, <2>1, <2>2, <2>3
  <1>7. PendingIsLatest' /\ ScoresSound'
    BY <1>1, <1>3, <1>4 DEF IInv, PendingIsLatest, ScoresSound
  <1> QED BY <1>2, <1>5, <1>6, <1>7 DEF IInv

\* A ping moves from the queue to the worker, or from the worker to the
\* queue of results: it is on the way as before.
LEMMA StillOnTheWay ==
  ASSUME IInv, OnTheWay' = OnTheWay, TypeOK', InOrder', ResultsAreAnswers',
         UNCHANGED <<hosts, nextRequestId, asked>>
  PROVE  IInv'
  BY DEF IInv, NoneLost, PendingIsOnTheWay, PendingIsLatest, ScoresSound

\* The oldest request moves to the worker.
LEMMA WorkerTakeInv ==
  ASSUME IInv, WorkerTake
  PROVE  IInv'
  <1> DEFINE head == requests[1]
  <1>1. /\ requests \in Seq(Request) /\ Len(requests) \in Nat \ {0}
        /\ DOMAIN requests = 1..Len(requests)
        /\ head \in Request
        /\ pinging = {} /\ pinging' = {head} /\ requests' = Tail(requests)
        /\ UNCHANGED <<hosts, watching, cycling, nextRequestId, results, asked>>
    BY DEF WorkerTake, IInv, TypeOK
  <1>2. /\ requests' \in Seq(Request)
        /\ DOMAIN requests' = 1..(Len(requests) - 1)
        /\ \A i \in DOMAIN requests' : i + 1 \in DOMAIN requests /\ requests'[i] = requests[i + 1]
    BY <1>1
  <1>3. \A i \in DOMAIN requests :
          i # 1 => i - 1 \in DOMAIN requests' /\ requests'[i - 1] = requests[i]
    BY <1>1, <1>2
  <1>4. OnTheWay' = OnTheWay
    <2>1. {requests[i] : i \in DOMAIN requests}
            = {head} \cup {requests'[i] : i \in DOMAIN requests'}
      <3>1. 1 \in DOMAIN requests
        BY <1>1
      <3> QED BY <1>2, <1>3, <3>1
    <2> QED BY <1>1, <2>1 DEF OnTheWay
  <1>5. TypeOK'
    BY <1>1, <1>2 DEF IInv, TypeOK
  <1>6. InOrder'
    <2>1. 1 \in DOMAIN requests
      BY <1>1
    <2>2. \A i \in DOMAIN results : results[i].requestId < head.requestId
      BY <2>1 DEF IInv, InOrder
    <2>3. \A j \in DOMAIN requests' : head.requestId < requests'[j].requestId
      BY <1>1, <1>2, <2>1 DEF IInv, InOrder
    <2> QED BY <1>1, <1>2, <1>4, <2>2, <2>3 DEF IInv, InOrder
  <1>7. ResultsAreAnswers'
    BY <1>1 DEF IInv, ResultsAreAnswers
  <1> QED BY <1>1, <1>4, <1>5, <1>6, <1>7, StillOnTheWay

\* The running ping becomes the newest result.
LEMMA WorkerFinishInv ==
  ASSUME IInv, WorkerFinish
  PROVE  IInv'
  <1>0. PICK request \in pinging : \E answer \in Answers[request.host] :
          /\ pinging' = {}
          /\ results' = Append(results, ResultOf(request, answer))
          /\ UNCHANGED <<hosts, watching, cycling, nextRequestId, requests, asked>>
    BY DEF WorkerFinish
  <1>1. PICK answer \in Answers[request.host] :
          /\ pinging' = {}
          /\ results' = Append(results, ResultOf(request, answer))
          /\ UNCHANGED <<hosts, watching, cycling, nextRequestId, requests, asked>>
    BY <1>0
  <1> DEFINE result == ResultOf(request, answer)
  <1>2. /\ request \in Request /\ pinging = {request}
        /\ results \in Seq(Result) /\ DOMAIN results = 1..Len(results)
    BY DEF IInv, TypeOK
  <1>3. answer \in Answer
    BY <1>1, <1>2, AnswersAssumption DEF Request
  <1>4. /\ result \in Result
        /\ result.requestId = request.requestId /\ result.host = request.host
        /\ [success |-> result.success, rtt |-> result.rtt] = answer
    <2>1. answer.success \in BOOLEAN /\ answer.rtt \in Int
          /\ answer = [success |-> answer.success, rtt |-> answer.rtt]
      <3>1. answer \in [success : BOOLEAN, rtt : Int]
        BY <1>3 DEF Answer
      <3> QED BY <3>1
    <2> QED BY <1>2, <2>1 DEF ResultOf, Request, Result
  <1> HIDE DEF result
  <1>5. /\ results' \in Seq(Result)
        /\ DOMAIN results' = 1..(Len(results) + 1)
        /\ \A i \in DOMAIN results : results'[i] = results[i] /\ i \in DOMAIN results'
        /\ results'[Len(results) + 1] = result
        /\ \A i \in DOMAIN results' : i \in DOMAIN results \/ i = Len(results) + 1
    BY <1>1, <1>2, <1>4 DEF result
  <1>6. request = [requestId |-> result.requestId, host |-> result.host]
    BY <1>2, <1>4 DEF Request
  <1>7. OnTheWay' = OnTheWay
    <2>1. {[requestId |-> results'[i].requestId, host |-> results'[i].host] : i \in DOMAIN results'}
            = {[requestId |-> results[i].requestId, host |-> results[i].host] : i \in DOMAIN results}
                \cup {request}
      <3>1. Len(results) + 1 \in DOMAIN results'
        BY <1>2, <1>5
      <3> QED BY <1>5, <1>6, <3>1
    <2> QED BY <1>1, <1>2, <2>1 DEF OnTheWay
  <1>8. TypeOK'
    BY <1>1, <1>5 DEF IInv, TypeOK
  <1>9. InOrder'
    <2>1. \A i \in DOMAIN results : results[i].requestId < result.requestId
      BY <1>2, <1>4 DEF IInv, InOrder
    <2>2. \A j \in DOMAIN requests : result.requestId < requests[j].requestId
      BY <1>2, <1>4 DEF IInv, InOrder
    <2>3. \A i, j \in DOMAIN results' :
            i < j => results'[i].requestId < results'[j].requestId
      BY <1>2, <1>5, <2>1 DEF IInv, InOrder
    <2>4. \A i \in DOMAIN results', j \in DOMAIN requests' :
            results'[i].requestId < requests'[j].requestId
      BY <1>1, <1>5, <2>2 DEF IInv, InOrder
    <2> QED BY <1>1, <1>7, <2>3, <2>4 DEF IInv, InOrder
  <1>10. ResultsAreAnswers'
    BY <1>1, <1>4, <1>5 DEF IInv, ResultsAreAnswers
  <1> QED BY <1>1, <1>7, <1>8, <1>9, <1>10, StillOnTheWay

----------------------------------------------------------------------------
(* The theorems.                                                           *)

\* Every step of either thread keeps the invariant.
LEMMA StepInv == IInv /\ [Next]_vars => IInv'
  <1> SUFFICES ASSUME IInv, [Next]_vars PROVE IInv'
    OBVIOUS
  <1>0. watching \in BOOLEAN /\ cycling \subseteq DOMAIN hosts
    BY DEF IInv, TypeOK
  <1>1. ASSUME NEW name \in Names, NEW address \in Addresses, AddHost(name, address)
        PROVE  IInv'
    BY <1>1, AddHostInv
  <1>2. ASSUME NEW name \in Names, RemoveHost(name) PROVE IInv'
    BY <1>2, RemoveHostInv
  <1>3. CASE StartWatching
    BY <1>0, <1>3, WatchInv DEF StartWatching
  <1>4. CASE StopWatching
    BY <1>0, <1>4, WatchInv DEF StopWatching
  <1>5. CASE BeginPingCycle
    BY <1>0, <1>5, WatchInv DEF BeginPingCycle
  <1>6. ASSUME NEW name \in Names, QueuePing(name) PROVE IInv'
    BY <1>6, QueuePingInv
  <1>7. CASE OnPingResult
    BY <1>7, DropResultInv, CreditResultInv DEF OnPingResult
  <1>8. CASE WorkerTake
    BY <1>8, WorkerTakeInv
  <1>9. CASE WorkerFinish
    BY <1>9, WorkerFinishInv
  <1>10. CASE UNCHANGED vars
    BY <1>0, <1>10, WatchInv DEF vars
  <1> QED BY <1>1, <1>2, <1>3, <1>4, <1>5, <1>6, <1>7, <1>8, <1>9, <1>10 DEF Next

\* The inductive invariant holds in every reachable state.
THEOREM Invariance == Spec => []IInv
  BY InitInv, StepInv, PTL DEF Spec

\* The types of hosts, queues and ids (ping.h:256-280), and one ping at a
\* time on the worker.
THEOREM TypeCorrect == Spec => []TypeOK
  <1>1. IInv => TypeOK
    BY DEF IInv
  <1> QED BY <1>1, Invariance, PTL

\* Request ids increase without a gap along the pipeline of the two threads:
\* every question asked after one still on its way is on its way too, and
\* answers come back in the order of the questions (ping.cpp:307-330, 195-200).
THEOREM PipelineIsOrdered == Spec => []PipelineOrdered
  <1>1. IInv => PipelineOrdered
    BY DEF IInv, PipelineOrdered
  <1> QED BY <1>1, Invariance, PTL

\* A host waits only for a ping of its own and of its present address
\* (ping.cpp:233-256, 339).
THEOREM PendingIsAlwaysOnTheWay == Spec => []PendingIsOnTheWay
  <1>1. IInv => PendingIsOnTheWay
    BY DEF IInv
  <1> QED BY <1>1, Invariance, PTL

\* Of the answers that come late only the one to the latest question counts
\* (ping.cpp:339): the id comparison is enough to keep results apart.
THEOREM OnlyLatestAskEverCounts == Spec => LatestAskCounts
  <1>1. IInv /\ [Next]_vars => [OnlyLatestAskCounts]_vars
    <2> SUFFICES ASSUME IInv, Next,
                        NEW n \in DOMAIN hosts \cap DOMAIN hosts',
                        hosts'[n].score.totalPings > hosts[n].score.totalPings
                 PROVE  /\ asked[Head(results).requestId] = n
                        /\ \A later \in (Head(results).requestId + 1)..nextRequestId :
                             asked[later] # n
      BY DEF OnlyLatestAskCounts
    <2>0. hosts[n].score.totalPings \in Nat
      BY DEF IInv, TypeOK, HostInfo, HostConnectivityScore
    <2>1. ASSUME NEW name \in Names, NEW address \in Addresses, AddHost(name, address)
          PROVE  FALSE
      <3>1. hosts'[n] = IF n = name THEN NewHostInfo(address) ELSE hosts[n]
        BY <2>1 DEF AddHost
      <3>2. NewHostInfo(address).score.totalPings = 0
        BY NewHostInfoType, ResetSound
      <3> QED BY <2>0, <3>1, <3>2
    <2>2. ASSUME NEW name \in Names, RemoveHost(name) PROVE FALSE
      BY <2>0, <2>2 DEF RemoveHost
    <2>3. ASSUME NEW name \in Names, QueuePing(name) PROVE FALSE
      <3>1. /\ hosts' = [hosts EXCEPT ![name].pendingRequestId = nextRequestId']
            /\ hosts[n] \in HostInfo /\ hosts \in [DOMAIN hosts -> HostInfo]
        BY <2>3 DEF QueuePing, IInv, TypeOK
      <3>2. hosts'[n].score = hosts[n].score
        BY <3>1 DEF HostInfo
      <3> QED BY <2>0, <3>2
    <2>4. ASSUME UNCHANGED hosts PROVE FALSE
      BY <2>0, <2>4
    <2>5. ASSUME NEW name \in DOMAIN hosts, CreditResult(name)
          PROVE  /\ asked[Head(results).requestId] = n
                 /\ \A later \in (Head(results).requestId + 1)..nextRequestId :
                      asked[later] # n
      <3>1. /\ hosts' = [hosts EXCEPT ![name] = Credited(hosts[name], Head(results))]
            /\ hosts[name].pendingRequestId = Head(results).requestId
            /\ hosts[name].pendingRequestId # NoRequest
        BY <2>5, CreditEffect
      <3>2. n = name
        BY <2>0, <3>1
      <3> QED BY <3>1, <3>2 DEF IInv, PendingIsOnTheWay, PendingIsLatest
    <2> QED BY <2>1, <2>2, <2>3, <2>4, <2>5
            DEF Next, StartWatching, StopWatching, BeginPingCycle, OnPingResult,
                DropResult, WorkerTake, WorkerFinish
  <1> QED BY <1>1, Invariance, PTL DEF Spec, LatestAskCounts

\* The record the watcher keeps of each host is always one that reset() and
\* updatePing() alone can produce: what is proved of such a record in
\* HostScoreProofs holds of every host (ping.cpp:346).
THEOREM WatchedScoresAreSound == Spec => []ScoresSound
  <1>1. IInv => ScoresSound
    BY DEF IInv
  <1> QED BY <1>1, Invariance, PTL

----------------------------------------------------------------------------
(* When what the document says of the updates is true.                     *)

\* Every tick of pingTimer finds the pings of the ticks before answered.
PatientTicks == [][BeginPingCycle => OnTheWay = {}]_vars

\* The hosts a cycle has yet to reach wait for nothing.
CycleFindsNonePending ==
  \A n \in cycling : hosts[n].pendingRequestId = NoRequest

\* Of the steps only the start of a cycle could break it.
LEMMA CycleStep ==
  ASSUME IInv, CycleFindsNonePending, [Next]_vars, BeginPingCycle => OnTheWay = {}
  PROVE  CycleFindsNonePending'
  <1>1. CASE BeginPingCycle
    <2>1. cycling' = DOMAIN hosts /\ UNCHANGED hosts /\ OnTheWay = {}
      BY <1>1 DEF BeginPingCycle
    <2>2. \A n \in DOMAIN hosts : hosts[n].pendingRequestId = NoRequest
      BY <2>1 DEF IInv, PendingIsOnTheWay
    <2> QED BY <2>1, <2>2 DEF CycleFindsNonePending
  <1>2. ASSUME NEW name \in Names, QueuePing(name) PROVE CycleFindsNonePending'
    <2>1. /\ cycling' = cycling \ {name}
          /\ hosts' = [hosts EXCEPT ![name].pendingRequestId = nextRequestId']
          /\ cycling \subseteq DOMAIN hosts
      BY <1>2 DEF QueuePing, IInv, TypeOK
    <2>2. \A n \in cycling' : n \in cycling /\ hosts'[n] = hosts[n]
      BY <2>1
    <2> QED BY <2>2 DEF CycleFindsNonePending
  <1>3. ASSUME cycling = {}, UNCHANGED cycling PROVE CycleFindsNonePending'
    BY <1>3 DEF CycleFindsNonePending
  <1>4. ASSUME UNCHANGED <<hosts, cycling>> PROVE CycleFindsNonePending'
    BY <1>4 DEF CycleFindsNonePending
  <1> QED BY <1>1, <1>2, <1>3, <1>4
          DEF Next, AddHost, RemoveHost, StartWatching, StopWatching, OnPingResult,
              DropResult, CreditResult, WorkerTake, WorkerFinish, GuiIdle, vars

\* An update is lost only where a tick comes before the answers to the last
\* one: while the pings of a cycle take less than the interval, every cycle
\* updates every host, as CONNECTIVITY_DISPLAY.md:84 says.  With the run that
\* finds UpdatesWithEachCycle violated, this says what has to be granted for it.
THEOREM PatientTicksLoseNoUpdate ==
  Spec /\ PatientTicks => UpdatesWithEachCycle
  <1>1. Init => CycleFindsNonePending
    BY DEF Init, CycleFindsNonePending
  <1>2. IInv /\ CycleFindsNonePending /\ [Next]_vars
          /\ [BeginPingCycle => OnTheWay = {}]_vars => CycleFindsNonePending'
    <2> SUFFICES ASSUME IInv, CycleFindsNonePending, [Next]_vars,
                        [BeginPingCycle => OnTheWay = {}]_vars
                 PROVE  CycleFindsNonePending'
      OBVIOUS
    <2>1. CASE UNCHANGED vars
      BY <2>1 DEF vars, CycleFindsNonePending
    <2> QED BY <2>1, CycleStep
  <1>3. IInv /\ CycleFindsNonePending /\ [Next]_vars => [NoCycleLosesAnUpdate]_vars
    <2> SUFFICES ASSUME IInv, CycleFindsNonePending, Next,
                        NEW n \in DOMAIN hosts \cap DOMAIN hosts',
                        hosts[n].pendingRequestId # NoRequest
                 PROVE  hosts'[n].pendingRequestId \in {hosts[n].pendingRequestId, NoRequest}
      BY DEF NoCycleLosesAnUpdate
    <2>1. ASSUME NEW name \in Names, NEW address \in Addresses, AddHost(name, address)
          PROVE  hosts'[n].pendingRequestId \in {hosts[n].pendingRequestId, NoRequest}
      BY <2>1, NewHostInfoType DEF AddHost
    <2>2. ASSUME NEW name \in Names, RemoveHost(name)
          PROVE  hosts'[n].pendingRequestId \in {hosts[n].pendingRequestId, NoRequest}
      BY <2>2 DEF RemoveHost
    <2>3. ASSUME NEW name \in Names, QueuePing(name)
          PROVE  hosts'[n].pendingRequestId \in {hosts[n].pendingRequestId, NoRequest}
      <3>1. n # name /\ hosts' = [hosts EXCEPT ![name].pendingRequestId = nextRequestId']
        BY <2>3 DEF QueuePing, CycleFindsNonePending
      <3> QED BY <3>1
    <2>4. ASSUME NEW name \in DOMAIN hosts, CreditResult(name)
          PROVE  hosts'[n].pendingRequestId \in {hosts[n].pendingRequestId, NoRequest}
      <3>1. /\ hosts' = [hosts EXCEPT ![name] = Credited(hosts[name], Head(results))]
            /\ Credited(hosts[name], Head(results)).pendingRequestId = NoRequest
        BY <2>4, CreditEffect
      <3> QED BY <3>1
    <2>5. ASSUME UNCHANGED hosts
          PROVE  hosts'[n].pendingRequestId \in {hosts[n].pendingRequestId, NoRequest}
      BY <2>5
    <2> QED BY <2>1, <2>2, <2>3, <2>4, <2>5
            DEF Next, StartWatching, StopWatching, BeginPingCycle, OnPingResult,
                DropResult, WorkerTake, WorkerFinish
  <1> QED BY <1>1, <1>2, <1>3, Invariance, PTL
          DEF Spec, PatientTicks, UpdatesWithEachCycle

----------------------------------------------------------------------------
(* PingWatcher implements HostMonitor.                                     *)

\* Leaving the hosts alone leaves what the monitor shows alone.
LEMMA SeenUnchanged ==
  ASSUME UNCHANGED hosts
  PROVE  UNCHANGED Seen
  BY DEF Seen

\* Adding, removing, asking and crediting are the steps of HostMonitor.
LEMMA AddHostEnrols ==
  ASSUME NEW name \in Names, NEW address \in Addresses, AddHost(name, address)
  PROVE  Monitor!Enrol(name, address)
  <1>1. hosts' = [n \in DOMAIN hosts \cup {name} |->
                    IF n = name THEN NewHostInfo(address) ELSE hosts[n]]
    BY DEF AddHost
  <1>2. DOMAIN Seen' = DOMAIN Seen \cup {name}
    BY <1>1 DEF Seen
  <1>3. Seen'[name] = Monitor!New(address)
    BY <1>1 DEF Seen, View, NewHostInfo, Monitor!New
  <1>4. \A n \in DOMAIN hosts : n # name => Seen'[n] = Seen[n]
    BY <1>1 DEF Seen
  <1>5. Seen' = [n \in DOMAIN Seen \cup {name} |->
                   IF n = name THEN Monitor!New(address) ELSE Seen[n]]
    BY <1>2, <1>3, <1>4 DEF Seen
  <1> QED BY <1>5 DEF Monitor!Enrol

\* Removing a host is Dismiss.
LEMMA RemoveHostDismisses ==
  ASSUME NEW name \in Names, RemoveHost(name)
  PROVE  Monitor!Dismiss(name)
  BY DEF RemoveHost, Monitor!Dismiss, Seen

\* Giving a host a new request id is Ask.
LEMMA QueuePingAsks ==
  ASSUME IInv, NEW name \in Names, QueuePing(name)
  PROVE  Monitor!Ask(name)
  <1>1. /\ name \in DOMAIN hosts /\ hosts \in [DOMAIN hosts -> HostInfo]
        /\ nextRequestId' # NoRequest
        /\ hosts' = [hosts EXCEPT ![name].pendingRequestId = nextRequestId']
    BY DEF QueuePing, IInv, TypeOK, NoRequest
  <1>2. /\ DOMAIN hosts' = DOMAIN hosts
        /\ \A n \in DOMAIN hosts : n # name => hosts'[n] = hosts[n]
        /\ hosts'[name].host = hosts[name].host
        /\ hosts'[name].lastStatus = hosts[name].lastStatus
        /\ hosts'[name].lastRtt = hosts[name].lastRtt
        /\ hosts'[name].score = hosts[name].score
        /\ hosts'[name].pendingRequestId # NoRequest
    BY <1>1 DEF HostInfo
  <1>3. Seen'[name] = Monitor!Asked(Seen[name])
    <2>1. Seen'[name] = View(hosts'[name]) /\ Seen[name] = View(hosts[name])
      BY <1>1, <1>2 DEF Seen
    <2>2. View(hosts'[name]) = Monitor!Asked(View(hosts[name]))
      BY <1>2 DEF View, Monitor!Asked
    <2> QED BY <2>1, <2>2
  <1>4. /\ DOMAIN Seen' = DOMAIN Seen /\ name \in DOMAIN Seen
        /\ \A n \in DOMAIN Seen : n # name => Seen'[n] = Seen[n]
        /\ Seen' = [n \in DOMAIN Seen' |-> Seen'[n]]
        /\ Seen = [n \in DOMAIN Seen |-> Seen[n]]
    BY <1>1, <1>2 DEF Seen
  <1>5. Seen' = [Seen EXCEPT ![name] = Monitor!Asked(Seen[name])]
    BY <1>3, <1>4
  <1> QED BY <1>4, <1>5 DEF Monitor!Ask

\* Crediting a result is Answer, with an outcome of the present address.
LEMMA CreditResultAnswers ==
  ASSUME IInv, NEW name \in DOMAIN hosts, CreditResult(name)
  PROVE  \E answer \in Answers[Seen[name].host] : Monitor!Answer(name, answer)
  <1> DEFINE head   == Head(results)
             info   == Credited(hosts[name], head)
             answer == [success |-> head.success, rtt |-> head.rtt]
  <1>1. /\ hosts[name].pendingRequestId # NoRequest
        /\ answer \in Answers[hosts[name].host]
        /\ hosts' = [hosts EXCEPT ![name] = info]
        /\ info.pendingRequestId = NoRequest
        /\ info.host = hosts[name].host
        /\ info.lastStatus = head.success
        /\ info.lastRtt = head.rtt
        /\ info.score = UpdatePing(hosts[name].score, head.success, head.rtt)
    BY CreditEffect
  <1>2. answer.success = head.success /\ answer.rtt = head.rtt
    OBVIOUS
  <1> HIDE DEF head, info, answer
  <1>3. /\ name \in DOMAIN Seen
        /\ Seen[name].awaiting
        /\ Seen[name].host = hosts[name].host
    BY <1>1 DEF Seen, View
  <1>4. /\ DOMAIN Seen' = DOMAIN Seen
        /\ \A n \in DOMAIN Seen : n # name => Seen'[n] = Seen[n]
        /\ Seen' = [n \in DOMAIN Seen' |-> Seen'[n]]
        /\ Seen = [n \in DOMAIN Seen |-> Seen[n]]
    BY <1>1, <1>3 DEF Seen, IInv, TypeOK
  <1>5. hosts'[name] = info
    BY <1>1 DEF IInv, TypeOK
  <1>6. Seen'[name] = Monitor!Told(Seen[name], answer)
    <2>1. Seen'[name] = View(info) /\ Seen[name] = View(hosts[name])
      BY <1>3, <1>4, <1>5 DEF Seen
    <2>2. View(info) = [host       |-> hosts[name].host,
                        lastStatus |-> answer.success,
                        lastRtt    |-> answer.rtt,
                        score      |-> UpdatePing(hosts[name].score, answer.success, answer.rtt),
                        awaiting   |-> FALSE]
      BY <1>1, <1>2 DEF View
    <2>3. Monitor!Told(View(hosts[name]), answer) = View(info)
      BY <2>2 DEF Monitor!Told, View
    <2> QED BY <2>1, <2>3
  <1>7. Seen' = [Seen EXCEPT ![name] = Monitor!Told(Seen[name], answer)]
    BY <1>3, <1>4, <1>6
  <1>8. Monitor!Answer(name, answer)
    BY <1>1, <1>3, <1>7 DEF Monitor!Answer
  <1> QED BY <1>1, <1>3, <1>8

\* Every behaviour of the watcher is one of the abstract monitor: a host is
\* credited once per question, with what pinging its present address may
\* report, whatever the worker, the queues and the other hosts do meanwhile.
THEOREM WatcherImplementsMonitor == Spec => ImplementsMonitor
  <1>1. Init => Monitor!Init
    BY DEF Init, Monitor!Init, Seen
  <1>2. IInv /\ [Next]_vars => [Monitor!Next]_Seen
    <2> SUFFICES ASSUME IInv, [Next]_vars PROVE Monitor!Next \/ UNCHANGED Seen
      OBVIOUS
    <2>0. DOMAIN hosts \subseteq Names
      BY DEF IInv, TypeOK
    <2>1. ASSUME NEW name \in Names, NEW address \in Addresses, AddHost(name, address)
          PROVE  Monitor!Next
      BY <2>1, AddHostEnrols DEF Monitor!Next
    <2>2. ASSUME NEW name \in Names, RemoveHost(name) PROVE Monitor!Next
      BY <2>2, RemoveHostDismisses DEF Monitor!Next
    <2>3. ASSUME NEW name \in Names, QueuePing(name) PROVE Monitor!Next
      BY <2>3, QueuePingAsks DEF Monitor!Next
    <2>4. ASSUME NEW name \in DOMAIN hosts, CreditResult(name) PROVE Monitor!Next
      <3>1. PICK answer \in Answers[Seen[name].host] : Monitor!Answer(name, answer)
        BY <2>4, CreditResultAnswers
      <3>2. Seen[name].host \in Addresses
        BY DEF Seen, View, IInv, TypeOK, HostInfo
      <3> QED BY <2>0, <3>1, <3>2 DEF Monitor!Next
    <2>5. ASSUME UNCHANGED hosts PROVE UNCHANGED Seen
      BY <2>5, SeenUnchanged
    <2> QED BY <2>1, <2>2, <2>3, <2>4, <2>5
            DEF Next, StartWatching, StopWatching, BeginPingCycle, OnPingResult,
                DropResult, WorkerTake, WorkerFinish, vars
  <1> QED BY <1>1, <1>2, Invariance, PTL DEF Spec, ImplementsMonitor, Monitor!Spec
=============================================================================
