------------------------- MODULE ConnectivityScore -------------------------
(***************************************************************************)
(* The life of one HostConnectivityScore: the watchdog feeds it the        *)
(* outcome of every ping (ping.cpp:346) and resets it when its host is     *)
(* given a new address (ping.cpp:239).                                     *)
(***************************************************************************)
EXTENDS HostScore

CONSTANTS
  Rtts,      \* round trip times, in ms, a successful ping may report
  MaxPings   \* bound: pings counted between two resets

ASSUME RttsAssumption == Rtts \subseteq 0..(IntMax - 1)
ASSUME MaxPingsAssumption == MaxPings \in Nat

VARIABLES
  score,     \* the HostConnectivityScore
  rttSum     \* history: sum of the round trip times averaged so far

vars == <<score, rttSum>>

Init ==
  /\ score = Reset
  /\ rttSum = 0

\* A successful ping always reports a time: parsePingOutput() turns a time
\* it cannot read into 0.
PingSucceeded(rtt) ==
  /\ score.totalPings < MaxPings
  /\ score' = UpdatePing(score, TRUE, rtt)
  /\ rttSum' = rttSum + rtt

PingFailed ==
  /\ score.totalPings < MaxPings
  /\ score' = UpdatePing(score, FALSE, -1)
  /\ UNCHANGED rttSum

HostReset ==
  /\ score' = Reset
  /\ rttSum' = 0

Next ==
  \/ \E rtt \in Rtts : PingSucceeded(rtt)
  \/ PingFailed
  \/ HostReset

Spec == Init /\ [][Next]_vars

----------------------------------------------------------------------------
(* Invariants.                                                             *)

\* The record keeps its type, and no counter or average goes negative.
TypeOK ==
  /\ score \in HostConnectivityScore
  /\ rttSum \in Nat

\* Successes are among the pings, a run of successes among the successes,
\* a run of failures among the failures, and only one of the runs is open.
CountersSound ==
  /\ score.consecutiveSuccesses <= score.successfulPings
  /\ score.consecutiveFailures <= score.totalPings - score.successfulPings
  /\ score.consecutiveSuccesses = 0 \/ score.consecutiveFailures = 0
  /\ score.totalPings > 0 =>
       (score.isReachable <=> score.consecutiveSuccesses > 0)

\* Every score calculateScores() derives is a percentage, whatever the
\* penalties and bonuses add up to (ping.h:164-170).
ScoresInRange ==
  /\ score.overallScore \in 0..100
  /\ score.reliabilityScore \in 0..100
  /\ score.stabilityScore \in 0..100
  /\ score.performanceScore = score.overallScore

\* The integer running average (ping.h:118) is faithful to the times it has
\* averaged: truncation never takes it out of the range between the smallest
\* and the largest of them, and it may fall behind their true mean but never
\* exceeds it.
AverageIsFaithful ==
  /\ score.successfulPings > 0 =>
       /\ score.minRtt <= score.averageRtt
       /\ score.averageRtt <= score.maxRtt
  /\ score.averageRtt * score.successfulPings <= rttSum

\* The penalties total at most 50 and a host averaging 20 ms or less starts
\* from 85 or more: once reached, such a host never falls under the video
\* shutdown threshold, however long it has been down since.
FastHostNeverLow ==
  (score.successfulPings > 0 /\ score.averageRtt <= 20) =>
    score.overallScore >= LowConnectivityThreshold

----------------------------------------------------------------------------
(* Action properties.                                                      *)

\* The score follows the pings: a failed ping never raises it, and a
\* successful one no slower than the average never lowers it.
ScoreFollowsPing ==
  /\ PingFailed => score'.overallScore <= score.overallScore
  /\ \A rtt \in Rtts :
       PingSucceeded(rtt) /\ rtt <= score.averageRtt =>
         score'.overallScore >= score.overallScore

ScoreFollowsPings == [][ScoreFollowsPing]_vars

\* A ping raises the integer average only if it exceeds the average by at
\* least the number of successes so far: the longer a host has been watched,
\* the larger the slowdown the average does not see (ping.h:118).
AverageRisesOnlyOnLargeSample ==
  score'.averageRtt > score.averageRtt =>
    score'.currentRtt >= score.averageRtt + score'.successfulPings

AverageIsSluggish == [][AverageRisesOnlyOnLargeSample]_vars
=============================================================================
