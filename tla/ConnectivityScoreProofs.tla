---------------------- MODULE ConnectivityScoreProofs ----------------------
(* Theorems about ConnectivityScore, for every set of round trip times and *)
(* every number of pings.                                                  *)
EXTENDS ConnectivityScore, HostScoreProofs

----------------------------------------------------------------------------
(* The inductive invariant: a sound record (HostScoreProofs), whose        *)
(* average has not outrun the times it was computed from.                  *)

MeanHistory ==
  /\ rttSum \in Nat
  /\ score.averageRtt * score.successfulPings <= rttSum

IInv == Sound(score) /\ MeanHistory

\* Truncation loses: the numerator of the new average, the product and the
\* sum of ping.h:118, is at most the sum of all the times averaged.
LEMMA NumeratorAtMostSum ==
  ASSUME IInv, NEW rtt \in Nat
  PROVE  /\ score.averageRtt * score.successfulPings \in Nat
         /\ score.averageRtt * score.successfulPings + rtt <= rttSum + rtt
  <1>1. score.averageRtt \in Nat /\ score.successfulPings \in Nat
    BY SoundNumbers DEF IInv
  <1>2. score.averageRtt * score.successfulPings \in Nat
    BY <1>1
  <1> QED BY <1>2 DEF IInv, MeanHistory

\* The invariant across a successful ping.
LEMMA PingSucceededInv ==
  ASSUME IInv, NEW rtt \in Rtts, PingSucceeded(rtt)
  PROVE  IInv'
  <1> DEFINE n == score.successfulPings + 1
  <1>1. rtt \in Nat /\ Sound(score)
    BY RttsAssumption DEF IInv
  <1>2. score.averageRtt \in Nat /\ score.successfulPings \in Nat
        /\ n \in Nat \ {0} /\ n - 1 = score.successfulPings
    BY <1>1, SoundNumbers
  <1>3. /\ Sound(score')
        /\ score'.successfulPings = n
        /\ score'.averageRtt = RunningAverage(score.averageRtt, n, rtt)
    BY <1>1, PingAnsweredSound DEF PingSucceeded
  <1> HIDE DEF n
  <1>4. RunningAverage(score.averageRtt, n, rtt) * n
          <= score.averageRtt * (n - 1) + rtt
    BY <1>1, <1>2, RunningAverageTruncates
  <1>5. /\ score'.averageRtt * score'.successfulPings
             <= score.averageRtt * score.successfulPings + rtt
        /\ score'.averageRtt * score'.successfulPings \in Int
    <2>1. RunningAverage(score.averageRtt, n, rtt) \in Nat
      BY <1>1, <1>2, RunningAverageTruncates
    <2> QED BY <1>2, <1>3, <1>4, <2>1
  <1>6. rttSum' = rttSum + rtt /\ rttSum \in Nat
    BY DEF PingSucceeded, IInv, MeanHistory
  <1>7. /\ score.averageRtt * score.successfulPings \in Nat
        /\ score.averageRtt * score.successfulPings + rtt <= rttSum + rtt
    BY <1>1, NumeratorAtMostSum
  <1> QED BY <1>1, <1>3, <1>5, <1>6, <1>7 DEF IInv, MeanHistory

\* The invariant across a failed ping.
LEMMA PingFailedInv ==
  ASSUME IInv, PingFailed
  PROVE  IInv'
  <1>1. /\ Sound(score')
        /\ score'.successfulPings = score.successfulPings
        /\ score'.averageRtt = score.averageRtt
        /\ rttSum' = rttSum
    BY PingLostSound DEF PingFailed, IInv
  <1> QED BY <1>1 DEF IInv, MeanHistory

\* A fresh record satisfies it.
LEMMA FreshInv ==
  /\ (score = Reset /\ rttSum = 0) => IInv
  /\ HostReset => IInv'
  <1>1. Reset.averageRtt * Reset.successfulPings <= 0
    BY ResetSound
  <1>2. ASSUME score = Reset, rttSum = 0 PROVE IInv
    BY <1>1, <1>2, ResetSound DEF IInv, MeanHistory
  <1>3. ASSUME HostReset PROVE IInv'
    BY <1>1, <1>3, ResetSound DEF HostReset, IInv, MeanHistory
  <1> QED BY <1>2, <1>3

----------------------------------------------------------------------------
(* The theorems.                                                           *)

\* The invariant holds in every reachable state.
THEOREM Invariance == Spec => []IInv
  <1>1. Init => IInv
    BY FreshInv DEF Init
  <1>2. IInv /\ [Next]_vars => IInv'
    <2> SUFFICES ASSUME IInv, [Next]_vars PROVE IInv'
      OBVIOUS
    <2>1. ASSUME NEW rtt \in Rtts, PingSucceeded(rtt) PROVE IInv'
      BY <2>1, PingSucceededInv
    <2>2. CASE PingFailed
      BY <2>2, PingFailedInv
    <2>3. CASE HostReset
      BY <2>3, FreshInv
    <2>4. CASE UNCHANGED vars
      BY <2>4 DEF vars, IInv, MeanHistory
    <2> QED BY <2>1, <2>2, <2>3, <2>4 DEF Next
  <1> QED BY <1>1, <1>2, PTL DEF Spec

\* The record keeps its type across pings and resets (ping.h:44-91).
THEOREM TypeCorrect == Spec => []TypeOK
  <1>1. IInv => TypeOK
    BY DEF IInv, Sound, MeanHistory, TypeOK
  <1> QED BY <1>1, Invariance, PTL

\* The counters of pings, successes and runs stay consistent (ping.h:93-126).
THEOREM CountersAreSound == Spec => []CountersSound
  <1>1. IInv => CountersSound
    BY DEF IInv, Sound, CountersAgree, CountersSound
  <1> QED BY <1>1, Invariance, PTL

\* Every derived score is in 0..100 (ping.h:129-177).
THEOREM ScoresArePercentages == Spec => []ScoresInRange
  <1>1. IInv => ScoresInRange
    BY DEF IInv, Sound, ScoresAgree, ScoresInRange
  <1> QED BY <1>1, Invariance, PTL

\* The truncated running average stays within the smallest and the largest
\* time seen and never exceeds the true mean (ping.h:118).
THEOREM AverageIsAlwaysFaithful == Spec => []AverageIsFaithful
  <1>1. IInv => AverageIsFaithful
    BY SoundNumbers DEF IInv, Sound, AverageAgrees, MeanHistory, AverageIsFaithful
  <1> QED BY <1>1, Invariance, PTL

\* The int arithmetic of ping.h:118 cannot overflow before the sum of the
\* times averaged does: the running average never forms a number larger than
\* the plain sum would be.  This is what makes unbounded integers a faithful
\* stand-in for int in the average while the times add up to at most INT_MAX.
NumeratorWithinSum ==
  [][\A rtt \in Rtts :
       PingSucceeded(rtt) =>
         score.averageRtt * (score'.successfulPings - 1) + rtt <= rttSum']_vars

THEOREM AverageOverflowsNoEarlierThanSum == Spec => NumeratorWithinSum
  <1>1. IInv /\ [Next]_vars =>
          [\A rtt \in Rtts :
             PingSucceeded(rtt) =>
               score.averageRtt * (score'.successfulPings - 1) + rtt <= rttSum']_vars
    <2> SUFFICES ASSUME IInv, NEW rtt \in Rtts, PingSucceeded(rtt)
                 PROVE  score.averageRtt * (score'.successfulPings - 1) + rtt <= rttSum'
      OBVIOUS
    <2>1. rtt \in Nat
      BY RttsAssumption
    <2>2. score'.successfulPings = score.successfulPings + 1
      BY <2>1, PingAnsweredSound DEF PingSucceeded, IInv
    <2>3. score.successfulPings \in Nat
      BY SoundNumbers DEF IInv
    <2>4. score'.successfulPings - 1 = score.successfulPings
      BY <2>2, <2>3
    <2> QED BY <2>1, <2>4, NumeratorAtMostSum DEF PingSucceeded
  <1> QED BY <1>1, Invariance, PTL DEF Spec, NumeratorWithinSum

\* A host whose average is 20 ms or less is never under the shutdown
\* threshold, for any number of failed pings (mainwindow.cpp:3038).
THEOREM FastHostIsNeverLow == Spec => []FastHostNeverLow
  <1>1. IInv => FastHostNeverLow
    <2> SUFFICES ASSUME IInv, score.successfulPings > 0, score.averageRtt <= 20
                 PROVE  score.overallScore >= LowConnectivityThreshold
      BY DEF FastHostNeverLow
    <2>1. Sound(score) /\ score.overallScore \in 0..100
      BY SoundNumbers DEF IInv
    <2>2. score.overallScore >= LowConnectivityThreshold + 5
      BY <2>1, FastRecordNeverLow
    <2> QED BY <2>1, <2>2 DEF LowConnectivityThreshold
  <1> QED BY <1>1, Invariance, PTL

\* The integer average rises only on a time that exceeds it by at least the
\* number of successes so far (ping.h:118).
THEOREM AverageIsAlwaysSluggish == Spec => AverageIsSluggish
  <1>1. IInv /\ [Next]_vars => [AverageRisesOnlyOnLargeSample]_vars
    <2> SUFFICES ASSUME IInv, Next, score'.averageRtt > score.averageRtt
                 PROVE  score'.currentRtt >= score.averageRtt + score'.successfulPings
      BY DEF AverageRisesOnlyOnLargeSample
    <2>1. /\ Sound(score) /\ score.averageRtt \in Nat
          /\ score.successfulPings + 1 \in Nat \ {0}
      BY SoundNumbers DEF IInv
    <2>2. ASSUME NEW rtt \in Rtts, PingSucceeded(rtt)
          PROVE  score'.currentRtt >= score.averageRtt + score'.successfulPings
      <3> DEFINE n == score.successfulPings + 1
      <3>1. rtt \in Nat
        BY RttsAssumption
      <3>2. /\ score'.currentRtt = rtt
            /\ score'.successfulPings = n
            /\ score'.averageRtt = RunningAverage(score.averageRtt, n, rtt)
        BY <2>1, <2>2, <3>1, PingAnsweredSound DEF PingSucceeded
      <3>3. rtt < score.averageRtt + n =>
              RunningAverage(score.averageRtt, n, rtt) <= score.averageRtt
        BY <2>1, <3>1, RunningAverageSluggish
      <3>4. RunningAverage(score.averageRtt, n, rtt) \in Nat
        BY <2>1, <3>1, RunningAverageTruncates
      <3> QED BY <2>1, <3>1, <3>2, <3>3, <3>4
    <2>3. CASE PingFailed
      <3>1. score'.averageRtt = score.averageRtt
        BY <2>1, <2>3, PingLostSound DEF PingFailed
      <3> QED BY <2>1, <3>1
    <2>4. CASE HostReset
      BY <2>1, <2>4, ResetSound DEF HostReset
    <2> QED BY <2>2, <2>3, <2>4 DEF Next
  <1> QED BY <1>1, Invariance, PTL DEF Spec, AverageIsSluggish

\* A failed ping never raises the overall score; a successful one no slower
\* than the average never lowers it (ping.h:129-168).
THEOREM ScoreAlwaysFollowsPings == Spec => ScoreFollowsPings
  <1>1. IInv /\ [Next]_vars => [ScoreFollowsPing]_vars
    <2> SUFFICES ASSUME IInv, Next PROVE ScoreFollowsPing
      OBVIOUS
    <2>1. Sound(score)
      BY DEF IInv
    <2>2. PingFailed => score'.overallScore <= score.overallScore
      BY <2>1, LostPingScoresNoHigher DEF PingFailed
    <2>3. ASSUME NEW rtt \in Rtts, PingSucceeded(rtt), rtt <= score.averageRtt
          PROVE  score'.overallScore >= score.overallScore
      <3>1. rtt \in Nat
        BY RttsAssumption
      <3> QED BY <2>1, <2>3, <3>1, QuickPingScoresNoLower DEF PingSucceeded
    <2> QED BY <2>2, <2>3 DEF ScoreFollowsPing
  <1> QED BY <1>1, Invariance, PTL DEF Spec, ScoreFollowsPings
=============================================================================
