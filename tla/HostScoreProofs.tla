-------------------------- MODULE HostScoreProofs --------------------------
(* Lemmas about the operators of HostScore: the range and monotonicity of  *)
(* each term of the score, the integer running average, and what counting  *)
(* a ping does to the record.                                              *)
EXTENDS HostScore, TLAPS

----------------------------------------------------------------------------
(* The terms of the score.                                                 *)

\* The base score of an average lies in 5..100, does not grow with the
\* average and is at least 85 up to 20 ms.
LEMMA BaseScoreBounds ==
  ASSUME NEW avg \in Nat
  PROVE  /\ BaseScore(avg) \in 5..100
         /\ avg <= 20 => BaseScore(avg) >= 85
  BY DEF BaseScore

\* A slower average never scores higher.
LEMMA BaseScoreAntitone ==
  ASSUME NEW a \in Nat, NEW b \in Nat, a <= b
  PROVE  BaseScore(a) >= BaseScore(b)
  BY DEF BaseScore

\* The loss penalty lies in 0..30.
LEMMA LossPenaltyBounds ==
  ASSUME NEW lost \in Nat, NEW total \in Nat
  PROVE  PacketLossPenalty(lost, total) \in 0..30
  BY DEF PacketLossPenalty

\* One more lost ping never lowers the loss penalty.
LEMMA LossPenaltyAfterLoss ==
  ASSUME NEW lost \in Nat, NEW total \in Nat
  PROVE  PacketLossPenalty(lost, total) <= PacketLossPenalty(lost + 1, total + 1)
  BY DEF PacketLossPenalty

\* One more answered ping never raises the loss penalty.
LEMMA LossPenaltyAfterAnswer ==
  ASSUME NEW lost \in Nat, NEW total \in Nat
  PROVE  PacketLossPenalty(lost, total + 1) <= PacketLossPenalty(lost, total)
  BY DEF PacketLossPenalty

\* The failure penalty lies in 0..20, grows with the run of failures and
\* starts from 0.
LEMMA FailurePenaltyBounds ==
  ASSUME NEW f \in Nat
  PROVE  /\ FailurePenalty(f) \in 0..20
         /\ FailurePenalty(f) <= FailurePenalty(f + 1)
         /\ FailurePenalty(0) = 0
  BY DEF FailurePenalty, Lesser

\* The success bonus lies in 0..10, grows with the run of successes and
\* starts from 0.
LEMMA SuccessBonusBounds ==
  ASSUME NEW n \in Nat
  PROVE  /\ SuccessBonus(n) \in 0..10
         /\ SuccessBonus(n) <= SuccessBonus(n + 1)
         /\ SuccessBonus(0) = 0
  BY DEF SuccessBonus, Lesser

----------------------------------------------------------------------------
(* The running average.                                                    *)

\* Multiplying by a natural number keeps the order.
LEMMA MulMonotone ==
  ASSUME NEW a \in Int, NEW b \in Int, NEW n \in Nat, a <= b
  PROVE  a * n <= b * n
  OBVIOUS

\* Integer division returns the quotient whose product with n is the last
\* multiple of n not above x.
LEMMA DivisionBounds ==
  ASSUME NEW x \in Nat, NEW n \in Nat \ {0}
  PROVE  /\ x \div n \in Nat
         /\ (x \div n) * n <= x
         /\ x < ((x \div n) + 1) * n
  OBVIOUS

\* A multiple of n at most x bounds the quotient from below, one above x
\* bounds it from above.
LEMMA QuotientBetween ==
  ASSUME NEW x \in Nat, NEW n \in Nat \ {0}, NEW lo \in Nat, NEW hi \in Nat,
         lo * n <= x, x < (hi + 1) * n
  PROVE  x \div n \in lo..hi
  <1> DEFINE q == x \div n
  <1>1. q \in Nat /\ q * n <= x /\ x < (q + 1) * n
    BY DivisionBounds
  <1>2. lo <= q
    <2>1. SUFFICES ASSUME q + 1 <= lo PROVE FALSE
      BY <1>1
    <2>2. (q + 1) * n <= lo * n
      BY <2>1, <1>1, MulMonotone
    <2>3. (q + 1) * n \in Int /\ lo * n \in Int
      BY <1>1
    <2> QED BY <2>2, <2>3, <1>1
  <1>3. q <= hi
    <2>1. SUFFICES ASSUME hi + 1 <= q PROVE FALSE
      BY <1>1
    <2>2. (hi + 1) * n <= q * n
      BY <2>1, <1>1, MulMonotone
    <2>3. (hi + 1) * n \in Int /\ q * n \in Int
      BY <1>1
    <2> QED BY <2>2, <2>3, <1>1
  <1> QED BY <1>1, <1>2, <1>3

\* The average of an average within lo..hi and a time within lo..hi is
\* within lo..hi.
LEMMA RunningAverageBetween ==
  ASSUME NEW avg \in Nat, NEW n \in Nat \ {0}, NEW rtt \in Nat,
         NEW lo \in Nat, NEW hi \in Nat,
         lo <= rtt, rtt <= hi,
         n > 1 => lo <= avg /\ avg <= hi
  PROVE  RunningAverage(avg, n, rtt) \in lo..hi
  <1> DEFINE x == avg * (n - 1) + rtt
  <1>1. n - 1 \in Nat /\ x \in Nat
    BY DEF x
  <1>2. lo * (n - 1) <= avg * (n - 1) /\ avg * (n - 1) <= hi * (n - 1)
    <2>1. CASE n = 1
      BY <2>1
    <2>2. CASE n > 1
      BY <2>2, <1>1, MulMonotone
    <2> QED BY <2>1, <2>2
  <1>3. lo * n = lo * (n - 1) + lo /\ (hi + 1) * n = hi * (n - 1) + hi + n
    OBVIOUS
  <1>4. lo * n <= x /\ x < (hi + 1) * n
    <2>1. lo * (n - 1) \in Int /\ avg * (n - 1) \in Int /\ hi * (n - 1) \in Int
      BY <1>1
    <2> QED BY <1>2, <1>3, <2>1
  <1>5. x \div n \in lo..hi
    <2> HIDE DEF x
    <2> QED BY <1>1, <1>4, QuotientBetween
  <1> QED BY <1>5 DEF RunningAverage

\* Truncation only loses: n times the new average is at most n - 1 times
\* the old one plus the new time.
LEMMA RunningAverageTruncates ==
  ASSUME NEW avg \in Nat, NEW n \in Nat \ {0}, NEW rtt \in Nat
  PROVE  /\ RunningAverage(avg, n, rtt) \in Nat
         /\ RunningAverage(avg, n, rtt) * n <= avg * (n - 1) + rtt
  <1>1. avg * (n - 1) + rtt \in Nat
    OBVIOUS
  <1> QED BY <1>1, DivisionBounds DEF RunningAverage

\* A time less than n above the average leaves the average where it was or
\* lowers it.
LEMMA RunningAverageSluggish ==
  ASSUME NEW avg \in Nat, NEW n \in Nat \ {0}, NEW rtt \in Nat, rtt < avg + n
  PROVE  RunningAverage(avg, n, rtt) <= avg
  <1> DEFINE x == avg * (n - 1) + rtt
  <1>1. x \in Nat
    OBVIOUS
  <1>2. x < (avg + 1) * n
    <2>1. (avg + 1) * n = avg * (n - 1) + avg + n
      OBVIOUS
    <2>2. avg * (n - 1) \in Int
      OBVIOUS
    <2> QED BY <2>1, <2>2
  <1>3. x \div n \in 0..avg
    <2> HIDE DEF x
    <2>1. 0 * n <= x
      BY <1>1
    <2> QED BY <1>1, <1>2, <2>1, QuotientBetween
  <1> QED BY <1>3 DEF RunningAverage
----------------------------------------------------------------------------
(* What updatePing() does to the record.                                   *)

\* The overall score of a host that answered at least once is a percentage,
\* and at least 35 while its average is at most 20 ms.
LEMMA OverallScoreBounds ==
  ASSUME NEW s \in HostConnectivityScore, s.successfulPings <= s.totalPings
  PROVE  /\ OverallScore(s) \in 0..100
         /\ s.averageRtt <= 20 => OverallScore(s) >= 35
  <1> DEFINE base  == BaseScore(s.averageRtt)
             loss  == PacketLossPenalty(s.totalPings - s.successfulPings, s.totalPings)
             fail  == FailurePenalty(s.consecutiveFailures)
             bonus == SuccessBonus(s.consecutiveSuccesses)
  <1>1. base \in 5..100 /\ (s.averageRtt <= 20 => base >= 85)
    BY BaseScoreBounds DEF HostConnectivityScore
  <1>2. loss \in 0..30
    BY LossPenaltyBounds DEF HostConnectivityScore
  <1>3. fail \in 0..20 /\ bonus \in 0..10
    BY FailurePenaltyBounds, SuccessBonusBounds DEF HostConnectivityScore
  <1>4. OverallScore(s) = Greater(0, Lesser(base - loss - fail + bonus, 100))
    BY DEF OverallScore
  <1> HIDE DEF base, loss, fail, bonus
  <1> QED BY <1>1, <1>2, <1>3, <1>4 DEF Greater, Lesser

\* calculateScores() derives the scores and leaves every counter alone, so
\* calculating twice is calculating once.
LEMMA CalculateScoresEffect ==
  ASSUME NEW s \in HostConnectivityScore, s.successfulPings <= s.totalPings
  PROVE  LET t == CalculateScores(s)
         IN  /\ t \in HostConnectivityScore
             /\ t.isReachable = s.isReachable
             /\ t.currentRtt = s.currentRtt
             /\ t.totalPings = s.totalPings
             /\ t.successfulPings = s.successfulPings
             /\ t.consecutiveFailures = s.consecutiveFailures
             /\ t.consecutiveSuccesses = s.consecutiveSuccesses
             /\ t.averageRtt = s.averageRtt
             /\ t.minRtt = s.minRtt
             /\ t.maxRtt = s.maxRtt
             /\ t.performanceScore = t.overallScore
             /\ t.overallScore \in 0..100
             /\ t.stabilityScore \in 0..100
             /\ t.reliabilityScore \in 0..100
             /\ t.overallScore = IF s.successfulPings > 0 THEN OverallScore(s) ELSE 0
  <1> DEFINE t == CalculateScores(s)
  <1>1. OverallScore(s) \in 0..100 /\ StabilityScore(s) \in 0..100
    BY OverallScoreBounds DEF StabilityScore
  <1>2. s.totalPings \in Nat /\ s.successfulPings \in Nat
    BY DEF HostConnectivityScore
  <1>3. CASE s.successfulPings > 0
    <2>1. s.totalPings > 0
      BY <1>2, <1>3
    <2>2. (s.successfulPings * 100) \div s.totalPings \in 0..100
      <3>1. s.successfulPings * 100 \in Nat /\ s.totalPings \in Nat \ {0}
        BY <1>2, <2>1
      <3>2. 0 * s.totalPings <= s.successfulPings * 100
        BY <1>2
      <3>3. s.successfulPings * 100 < (100 + 1) * s.totalPings
        BY <1>2, <2>1
      <3> QED BY <3>1, <3>2, <3>3, QuotientBetween
    <2>3. t = [s EXCEPT !.overallScore     = OverallScore(s),
                        !.reliabilityScore = (s.successfulPings * 100) \div s.totalPings,
                        !.performanceScore = OverallScore(s),
                        !.stabilityScore   = StabilityScore(s)]
      BY <1>3, <2>1 DEF CalculateScores
    <2> HIDE DEF t
    <2>4. t \in HostConnectivityScore
      <3>1. /\ OverallScore(s) \in Int /\ StabilityScore(s) \in Int
            /\ (s.successfulPings * 100) \div s.totalPings \in Int
        BY <1>1, <2>2
      <3> QED BY <2>3, <3>1, Zenon DEF HostConnectivityScore
    <2>5. t.overallScore = OverallScore(s) /\ t.performanceScore = OverallScore(s)
          /\ t.reliabilityScore = (s.successfulPings * 100) \div s.totalPings
          /\ t.stabilityScore = StabilityScore(s)
      BY <2>3 DEF HostConnectivityScore
    <2>6. /\ t.isReachable = s.isReachable
          /\ t.currentRtt = s.currentRtt
          /\ t.totalPings = s.totalPings
          /\ t.successfulPings = s.successfulPings
          /\ t.consecutiveFailures = s.consecutiveFailures
          /\ t.consecutiveSuccesses = s.consecutiveSuccesses
          /\ t.averageRtt = s.averageRtt
          /\ t.minRtt = s.minRtt
          /\ t.maxRtt = s.maxRtt
      BY <2>3 DEF HostConnectivityScore
    <2> QED BY <1>1, <1>3, <2>2, <2>4, <2>5, <2>6 DEF t
  <1>4. CASE ~(s.successfulPings > 0)
    <2>1. t = [s EXCEPT !.overallScore = 0, !.reliabilityScore = 0,
                        !.performanceScore = 0, !.stabilityScore = 0]
      BY <1>4 DEF CalculateScores
    <2> HIDE DEF t
    <2>2. t \in HostConnectivityScore
      BY <2>1, 0 \in Int, Zenon DEF HostConnectivityScore
    <2>3. /\ t.overallScore = 0 /\ t.reliabilityScore = 0
          /\ t.performanceScore = 0 /\ t.stabilityScore = 0
      BY <2>1 DEF HostConnectivityScore
    <2>4. /\ t.isReachable = s.isReachable
          /\ t.currentRtt = s.currentRtt
          /\ t.totalPings = s.totalPings
          /\ t.successfulPings = s.successfulPings
          /\ t.consecutiveFailures = s.consecutiveFailures
          /\ t.consecutiveSuccesses = s.consecutiveSuccesses
          /\ t.averageRtt = s.averageRtt
          /\ t.minRtt = s.minRtt
          /\ t.maxRtt = s.maxRtt
      BY <2>1 DEF HostConnectivityScore
    <2> QED BY <1>4, <2>2, <2>3, <2>4 DEF t
  <1> QED BY <1>3, <1>4

\* Counting a successful ping.
LEMMA CountSuccessEffect ==
  ASSUME NEW s \in HostConnectivityScore, NEW rtt \in Nat
  PROVE  LET t == CountSuccess(s, rtt)
             n == s.successfulPings + 1
         IN  /\ t \in HostConnectivityScore
             /\ t.isReachable = TRUE
             /\ t.currentRtt = rtt
             /\ t.totalPings = s.totalPings + 1
             /\ t.successfulPings = n
             /\ t.consecutiveFailures = 0
             /\ t.consecutiveSuccesses = s.consecutiveSuccesses + 1
             /\ t.averageRtt = RunningAverage(s.averageRtt, n, rtt)
             /\ t.minRtt = Lesser(s.minRtt, rtt)
             /\ t.maxRtt = Greater(s.maxRtt, rtt)
  <1> DEFINE t   == CountSuccess(s, rtt)
             n   == s.successfulPings + 1
             avg == RunningAverage(s.averageRtt, n, rtt)
             lo  == Lesser(s.minRtt, rtt)
             hi  == Greater(s.maxRtt, rtt)
             tot == s.totalPings + 1
             run == s.consecutiveSuccesses + 1
  <1>1. /\ n \in Nat \ {0} /\ s.averageRtt \in Nat
        /\ s.minRtt \in Nat /\ s.maxRtt \in Nat
        /\ tot \in Nat /\ run \in Nat
    BY DEF HostConnectivityScore
  <1>2. avg \in Nat /\ lo \in Nat /\ hi \in Nat
    BY <1>1, RunningAverageTruncates DEF Lesser, Greater
  <1>3. t = [s EXCEPT !.isReachable = TRUE, !.currentRtt = rtt,
                      !.totalPings = tot, !.successfulPings = n,
                      !.consecutiveSuccesses = run, !.consecutiveFailures = 0,
                      !.minRtt = lo, !.maxRtt = hi, !.averageRtt = avg]
    BY DEF CountSuccess, HostConnectivityScore
  <1>4. rtt \in Int /\ 0 \in Nat /\ n \in Nat /\ TRUE \in BOOLEAN
    BY <1>1
  <1> HIDE DEF t, n, avg, lo, hi, tot, run
  <1>5. t \in HostConnectivityScore
    BY <1>1, <1>2, <1>3, <1>4, Zenon DEF HostConnectivityScore
  <1>6. /\ t.isReachable = TRUE
        /\ t.currentRtt = rtt
        /\ t.totalPings = tot
        /\ t.successfulPings = n
        /\ t.consecutiveFailures = 0
        /\ t.consecutiveSuccesses = run
        /\ t.averageRtt = avg
        /\ t.minRtt = lo
        /\ t.maxRtt = hi
    BY <1>3 DEF HostConnectivityScore
  <1> QED BY <1>5, <1>6, Zenon DEF t, n, avg, lo, hi, tot, run

\* Counting a failed ping.
LEMMA CountFailureEffect ==
  ASSUME NEW s \in HostConnectivityScore
  PROVE  LET t == CountFailure(s, -1)
         IN  /\ t \in HostConnectivityScore
             /\ t.isReachable = FALSE
             /\ t.totalPings = s.totalPings + 1
             /\ t.successfulPings = s.successfulPings
             /\ t.consecutiveFailures = s.consecutiveFailures + 1
             /\ t.consecutiveSuccesses = 0
             /\ t.averageRtt = s.averageRtt
             /\ t.minRtt = s.minRtt
             /\ t.maxRtt = s.maxRtt
  <1> DEFINE t   == CountFailure(s, -1)
             tot == s.totalPings + 1
             run == s.consecutiveFailures + 1
  <1>1. tot \in Nat /\ run \in Nat /\ -1 \in Int /\ 0 \in Nat /\ FALSE \in BOOLEAN
    BY DEF HostConnectivityScore
  <1>2. t = [s EXCEPT !.isReachable = FALSE, !.currentRtt = -1, !.totalPings = tot,
                      !.consecutiveFailures = run, !.consecutiveSuccesses = 0]
    BY DEF CountFailure, HostConnectivityScore
  <1> HIDE DEF t, tot, run
  <1>3. t \in HostConnectivityScore
    BY <1>1, <1>2, Zenon DEF HostConnectivityScore
  <1>4. /\ t.isReachable = FALSE
        /\ t.totalPings = tot
        /\ t.successfulPings = s.successfulPings
        /\ t.consecutiveFailures = run
        /\ t.consecutiveSuccesses = 0
        /\ t.averageRtt = s.averageRtt
        /\ t.minRtt = s.minRtt
        /\ t.maxRtt = s.maxRtt
    BY <1>2 DEF HostConnectivityScore
  <1> QED BY <1>3, <1>4, Zenon DEF t, tot, run

\* The scores depend on the counters alone.
LEMMA OverallScoreOfCounters ==
  ASSUME NEW s, NEW t,
         t.averageRtt = s.averageRtt, t.totalPings = s.totalPings,
         t.successfulPings = s.successfulPings,
         t.consecutiveFailures = s.consecutiveFailures,
         t.consecutiveSuccesses = s.consecutiveSuccesses
  PROVE  OverallScore(t) = OverallScore(s)
  BY DEF OverallScore

\* The overall score is monotone in each of its four terms.
LEMMA OverallScoreMonotone ==
  ASSUME NEW s \in HostConnectivityScore, NEW t \in HostConnectivityScore,
         s.successfulPings <= s.totalPings, t.successfulPings <= t.totalPings,
         BaseScore(s.averageRtt) <= BaseScore(t.averageRtt),
         PacketLossPenalty(t.totalPings - t.successfulPings, t.totalPings)
           <= PacketLossPenalty(s.totalPings - s.successfulPings, s.totalPings),
         FailurePenalty(t.consecutiveFailures) <= FailurePenalty(s.consecutiveFailures),
         SuccessBonus(s.consecutiveSuccesses) <= SuccessBonus(t.consecutiveSuccesses)
  PROVE  OverallScore(s) <= OverallScore(t)
  <1>1. ASSUME NEW r \in HostConnectivityScore, r.successfulPings <= r.totalPings
        PROVE  /\ BaseScore(r.averageRtt) \in Int
               /\ PacketLossPenalty(r.totalPings - r.successfulPings, r.totalPings) \in Int
               /\ FailurePenalty(r.consecutiveFailures) \in Int
               /\ SuccessBonus(r.consecutiveSuccesses) \in Int
    <2>1. /\ r.averageRtt \in Nat /\ r.totalPings - r.successfulPings \in Nat
          /\ r.totalPings \in Nat /\ r.consecutiveFailures \in Nat
          /\ r.consecutiveSuccesses \in Nat
      BY <1>1 DEF HostConnectivityScore
    <2>2. BaseScore(r.averageRtt) \in 5..100
      BY <2>1, BaseScoreBounds
    <2>3. PacketLossPenalty(r.totalPings - r.successfulPings, r.totalPings) \in 0..30
      BY <2>1, LossPenaltyBounds
    <2>4. FailurePenalty(r.consecutiveFailures) \in 0..20
      BY <2>1, FailurePenaltyBounds
    <2>5. SuccessBonus(r.consecutiveSuccesses) \in 0..10
      BY <2>1, SuccessBonusBounds
    <2> QED BY <2>2, <2>3, <2>4, <2>5
  <1> QED BY <1>1 DEF OverallScore, Greater, Lesser

----------------------------------------------------------------------------
(* The inductive invariant of a record, wherever it lives: what holds of   *)
(* it after reset() and any series of updatePing().                        *)

\* Runs are among their kind of ping, and only the last kind's run is open.
CountersAgree(s) ==
  /\ s.consecutiveSuccesses <= s.successfulPings
  /\ s.consecutiveFailures <= s.totalPings - s.successfulPings
  /\ s.consecutiveSuccesses = 0 \/ s.consecutiveFailures = 0
  /\ s.totalPings > 0 => (s.isReachable <=> s.consecutiveSuccesses > 0)

\* The first time replaces an untouched 0; later ones keep the average
\* within the extremes.
AverageAgrees(s) ==
  IF s.successfulPings = 0
  THEN s.averageRtt = 0
  ELSE s.minRtt <= s.averageRtt /\ s.averageRtt <= s.maxRtt

\* The scores are percentages, and those of the current counters.
ScoresAgree(s) ==
  /\ s.overallScore \in 0..100
  /\ s.reliabilityScore \in 0..100
  /\ s.stabilityScore \in 0..100
  /\ s.performanceScore = s.overallScore
  /\ s.overallScore = IF s.successfulPings > 0 THEN OverallScore(s) ELSE 0

Sound(s) ==
  /\ s \in HostConnectivityScore
  /\ CountersAgree(s)
  /\ AverageAgrees(s)
  /\ ScoresAgree(s)

\* A record just reset is sound and has counted nothing.
LEMMA ResetSound ==
  /\ Sound(Reset)
  /\ Reset.successfulPings = 0
  /\ Reset.totalPings = 0
  /\ Reset.averageRtt = 0
  BY DEF Sound, CountersAgree, AverageAgrees, ScoresAgree, Reset,
         HostConnectivityScore, IntMax

\* The numbers of a sound record.
LEMMA SoundNumbers ==
  ASSUME NEW s, Sound(s)
  PROVE  /\ s \in HostConnectivityScore
         /\ s.totalPings \in Nat /\ s.successfulPings \in Nat
         /\ s.consecutiveSuccesses \in Nat /\ s.consecutiveFailures \in Nat
         /\ s.averageRtt \in Nat /\ s.minRtt \in Nat /\ s.maxRtt \in Nat
         /\ s.successfulPings <= s.totalPings
         /\ s.consecutiveSuccesses <= s.successfulPings
         /\ s.consecutiveFailures <= s.totalPings - s.successfulPings
         /\ s.overallScore \in 0..100
  BY DEF Sound, CountersAgree, ScoresAgree, HostConnectivityScore

\* A sound record averaging at most 20 ms with an answer behind it scores at
\* least 35, five above the shutdown threshold, whatever was lost since.
LEMMA FastRecordNeverLow ==
  ASSUME NEW s, Sound(s), s.successfulPings > 0, s.averageRtt <= 20
  PROVE  s.overallScore >= LowConnectivityThreshold + 5
  <1>1. OverallScore(s) >= 35 /\ OverallScore(s) \in 0..100
    BY SoundNumbers, OverallScoreBounds
  <1>2. s.overallScore = OverallScore(s)
    BY DEF Sound, ScoresAgree
  <1> QED BY <1>1, <1>2 DEF LowConnectivityThreshold

\* Deriving the scores of a record whose counters and average are in order
\* makes it sound.
LEMMA CalculateScoresSound ==
  ASSUME NEW c \in HostConnectivityScore, CountersAgree(c), AverageAgrees(c)
  PROVE  Sound(CalculateScores(c))
  <1> DEFINE t == CalculateScores(c)
  <1>1. c.successfulPings <= c.totalPings
    BY DEF CountersAgree, HostConnectivityScore
  <1>2. /\ t \in HostConnectivityScore
        /\ t.isReachable = c.isReachable
        /\ t.totalPings = c.totalPings
        /\ t.successfulPings = c.successfulPings
        /\ t.consecutiveFailures = c.consecutiveFailures
        /\ t.consecutiveSuccesses = c.consecutiveSuccesses
        /\ t.averageRtt = c.averageRtt
        /\ t.minRtt = c.minRtt
        /\ t.maxRtt = c.maxRtt
        /\ t.performanceScore = t.overallScore
        /\ t.overallScore \in 0..100
        /\ t.stabilityScore \in 0..100
        /\ t.reliabilityScore \in 0..100
        /\ t.overallScore = IF c.successfulPings > 0 THEN OverallScore(c) ELSE 0
    BY <1>1, CalculateScoresEffect
  <1> HIDE DEF t
  <1>3. CountersAgree(t)
    BY <1>2 DEF CountersAgree
  <1>4. AverageAgrees(t)
    BY <1>2 DEF AverageAgrees
  <1>5. OverallScore(t) = OverallScore(c)
    BY <1>2, OverallScoreOfCounters
  <1>6. ScoresAgree(t)
    BY <1>2, <1>5 DEF ScoresAgree
  <1> QED BY <1>2, <1>3, <1>4, <1>6 DEF Sound, t

\* An answered ping: the record stays sound, counts one success more, and
\* averages what RunningAverage says.
LEMMA PingAnsweredSound ==
  ASSUME NEW s, Sound(s), NEW rtt \in Nat
  PROVE  LET t == UpdatePing(s, TRUE, rtt)
             n == s.successfulPings + 1
         IN  /\ Sound(t)
             /\ t.totalPings = s.totalPings + 1
             /\ t.successfulPings = n
             /\ t.currentRtt = rtt
             /\ t.averageRtt = RunningAverage(s.averageRtt, n, rtt)
             /\ t.consecutiveFailures = 0
             /\ t.consecutiveSuccesses = s.consecutiveSuccesses + 1
  <1> DEFINE n  == s.successfulPings + 1
             c  == CountSuccess(s, rtt)
             lo == Lesser(s.minRtt, rtt)
             hi == Greater(s.maxRtt, rtt)
  <1>1. /\ s \in HostConnectivityScore /\ n \in Nat \ {0}
        /\ s.averageRtt \in Nat /\ s.minRtt \in Nat /\ s.maxRtt \in Nat
        /\ s.totalPings \in Nat /\ s.successfulPings \in Nat
        /\ s.consecutiveSuccesses \in Nat /\ s.consecutiveFailures \in Nat
        /\ s.successfulPings <= s.totalPings
        /\ s.consecutiveSuccesses <= s.successfulPings
    BY SoundNumbers
  <1>2. /\ c \in HostConnectivityScore
        /\ c.isReachable = TRUE
        /\ c.currentRtt = rtt
        /\ c.totalPings = s.totalPings + 1
        /\ c.successfulPings = n
        /\ c.consecutiveFailures = 0
        /\ c.consecutiveSuccesses = s.consecutiveSuccesses + 1
        /\ c.averageRtt = RunningAverage(s.averageRtt, n, rtt)
        /\ c.minRtt = lo
        /\ c.maxRtt = hi
    BY <1>1, CountSuccessEffect
  <1>3. UpdatePing(s, TRUE, rtt) = CalculateScores(c)
    BY DEF UpdatePing
  <1> HIDE DEF c
  <1>4. CountersAgree(c)
    BY <1>1, <1>2 DEF CountersAgree
  <1>5. AverageAgrees(c)
    <2>1. lo \in Nat /\ hi \in Nat /\ lo <= rtt /\ rtt <= hi
      BY <1>1 DEF Lesser, Greater
    <2>2. n > 1 => lo <= s.averageRtt /\ s.averageRtt <= hi
      BY <1>1 DEF Sound, AverageAgrees, Lesser, Greater
    <2>3. RunningAverage(s.averageRtt, n, rtt) \in lo..hi
      <3> HIDE DEF lo, hi, n
      <3> QED BY <1>1, <2>1, <2>2, RunningAverageBetween
    <2>4. c.successfulPings # 0
      BY <1>1, <1>2
    <2> QED BY <1>2, <2>1, <2>3, <2>4 DEF AverageAgrees
  <1>6. Sound(CalculateScores(c))
    BY <1>2, <1>4, <1>5, CalculateScoresSound
  <1>7. /\ CalculateScores(c).totalPings = c.totalPings
        /\ CalculateScores(c).successfulPings = c.successfulPings
        /\ CalculateScores(c).currentRtt = c.currentRtt
        /\ CalculateScores(c).averageRtt = c.averageRtt
        /\ CalculateScores(c).consecutiveFailures = c.consecutiveFailures
        /\ CalculateScores(c).consecutiveSuccesses = c.consecutiveSuccesses
    <2>1. c.successfulPings <= c.totalPings
      BY <1>1, <1>2
    <2> QED BY <1>2, <2>1, CalculateScoresEffect
  <1> QED BY <1>2, <1>3, <1>6, <1>7

\* A lost ping: the record stays sound and keeps its successes and average.
LEMMA PingLostSound ==
  ASSUME NEW s, Sound(s)
  PROVE  LET t == UpdatePing(s, FALSE, -1)
         IN  /\ Sound(t)
             /\ t.totalPings = s.totalPings + 1
             /\ t.successfulPings = s.successfulPings
             /\ t.averageRtt = s.averageRtt
             /\ t.consecutiveFailures = s.consecutiveFailures + 1
             /\ t.consecutiveSuccesses = 0
  <1> DEFINE c == CountFailure(s, -1)
  <1>1. /\ s \in HostConnectivityScore
        /\ s.totalPings \in Nat /\ s.successfulPings \in Nat
        /\ s.consecutiveSuccesses \in Nat /\ s.consecutiveFailures \in Nat
        /\ s.successfulPings <= s.totalPings
        /\ s.consecutiveFailures <= s.totalPings - s.successfulPings
    BY SoundNumbers
  <1>2. /\ c \in HostConnectivityScore
        /\ c.isReachable = FALSE
        /\ c.totalPings = s.totalPings + 1
        /\ c.successfulPings = s.successfulPings
        /\ c.consecutiveFailures = s.consecutiveFailures + 1
        /\ c.consecutiveSuccesses = 0
        /\ c.averageRtt = s.averageRtt
        /\ c.minRtt = s.minRtt
        /\ c.maxRtt = s.maxRtt
    BY <1>1, CountFailureEffect
  <1>3. UpdatePing(s, FALSE, -1) = CalculateScores(c)
    BY DEF UpdatePing
  <1> HIDE DEF c
  <1>4. CountersAgree(c)
    BY <1>1, <1>2 DEF CountersAgree
  <1>5. AverageAgrees(c)
    BY <1>2 DEF Sound, AverageAgrees
  <1>6. Sound(CalculateScores(c))
    BY <1>2, <1>4, <1>5, CalculateScoresSound
  <1>7. /\ CalculateScores(c).totalPings = c.totalPings
        /\ CalculateScores(c).successfulPings = c.successfulPings
        /\ CalculateScores(c).averageRtt = c.averageRtt
        /\ CalculateScores(c).consecutiveFailures = c.consecutiveFailures
        /\ CalculateScores(c).consecutiveSuccesses = c.consecutiveSuccesses
    <2>1. c.successfulPings <= c.totalPings
      BY <1>1, <1>2
    <2> QED BY <1>2, <2>1, CalculateScoresEffect
  <1> QED BY <1>2, <1>3, <1>6, <1>7

\* updatePing() keeps a sound record sound and counts one ping more.
LEMMA UpdatePingSound ==
  ASSUME NEW s, Sound(s), NEW success \in BOOLEAN, NEW rtt \in Int,
         IF success THEN rtt \in Nat ELSE rtt = -1
  PROVE  LET t == UpdatePing(s, success, rtt)
         IN  /\ Sound(t)
             /\ t.totalPings = s.totalPings + 1
             /\ t.successfulPings = s.successfulPings + (IF success THEN 1 ELSE 0)
  <1>1. CASE success = TRUE
    BY <1>1, PingAnsweredSound
  <1>2. CASE success = FALSE
    <2>1. s.successfulPings \in Nat
      BY SoundNumbers
    <2>2. UpdatePing(s, success, rtt) = UpdatePing(s, FALSE, -1)
      BY <1>2
    <2>3. /\ Sound(UpdatePing(s, FALSE, -1))
          /\ UpdatePing(s, FALSE, -1).totalPings = s.totalPings + 1
          /\ UpdatePing(s, FALSE, -1).successfulPings = s.successfulPings
      BY PingLostSound
    <2>4. s.successfulPings + (IF success THEN 1 ELSE 0) = s.successfulPings
      BY <1>2, <2>1
    <2> QED BY <2>2, <2>3, <2>4, Zenon
  <1> QED BY <1>1, <1>2

----------------------------------------------------------------------------
(* Monotonicity of the score in the outcome of one ping.                   *)

\* Two sound records compare as their four terms do; one that never had an
\* answer scores 0.
LEMMA SoundScoreMonotone ==
  ASSUME NEW s, NEW t, Sound(s), Sound(t),
         s.successfulPings > 0 => t.successfulPings > 0,
         s.successfulPings > 0 =>
           /\ BaseScore(s.averageRtt) <= BaseScore(t.averageRtt)
           /\ PacketLossPenalty(t.totalPings - t.successfulPings, t.totalPings)
                <= PacketLossPenalty(s.totalPings - s.successfulPings, s.totalPings)
           /\ FailurePenalty(t.consecutiveFailures) <= FailurePenalty(s.consecutiveFailures)
           /\ SuccessBonus(s.consecutiveSuccesses) <= SuccessBonus(t.consecutiveSuccesses)
  PROVE  s.overallScore <= t.overallScore
  <1>1. /\ s \in HostConnectivityScore /\ s.successfulPings <= s.totalPings
        /\ t \in HostConnectivityScore /\ t.successfulPings <= t.totalPings
        /\ s.overallScore \in 0..100 /\ t.overallScore \in 0..100
    BY SoundNumbers
  <1>2. /\ s.overallScore = IF s.successfulPings > 0 THEN OverallScore(s) ELSE 0
        /\ t.overallScore = IF t.successfulPings > 0 THEN OverallScore(t) ELSE 0
    BY DEF Sound, ScoresAgree
  <1>3. CASE s.successfulPings > 0
    <2>1. OverallScore(s) <= OverallScore(t)
      BY <1>1, <1>3, OverallScoreMonotone
    <2> QED BY <1>2, <1>3, <2>1
  <1>4. CASE ~(s.successfulPings > 0)
    BY <1>1, <1>2, <1>4
  <1> QED BY <1>3, <1>4

\* A lost ping never raises the score.
LEMMA LostPingScoresNoHigher ==
  ASSUME NEW s, Sound(s)
  PROVE  UpdatePing(s, FALSE, -1).overallScore <= s.overallScore
  <1> DEFINE t    == UpdatePing(s, FALSE, -1)
             lost == s.totalPings - s.successfulPings
  <1>1. /\ Sound(t)
        /\ t.totalPings = s.totalPings + 1
        /\ t.successfulPings = s.successfulPings
        /\ t.averageRtt = s.averageRtt
        /\ t.consecutiveFailures = s.consecutiveFailures + 1
        /\ t.consecutiveSuccesses = 0
    BY PingLostSound
  <1>2. /\ s.averageRtt \in Nat /\ s.totalPings \in Nat /\ s.successfulPings \in Nat
        /\ s.successfulPings <= s.totalPings
        /\ s.consecutiveFailures \in Nat /\ s.consecutiveSuccesses \in Nat
    BY SoundNumbers
  <1> HIDE DEF t
  <1>3. lost \in Nat /\ t.totalPings - t.successfulPings = lost + 1
    BY <1>1, <1>2
  <1>4. BaseScore(t.averageRtt) <= BaseScore(s.averageRtt)
    BY <1>1, <1>2, BaseScoreAntitone
  <1>5. PacketLossPenalty(lost, s.totalPings)
          <= PacketLossPenalty(t.totalPings - t.successfulPings, t.totalPings)
    BY <1>1, <1>2, <1>3, LossPenaltyAfterLoss
  <1>6. FailurePenalty(s.consecutiveFailures) <= FailurePenalty(t.consecutiveFailures)
    BY <1>1, <1>2, FailurePenaltyBounds
  <1>7. SuccessBonus(t.consecutiveSuccesses) <= SuccessBonus(s.consecutiveSuccesses)
    BY <1>1, <1>2, SuccessBonusBounds, 0 \in Nat
  <1> QED BY <1>1, <1>4, <1>5, <1>6, <1>7, SoundScoreMonotone DEF t

\* An answer no slower than the average never lowers it.
LEMMA QuickPingScoresNoLower ==
  ASSUME NEW s, Sound(s), NEW rtt \in Nat, rtt <= s.averageRtt
  PROVE  UpdatePing(s, TRUE, rtt).overallScore >= s.overallScore
  <1> DEFINE t    == UpdatePing(s, TRUE, rtt)
             n    == s.successfulPings + 1
             lost == s.totalPings - s.successfulPings
  <1>1. /\ Sound(t)
        /\ t.totalPings = s.totalPings + 1
        /\ t.successfulPings = n
        /\ t.averageRtt = RunningAverage(s.averageRtt, n, rtt)
        /\ t.consecutiveFailures = 0
        /\ t.consecutiveSuccesses = s.consecutiveSuccesses + 1
    BY PingAnsweredSound
  <1>2. /\ s.averageRtt \in Nat /\ s.totalPings \in Nat /\ s.successfulPings \in Nat
        /\ s.successfulPings <= s.totalPings /\ n \in Nat \ {0}
        /\ s.consecutiveFailures \in Nat /\ s.consecutiveSuccesses \in Nat
        /\ s.overallScore \in 0..100
    BY SoundNumbers
  <1> HIDE DEF t
  <1>3. t.averageRtt \in Nat /\ t.averageRtt <= s.averageRtt /\ t.overallScore \in 0..100
    <2>1. rtt < s.averageRtt + n
      BY <1>2
    <2> HIDE DEF n
    <2> QED BY <1>1, <1>2, <2>1, RunningAverageSluggish, RunningAverageTruncates,
               SoundNumbers
  <1>4. lost \in Nat /\ t.totalPings - t.successfulPings = lost
    BY <1>1, <1>2
  <1>5. BaseScore(s.averageRtt) <= BaseScore(t.averageRtt)
    BY <1>2, <1>3, BaseScoreAntitone
  <1>6. PacketLossPenalty(t.totalPings - t.successfulPings, t.totalPings)
          <= PacketLossPenalty(lost, s.totalPings)
    BY <1>1, <1>2, <1>4, LossPenaltyAfterAnswer
  <1>7. FailurePenalty(t.consecutiveFailures) <= FailurePenalty(s.consecutiveFailures)
    BY <1>1, <1>2, FailurePenaltyBounds, 0 \in Nat
  <1>8. SuccessBonus(s.consecutiveSuccesses) <= SuccessBonus(t.consecutiveSuccesses)
    BY <1>1, <1>2, SuccessBonusBounds
  <1>9. t.successfulPings > 0
    BY <1>1, <1>2
  <1>10. s.overallScore <= t.overallScore
    BY <1>1, <1>5, <1>6, <1>7, <1>8, <1>9, SoundScoreMonotone
  <1> QED BY <1>2, <1>3, <1>10 DEF t
=============================================================================
