----------------------------- MODULE HostScore -----------------------------
(***************************************************************************)
(* HostConnectivityScore (ping.h): what the watchdog remembers of one      *)
(* host and the 0..100 scores it derives from it.  Pure operators: the     *)
(* modules that hold such a record as state are ConnectivityScore,         *)
(* PingWatcher and CameraSupervisor.  Names, texts and time stamps of the  *)
(* struct are left out; no control depends on them.                        *)
(***************************************************************************)
EXTENDS Integers

IntMax == 2147483647            \* INT_MAX, the "no minimum yet" of minRtt

\* mainwindow.h:197, the score under which the video is shut down
LowConnectivityThreshold == 30

Lesser(a, b)  == IF a <= b THEN a ELSE b
Greater(a, b) == IF a <= b THEN b ELSE a

HostConnectivityScore ==
  [isReachable : BOOLEAN, currentRtt : Int,
   totalPings : Nat, successfulPings : Nat,
   consecutiveFailures : Nat, consecutiveSuccesses : Nat,
   averageRtt : Nat, minRtt : Nat, maxRtt : Nat,
   reliabilityScore : Int, performanceScore : Int,
   stabilityScore : Int, overallScore : Int]

\* Mutant of Reset: the minimum starts from a sentinel of the wrong sign.
MutantResetNoMinimum ==
  [isReachable |-> FALSE, currentRtt |-> -1,
   totalPings |-> 0, successfulPings |-> 0,
   consecutiveFailures |-> 0, consecutiveSuccesses |-> 0,
   averageRtt |-> 0, minRtt |-> -1, maxRtt |-> 0,
   reliabilityScore |-> 0, performanceScore |-> 0,
   stabilityScore |-> 0, overallScore |-> 0]

Reset ==
  [isReachable |-> FALSE, currentRtt |-> -1,
   totalPings |-> 0, successfulPings |-> 0,
   consecutiveFailures |-> 0, consecutiveSuccesses |-> 0,
   averageRtt |-> 0, minRtt |-> IntMax, maxRtt |-> 0,
   reliabilityScore |-> 0, performanceScore |-> 0,
   stabilityScore |-> 0, overallScore |-> 0]

----------------------------------------------------------------------------
(* The terms of calculateScores().                                         *)

BaseScore(avg) ==
  CASE avg <= 5         -> 100
    [] avg \in 6..10    -> 95
    [] avg \in 11..20   -> 85
    [] avg \in 21..35   -> 75
    [] avg \in 36..50   -> 65
    [] avg \in 51..75   -> 50
    [] avg \in 76..100  -> 35
    [] avg \in 101..150 -> 20
    [] avg \in 151..200 -> 10
    [] OTHER            -> 5

\* Mutant of PacketLossPenalty: the first two bands swapped.
MutantSwappedBands(lost, total) ==
  LET LossWithin(percent) == 100 * lost <= percent * total
  IN  IF lost = 0         THEN 0
      ELSE IF LossWithin(10) THEN 10
      ELSE IF LossWithin(25) THEN 5
      ELSE IF LossWithin(50) THEN 15
      ELSE IF LossWithin(75) THEN 25
      ELSE 30

\* The code compares the double (lost / total) * 100 with each limit; over
\* 32-bit counters that is the exact comparison made here.
PacketLossPenalty(lost, total) ==
  LET LossWithin(percent) == 100 * lost <= percent * total
  IN  IF lost = 0         THEN 0
      ELSE IF LossWithin(10) THEN 5
      ELSE IF LossWithin(25) THEN 10
      ELSE IF LossWithin(50) THEN 15
      ELSE IF LossWithin(75) THEN 25
      ELSE 30

\* Mutant of FailurePenalty: no cap of 20.
MutantUncappedPenalty(failures) ==
  IF failures >= 3 THEN failures * 5 ELSE 0

FailurePenalty(failures) ==
  IF failures >= 3 THEN Lesser(20, failures * 5) ELSE 0

SuccessBonus(successes) ==
  IF successes >= 5 THEN Lesser(10, successes \div 2) ELSE 0

\* Mutant of OverallScore: no clamp at 100.
MutantUnclampedScore(s) ==
  LET raw == BaseScore(s.averageRtt)
               - PacketLossPenalty(s.totalPings - s.successfulPings, s.totalPings)
               - FailurePenalty(s.consecutiveFailures)
               + SuccessBonus(s.consecutiveSuccesses)
  IN  Greater(0, raw)

OverallScore(s) ==
  LET raw == BaseScore(s.averageRtt)
               - PacketLossPenalty(s.totalPings - s.successfulPings, s.totalPings)
               - FailurePenalty(s.consecutiveFailures)
               + SuccessBonus(s.consecutiveSuccesses)
  IN  Greater(0, Lesser(raw, 100))

StabilityScore(s) ==
  IF s.consecutiveSuccesses >= 3 THEN 100
  ELSE IF s.consecutiveFailures >= 3 THEN 0 ELSE 50

CalculateScores(s) ==
  IF s.totalPings > 0 /\ s.successfulPings > 0
  THEN [s EXCEPT !.overallScore     = OverallScore(s),
                 !.reliabilityScore = (s.successfulPings * 100) \div s.totalPings,
                 !.performanceScore = OverallScore(s),
                 !.stabilityScore   = StabilityScore(s)]
  ELSE [s EXCEPT !.overallScore = 0, !.reliabilityScore = 0,
                 !.performanceScore = 0, !.stabilityScore = 0]

----------------------------------------------------------------------------
(* updatePing(): the counters, the extremes and the running average of     *)
(* the round trip times, then the scores.                                  *)

\* Mutants of RunningAverage: one weight too many, and rounding up.
MutantOverweightedAverage(avg, n, rtt) == ((avg * n) + rtt) \div n
MutantRoundedUpAverage(avg, n, rtt) == ((avg * (n - 1)) + rtt + n - 1) \div n

RunningAverage(avg, n, rtt) == ((avg * (n - 1)) + rtt) \div n

CountSuccess(s, rtt) ==
  LET n == s.successfulPings + 1
      t == [s EXCEPT !.isReachable          = TRUE,
                     !.currentRtt           = rtt,
                     !.totalPings           = @ + 1,
                     !.successfulPings      = n,
                     !.consecutiveSuccesses = @ + 1,
                     !.consecutiveFailures  = 0]
  IN  IF rtt >= 0
      THEN [t EXCEPT !.minRtt     = Lesser(@, rtt),
                     !.maxRtt     = Greater(@, rtt),
                     !.averageRtt = RunningAverage(@, n, rtt)]
      ELSE t

\* Mutant of CountFailure: the run of successes is not broken.
MutantKeptSuccessRun(s, rtt) ==
  [s EXCEPT !.isReachable         = FALSE,
            !.currentRtt          = rtt,
            !.totalPings          = @ + 1,
            !.consecutiveFailures = @ + 1]

CountFailure(s, rtt) ==
  [s EXCEPT !.isReachable          = FALSE,
            !.currentRtt           = rtt,
            !.totalPings           = @ + 1,
            !.consecutiveFailures  = @ + 1,
            !.consecutiveSuccesses = 0]

UpdatePing(s, success, rtt) ==
  CalculateScores(IF success THEN CountSuccess(s, rtt) ELSE CountFailure(s, rtt))
=============================================================================
