---------------------------- MODULE HostMonitor ----------------------------
(***************************************************************************)
(* What ContinuousPingWatcher promises, with no queue, thread or request   *)
(* id: a host is asked about again and again, every answer it is credited  *)
(* with answers a question still open, comes from pinging the address the  *)
(* host has now, and counts once.  PingWatcher implements this.            *)
(***************************************************************************)
EXTENDS Integers

CONSTANTS
  Names,       \* names of the cameras, as QMap keys
  Addresses,   \* network addresses
  Answers,     \* Answers[a]: the outcomes [success, rtt] of pinging a
  NoScore,     \* the score of a host nothing is known of
  ScoreAfter(_, _, _)   \* the score after an outcome: (score, success, rtt)

VARIABLE monitor   \* name |-> what is known of the host

New(address) ==
  [host |-> address, lastStatus |-> FALSE, lastRtt |-> -1,
   score |-> NoScore, awaiting |-> FALSE]

Asked(known) ==
  [host |-> known.host, lastStatus |-> known.lastStatus, lastRtt |-> known.lastRtt,
   score |-> known.score, awaiting |-> TRUE]

Told(known, answer) ==
  [host |-> known.host, lastStatus |-> answer.success, lastRtt |-> answer.rtt,
   score |-> ScoreAfter(known.score, answer.success, answer.rtt), awaiting |-> FALSE]

Init == monitor = << >>

Enrol(name, address) ==
  monitor' = [n \in DOMAIN monitor \cup {name} |->
                IF n = name THEN New(address) ELSE monitor[n]]

Dismiss(name) ==
  monitor' = [n \in DOMAIN monitor \ {name} |-> monitor[n]]

Ask(name) ==
  /\ name \in DOMAIN monitor
  /\ monitor' = [monitor EXCEPT ![name] = Asked(@)]

Answer(name, answer) ==
  /\ name \in DOMAIN monitor
  /\ monitor[name].awaiting
  /\ answer \in Answers[monitor[name].host]
  /\ monitor' = [monitor EXCEPT ![name] = Told(@, answer)]

Next ==
  \E name \in Names :
    \/ \E address \in Addresses : Enrol(name, address)
    \/ Dismiss(name)
    \/ Ask(name)
    \/ \E address \in Addresses : \E answer \in Answers[address] :
         Answer(name, answer)

Spec == Init /\ [][Next]_monitor
=============================================================================
