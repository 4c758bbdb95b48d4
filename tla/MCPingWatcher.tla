--------------------------- MODULE MCPingWatcher ---------------------------
(* Small instance: two cameras, an address that always answers, one that   *)
(* never does and so costs the worker its time limit.                      *)
EXTENDS PingWatcher

CONSTANTS near, far

MCNames == {1, 2}
MCAddresses == {near, far}

Found(rtt) == [success |-> TRUE, rtt |-> rtt]
Lost == [success |-> FALSE, rtt |-> -1]

MCAnswers == [a \in MCAddresses |-> IF a = near THEN {Found(3)} ELSE {Lost}]
=============================================================================
