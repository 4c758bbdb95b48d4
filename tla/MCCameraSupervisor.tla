------------------------- MODULE MCCameraSupervisor -------------------------
(* Small instance: both cameras, two addresses, and pings that are fast,   *)
(* slow enough for a low score, or lost; three pings can take a camera     *)
(* low, up and low again.                                                  *)
EXTENDS CameraSupervisor

CONSTANTS siyi, ai, a, b

MCCameras == {siyi, ai}
MCAddresses == {a, b}

Found(rtt) == [success |-> TRUE, rtt |-> rtt]
Lost == [success |-> FALSE, rtt |-> -1]

MCAnswers == [x \in MCAddresses |-> IF x = a THEN {Found(3), Found(160), Lost}
                                        ELSE {Found(160), Lost}]
=============================================================================
