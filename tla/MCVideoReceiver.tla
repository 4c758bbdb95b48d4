--------------------------- MODULE MCVideoReceiver ---------------------------
(* Small instance: the first pipeline and two reopened ones, so that a     *)
(* task or a report of each can outlive its pipeline.                      *)
EXTENDS VideoReceiver
=============================================================================
