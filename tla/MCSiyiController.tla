-------------------------- MODULE MCSiyiController --------------------------
(* Small instance: an SDK and its successor, whose threads, sockets and     *)
(* descriptors meet when the first is left to a detached thread.            *)
EXTENDS SiyiController
=============================================================================
