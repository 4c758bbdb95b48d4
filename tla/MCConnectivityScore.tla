------------------------ MODULE MCConnectivityScore ------------------------
(* Small instance: times in the best, the last "good" and a bad band.      *)
EXTENDS ConnectivityScore

MCRtts == {3, 20, 30, 160}
=============================================================================
