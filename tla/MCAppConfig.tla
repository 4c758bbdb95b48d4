---------------------------- MODULE MCAppConfig -----------------------------
(* AppConfig for TLC: one address beside the defaults, so that a camera has  *)
(* settings of its own, default ones or none.                                *)
EXTENDS AppConfig
=============================================================================
