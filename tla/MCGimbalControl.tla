-------------------------- MODULE MCGimbalControl ---------------------------
(* GimbalControl for TLC: two opposite keys and one of the other axis, a  *)
(* joystick that rests or is turned all the way, one datagram on its way.  *)
EXTENDS GimbalControl
=============================================================================
