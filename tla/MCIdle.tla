------------------------------- MODULE MCIdle -------------------------------
(* Instances of Idle for TLC.                                              *)
EXTENDS Idle, TLC

CONSTANTS m1, m2, p1, p2

TwoMarkers == <<m1, m2>>
=============================================================================
