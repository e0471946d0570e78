--------------------------- MODULE MCDeadManCycle ---------------------------
(* Model values and bounds for DeadManCycle.                               *)
EXTENDS DeadManCycle

MCTime == 0..2

MCLiveTime == 0..1
=============================================================================
