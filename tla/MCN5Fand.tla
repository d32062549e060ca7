------------------------------ MODULE MCN5Fand ------------------------------
(***************************************************************************)
(* Instances of N5Fand. Curves with a point below, between and above the   *)
(* knees; steps that reach the target in a few cycles.                     *)
(***************************************************************************)
EXTENDS N5Fand

MCConf ==
  [c \in Channels |-> [tmin |-> 40, tmax |-> 80, pmin |-> 85, pmax |-> 255, tcrit |-> 90]]

MCRpms == {-1, 0, 900}   \* unreadable, standing, turning
=============================================================================
