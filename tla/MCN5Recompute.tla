---------------------------- MODULE MCN5Recompute ----------------------------
(***************************************************************************)
(* Instances of N5Recompute: two steps of T1, holds of two samples, pwm3   *)
(* (EC automatic) and pwm4 (none).                                         *)
(***************************************************************************)
EXTENDS N5Recompute

MCT1Steps == <<255, 140>>
MCChannelOf == [s \in {"cpu", "hdd"} |-> IF s = "cpu" THEN 1 ELSE 3]
=============================================================================
