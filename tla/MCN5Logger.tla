----------------------------- MODULE MCN5Logger -----------------------------
(***************************************************************************)
(* Instances of N5Logger: runs of a few samples, with two faults of any    *)
(* kind, and with a fan that stands again and again and one death.         *)
(***************************************************************************)
EXTENDS N5Logger

MCAll == [k \in FaultKinds |-> IF k \in {"die", "mail"} THEN 2 ELSE IF k = "stall" THEN 0 ELSE 1]
MCStallAndDeath == [k \in FaultKinds |-> CASE k = "stall" -> 5 [] k = "die" -> 1 [] OTHER -> 0]
=============================================================================
