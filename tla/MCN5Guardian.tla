---------------------------- MODULE MCN5Guardian ----------------------------
(***************************************************************************)
(* Instances of N5Guardian: the configuration of n5-fangov hands pwm1 back *)
(* (its value is no duty), stops pwm3 at a fixed duty (one below 100) and  *)
(* names a duty for pwm4, which is 255 all the same.                       *)
(***************************************************************************)
EXTENDS N5Guardian

MCArgs  == <<>>
MCStops == (1 :> "bad") @@ (3 :> "low") @@ (4 :> "stop")
=============================================================================
