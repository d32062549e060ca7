---------------------------- MODULE MCN5Driver ----------------------------
(***************************************************************************)
(* Instances of N5Driver. The EC keeps 4 curve points for CPU and PCIe; two *)
(* are enough to tell a whole curve from a partly written one.             *)
(***************************************************************************)
EXTENDS N5Driver

MCCurvePoints == [c \in Channels |-> IF c \in {CPU, N5_PWM_PCIE} THEN 2 ELSE 1]

\* Bound: errors are pending on one channel at a time.
FewErrors == Cardinality(failed \cup unrestored \cup lost) <= 1
=============================================================================
