---------------------------- MODULE N5Ownership ----------------------------
(***************************************************************************)
(* What the driver owes the board, without its phases, locks, caches and   *)
(* EC transactions: a channel is put under host control only after someone *)
(* has noted that it must be handed back, and the note stays until the     *)
(* channel is back with the EC or at its safe duty.                        *)
(***************************************************************************)
CONSTANT Channels

VARIABLES
  held,    \* channels that are, or may yet come, under host control
  claims   \* channels noted as owing a hand-back

Init == held = {} /\ claims = {}

Claim(c) == claims' = claims \cup {c} /\ UNCHANGED held

Seize(c) == c \in claims /\ held' = held \cup {c} /\ UNCHANGED claims

\* The channel goes back; the note may go in the same step, or later.
Release(c) == held' = held \ {c} /\ claims' \in {claims, claims \ {c}}

\* A boot may hand back any number of channels by itself.
PowerCycle ==
  /\ held' \in SUBSET held /\ claims' \in SUBSET claims
  /\ held' \subseteq claims'

Next ==
  \/ \E c \in Channels : Claim(c) \/ Seize(c) \/ Release(c)
  \/ PowerCycle

Spec == Init /\ [][Next]_<<held, claims>>
=============================================================================
