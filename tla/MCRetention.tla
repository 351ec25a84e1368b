---------------------------- MODULE MCRetention ----------------------------
(* Instances of Retention for TLC. *)
EXTENDS Retention

\* A storage cap alone, a short tier with an emergency threshold, and all three, each with
\* an object tier longer than the others.
Tiered(days, cap, free) ==
  [continuous |-> days, motion |-> days, objects |-> 2, maxStorage |-> cap, minFree |-> free]
TieredPolicies == {Tiered(0, 2, 0), Tiered(1, 0, 2), Tiered(1, 2, 2)}
=============================================================================
