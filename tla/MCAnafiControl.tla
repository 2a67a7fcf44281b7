---------------------------- MODULE MCAnafiControl ----------------------------
(* AnafiControl on a small instance: threads and velocities are alike.      *)
EXTENDS AnafiControl, TLC

Alike == Permutations(Calls) \cup Permutations(Targets)
=============================================================================
