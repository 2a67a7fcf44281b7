--------------------------- MODULE MCMissionService ---------------------------
(* The observed mission service on a small instance, with the symmetry its  *)
(* sets allow.                                                              *)
EXTENDS MissionObserved, TLC

Symmetry == Permutations(Calls) \cup Permutations(Runs) \cup Permutations(Binaries)
=============================================================================
