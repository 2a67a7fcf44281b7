---------------------------- MODULE MCAviaryThreads ----------------------------
(* AviaryThreads on a small instance: the threads that serve Control are    *)
(* alike.                                                                   *)
EXTENDS AviaryThreads, TLC

Alike == Permutations(Calls)
=============================================================================
