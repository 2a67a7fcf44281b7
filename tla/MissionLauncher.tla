---------------------------- MODULE MissionLauncher ----------------------------
(***************************************************************************)
(* What a client of the mission service may rely on, without goroutines,   *)
(* calls or files: one binary that is ready to start, and at most one      *)
(* mission, which keeps its binary until the launcher has seen it dead.    *)
(***************************************************************************)
CONSTANTS Binaries, None

VARIABLES
  running,  \* the binary of the mission the launcher holds, or None
  alive,    \* the process of that mission has not exited
  binary    \* what the next mission will run

vars == <<running, alive, binary>>

Init == running = None /\ ~alive /\ binary \in Binaries \cup {None}

Install == running = None /\ binary' \in Binaries /\ UNCHANGED <<running, alive>>

Launch ==
  /\ running = None /\ binary # None
  /\ running' = binary /\ alive'
  /\ UNCHANGED binary

Exit == alive /\ ~alive' /\ UNCHANGED <<running, binary>>

Release ==
  /\ running # None /\ ~alive
  /\ running' = None
  /\ UNCHANGED <<alive, binary>>

Next == Install \/ Launch \/ Exit \/ Release

Spec == Init /\ [][Next]_vars
=============================================================================
