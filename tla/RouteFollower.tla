---------------------------- MODULE RouteFollower ----------------------------
(***************************************************************************)
(* What a vehicle promises about the points it is sent to: it moves on the *)
(* leg to the next point of its plan, takes the points in order, and turns *)
(* to the next one only where the last leg ends.                           *)
(***************************************************************************)
EXTENDS Naturals, Sequences

CONSTANTS
  Points,       \* where a vehicle can be
  Between(_, _) \* the points on the straight way from one point to another

VARIABLES
  at,    \* where the vehicle is
  plan,  \* the points it was sent to, in order; none while it flies freely
  leg    \* which of them it is heading for

vars == <<at, plan, leg>>

Init == at \in Points /\ plan = <<at>> /\ leg = 1

Order == plan' \in Seq(Points) /\ leg' = 1 /\ UNCHANGED at

Follow ==
  /\ plan # <<>>
  /\ at' \in Between(at, plan[leg])
  /\ UNCHANGED <<plan, leg>>

Turn ==
  /\ leg < Len(plan)
  /\ at = plan[leg]
  /\ leg' = leg + 1
  /\ UNCHANGED <<at, plan>>

Roam == plan = <<>> /\ at' \in Points /\ UNCHANGED <<plan, leg>>

Next == Order \/ Follow \/ Turn \/ Roam

Spec == Init /\ [][Next]_vars
=============================================================================
