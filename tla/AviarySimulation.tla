---------------------------- MODULE AviarySimulation ----------------------------
(***************************************************************************)
(* The task of the simulation (simulator.py), which moves the actors and   *)
(* then the vehicle's camera, and the calls that pose the camera. What     *)
(* stops the task stops actors and vehicles for good, while calls are      *)
(* still answered. Where vehicles fly is in AviaryVehicle.                 *)
(***************************************************************************)
EXTENDS AviaryActors, AviaryPose

CONSTANT Dts  \* times between two ticks

ASSUME DtAssumption == Dts \subseteq Nat \ {0}

vars == <<actorVars, poseVars>>

Init == ActorsInit /\ PoseInit

\* simulate: the vehicle's turn comes only if no actor raised, and it may raise
\* itself: its get_velocity does, before the camera turns, when a stream of
\* telemetry has taken the waypoint it is about to take (AviaryThreads).
Simulate ==
  /\ ~dead
  /\ \E dt \in Dts :
       /\ ActorsMove(dt)
       /\ \/ dead' = TRUE /\ UNCHANGED poseVars
          \/ ~Raises /\ dead' = FALSE /\ CameraTurns(dt)

Call == AskPose /\ UNCHANGED actorVars
Return == SetPoseMode /\ UNCHANGED actorVars

Next == Simulate \/ Call \/ Return

Spec == Init /\ [][Next]_vars

\* Panda3D calls the task again and again; a call once begun is finished.
FairSpec == Spec /\ WF_vars(Simulate) /\ WF_vars(Return)

-----------------------------------------------------------------------------
\* The variables are in range, and every actor is on the ground there is.
TypeOK == ActorsTypeOK /\ PoseTypeOK

\* p is a point of the round of an actor that goes in circles.
Comes(a, p) == config[a].cycling /\ \E k \in 0 .. Stops(a) - 1 : Stop(a, k).to = p

\* Unless the task died, an actor that runs its trace once comes to rest at the
\* end of it, and a cycling one comes to each of its points again and again. The
\* premise is that of the bound: a camera that is given a rate turns for ever.
TracesRun ==
  <>[](poseMode # "velocity" /\ ~dead) =>
    \A a \in Actors :
      /\ \A p \in Places : [](Comes(a, p) => <>(actor[a].at = p))
      /\ <>[](config[a].cycling \/ actor[a].at = Stop(a, Stops(a) - 1).to)

\* Unless the task died, a camera that is asked for nothing more comes to face its
\* target and stays so, however far rates have wound it up before.
Faces ==
  <>[](poseMode # "velocity" /\ ~dead) /\ <>[][poseTarget' = poseTarget]_vars =>
    <>[]((poseTarget - heading) % Turn = 0)
=============================================================================
