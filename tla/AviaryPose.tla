------------------------------- MODULE AviaryPose -------------------------------
(***************************************************************************)
(* The camera pose of a simulated vehicle (vehicle.py), one axis of it: the *)
(* heading. A heading is asked for clockwise and kept counter-clockwise,    *)
(* without reduction to one turn, so it can drift away from its target by   *)
(* whole turns. A handler stores the target first and the mode after it; a  *)
(* tick may come between.                                                   *)
(*                                                                         *)
(* Angles are whole parts of a turn.                                       *)
(***************************************************************************)
EXTENDS Integers

CONSTANTS
  Half,      \* half a turn
  AngSpeed,  \* DEFAULT_ANGULAR_SPEED
  Angles,    \* angles and offsets asked for
  Rates,     \* angular velocities asked for
  MaxDrift,  \* bound: how far a rate turns the camera
  NoMode     \* no call in progress

ASSUME PoseAssumption ==
  /\ Half \in Nat \ {0} /\ AngSpeed \in Nat \ {0} /\ MaxDrift \in Nat
  /\ Angles \subseteq Int /\ Rates \subseteq Int
  /\ NoMode \notin {"angle", "offset", "velocity"}

VARIABLES
  heading,     \* the camera's H
  poseMode,    \* Vehicle.pose_mode
  poseTarget,  \* Vehicle.pose_target
  asked,       \* the mode a call is about to store
  rated        \* observer: a rate was asked for

poseVars == <<heading, poseMode, poseTarget, asked, rated>>

Turn == 2 * Half

PoseInit ==
  /\ heading = 0 /\ poseMode = "angle" /\ poseTarget = 0
  /\ asked = NoMode /\ rated = FALSE

\* convert_angle_heading, its own inverse.
Heading(x) == (-x) % Turn

\* Faulty: an offset is not reduced to one turn.
TargetOf_OffsetRaw(value, mode) ==
  CASE mode = "angle"  -> Heading(value)
    [] mode = "offset" -> heading - value
    [] OTHER           -> -value

TargetOf(value, mode) ==
  CASE mode = "angle"  -> Heading(value)
    [] mode = "offset" -> Heading(Heading(heading) + value)
    [] OTHER           -> -value

\* set_pose_target.
AskPose ==
  /\ asked = NoMode
  /\ \E mode \in {"angle", "offset", "velocity"} :
       \E value \in IF mode = "velocity" THEN Rates ELSE Angles :
         /\ poseTarget' = TargetOf(value, mode)
         /\ asked' = mode
  /\ rated' = (rated \/ asked' = "velocity")
  /\ UNCHANGED <<heading, poseMode>>

SetPoseMode ==
  /\ asked # NoMode
  /\ poseMode' = asked
  /\ asked' = NoMode
  /\ UNCHANGED <<heading, poseTarget, rated>>

-----------------------------------------------------------------------------
(* get_angular_velocity.                                                   *)
Size(x) == IF x < 0 THEN -x ELSE x

\* Faulty: the other way round is not looked at.
Difference_OneWay ==
  LET diff == poseTarget - heading
  IN  IF diff >= Half THEN diff - Turn ELSE diff

\* Reduced by one turn at most.
Difference ==
  LET diff == poseTarget - heading
      less == IF diff >= Half THEN diff - Turn ELSE diff
  IN  IF less =< -Half THEN less + Turn ELSE less

\* Faulty: the last turn is not cut short.
Rotation_Overshoots(dt) ==
  IF poseMode = "velocity" THEN poseTarget * dt
  ELSE IF Difference = 0 THEN 0
  ELSE IF Difference < 0 THEN -(AngSpeed * dt) ELSE AngSpeed * dt

Rotation(dt) ==
  IF poseMode = "velocity" THEN poseTarget * dt
  ELSE IF Size(Difference) =< AngSpeed * dt THEN Difference
  ELSE IF Difference < 0 THEN -(AngSpeed * dt) ELSE AngSpeed * dt

CameraTurns(dt) ==
  /\ poseMode = "velocity" => Size(heading + Rotation(dt)) =< MaxDrift
  /\ heading' = heading + Rotation(dt)
  /\ UNCHANGED <<poseMode, poseTarget, asked, rated>>

-----------------------------------------------------------------------------
PoseTypeOK ==
  /\ heading \in Int /\ poseTarget \in Int
  /\ poseMode \in {"angle", "offset", "velocity"}
  /\ asked \in {"angle", "offset", "velocity", NoMode}
  /\ rated \in BOOLEAN

\* Angles and offsets alone never wind the camera up: it stays within one turn of
\* the headings, however long the sequence of calls (vehicle.py:432-435).
StaysNearby == ~rated => heading \in -Turn .. 2 * Turn - 1

\* How far the camera is from facing its target, the short way round.
Away == LET x == (poseTarget - heading) % Turn IN IF x =< Half THEN x ELSE Turn - x

\* As long as it is no more than a turn and a half away, the camera takes the short
\* way, from either side, and never goes past its target: "Rotate in the opposite
\* direction if it's faster" (vehicle.py:433). Beyond, it takes the long way.
ClosesIn ==
  [][heading' # heading /\ poseMode # "velocity" /\ Size(poseTarget - heading) =< Turn + Half
       => Away' < Away]_poseVars
=============================================================================
