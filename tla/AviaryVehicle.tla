----------------------------- MODULE AviaryVehicle -----------------------------
(***************************************************************************)
(* A simulated vehicle (vehicle.py) and the Control and Stream services    *)
(* that drive and observe it (interfaces/steeleagle.py), one whole method  *)
(* at a time: control calls, ticks of the simulation and telemetry, which  *)
(* is not a mere reader, for get_velocity takes waypoints off the route.   *)
(*                                                                         *)
(* A point is a place and a height: bearings, speeds and the geodetic      *)
(* conversions do not decide which point comes next. On the way from one   *)
(* place to another the vehicle counts as being at either.                 *)
(***************************************************************************)
EXTENDS Integers, Sequences

CONSTANTS
  Places,      \* positions on the ground
  HomePlace,   \* the one of sim_origin
  MinHeight,   \* bounds: heights are MinHeight .. MaxHeight, in sim coordinates,
  MaxHeight,   \* where the origin of the first actor is at zero
  HomeHeight,  \* sim_origin.z
  None         \* no setpoint, no return in progress, no hovering at the end

ASSUME VehicleAssumption ==
  /\ HomePlace \in Places
  /\ MinHeight \in Int /\ MaxHeight \in Int /\ HomeHeight \in MinHeight .. MaxHeight

VARIABLES
  pos,        \* the camera's position
  vmode,      \* Vehicle.mode
  goal,       \* Vehicle.position_target
  drift,      \* Vehicle.velocity_target: "still" or "moving"
  waypoints,  \* Vehicle.waypoints
  spin,       \* Vehicle.pose_mode and pose_target: "angle", or the rate asked for
  mode,       \* MotionInfo.mode
  setpoint,   \* MotionInfo.setpoint: which kind of request it is from
  trip        \* observer: the return to home in progress

vehicle == <<vmode, goal, drift, waypoints>>
info    == <<mode, setpoint>>
vars    == <<pos, vehicle, spin, info, trip>>

Heights == MinHeight .. MaxHeight
Points  == [place : Places, height : Heights]
At(place, height) == [place |-> place, height |-> height]
Home == At(HomePlace, HomeHeight)

\* A return to home: where it began, its waypoints and the mode that is to follow.
Trips == [from : Points, route : [1 .. 3 -> Points], expected : {"land", "loiter"}]

\* The kinds of setpoints that telemetry reports.
Setpoints == {"position", "velocity", "gimbal"}

ASSUME NoneAssumption == None \notin Trips /\ None \notin Setpoints

Between(p, q) ==
  {r \in Points : /\ r.place \in {p.place, q.place}
                  /\ \/ p.height <= r.height /\ r.height <= q.height
                     \/ q.height <= r.height /\ r.height <= p.height}

Init ==
  /\ pos = Home
  /\ vmode = "position" /\ goal = Home /\ drift = "still" /\ waypoints = <<>>
  /\ spin = "angle"
  /\ mode = "unspecified" /\ setpoint = None
  /\ trip = None

-----------------------------------------------------------------------------
(* The methods of Vehicle that set a target. A target of one mode survives *)
(* in the others, and so do the waypoints.                                 *)
PositionTarget(p) ==
  /\ vmode' = "position" /\ goal' = p
  /\ trip' = None
  /\ UNCHANGED <<drift, waypoints>>

VelocityTarget(d) ==
  /\ vmode' = "velocity" /\ drift' = d
  /\ trip' = None
  /\ UNCHANGED <<goal, waypoints>>

\* Faulty: the waypoints of an earlier route are not cleared.
WaypointTarget_NotCleared(route) ==
  /\ waypoints' = waypoints \o route
  /\ goal' = Head(waypoints')
  /\ vmode' = "waypoint"
  /\ UNCHANGED drift

\* The first waypoint becomes the target and stays in the queue.
WaypointTarget(route) ==
  /\ waypoints' = route
  /\ goal' = Head(route)
  /\ vmode' = "waypoint"
  /\ UNCHANGED drift

\* @nosetpoint, @setpoint and set_flight_mode.
Flight(m) == mode' = m /\ setpoint' = None /\ UNCHANGED pos
Guided(kind) == mode' = "guided" /\ setpoint' = kind /\ UNCHANGED pos

-----------------------------------------------------------------------------
(* The Control service.                                                    *)
TakeOff ==
  /\ \E h \in Heights : h >= pos.height /\ PositionTarget(At(pos.place, h))
  /\ Flight("takeoff")
  /\ UNCHANGED spin

Land ==
  /\ PositionTarget(At(pos.place, HomeHeight))
  /\ Flight("land")
  /\ UNCHANGED spin

\* Faulty: only the position is held, in the mode the vehicle is in.
Hold_KeepsRoute ==
  /\ drift' = "still"
  /\ spin' = "still"
  /\ Flight("loiter")
  /\ UNCHANGED <<vmode, goal, waypoints, trip>>

Hold ==
  /\ VelocityTarget("still")
  /\ spin' = "still"
  /\ Flight("loiter")

\* Only the reported mode changes; line 138 says it is to be implemented.
Kill == Flight("emergency") /\ UNCHANGED <<vehicle, spin, trip>>

\* Faulty: the height asked for is taken, not the higher of the two.
ReturnHeight_Asked(least) == least + HomeHeight

\* The height to fly home at. Line 159 compares a height above home with one in
\* sim coordinates.
ReturnHeight(least) == IF least < pos.height THEN pos.height ELSE least + HomeHeight

ReturnRoute(height, final) ==
  << At(pos.place, height), At(HomePlace, height), At(HomePlace, final) >>

\* A return ends hovering at a height above home, or on the ground.
Ends == (0 .. MaxHeight - HomeHeight) \cup {None}
Expected(end) == IF end = None THEN "land" ELSE "loiter"

ReturnToHome(least, end) ==
  /\ ReturnHeight(least) \in Heights
  /\ LET route == ReturnRoute(ReturnHeight(least),
                              IF end = None THEN HomeHeight ELSE HomeHeight + end)
     IN  /\ WaypointTarget(route)
         /\ trip' = [from |-> pos, route |-> route, expected |-> Expected(end)]
  /\ spin' = "angle"
  /\ Flight("rth")

\* SetRelativePositionTarget and SetGlobalPositionTarget.
SetPositionTarget ==
  /\ \E p \in Points : PositionTarget(p)
  /\ spin' = "angle"
  /\ Guided("position")

SetVelocityTarget ==
  /\ \E d \in {"still", "moving"} : VelocityTarget(d)
  /\ spin' \in {"still", "turning"}
  /\ Guided("velocity")

\* SetGimbalAngleTarget and SetGimbalVelocityTarget.
SetGimbalTarget ==
  /\ spin' \in {"angle", "still", "turning"}
  /\ setpoint' = "gimbal"
  /\ UNCHANGED <<pos, vehicle, mode, trip>>

-----------------------------------------------------------------------------
(* get_velocity: on a route, a vehicle that is where it was sent takes the *)
(* next waypoint and stands still for this once.                           *)
Turning == vmode = "waypoint" /\ pos = goal /\ waypoints # <<>>

Moving == IF vmode = "velocity" THEN drift = "moving" ELSE pos # goal

\* Faulty: set_position_target leaves the vehicle in POSITION mode.
NextWaypoint_ModeLost ==
  /\ goal' = Head(waypoints) /\ waypoints' = Tail(waypoints)
  /\ vmode' = "position"
  /\ UNCHANGED drift

NextWaypoint ==
  /\ goal' = Head(waypoints) /\ waypoints' = Tail(waypoints)
  /\ UNCHANGED <<vmode, drift>>

\* Faulty: the next waypoint is taken before the last one is reached.
Turn_Early ==
  /\ vmode = "waypoint" /\ waypoints # <<>>
  /\ NextWaypoint
  /\ UNCHANGED <<pos, spin, info, trip>>

\* move, in the simulation's task.
Turn ==
  /\ Turning
  /\ NextWaypoint
  /\ UNCHANGED <<pos, spin, info, trip>>

Fly ==
  /\ Moving
  /\ pos' \in IF vmode = "velocity" THEN Points ELSE Between(pos, goal)
  /\ UNCHANGED <<vehicle, spin, info, trip>>

\* get_telemetry.
Telemetry ==
  /\ IF Turning THEN NextWaypoint ELSE UNCHANGED vehicle
  /\ UNCHANGED <<pos, spin, info, trip>>

-----------------------------------------------------------------------------
Call ==
  \/ TakeOff \/ Land \/ Hold \/ Kill
  \/ \E least \in Heights, end \in Ends : ReturnToHome(least, end)
  \/ SetPositionTarget \/ SetVelocityTarget \/ SetGimbalTarget

Tick == Turn \/ Fly

Next == Call \/ Tick \/ Telemetry

Spec == Init /\ [][Next]_vars

\* The simulation keeps ticking, and a tick that moves the vehicle brings it
\* closer. Nobody need call or listen.
FairSpec == Spec /\ WF_vars(Tick)

-----------------------------------------------------------------------------
\* The variables are in range, and there is a trip in WAYPOINT mode only.
TypeOK ==
  /\ pos \in Points /\ goal \in Points
  /\ vmode \in {"position", "velocity", "waypoint"}
  /\ drift \in {"still", "moving"}
  /\ waypoints \in Seq(Points) /\ Len(waypoints) <= 3
  /\ spin \in {"angle", "still", "turning"}
  /\ mode \in {"unspecified", "takeoff", "land", "loiter", "emergency", "rth", "guided"}
  /\ setpoint \in Setpoints \cup {None}
  /\ trip \in Trips \cup {None}

\* The leg of the trip the vehicle is on. The first waypoint is taken twice.
Leg == IF Len(waypoints) = 3 THEN 1 ELSE 3 - Len(waypoints)

\* On its way home the vehicle heads for one waypoint after the other, has the
\* rest of the route, and nothing of an older one, in its queue, and is on the
\* leg to where it heads: it visits "each waypoint in order" (vehicle.py:231).
OnRoute ==
  /\ trip # None <=> vmode = "waypoint"
  /\ trip # None =>
       /\ Leg \in 1 .. 3
       /\ \A i \in 1 .. Len(waypoints) : waypoints[i] = trip.route[3 - Len(waypoints) + i]
       /\ goal = trip.route[Leg]
       /\ pos \in Between(IF Leg = 1 THEN trip.from ELSE trip.route[Leg - 1], goal)

\* The vehicle does what the reported mode and setpoint say: a route is flown in no
\* other mode than that of a return, unless the vehicle was told to stop in an
\* emergency, which it does not do yet, and a vehicle on hold does not turn unless a
\* gimbal call made it.
MotionMatchesMode ==
  /\ mode = "loiter" => vmode = "velocity" /\ drift = "still"
  /\ mode = "loiter" /\ setpoint # "gimbal" => spin = "still"
  /\ mode \in {"takeoff", "land"} => vmode = "position" /\ goal.place = pos.place
  /\ mode = "rth" => vmode = "waypoint"
  /\ vmode = "waypoint" => mode \in {"rth", "emergency"}
  /\ setpoint \in {"position", "velocity"} => mode = "guided" /\ vmode = setpoint

\* On its way home the vehicle leaves a place only at the height of the way home,
\* and that is no lower than it was called back at, whatever minimum it was given,
\* but for what home lies below zero: the minimum counts from home and is compared
\* with a height that does not (steeleagle.py:158-160, 171-175).
LevelReturn ==
  [][trip # None /\ pos'.place # pos.place =>
       /\ pos.height = trip.route[2].height /\ pos'.height = pos.height
       /\ pos.height >= trip.from.height + (IF HomeHeight < 0 THEN HomeHeight ELSE 0)]_vars

\* When the calls end, the vehicle comes to rest where it was sent last, with no
\* waypoint left, unless it was given a velocity: it will "stop once all waypoints
\* are visited" (vehicle.py:231-232).
ComesToRest ==
  <>[][~Call]_vars =>
    <>[](vmode # "velocity" =>
           pos = (IF trip # None THEN trip.route[3] ELSE goal) /\ ~Turning)

\* The vehicle keeps the promise of RouteFollower.
Plan == CASE vmode = "position" -> <<goal>>
          [] vmode = "waypoint" -> trip.route
          [] OTHER              -> <<>>

Follower == INSTANCE RouteFollower WITH
  at <- pos, plan <- Plan, leg <- IF vmode = "waypoint" THEN Leg ELSE 1

FollowsRoutes == Follower!Spec

=============================================================================
