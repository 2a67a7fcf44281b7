-------------------------- MODULE AviaryVehicleProofs --------------------------
(***************************************************************************)
(* Proofs about AviaryVehicle, for every set of places, every height of    *)
(* home and every bound on heights.                                        *)
(***************************************************************************)
EXTENDS AviaryVehicle, SequenceTheorems, TLAPS

USE VehicleAssumption

-----------------------------------------------------------------------------
(* Legs. *)

\* The end of a leg lies on it.
LEMMA LegEnds == ASSUME NEW p \in Points, NEW q \in Points
                 PROVE  p \in Between(p, q) /\ q \in Between(p, q)
BY DEF Between, Points, Heights

\* Who flies on from a point of a leg stays on that leg.
LEMMA LegGoesOn == ASSUME NEW p \in Points, NEW q \in Points,
                          NEW r \in Between(p, q), NEW t \in Between(r, q)
                   PROVE  t \in Between(p, q)
BY DEF Between, Points, Heights

LEMMA BetweenPoints == ASSUME NEW p \in Points, NEW q \in Points
                       PROVE  Between(p, q) \subseteq Points
BY DEF Between

-----------------------------------------------------------------------------
(* Types. *)
LEMMA HomeType == Home \in Points
BY DEF Home, At, Points, Heights

LEMMA InitType == Init => TypeOK
BY HomeType DEF Init, TypeOK

\* The route home is three points, as a sequence and as a function.
LEMMA RouteEnds == ASSUME TypeOK, NEW h \in Heights, NEW f \in Heights
                   PROVE  /\ At(pos.place, h) \in Points
                          /\ At(HomePlace, h) \in Points
                          /\ At(HomePlace, f) \in Points
BY DEF TypeOK, Points, At

LEMMA RouteSequence == ASSUME TypeOK, NEW h \in Heights, NEW f \in Heights
                       PROVE  ReturnRoute(h, f) \in Seq(Points) /\ Len(ReturnRoute(h, f)) = 3
BY RouteEnds DEF ReturnRoute

LEMMA RouteFunction == ASSUME TypeOK, NEW h \in Heights, NEW f \in Heights
                       PROVE  /\ ReturnRoute(h, f) \in [1 .. 3 -> Points]
                              /\ Head(ReturnRoute(h, f)) = ReturnRoute(h, f)[1]
BY RouteEnds DEF ReturnRoute

LEMMA CallType == TypeOK /\ Call => TypeOK'
<1> SUFFICES ASSUME TypeOK, Call PROVE TypeOK'
  OBVIOUS
<1> USE DEF TypeOK
<1>1. CASE TakeOff
  <2>1. PICK h \in Heights : PositionTarget(At(pos.place, h))
    BY <1>1 DEF TakeOff
  <2>2. At(pos.place, h) \in Points
    BY DEF At, Points
  <2> QED BY <1>1, <2>1, <2>2 DEF TakeOff, PositionTarget, Flight
<1>2. CASE Land
  <2>1. At(pos.place, HomeHeight) \in Points
    BY DEF At, Points, Heights
  <2> QED BY <1>2, <2>1 DEF Land, PositionTarget, Flight
<1>3. CASE Hold
  BY <1>3 DEF Hold, VelocityTarget, Flight
<1>4. CASE Kill
  BY <1>4 DEF Kill, Flight, vehicle
<1>5. ASSUME NEW least \in Heights, NEW end \in Ends, ReturnToHome(least, end) PROVE TypeOK'
  <2> DEFINE final == IF end = None THEN HomeHeight ELSE HomeHeight + end
             route == ReturnRoute(ReturnHeight(least), final)
  <2>1. ReturnHeight(least) \in Heights
    BY <1>5 DEF ReturnToHome
  <2>2. final \in Heights
    BY DEF Ends, Heights
  <2>3. route \in [1 .. 3 -> Points] /\ Head(route) = route[1]
    BY <2>1, <2>2, RouteFunction
  <2>4. route \in Seq(Points) /\ Len(route) = 3
    BY <2>1, <2>2, RouteSequence
  <2>5. Expected(end) \in {"land", "loiter"}
    BY DEF Expected
  <2>6. /\ waypoints' = route /\ goal' = Head(route)
        /\ trip' = [from |-> pos, route |-> route, expected |-> Expected(end)]
    BY <1>5 DEF ReturnToHome, WaypointTarget
  <2> HIDE DEF route, final
  <2>7. goal' \in Points
    BY <2>3, <2>6
  <2>8. trip' \in Trips
    BY <2>3, <2>5, <2>6 DEF Trips
  <2>9. waypoints' = route
    BY <2>6
  <2>10. waypoints' \in Seq(Points)
    BY <2>4, <2>9
  <2>11. Len(waypoints') = 3
    BY <2>4, <2>9
  <2>12. /\ vmode' = "waypoint" /\ drift' = drift /\ spin' = "angle"
        /\ mode' = "rth" /\ setpoint' = None /\ pos' = pos
    BY <1>5 DEF ReturnToHome, WaypointTarget, Flight
  <2> QED BY <2>7, <2>8, <2>10, <2>12, <2>11
<1>6. CASE SetPositionTarget
  BY <1>6 DEF SetPositionTarget, PositionTarget, Guided, Setpoints
<1>7. CASE SetVelocityTarget
  BY <1>7 DEF SetVelocityTarget, VelocityTarget, Guided, Setpoints
<1>8. CASE SetGimbalTarget
  BY <1>8 DEF SetGimbalTarget, vehicle, Setpoints
<1> QED BY <1>1, <1>2, <1>3, <1>4, <1>5, <1>6, <1>7, <1>8 DEF Call

\* Taking the next waypoint keeps the variables in range.
LEMMA NextWaypointType == ASSUME TypeOK, waypoints # <<>>, NextWaypoint
                          PROVE  /\ goal' \in Points /\ waypoints' \in Seq(Points)
                                 /\ Len(waypoints') = Len(waypoints) - 1
                                 /\ goal' = waypoints[1]
                                 /\ \A i \in 1 .. Len(waypoints') : waypoints'[i] = waypoints[i + 1]
BY DEF TypeOK, NextWaypoint

LEMMA NextType == TypeOK /\ [Next]_vars => TypeOK'
<1> SUFFICES ASSUME TypeOK, [Next]_vars PROVE TypeOK'
  OBVIOUS
<1> USE DEF TypeOK
<1>1. CASE UNCHANGED vars
  BY <1>1 DEF vars, vehicle, info
<1>2. CASE Call
  BY <1>2, CallType
<1>3. CASE Turn
  <2>1. NextWaypoint /\ waypoints # <<>> /\ UNCHANGED <<pos, spin, info, trip>>
    BY <1>3 DEF Turn, Turning
  <2>2. UNCHANGED <<vmode, drift>>
    BY <2>1 DEF NextWaypoint
  <2> QED BY <2>1, <2>2, NextWaypointType DEF info
<1>4. CASE Fly
  <2>1. pos' \in Points
    BY <1>4, BetweenPoints DEF Fly
  <2> QED BY <1>4, <2>1 DEF Fly, vehicle, info
<1>5. CASE Telemetry
  <2>1. UNCHANGED <<pos, spin, info, trip>>
    BY <1>5 DEF Telemetry
  <2>2. CASE Turning
    <3>1. NextWaypoint /\ waypoints # <<>>
      BY <1>5, <2>2 DEF Telemetry, Turning
    <3>2. UNCHANGED <<vmode, drift>>
      BY <3>1 DEF NextWaypoint
    <3> QED BY <2>1, <3>1, <3>2, NextWaypointType DEF info
  <2>3. CASE ~Turning
    <3>1. UNCHANGED vehicle
      BY <1>5, <2>3 DEF Telemetry
    <3> QED BY <2>1, <3>1 DEF vehicle, info
  <2> QED BY <2>2, <2>3
<1> QED BY <1>1, <1>2, <1>3, <1>4, <1>5 DEF Next, Tick

\* Every reachable state is well typed: no route is longer than the three points
\* of a return, and no target lies below or above the heights there are.
THEOREM TypeCorrect == Spec => []TypeOK
BY InitType, NextType, PTL DEF Spec
-----------------------------------------------------------------------------
(* The route. *)

\* Every step is one of five kinds for the route: it leaves it alone, gives it up,
\* begins a return, takes the next waypoint, or moves the vehicle.
Begins(least, end) ==
  LET route == ReturnRoute(ReturnHeight(least),
                           IF end = None THEN HomeHeight ELSE HomeHeight + end)
  IN  /\ waypoints' = route /\ goal' = Head(route) /\ vmode' = "waypoint"
      /\ trip' = [from |-> pos, route |-> route, expected |-> Expected(end)]
      /\ ReturnHeight(least) \in Heights
      /\ pos' = pos

LEMMA StepKinds == ASSUME [Next]_vars
                   PROVE  \/ UNCHANGED <<pos, vehicle, trip>>
                          \/ trip' = None /\ vmode' # "waypoint" /\ pos' = pos
                          \/ \E least \in Heights, end \in Ends : Begins(least, end)
                          \/ Turning /\ NextWaypoint /\ UNCHANGED <<pos, trip>>
                          \/ Fly
<1>1. CASE UNCHANGED vars
  BY <1>1 DEF vars
<1>2. CASE TakeOff \/ Land \/ Hold \/ SetPositionTarget \/ SetVelocityTarget
  BY <1>2 DEF TakeOff, Land, Hold, SetPositionTarget, SetVelocityTarget,
              PositionTarget, VelocityTarget, Flight, Guided
<1>3. CASE Kill \/ SetGimbalTarget
  BY <1>3 DEF Kill, SetGimbalTarget, Flight
<1>4. ASSUME NEW least \in Heights, NEW end \in Ends, ReturnToHome(least, end)
      PROVE  Begins(least, end)
  BY <1>4 DEF ReturnToHome, Begins, WaypointTarget, Flight
<1>5. CASE Tick
  BY <1>5 DEF Tick, Turn
<1>6. CASE Telemetry
  BY <1>6 DEF Telemetry
<1> QED BY <1>1, <1>2, <1>3, <1>4, <1>5, <1>6 DEF Next, Call

\* The way home leads up or level, home at one height, and up or down.
TripLevel ==
  trip # None =>
    /\ trip.route[1].place = trip.from.place
    /\ trip.route[2] = At(HomePlace, trip.route[1].height)
    /\ trip.route[3].place = HomePlace

LEMMA NextTripLevel == TypeOK /\ TripLevel /\ [Next]_vars => TripLevel'
<1> SUFFICES ASSUME TypeOK, TripLevel, [Next]_vars PROVE TripLevel'
  OBVIOUS
<1>1. CASE trip' = trip \/ trip' = None
  BY <1>1 DEF TripLevel
<1>2. ASSUME NEW least \in Heights, NEW end \in Ends, Begins(least, end) PROVE TripLevel'
  <2> DEFINE final == IF end = None THEN HomeHeight ELSE HomeHeight + end
  <2>1. /\ trip'.from = pos
        /\ trip'.route = ReturnRoute(ReturnHeight(least), final)
    BY <1>2 DEF Begins
  <2>2. /\ trip'.route[1] = At(pos.place, ReturnHeight(least))
        /\ trip'.route[2] = At(HomePlace, ReturnHeight(least))
        /\ trip'.route[3] = At(HomePlace, final)
    BY <2>1 DEF ReturnRoute
  <2> HIDE DEF final
  <2> QED BY <2>1, <2>2 DEF TripLevel, At
<1> QED BY <1>1, <1>2, StepKinds DEF Fly

LEMMA NextOnRoute == TypeOK /\ TypeOK' /\ OnRoute /\ [Next]_vars => OnRoute'
<1> SUFFICES ASSUME TypeOK, TypeOK', OnRoute, [Next]_vars PROVE OnRoute'
  OBVIOUS
<1>1. CASE UNCHANGED <<pos, vehicle, trip>>
  BY <1>1 DEF OnRoute, Leg, vehicle
<1>2. CASE trip' = None /\ vmode' # "waypoint"
  BY <1>2 DEF OnRoute
<1>3. ASSUME NEW least \in Heights, NEW end \in Ends, Begins(least, end) PROVE OnRoute'
  <2> DEFINE final == IF end = None THEN HomeHeight ELSE HomeHeight + end
             route == ReturnRoute(ReturnHeight(least), final)
  <2>1. ReturnHeight(least) \in Heights /\ final \in Heights
    BY <1>3 DEF Begins, Ends, Heights
  <2>2. Len(route) = 3
    BY <2>1, RouteSequence
  <2>3. Head(route) = route[1]
    BY <2>1, RouteFunction
  <2>4. route \in [1 .. 3 -> Points]
    BY <2>1, RouteFunction
  <2>5. Expected(end) \in {"land", "loiter"}
    BY DEF Expected
  <2>6. /\ waypoints' = route /\ goal' = Head(route) /\ vmode' = "waypoint"
        /\ trip' = [from |-> pos, route |-> route, expected |-> Expected(end)]
        /\ pos' = pos
    BY <1>3 DEF Begins
  <2> HIDE DEF route, final
  <2>7. trip' # None /\ trip'.route = route /\ trip'.from = pos
    <3>1. trip' \in Trips
      BY <2>6, <2>4, <2>5 DEF Trips, TypeOK
    <3> QED BY <2>6, <3>1, NoneAssumption
  <2>8. Leg' = 1 /\ Len(waypoints') = 3
    BY <2>2, <2>6 DEF Leg
  <2>9. goal' = trip'.route[Leg']
    BY <2>3, <2>6, <2>7, <2>8
  <2>10. \A i \in 1 .. Len(waypoints') : waypoints'[i] = trip'.route[3 - Len(waypoints') + i]
    BY <2>6, <2>7, <2>8
  <2>11. pos' \in Between(trip'.from, goal')
    BY <2>6, <2>7, LegEnds DEF TypeOK
  <2> QED BY <2>6, <2>7, <2>8, <2>9, <2>10, <2>11 DEF OnRoute
<1>4. ASSUME Turning, NextWaypoint, UNCHANGED <<pos, trip>> PROVE OnRoute'
  <2> DEFINE n == Len(waypoints)
  <2>1. /\ vmode' = "waypoint" /\ trip # None /\ trip' = trip /\ pos' = pos /\ pos = goal
        /\ waypoints # <<>>
    BY <1>4 DEF Turning, NextWaypoint, OnRoute
  <2>2. /\ n \in 1 .. 3 /\ Len(waypoints') = n - 1
        /\ goal' = waypoints[1]
        /\ \A i \in 1 .. n - 1 : waypoints'[i] = waypoints[i + 1]
    <3>1. n \in Nat /\ n # 0 /\ n <= 3
      BY <2>1 DEF TypeOK
    <3> QED BY <1>4, <2>1, <3>1, NextWaypointType
  <2>3. \A i \in 1 .. n : waypoints[i] = trip.route[3 - n + i]
    BY <2>1 DEF OnRoute
  <2>4. \A i \in 1 .. n - 1 : waypoints'[i] = trip.route[3 - (n - 1) + i]
    BY <2>2, <2>3
  <2>5. goal' = trip.route[4 - n]
    BY <2>2, <2>3
  <2>6. Leg' = 4 - n /\ Leg' \in 1 .. 3
    BY <2>2 DEF Leg
  <2>7. pos' \in Between(IF Leg' = 1 THEN trip.from ELSE trip.route[Leg' - 1], goal')
    <3>1. CASE n = 3
      <4>1. Leg = 1 /\ goal = trip.route[1] /\ pos \in Between(trip.from, goal)
        BY <2>1, <3>1 DEF OnRoute, Leg
      <4> QED BY <2>1, <2>5, <2>6, <3>1, <4>1
    <3>2. CASE n \in 1 .. 2
      <4>1. Leg = 3 - n /\ goal = trip.route[3 - n]
        BY <2>1, <3>2 DEF OnRoute, Leg
      <4>2. goal \in Points /\ goal' \in Points
        BY DEF TypeOK
      <4>3. pos \in Between(goal, goal')
        BY <2>1, <4>2, LegEnds
      <4>4. Leg' # 1 /\ Leg' - 1 = Leg
        <5>1. PICK k \in 1 .. 2 : k = n
          BY <3>2
        <5>2. Leg = 3 - k /\ Leg' = 4 - k
          BY <2>6, <4>1, <5>1
        <5> QED BY <5>2
      <4> QED BY <2>1, <4>1, <4>3, <4>4
    <3> QED BY <2>2, <3>1, <3>2
  <2> QED BY <2>1, <2>2, <2>4, <2>5, <2>6, <2>7 DEF OnRoute
<1>5. CASE Fly
  <2>1. UNCHANGED <<vmode, goal, waypoints, trip>>
    BY <1>5 DEF Fly, vehicle
  <2>2. CASE trip = None
    BY <2>1, <2>2 DEF OnRoute
  <2>3. CASE trip # None
    <3> DEFINE prev == IF Leg = 1 THEN trip.from ELSE trip.route[Leg - 1]
    <3>1. vmode = "waypoint" /\ Leg \in 1 .. 3 /\ pos \in Between(prev, goal)
      BY <2>3 DEF OnRoute
    <3>2. trip \in Trips /\ prev \in Points
      BY <2>3, <3>1 DEF TypeOK, Trips
    <3>3. pos' \in Between(pos, goal)
      BY <1>5, <3>1 DEF Fly
    <3>4. pos' \in Between(prev, goal)
      BY <3>1, <3>2, <3>3, LegGoesOn DEF TypeOK
    <3>5. Leg' = Leg
      BY <2>1 DEF Leg
    <3> QED BY <2>1, <2>3, <3>4, <3>5 DEF OnRoute
  <2> QED BY <2>2, <2>3
<1> QED BY <1>1, <1>2, <1>3, <1>4, <1>5, StepKinds

LEMMA InitRoute == Init => OnRoute /\ TripLevel
BY DEF Init, OnRoute, TripLevel

\* On every return home the vehicle is on the leg between two consecutive points of
\* that return, whatever was flown before and whoever took the waypoints.
THEOREM RouteKept == Spec => []OnRoute
BY InitRoute, NextOnRoute, TypeCorrect, PTL DEF Spec

-----------------------------------------------------------------------------
(* The way home: no lower than its beginning, but for what home lies below *)
(* zero, and left at its own height only.                                  *)
Slack == IF HomeHeight < 0 THEN HomeHeight ELSE 0

TripHigh == trip # None => trip.route[1].height >= trip.from.height + Slack

LEMMA ReturnIsHigh == ASSUME TypeOK, NEW least \in Heights
                      PROVE  ReturnHeight(least) >= pos.height + Slack
<1>1. pos.height \in Int /\ least \in Int /\ HomeHeight \in Int
  BY DEF TypeOK, Points, Heights
<1> QED BY <1>1 DEF ReturnHeight, Slack

LEMMA NextTripHigh == TypeOK /\ TripHigh /\ [Next]_vars => TripHigh'
<1> SUFFICES ASSUME TypeOK, TripHigh, [Next]_vars PROVE TripHigh'
  OBVIOUS
<1>1. CASE trip' = trip \/ trip' = None
  BY <1>1 DEF TripHigh
<1>2. ASSUME NEW least \in Heights, NEW end \in Ends, Begins(least, end) PROVE TripHigh'
  <2> DEFINE final == IF end = None THEN HomeHeight ELSE HomeHeight + end
  <2>1. /\ trip'.from = pos
        /\ trip'.route = ReturnRoute(ReturnHeight(least), final)
    BY <1>2 DEF Begins
  <2>2. trip'.route[1] = At(pos.place, ReturnHeight(least))
    BY <2>1 DEF ReturnRoute
  <2> QED BY <2>1, <2>2, ReturnIsHigh DEF TripHigh, At
<1> QED BY <1>1, <1>2, StepKinds DEF Fly

LEMMA LevelStep == TypeOK /\ OnRoute /\ TripLevel /\ [Next]_vars =>
                     (trip # None /\ pos'.place # pos.place =>
                        pos.height = trip.route[2].height /\ pos'.height = pos.height)
<1> SUFFICES ASSUME TypeOK, OnRoute, TripLevel, [Next]_vars, trip # None,
                    pos'.place # pos.place
             PROVE  pos.height = trip.route[2].height /\ pos'.height = pos.height
  OBVIOUS
<1>1. Fly
  BY StepKinds DEF Begins
<1>2. /\ vmode = "waypoint" /\ Leg \in 1 .. 3 /\ goal = trip.route[Leg]
      /\ pos \in Between(IF Leg = 1 THEN trip.from ELSE trip.route[Leg - 1], goal)
  BY DEF OnRoute
<1>3. pos' \in Between(pos, goal)
  BY <1>1, <1>2 DEF Fly
<1>4. /\ trip.route[1].place = trip.from.place
      /\ trip.route[2].place = HomePlace /\ trip.route[2].height = trip.route[1].height
      /\ trip.route[3].place = HomePlace
  BY DEF TripLevel, At
<1>5. /\ trip.from \in Points /\ trip.route[1] \in Points
      /\ trip.route[2] \in Points /\ trip.route[3] \in Points
  BY DEF TypeOK, Trips
<1>6. CASE Leg = 1
  BY <1>2, <1>3, <1>4, <1>6 DEF Between
<1>7. CASE Leg = 2
  <2>1. pos \in Between(trip.route[1], trip.route[2]) /\ goal = trip.route[2]
    BY <1>2, <1>7
  <2> QED BY <1>3, <1>4, <1>5, <2>1 DEF Between, Points, Heights
<1>8. CASE Leg = 3
  <2>1. pos \in Between(trip.route[2], trip.route[3]) /\ goal = trip.route[3]
    BY <1>2, <1>8
  <2> QED BY <1>3, <1>4, <2>1 DEF Between
<1> QED BY <1>2, <1>6, <1>7, <1>8

\* A vehicle on its way home climbs first and descends last: it leaves a place only
\* at the height chosen for the way, which is lower than where it was called back by
\* no more than home lies below zero. Home may be anywhere in the heights there are.
THEOREM FliesHomeLevel == Spec => LevelReturn
<1>1. TypeOK /\ OnRoute /\ TripLevel /\ TripHigh /\ [Next]_vars =>
        [trip # None /\ pos'.place # pos.place =>
           /\ pos.height = trip.route[2].height /\ pos'.height = pos.height
           /\ pos.height >= trip.from.height + Slack]_vars
  <2>1. TypeOK /\ OnRoute /\ TripLevel /\ TripHigh /\ [Next]_vars /\ trip # None /\ pos'.place # pos.place =>
          /\ pos.height = trip.route[2].height /\ pos'.height = pos.height
          /\ pos.height >= trip.from.height + Slack
    BY LevelStep DEF TripHigh, TripLevel, At
  <2> QED BY <2>1
<1>2. Spec => []TripLevel
  BY InitRoute, NextTripLevel, TypeCorrect, PTL DEF Spec
<1>3. Init => TripHigh
  BY DEF Init, TripHigh
<1>4. Spec => []TripHigh
  BY <1>3, NextTripHigh, TypeCorrect, PTL DEF Spec
<1> QED BY <1>1, <1>2, <1>4, TypeCorrect, RouteKept, PTL DEF Spec, LevelReturn, Slack

-----------------------------------------------------------------------------
(* The reported mode. *)
LEMMA NextMode == TypeOK /\ MotionMatchesMode /\ [Next]_vars => MotionMatchesMode'
<1> SUFFICES ASSUME TypeOK, MotionMatchesMode, [Next]_vars PROVE MotionMatchesMode'
  OBVIOUS
<1> USE DEF MotionMatchesMode
<1>0. None \notin {"position", "velocity", "gimbal"}
  BY NoneAssumption DEF Setpoints
<1>1. CASE UNCHANGED vars
  BY <1>1 DEF vars, vehicle, info
<1>2. CASE TakeOff \/ Land
  BY <1>0, <1>2 DEF TakeOff, Land, PositionTarget, Flight, At
<1>3. CASE Hold
  BY <1>0, <1>3 DEF Hold, VelocityTarget, Flight
<1>4. CASE Kill
  BY <1>0, <1>4 DEF Kill, Flight, vehicle
<1>5. ASSUME NEW least \in Heights, NEW end \in Ends, ReturnToHome(least, end)
      PROVE  MotionMatchesMode'
  BY <1>0, <1>5 DEF ReturnToHome, WaypointTarget, Flight
<1>6. CASE SetPositionTarget \/ SetVelocityTarget
  BY <1>6 DEF SetPositionTarget, SetVelocityTarget, PositionTarget, VelocityTarget, Guided
<1>7. CASE SetGimbalTarget
  BY <1>7 DEF SetGimbalTarget, vehicle
<1>8. CASE Turn \/ (Telemetry /\ Turning)
  BY <1>8 DEF Turn, Telemetry, Turning, NextWaypoint, info
<1>9. CASE Fly
  BY <1>9 DEF Fly, Between, vehicle, info
<1>10. CASE Telemetry /\ ~Turning
  BY <1>10 DEF Telemetry, vehicle, info
<1> QED BY <1>1, <1>2, <1>3, <1>4, <1>5, <1>6, <1>7, <1>8, <1>9, <1>10 DEF Next, Call, Tick

\* What the vehicle does is what its reported mode says.
THEOREM ModeIsHonest == Spec => []MotionMatchesMode
<1>1. Init => MotionMatchesMode
  BY NoneAssumption DEF Init, MotionMatchesMode, Setpoints
<1> QED BY <1>1, NextMode, TypeCorrect, PTL DEF Spec

-----------------------------------------------------------------------------
(* The refinement. *)
LegNow == IF vmode = "waypoint" THEN Leg ELSE 1

LEMMA RouteIsSequence == ASSUME NEW f \in [1 .. 3 -> Points]
                         PROVE  f \in Seq(Points) /\ Len(f) = 3
<1>1. f \in Seq(Points)
  <2>1. [1 .. 3 -> Points] \in {[1 .. n -> Points] : n \in Nat}
    OBVIOUS
  <2> QED BY <2>1, SeqDef, Zenon
<1>2. DOMAIN f = 1 .. 3 /\ DOMAIN f = 1 .. Len(f) /\ Len(f) \in Nat
  BY <1>1, LenProperties
<1> QED BY <1>1, <1>2

LEMMA TripRoute == ASSUME NEW t \in Trips
                   PROVE  t.route \in Seq(Points) /\ Len(t.route) = 3
BY RouteIsSequence DEF Trips

LEMMA InitFollows == Init => Follower!Init
BY HomeType DEF Init, Follower!Init, Plan

LEMMA BeginsLeg == ASSUME TypeOK, NEW least \in Heights, NEW end \in Ends, Begins(least, end)
                   PROVE  Leg' = 1
<1>1. /\ ReturnHeight(least) \in Heights
      /\ (IF end = None THEN HomeHeight ELSE HomeHeight + end) \in Heights
  BY DEF Begins, Ends, Heights
<1>2. Len(waypoints') = 3
  BY <1>1, RouteSequence DEF Begins
<1> QED BY <1>2 DEF Leg

LEMMA NextFollows == TypeOK /\ TypeOK' /\ OnRoute /\ OnRoute' /\ [Next]_vars =>
                       [Follower!Next]_(Follower!vars)
<1> SUFFICES ASSUME TypeOK, TypeOK', OnRoute, OnRoute', [Next]_vars
             PROVE  Follower!Next \/ (pos' = pos /\ Plan' = Plan /\ LegNow' = LegNow)
  BY DEF Follower!vars, LegNow
<1> USE DEF LegNow
<1>1. CASE UNCHANGED <<pos, vehicle, trip>>
  BY <1>1 DEF vehicle, Plan, Leg
<1>2. CASE trip' = None /\ vmode' # "waypoint" /\ pos' = pos
  <2>1. Plan' \in Seq(Points)
    BY <1>2 DEF Plan, TypeOK
  <2> QED BY <1>2, <2>1 DEF Follower!Next, Follower!Order
<1>3. ASSUME NEW least \in Heights, NEW end \in Ends, Begins(least, end)
      PROVE  Follower!Next
  <2>1. vmode' = "waypoint" /\ trip' # None /\ pos' = pos
    BY <1>3 DEF Begins, OnRoute
  <2>2. Plan' = trip'.route
    BY <2>1 DEF Plan
  <2>3. Plan' \in Seq(Points)
    <3>1. trip' \in Trips
      BY <2>1 DEF TypeOK
    <3> QED BY <2>2, <3>1, TripRoute
  <2>4. LegNow' = 1
    BY <1>3, <2>1, BeginsLeg
  <2> QED BY <2>1, <2>3, <2>4 DEF Follower!Next, Follower!Order
<1>4. CASE Turning /\ NextWaypoint /\ UNCHANGED <<pos, trip>>
  <2> DEFINE n == Len(waypoints)
  <2>1. /\ vmode = "waypoint" /\ vmode' = "waypoint" /\ trip # None
        /\ trip' = trip /\ pos' = pos /\ pos = goal /\ waypoints # <<>>
    BY <1>4 DEF Turning, NextWaypoint, OnRoute
  <2>2. n \in 1 .. 3 /\ Len(waypoints') = n - 1
    <3>1. n \in Nat /\ n # 0 /\ n <= 3
      BY <2>1 DEF TypeOK
    <3> QED BY <1>4, <2>1, <3>1, NextWaypointType
  <2>3. Plan = trip.route /\ Plan' = Plan
    BY <2>1 DEF Plan
  <2>4. pos = Plan[LegNow] /\ LegNow = Leg /\ LegNow' = Leg'
    BY <2>1, <2>3 DEF OnRoute
  <2>5. Len(Plan) = 3
    BY <2>1, <2>3, TripRoute DEF TypeOK
  <2>6. CASE n = 3
    BY <2>1, <2>2, <2>3, <2>4, <2>6 DEF Leg
  <2>7. CASE n \in 1 .. 2
    <3>1. PICK k \in 1 .. 2 : k = n
      BY <2>7
    <3>2. Leg = 3 - k /\ Leg' = 4 - k
      <4>1. Len(waypoints) = k /\ Len(waypoints') = k - 1
        BY <2>2, <3>1
      <4>2. k = 1 \/ k = 2
        OBVIOUS
      <4>3. k - 1 # 3 /\ 3 - (k - 1) = 4 - k
        BY <4>2
      <4> QED BY <4>1, <4>2, <4>3 DEF Leg
    <3>3. LegNow < Len(Plan) /\ LegNow' = LegNow + 1
      BY <2>4, <2>5, <3>2
    <3> QED BY <2>1, <2>3, <2>4, <3>3 DEF Follower!Next, Follower!Turn
  <2> QED BY <2>2, <2>6, <2>7
<1>5. CASE Fly
  <2>1. UNCHANGED <<vmode, goal, waypoints, trip>>
    BY <1>5 DEF Fly, vehicle
  <2>2. Plan' = Plan /\ LegNow' = LegNow
    BY <2>1 DEF Plan, Leg
  <2>3. CASE vmode = "position"
    <3>1. Plan = <<goal>> /\ LegNow = 1
      BY <2>3 DEF Plan
    <3>2. pos' \in Between(pos, Plan[LegNow]) /\ Plan # <<>>
      BY <1>5, <2>3, <3>1 DEF Fly
    <3> QED BY <2>2, <3>2 DEF Follower!Next, Follower!Follow
  <2>4. CASE vmode = "waypoint"
    <3>1. trip # None /\ Plan = trip.route /\ LegNow = Leg /\ goal = trip.route[Leg]
      BY <2>4 DEF Plan, OnRoute
    <3>2. Plan # <<>>
      <4>1. Len(Plan) = 3
        BY <3>1, TripRoute DEF TypeOK
      <4> QED BY <4>1
    <3>3. pos' \in Between(pos, Plan[LegNow])
      BY <1>5, <2>4, <3>1 DEF Fly
    <3> QED BY <2>2, <3>2, <3>3 DEF Follower!Next, Follower!Follow
  <2>5. CASE vmode = "velocity"
    <3>1. Plan = <<>> /\ pos' \in Points
      BY <1>5, <2>5 DEF Plan, TypeOK
    <3> QED BY <2>2, <3>1 DEF Follower!Next, Follower!Roam
  <2> QED BY <2>3, <2>4, <2>5 DEF TypeOK
<1> QED BY <1>1, <1>2, <1>3, <1>4, <1>5, StepKinds DEF Follower!Next

\* Whatever is called and whenever telemetry is read, the vehicle flies its points
\* one by one: it implements RouteFollower.
THEOREM Refinement == Spec => FollowsRoutes
<1>1. Init => Follower!Init
  BY InitFollows
<1>2. TypeOK /\ TypeOK' /\ OnRoute /\ OnRoute' /\ [Next]_vars => [Follower!Next]_(Follower!vars)
  BY NextFollows
<1> QED BY <1>1, <1>2, TypeCorrect, RouteKept, PTL DEF Spec, FollowsRoutes, Follower!Spec
=============================================================================
