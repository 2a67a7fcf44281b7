----------------------------- MODULE AviaryThreads -----------------------------
(***************************************************************************)
(* Vehicle (vehicle.py) under the threads that use it without a lock: the  *)
(* simulation's task, which calls move; the threads of the gRPC pool that  *)
(* stream telemetry, which call get_velocity too; and those that serve     *)
(* Control. One action is what a Python thread does between two accesses   *)
(* to an attribute another thread writes or reads. AviaryVehicle has the   *)
(* whole methods; speeds, poses and reports are left to it.                *)
(*                                                                         *)
(* There are four points: 0, away from home and low, 1, above it at the    *)
(* height to fly home at, 2, above home at that height, and 3, home, where *)
(* the vehicle is at first. What is between two of them counts as the one  *)
(* the vehicle comes from.                                                 *)
(***************************************************************************)
EXTENDS Naturals, Sequences

CONSTANTS
  Calls,    \* threads that serve Control
  Readers,  \* threads that stream telemetry
  Sim,      \* the thread of the simulation
  MaxCalls, \* bound: how many calls clients make
  None      \* no call

Movers  == Readers \cup {Sim}
Threads == Calls \cup Movers

\* TakeOff, Land and both position calls set a position target; Kill and the
\* gimbal calls leave the motion alone.
Kinds    == {"position", "velocity", "hold", "rth"}
Points   == 0 .. 3
Requests == [kind : Kinds, point : Points]

ASSUME ThreadsAssumption ==
  Calls \cap Movers = {} /\ MaxCalls \in Nat /\ None \notin Kinds \cup Requests

VARIABLES
  pc,         \* where each thread stands; "dead" after an exception
  pick,       \* the point a thread holds in a local variable; 3 if it needs none
  op,         \* the kind of call a thread serves
  todo,       \* the waypoints set_waypoint_target still has to append
  vmode,      \* Vehicle.mode
  goal,       \* Vehicle.position_target
  drift,      \* Vehicle.velocity_target: "still" or "moving"
  waypoints,  \* Vehicle.waypoints
  pos,        \* the camera's position
  wanted,     \* observer: what the last call asked for; None if it met another
              \* call, was overtaken by a thread that follows a route, or failed
  robbed,     \* observer: the queue was emptied since the simulation looked at it
  calls       \* the calls made so far

locals   == <<pc, pick, op, todo>>
vehicle  == <<vmode, goal, drift, waypoints>>
observed == <<wanted, robbed, calls>>
vars == <<locals, vehicle, pos, observed>>

Goto(t, point) == pc' = [pc EXCEPT ![t] = point]
Keep(t, p) == pick' = [pick EXCEPT ![t] = p]
Return(t) == Goto(t, "idle") /\ op' = [op EXCEPT ![t] = None]

Init ==
  /\ pc = [t \in Threads |-> "idle"]
  /\ pick = [t \in Threads |-> 3]
  /\ op = [t \in Threads |-> None]
  /\ todo = [c \in Calls |-> <<>>]
  /\ vmode = "position" /\ goal = 3 /\ drift = "still" /\ waypoints = <<>>
  /\ pos = 3
  /\ wanted = None /\ robbed = FALSE /\ calls = 0

-----------------------------------------------------------------------------
(* get_velocity: self.mode is read once or twice, then the position, then  *)
(* the target.                                                             *)
\* Faulty: what is not POSITION is taken for WAYPOINT.
ReadMode_Once(m) ==
  /\ pc[m] = "idle" /\ Goto(m, IF vmode = "position" THEN "position" ELSE "waypoint")
  /\ UNCHANGED <<pick, op, todo, vehicle, pos, observed>>

ReadMode(m) ==
  /\ \/ pc[m] = "idle" /\ Goto(m, IF vmode = "position" THEN "position" ELSE "mode2")
     \/ pc[m] = "mode2" /\ Goto(m, IF vmode = "velocity" THEN "velocity" ELSE "waypoint")
  /\ UNCHANGED <<pick, op, todo, vehicle, pos, observed>>

\* A reader is done once it has its velocity, the simulation then moves.
Leave(m) == IF m = Sim THEN "move" ELSE "idle"

ReadPosition(m) ==
  /\ \/ pc[m] = "position" /\ Goto(m, "towards") /\ UNCHANGED pick
     \/ pc[m] = "waypoint" /\ Goto(m, "reached") /\ Keep(m, pos)
  /\ UNCHANGED <<op, todo, vehicle, pos, observed>>

ReadTarget(m) ==
  /\ \/ pc[m] = "towards" /\ Goto(m, Leave(m))
     \/ pc[m] = "reached" /\ Goto(m, IF goal = pick[m] THEN "pending" ELSE Leave(m))
  /\ Keep(m, IF pc'[m] = "move" THEN goal ELSE 3)
  /\ UNCHANGED <<op, todo, vehicle, pos, observed>>

ReadVelocity(m) ==
  /\ pc[m] = "velocity"
  /\ Goto(m, IF drift = "moving" /\ m = Sim THEN "roam" ELSE "idle")
  /\ UNCHANGED <<pick, op, todo, vehicle, pos, observed>>

\* Faulty: the last waypoint is not noticed.
CheckPending_Skipped(m) ==
  /\ pc[m] = "pending"
  /\ Goto(m, "pop")
  /\ robbed' = (robbed /\ m # Sim)
  /\ UNCHANGED <<pick, op, todo, vehicle, pos, wanted, calls>>

\* Line 373: is a waypoint left?
CheckPending(m) ==
  /\ pc[m] = "pending"
  /\ Goto(m, IF waypoints = <<>> THEN "idle" ELSE "pop")
  /\ robbed' = (robbed /\ m # Sim)
  /\ UNCHANGED <<pick, op, todo, vehicle, pos, wanted, calls>>

\* Line 379: popleft raises when another thread has emptied the queue.
Pop(m) ==
  /\ pc[m] = "pop"
  /\ IF waypoints = <<>>
       THEN Goto(m, "dead") /\ UNCHANGED <<pick, waypoints>>
       ELSE Goto(m, "target") /\ Keep(m, Head(waypoints)) /\ waypoints' = Tail(waypoints)
  /\ robbed' = (robbed \/ (m # Sim /\ waypoints' = <<>>))
  /\ UNCHANGED <<op, todo, vmode, goal, drift, pos, wanted, calls>>

-----------------------------------------------------------------------------
(* move: the step towards the target, which may fall short of it.          *)
FallShort ==
  /\ pc[Sim] = "move"
  /\ Goto(Sim, "idle") /\ Keep(Sim, 3)
  /\ UNCHANGED <<op, todo, vehicle, pos, observed>>

Arrive ==
  /\ pc[Sim] = "move"
  /\ Goto(Sim, "idle") /\ Keep(Sim, 3)
  /\ pos' = pick[Sim]
  /\ UNCHANGED <<op, todo, vehicle, observed>>

Roam ==
  /\ pc[Sim] = "roam"
  /\ Goto(Sim, "idle")
  /\ pos' \in Points
  /\ UNCHANGED <<pick, op, todo, vehicle, observed>>

-----------------------------------------------------------------------------
(* The Control calls.                                                      *)
\* A thread that follows a route, or may find itself doing so: it writes the target
\* and the mode from what it has read.
Following(m) ==
  pc[m] \in {"mode2", "waypoint", "reached", "pending", "pop", "target", "position mode",
             "waypoint mode"}

Accept(c) ==
  /\ pc[c] = "idle" /\ calls < MaxCalls
  /\ \E r \in Requests :
       /\ r.kind # "position" => r.point = 3
       /\ wanted' = IF \E d \in Calls : pc[d] # "idle" THEN None ELSE r
       /\ op' = [op EXCEPT ![c] = r.kind]
       /\ Goto(c, CASE r.kind = "position" -> "target"
                    [] r.kind = "rth"      -> "plan"
                    [] OTHER               -> "drift")
       /\ Keep(c, r.point)
  /\ calls' = calls + 1
  /\ UNCHANGED <<todo, vehicle, pos, robbed>>

\* Lines 148-175 of steeleagle.py.
ReturnRoute(p) == <<IF p <= 1 THEN 1 ELSE 2, 2, 3>>

PlanReturn(c) ==
  /\ pc[c] = "plan"
  /\ todo' = [todo EXCEPT ![c] = ReturnRoute(pos)]
  /\ Goto(c, "clear")
  /\ UNCHANGED <<pick, op, vehicle, pos, observed>>

Clear(c) ==
  /\ pc[c] = "clear"
  /\ waypoints' = <<>>
  /\ robbed' = TRUE
  /\ Goto(c, "append")
  /\ UNCHANGED <<pick, op, todo, vmode, goal, drift, pos, wanted, calls>>

AppendNext(c) ==
  /\ pc[c] = "append" /\ todo[c] # <<>>
  /\ waypoints' = Append(waypoints, Head(todo[c]))
  /\ todo' = [todo EXCEPT ![c] = Tail(@)]
  /\ UNCHANGED <<pc, pick, op, vmode, goal, drift, pos, observed>>

\* Line 245: waypoints[0] raises when the queue is empty again.
ReadFirst(c) ==
  /\ pc[c] = "append" /\ todo[c] = <<>>
  /\ IF waypoints = <<>>
       THEN Return(c) /\ wanted' = None /\ UNCHANGED pick
       ELSE Goto(c, "target") /\ Keep(c, Head(waypoints)) /\ UNCHANGED <<op, wanted>>
  /\ UNCHANGED <<todo, vehicle, pos, robbed, calls>>

SetDrift(c) ==
  /\ pc[c] = "drift"
  /\ drift' = IF op[c] = "velocity" THEN "moving" ELSE "still"
  /\ Goto(c, "velocity mode")
  /\ UNCHANGED <<pick, op, todo, vmode, goal, waypoints, pos, observed>>

SetVelocityMode(c) ==
  /\ pc[c] = "velocity mode"
  /\ vmode' = "velocity"
  /\ Return(c)
  /\ wanted' = IF \E m \in Movers : Following(m) THEN None ELSE wanted
  /\ UNCHANGED <<pick, todo, goal, drift, waypoints, pos, robbed, calls>>

-----------------------------------------------------------------------------
(* set_position_target, and WAYPOINT re-applied where a route is followed. *)
\* Faulty: WAYPOINT is applied whoever sets a target.
Follows_Always(t) == TRUE

\* Who applies it: a return, and get_velocity.
Follows(t) == t \in Calls => op[t] = "rth"

SetTarget(t) ==
  /\ pc[t] = "target"
  /\ goal' = pick[t]
  /\ Goto(t, "position mode") /\ Keep(t, 3)
  /\ wanted' = IF t \in Movers /\ \E c \in Calls : pc[c] = "position mode" /\ ~Follows(c)
                 THEN None ELSE wanted
  /\ UNCHANGED <<op, todo, vmode, drift, waypoints, pos, robbed, calls>>

SetPositionMode(t) ==
  /\ pc[t] = "position mode"
  /\ vmode' = "position"
  /\ IF Follows(t) THEN Goto(t, "waypoint mode") /\ UNCHANGED op ELSE Return(t)
  /\ wanted' = IF ~Follows(t) /\ \E m \in Movers : Following(m) THEN None ELSE wanted
  /\ UNCHANGED <<pick, todo, goal, drift, waypoints, pos, robbed, calls>>

SetWaypointMode(t) ==
  /\ pc[t] = "waypoint mode"
  /\ vmode' = "waypoint"
  /\ Return(t)
  /\ UNCHANGED <<pick, todo, goal, drift, waypoints, pos, observed>>

-----------------------------------------------------------------------------
Target(t) == SetTarget(t) \/ SetPositionMode(t) \/ SetWaypointMode(t)

GetVelocity(m) ==
  \/ ReadMode(m) \/ ReadPosition(m) \/ ReadTarget(m) \/ ReadVelocity(m)
  \/ CheckPending(m) \/ Pop(m) \/ Target(m)

Handle(c) ==
  \/ PlanReturn(c) \/ Clear(c) \/ AppendNext(c) \/ ReadFirst(c)
  \/ SetDrift(c) \/ SetVelocityMode(c) \/ Target(c)

Move == FallShort \/ Arrive \/ Roam

Next ==
  \/ \E m \in Movers : GetVelocity(m)
  \/ Move
  \/ \E c \in Calls : Accept(c) \/ Handle(c)

Spec == Init /\ [][Next]_vars

-----------------------------------------------------------------------------
Idle == \A c \in Calls : pc[c] = "idle"

CallPoints ==
  {"idle", "plan", "clear", "append", "drift", "velocity mode", "target", "position mode",
   "waypoint mode"}
MoverPoints ==
  {"idle", "mode2", "position", "velocity", "waypoint", "towards", "reached", "pending", "pop",
   "move", "roam", "target", "position mode", "waypoint mode", "dead"}

\* The variables are in range, and a thread is only where its work leads it.
TypeOK ==
  /\ pc \in [Threads -> CallPoints \cup MoverPoints]
  /\ \A c \in Calls :
       /\ pc[c] \in CallPoints
       /\ pc[c] \in {"plan", "clear", "append", "waypoint mode"} => op[c] = "rth"
       /\ pc[c] \in {"drift", "velocity mode"} => op[c] \in {"velocity", "hold"}
       /\ pc[c] \in {"target", "position mode"} => op[c] \in {"position", "rth"}
  /\ \A m \in Movers : pc[m] \in MoverPoints
  /\ pick \in [Threads -> Points]
  /\ op \in [Threads -> Kinds \cup {None}]
  /\ todo \in [Calls -> Seq(Points)]
  /\ vmode \in {"position", "velocity", "waypoint"}
  /\ goal \in Points /\ pos \in Points
  /\ drift \in {"still", "moving"}
  /\ waypoints \in Seq(Points)
  /\ wanted \in Requests \cup {None} /\ robbed \in BOOLEAN
  /\ calls \in 0 .. MaxCalls

\* Whatever calls that met or were overtaken have left behind, the next call wins
\* that meets no other and is not overtaken: once it is answered, and until the next
\* one, the vehicle has the mode and the target it asked for, however the threads
\* that read the velocity, and write mode and target on a route, go on meanwhile
\* (vehicle.py:351-381). Hold answers that the vehicle will be holding
\* (steeleagle.py:131-132).
LastCallWins ==
  Idle /\ wanted # None =>
    CASE wanted.kind = "position" -> vmode = "position" /\ goal = wanted.point
      [] wanted.kind = "velocity" -> vmode = "velocity" /\ drift = "moving"
      [] wanted.kind = "hold"     -> vmode = "velocity" /\ drift = "still"
      [] wanted.kind = "rth"      -> vmode = "waypoint"
                                       \/ \E m \in Movers : pc[m] = "waypoint mode"

\* The simulation's task ends only if another thread has emptied the queue between
\* its look at line 373 and its popleft at line 379: "the final waypoint has been
\* reached" (vehicle.py:374) ends a route, and not the simulation.
SurvivesUnlessRobbed == pc[Sim] = "dead" => robbed

\* "The vehicle will visit each waypoint in order" (vehicle.py:231): it takes a
\* new target only where the last one is, and never skips or repeats a point.
InOrder ==
  [][\A m \in Movers : SetTarget(m) => pos = goal /\ goal' \in {goal, goal + 1}]_vars
=============================================================================
