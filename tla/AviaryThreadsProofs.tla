--------------------------- MODULE AviaryThreadsProofs ---------------------------
(***************************************************************************)
(* Proofs about AviaryThreads, for any number of threads and calls.        *)
(***************************************************************************)
EXTENDS AviaryThreads, SequenceTheorems, TLAPS

LEMMA RouteType == ASSUME NEW p \in Points PROVE ReturnRoute(p) \in Seq(Points)
BY DEF ReturnRoute, Points

LEMMA HomeIsPoint == 3 \in Points
BY DEF Points

LEMMA HeadTailType ==
  ASSUME NEW s \in Seq(Points), s # <<>>
  PROVE  Head(s) \in Points /\ Tail(s) \in Seq(Points)
BY HeadTailProperties

LEMMA OneMore ==
  ASSUME calls \in 0 .. MaxCalls, calls < MaxCalls
  PROVE  calls + 1 \in 0 .. MaxCalls
BY ThreadsAssumption

LEMMA InitType == Init => TypeOK
<1> SUFFICES ASSUME Init PROVE TypeOK
  OBVIOUS
<1>1. pc \in [Threads -> {"idle"}] /\ pick \in [Threads -> {3}]
  BY DEF Init
<1>2. op \in [Threads -> {None}] /\ todo \in [Calls -> Seq(Points)]
  BY DEF Init
<1>3. waypoints \in Seq(Points) /\ 3 \in Points /\ 0 \in 0 .. MaxCalls
  BY ThreadsAssumption DEF Init, Points
<1> QED
  BY <1>1, <1>2, <1>3 DEF Init, TypeOK, Threads, CallPoints, MoverPoints

LEMMA TargetType == ASSUME TypeOK, NEW t \in Threads, Target(t) PROVE TypeOK'
<1> USE ThreadsAssumption
    DEF TypeOK, Threads, Goto, Keep, Return, Follows, locals, vehicle, observed, CallPoints,
        MoverPoints
<1>0. 3 \in Points
  BY HomeIsPoint
<1>1. CASE SetTarget(t)
  BY <1>0, <1>1 DEF SetTarget
<1>2. CASE SetPositionMode(t)
  BY <1>2 DEF SetPositionMode
<1>3. CASE SetWaypointMode(t)
  BY <1>3 DEF SetWaypointMode
<1> QED BY <1>1, <1>2, <1>3 DEF Target

\* What a thread that reads its way through get_velocity does to the state.
LEMMA MoverType == ASSUME TypeOK, NEW m \in Movers, GetVelocity(m) PROVE TypeOK'
<1> USE ThreadsAssumption
    DEF TypeOK, Threads, Goto, Keep, locals, vehicle, observed, CallPoints, MoverPoints
<1>0. m \in Threads /\ m \notin Calls /\ 3 \in Points
  BY HomeIsPoint
<1>1. CASE ReadMode(m)
  BY <1>0, <1>1 DEF ReadMode
<1>2. CASE ReadPosition(m)
  BY <1>0, <1>2 DEF ReadPosition
<1>3. CASE ReadTarget(m)
  BY <1>0, <1>3 DEF ReadTarget, Leave
<1>4. CASE ReadVelocity(m)
  BY <1>0, <1>4 DEF ReadVelocity
<1>5. CASE CheckPending(m)
  BY <1>0, <1>5 DEF CheckPending
<1>6. CASE Pop(m)
  <2>1. CASE waypoints = <<>>
    BY <1>0, <1>6, <2>1 DEF Pop
  <2>2. CASE waypoints # <<>>
    <3>1. Head(waypoints) \in Points /\ Tail(waypoints) \in Seq(Points)
      BY <2>2, HeadTailType
    <3> QED BY <1>0, <1>6, <2>2, <3>1 DEF Pop
  <2> QED BY <2>1, <2>2
<1>7. CASE Target(m)
  BY <1>0, <1>7, TargetType
<1> QED BY <1>1, <1>2, <1>3, <1>4, <1>5, <1>6, <1>7 DEF GetVelocity

LEMMA MoveType == ASSUME TypeOK, Move PROVE TypeOK'
<1> USE ThreadsAssumption
    DEF TypeOK, Threads, Movers, Goto, Keep, locals, vehicle, observed, CallPoints, MoverPoints
<1>0. 3 \in Points
  BY HomeIsPoint
<1>1. CASE FallShort
  BY <1>0, <1>1 DEF FallShort
<1>2. CASE Arrive
  BY <1>0, <1>2 DEF Arrive
<1>3. CASE Roam
  BY <1>3 DEF Roam
<1> QED BY <1>1, <1>2, <1>3 DEF Move

LEMMA CallType == ASSUME TypeOK, NEW c \in Calls, Accept(c) \/ Handle(c) PROVE TypeOK'
<1> USE ThreadsAssumption
    DEF TypeOK, Threads, Goto, Keep, Return, locals, vehicle, observed, CallPoints, MoverPoints
<1>0. c \in Threads /\ c \notin Movers
  OBVIOUS
<1>1. CASE Accept(c)
  <2>1. PICK r \in Requests :
          /\ wanted' \in {None, r}
          /\ op' = [op EXCEPT ![c] = r.kind]
          /\ Goto(c, CASE r.kind = "position" -> "target"
                       [] r.kind = "rth"      -> "plan"
                       [] OTHER               -> "drift")
          /\ Keep(c, r.point)
    BY <1>1 DEF Accept
  <2>2. calls' \in 0 .. MaxCalls /\ UNCHANGED <<todo, vmode, goal, drift, waypoints, pos, robbed>>
    <3>1. calls < MaxCalls /\ calls' = calls + 1
      BY <1>1 DEF Accept
    <3>2. UNCHANGED <<todo, vmode, goal, drift, waypoints, pos, robbed>>
      BY <1>1 DEF Accept
    <3> QED BY <3>1, <3>2, OneMore
  <2>3. r.kind \in Kinds /\ r.point \in Points /\ wanted' \in Requests \cup {None}
    BY <2>1 DEF Requests
  <2>4. op' \in [Threads -> Kinds \cup {None}] /\ pick' \in [Threads -> Points]
    BY <1>0, <2>1, <2>3
  <2>5. /\ \A t \in Threads \ {c} : pc'[t] = pc[t]
        /\ \A d \in Calls \ {c} : op'[d] = op[d]
        /\ op'[c] = r.kind
        /\ pc'[c] = CASE r.kind = "position" -> "target"
                      [] r.kind = "rth"      -> "plan"
                      [] OTHER               -> "drift"
    BY <1>0, <2>1
  <2>6. pc' \in [Threads -> CallPoints \cup MoverPoints]
    BY <1>0, <2>1
  <2>7. r.kind \in {"position", "velocity", "hold", "rth"}
    BY <2>3 DEF Kinds
  <2> QED BY <1>0, <2>2, <2>3, <2>4, <2>5, <2>6, <2>7
<1>2. CASE PlanReturn(c)
  <2>1. ReturnRoute(pos) \in Seq(Points)
    BY RouteType
  <2> QED BY <1>0, <1>2, <2>1 DEF PlanReturn
<1>3. CASE Clear(c)
  <2>1. waypoints' = <<>> /\ <<>> \in Seq(Points)
    BY <1>3, EmptySeq DEF Clear
  <2> QED BY <1>0, <1>3, <2>1 DEF Clear
<1>4. CASE AppendNext(c)
  <2>1. Head(todo[c]) \in Points /\ Tail(todo[c]) \in Seq(Points)
    BY <1>4, HeadTailType DEF AppendNext
  <2>2. Append(waypoints, Head(todo[c])) \in Seq(Points)
    BY <2>1, AppendProperties
  <2> QED BY <1>0, <1>4, <2>1, <2>2 DEF AppendNext
<1>5. CASE ReadFirst(c)
  <2>1. CASE waypoints = <<>>
    BY <1>0, <1>5, <2>1 DEF ReadFirst
  <2>2. CASE waypoints # <<>>
    <3>1. Head(waypoints) \in Points
      BY <2>2, HeadTailType
    <3>2. pick' \in [Threads -> Points]
      BY <1>0, <1>5, <2>2, <3>1 DEF ReadFirst
    <3>3. /\ pc[c] = "append" /\ pc' = [pc EXCEPT ![c] = "target"]
          /\ UNCHANGED <<op, todo, vehicle, pos, observed>>
      BY <1>5, <2>2 DEF ReadFirst
    <3> QED BY <1>0, <3>2, <3>3
  <2> QED BY <2>1, <2>2
<1>6. CASE SetDrift(c)
  BY <1>0, <1>6 DEF SetDrift
<1>7. CASE SetVelocityMode(c)
  BY <1>0, <1>7 DEF SetVelocityMode
<1>8. CASE Target(c)
  BY <1>0, <1>8, TargetType
<1> QED BY <1>1, <1>2, <1>3, <1>4, <1>5, <1>6, <1>7, <1>8 DEF Handle

LEMMA NextType == TypeOK /\ [Next]_vars => TypeOK'
<1> SUFFICES ASSUME TypeOK, [Next]_vars PROVE TypeOK'
  OBVIOUS
<1>1. CASE UNCHANGED vars
  BY <1>1 DEF TypeOK, vars, locals, vehicle, observed
<1> QED BY <1>1, MoverType, MoveType, CallType DEF Next

\* Every reachable state is well typed, and every thread is only where the method
\* it is in leads it.
THEOREM TypeCorrect == Spec => []TypeOK
BY InitType, NextType, PTL DEF Spec

-----------------------------------------------------------------------------
(* What a step leaves alone.                                               *)
LEMMA MoverStep ==
  ASSUME TypeOK, NEW m \in Movers, GetVelocity(m)
  PROVE  /\ UNCHANGED <<todo, drift, pos, calls>> /\ wanted' \in {wanted, None}
         /\ \A t \in Threads \ {m} : pc'[t] = pc[t] /\ pick'[t] = pick[t] /\ op'[t] = op[t]
BY DEF TypeOK, GetVelocity, ReadMode, ReadPosition, ReadTarget, ReadVelocity, CheckPending, Pop,
       Target, SetTarget, SetPositionMode, SetWaypointMode, Goto, Keep, Return, vehicle, observed

LEMMA MoveStep ==
  ASSUME TypeOK, Move
  PROVE  /\ UNCHANGED <<op, todo, vehicle, observed>>
         /\ \A t \in Threads \ {Sim} : pc'[t] = pc[t] /\ pick'[t] = pick[t]
         /\ pc'[Sim] = "idle"
BY DEF TypeOK, Move, FallShort, Arrive, Roam, Goto, Keep, vehicle, observed, Threads, Movers

LEMMA HandleStep ==
  ASSUME TypeOK, NEW c \in Calls, Handle(c)
  PROVE  /\ UNCHANGED <<pos, calls>> /\ wanted' \in {wanted, None} /\ pc[c] # "idle"
         /\ \A t \in Threads \ {c} : pc'[t] = pc[t] /\ pick'[t] = pick[t] /\ op'[t] = op[t]
<1>1. CASE PlanReturn(c) \/ Clear(c) \/ AppendNext(c) \/ ReadFirst(c)
  BY <1>1 DEF TypeOK, PlanReturn, Clear, AppendNext, ReadFirst, Goto, Keep, Return, vehicle,
              observed
<1>2. CASE SetDrift(c) \/ SetVelocityMode(c) \/ Target(c)
  BY <1>2 DEF TypeOK, SetDrift, SetVelocityMode, Target, SetTarget, SetPositionMode,
              SetWaypointMode, Goto, Keep, Return, vehicle, observed
<1> QED BY <1>1, <1>2 DEF Handle

LEMMA AcceptStep ==
  ASSUME TypeOK, NEW c \in Calls, Accept(c)
  PROVE  /\ UNCHANGED <<todo, vehicle, pos, robbed>>
         /\ pc[c] = "idle"
         /\ \A t \in Threads \ {c} : pc'[t] = pc[t] /\ pick'[t] = pick[t] /\ op'[t] = op[t]
         /\ pc'[c] # "idle"
         /\ wanted' # None =>
              /\ \A d \in Calls : pc[d] = "idle"
              /\ wanted' \in Requests /\ op'[c] = wanted'.kind /\ pick'[c] = wanted'.point
              /\ pc'[c] \notin {"position mode", "velocity mode"}
<1>1. PICK r \in Requests :
        /\ wanted' = IF \E d \in Calls : pc[d] # "idle" THEN None ELSE r
        /\ op' = [op EXCEPT ![c] = r.kind]
        /\ Goto(c, CASE r.kind = "position" -> "target"
                     [] r.kind = "rth"      -> "plan"
                     [] OTHER               -> "drift")
        /\ Keep(c, r.point)
  BY DEF Accept
<1>2. pc[c] = "idle" /\ UNCHANGED <<todo, vehicle, pos, robbed>>
  BY DEF Accept
<1>3. c \in Threads /\ r.kind \in Kinds
  BY DEF Threads, Requests
<1>4. pc'[c] \in {"target", "plan", "drift"}
  BY <1>1, <1>3 DEF TypeOK, Goto, Kinds
<1> QED BY <1>1, <1>2, <1>3, <1>4 DEF TypeOK, Goto, Keep

-----------------------------------------------------------------------------
(* The simulation's task.                                                  *)
\* A simulation about to take a waypoint from an empty queue has been robbed of it.
Robbed ==
  /\ pc[Sim] = "dead" => robbed
  /\ pc[Sim] = "pop" /\ waypoints = <<>> => robbed

LEMMA NextRobbed == ASSUME TypeOK, Robbed, [Next]_vars PROVE Robbed'
<1> USE ThreadsAssumption DEF Threads, Movers, Robbed
<1>1. CASE UNCHANGED vars
  BY <1>1 DEF vars, locals, vehicle, observed
<1>2. ASSUME NEW m \in Movers, GetVelocity(m) PROVE Robbed'
  <2>1. m # Sim => pc'[Sim] = pc[Sim]
    BY <1>2, MoverStep
  <2>2. CASE CheckPending(m)
    BY <2>1, <2>2 DEF CheckPending, Goto, TypeOK, vehicle
  <2>3. CASE Pop(m)
    <3>1. CASE waypoints = <<>>
      BY <2>1, <2>3, <3>1 DEF Pop, Goto, TypeOK
    <3>2. CASE waypoints # <<>>
      BY <2>1, <2>3, <3>2 DEF Pop, Goto, TypeOK
    <3> QED BY <3>1, <3>2
  <2>4. CASE ~CheckPending(m) /\ ~Pop(m)
    <3>1. UNCHANGED <<waypoints, robbed>> /\ (m = Sim => pc'[Sim] \notin {"pop", "dead"})
      BY <1>2, <2>4
      DEF GetVelocity, ReadMode, ReadPosition, ReadTarget, ReadVelocity, Target, SetTarget,
          SetPositionMode, SetWaypointMode, Goto, Return, Leave, TypeOK, vehicle, observed
    <3> QED BY <2>1, <3>1
  <2> QED BY <2>2, <2>3, <2>4
<1>3. CASE Move
  BY <1>3, MoveStep
<1>4. ASSUME NEW c \in Calls, Accept(c) PROVE Robbed'
  BY <1>4, AcceptStep DEF vehicle
<1>5. ASSUME NEW c \in Calls, Handle(c) PROVE Robbed'
  <2>1. pc'[Sim] = pc[Sim]
    BY <1>5, HandleStep
  <2>2. CASE Clear(c)
    BY <2>1, <2>2 DEF Clear
  <2>3. CASE AppendNext(c)
    <3>1. /\ waypoints' = Append(waypoints, Head(todo[c])) /\ waypoints \in Seq(Points)
          /\ Head(todo[c]) \in Points /\ robbed' = robbed
      BY <2>3, HeadTailType DEF AppendNext, TypeOK, observed
    <3> QED BY <2>1, <3>1, AppendProperties
  <2>4. CASE UNCHANGED <<waypoints, robbed>>
    BY <2>1, <2>4
  <2> QED
    BY <1>5, <2>2, <2>3, <2>4
    DEF Handle, PlanReturn, ReadFirst, SetDrift, SetVelocityMode, Target, SetTarget,
        SetPositionMode, SetWaypointMode, vehicle, observed
<1> QED BY <1>1, <1>2, <1>3, <1>4, <1>5 DEF Next

\* The simulation's task ends by its popleft only when another thread, a stream or a
\* return, has emptied the queue between its check and its popleft, whatever the
\* calls and however many threads make them.
THEOREM SimulationIsRobbed == Spec => []SurvivesUnlessRobbed
<1>1. Init => Robbed
  BY DEF Init, Robbed, Threads, Movers
<1>2. TypeOK /\ Robbed /\ [Next]_vars => Robbed'
  BY NextRobbed
<1>3. Robbed => SurvivesUnlessRobbed
  BY DEF Robbed, SurvivesUnlessRobbed
<1> QED BY <1>1, <1>2, <1>3, TypeCorrect, PTL DEF Spec

-----------------------------------------------------------------------------
(* The last call.                                                          *)
Asked == IF wanted.kind = "velocity" THEN "moving" ELSE "still"

\* A call under way, that met no other, has kept what it was asked for.
Serves(c) ==
  /\ op[c] = wanted.kind
  /\ wanted.kind = "position" /\ pc[c] = "target" => pick[c] = wanted.point
  /\ wanted.kind = "position" /\ pc[c] = "position mode" => goal = wanted.point
  /\ pc[c] = "velocity mode" => drift = Asked

\* Once it is answered nobody who reads the velocity is on the way to write mode or
\* target, but along the route it asked for itself.
Served ==
  /\ wanted.kind = "position" =>
       /\ vmode = "position" /\ goal = wanted.point
       /\ \A m \in Movers : ~Following(m)
  /\ wanted.kind \in {"velocity", "hold"} =>
       /\ vmode = "velocity" /\ drift = Asked
       /\ \A m \in Movers : Following(m) => pc[m] = "mode2"
  /\ wanted.kind = "rth" => vmode = "waypoint" \/ \E m \in Movers : pc[m] = "waypoint mode"

Heeded ==
  wanted # None =>
    /\ wanted \in Requests
    /\ \A c, d \in Calls : pc[c] # "idle" /\ pc[d] # "idle" => c = d
    /\ \A c \in Calls : pc[c] # "idle" => Serves(c)
    /\ Idle => Served

\* A thread that reads the velocity leaves the call under way alone, and what one
\* has left behind that was answered.
LEMMA MoverHeeds ==
  ASSUME TypeOK, Heeded, NEW m \in Movers, GetVelocity(m) PROVE Heeded'
<1> USE ThreadsAssumption DEF Threads
<1> SUFFICES ASSUME wanted' # None
             PROVE  /\ wanted' = wanted
                    /\ \A c \in Calls : pc[c] # "idle" => Serves(c)'
                    /\ Idle => Served'
  <2>1. wanted' = wanted => \A c \in Calls : pc'[c] = pc[c]
    BY MoverStep
  <2> QED BY <2>1 DEF Heeded, Idle
<1>1. /\ wanted' = wanted /\ wanted \in Requests /\ drift' = drift
      /\ \A t \in Threads \ {m} : pc'[t] = pc[t] /\ pick'[t] = pick[t] /\ op'[t] = op[t]
  BY MoverStep DEF Heeded
<1>2. ASSUME NEW c \in Calls, pc[c] # "idle" PROVE Serves(c)'
  <2>1. Serves(c) /\ pc'[c] = pc[c] /\ pick'[c] = pick[c] /\ op'[c] = op[c]
    BY <1>1, <1>2 DEF Heeded
  <2>2. SetTarget(m) => ~(wanted.kind = "position" /\ pc[c] = "position mode")
    BY <1>1, <2>1 DEF SetTarget, Follows, Serves
  <2>3. ~SetTarget(m) => goal' = goal
    BY DEF GetVelocity, ReadMode, ReadPosition, ReadTarget, ReadVelocity, CheckPending, Pop,
           Target, SetPositionMode, SetWaypointMode, vehicle
  <2> QED BY <1>1, <2>1, <2>2, <2>3 DEF Serves, Asked
<1>3. ASSUME Idle PROVE Served'
  <2>1. Served
    BY <1>1, <1>3 DEF Heeded
  <2>2. CASE wanted.kind = "position"
    <3>1. vmode = "position" /\ goal = wanted.point /\ \A n \in Movers : ~Following(n)
      BY <2>1, <2>2 DEF Served
    <3>2. UNCHANGED <<vmode, goal>> /\ ~Following(m)'
      BY <3>1
      DEF GetVelocity, ReadMode, ReadPosition, ReadTarget, ReadVelocity, CheckPending, Pop,
          Target, SetTarget, SetPositionMode, SetWaypointMode, vehicle, Following, Goto, Leave,
          TypeOK
    <3>3. \A n \in Movers : ~Following(n)'
      BY <1>1, <3>1, <3>2 DEF Following
    <3> QED BY <1>1, <2>2, <3>1, <3>2, <3>3 DEF Served
  <2>3. CASE wanted.kind \in {"velocity", "hold"}
    <3>1. /\ vmode = "velocity" /\ drift = Asked
          /\ \A n \in Movers : Following(n) => pc[n] = "mode2"
      BY <2>1, <2>3 DEF Served
    <3>2. vmode' = vmode /\ (Following(m)' => pc'[m] = "mode2")
      BY <3>1
      DEF GetVelocity, ReadMode, ReadPosition, ReadTarget, ReadVelocity, CheckPending, Pop,
          Target, SetTarget, SetPositionMode, SetWaypointMode, vehicle, Following, Goto, Leave,
          TypeOK
    <3>3. \A n \in Movers : Following(n)' => pc'[n] = "mode2"
      BY <1>1, <3>1, <3>2 DEF Following
    <3> QED BY <1>1, <2>3, <3>1, <3>2, <3>3 DEF Served, Asked
  <2>4. CASE wanted.kind = "rth"
    <3>1. vmode = "waypoint" \/ \E n \in Movers : pc[n] = "waypoint mode"
      BY <2>1, <2>4 DEF Served
    <3>2. CASE SetPositionMode(m)
      <4>1. pc'[m] = "waypoint mode"
        BY <3>2 DEF SetPositionMode, Follows, Goto, TypeOK
      <4> QED BY <1>1, <2>4, <4>1 DEF Served
    <3>3. CASE SetWaypointMode(m)
      BY <1>1, <2>4, <3>3 DEF SetWaypointMode, Served
    <3>4. CASE ~SetPositionMode(m) /\ ~SetWaypointMode(m)
      <4>1. vmode' = vmode /\ pc[m] # "waypoint mode"
        BY <3>4
        DEF GetVelocity, ReadMode, ReadPosition, ReadTarget, ReadVelocity, CheckPending, Pop,
            Target, SetTarget, vehicle
      <4> QED BY <1>1, <2>4, <3>1, <4>1 DEF Served
    <3> QED BY <3>2, <3>3, <3>4
  <2> QED BY <1>1, <2>2, <2>3, <2>4 DEF Requests, Kinds
<1> QED BY <1>1, <1>2, <1>3

LEMMA MoveHeeds == ASSUME TypeOK, Heeded, Move PROVE Heeded'
<1> USE ThreadsAssumption DEF Threads
<1>1. /\ UNCHANGED <<op, vehicle, wanted>> /\ Sim \notin Calls /\ pc'[Sim] = "idle"
      /\ \A t \in Threads \ {Sim} : pc'[t] = pc[t] /\ pick'[t] = pick[t]
  BY MoveStep DEF Movers, observed
<1>2. pc[Sim] # "waypoint mode"
  BY DEF Move, FallShort, Arrive, Roam
<1>3. ASSUME NEW c \in Calls PROVE pc'[c] = pc[c] /\ (Serves(c) => Serves(c)')
  BY <1>1 DEF Serves, Asked, vehicle
<1>4. Served => Served'
  BY <1>1, <1>2 DEF Served, Asked, Following, vehicle
<1> QED BY <1>1, <1>3, <1>4 DEF Heeded, Idle

LEMMA AcceptHeeds == ASSUME TypeOK, NEW c \in Calls, Accept(c) PROVE Heeded'
<1> SUFFICES ASSUME wanted' # None PROVE Heeded'
  BY DEF Heeded
<1>1. /\ wanted' \in Requests /\ op'[c] = wanted'.kind /\ pick'[c] = wanted'.point
      /\ pc'[c] \notin {"idle", "position mode", "velocity mode"}
      /\ \A d \in Calls \ {c} : pc'[d] = "idle"
  BY AcceptStep DEF Threads
<1> QED BY <1>1 DEF Heeded, Serves, Idle

LEMMA HandleHeeds ==
  ASSUME TypeOK, Heeded, NEW c \in Calls, Handle(c) PROVE Heeded'
<1> USE ThreadsAssumption DEF Threads
<1> SUFFICES ASSUME wanted' # None PROVE Heeded'
  BY DEF Heeded
<1>1. /\ wanted' = wanted /\ wanted \in Requests /\ pc[c] # "idle" /\ Serves(c)
      /\ \A d \in Calls \ {c} : pc'[d] = "idle"
      /\ \A m \in Movers : pc'[m] = pc[m]
  BY HandleStep DEF Heeded
<1> SUFFICES (pc'[c] # "idle" => Serves(c)') /\ (pc'[c] = "idle" => Served')
  BY <1>1 DEF Heeded, Idle
<1>2. CASE PlanReturn(c) \/ Clear(c) \/ AppendNext(c)
  BY <1>1, <1>2 DEF PlanReturn, Clear, AppendNext, Serves, Goto, TypeOK
<1>3. CASE ReadFirst(c)
  <2>1. /\ pc'[c] = "target" /\ op' = op /\ op[c] = "rth"
    BY <1>1, <1>3 DEF ReadFirst, Goto, TypeOK
  <2> QED BY <1>1, <2>1 DEF Serves
<1>4. CASE SetDrift(c)
  BY <1>1, <1>4 DEF SetDrift, Serves, Asked, Goto, TypeOK
<1>5. CASE SetVelocityMode(c)
  <2>1. /\ pc'[c] = "idle" /\ vmode' = "velocity" /\ drift' = drift /\ drift = Asked
        /\ wanted.kind \in {"velocity", "hold"} /\ \A m \in Movers : ~Following(m)
    BY <1>1, <1>5 DEF SetVelocityMode, Return, Serves, Goto, TypeOK
  <2> QED BY <1>1, <2>1 DEF Served, Following, Asked
<1>6. CASE SetTarget(c)
  <2>1. pc'[c] = "position mode" /\ goal' = pick[c] /\ op' = op /\ pc[c] = "target"
    BY <1>6 DEF SetTarget, Goto, TypeOK
  <2> QED BY <1>1, <2>1 DEF Serves
<1>7. CASE SetPositionMode(c)
  <2>1. CASE Follows(c)
    <3>1. pc'[c] = "waypoint mode" /\ op' = op
      BY <1>7, <2>1 DEF SetPositionMode, Goto, TypeOK
    <3> QED BY <1>1, <3>1 DEF Serves
  <2>2. CASE ~Follows(c)
    <3>1. /\ pc[c] = "position mode" /\ pc'[c] = "idle" /\ vmode' = "position" /\ goal' = goal
          /\ \A m \in Movers : ~Following(m)
      BY <1>1, <1>7, <2>2 DEF SetPositionMode, Return, Goto, TypeOK
    <3>2. wanted.kind = "position" /\ goal = wanted.point
      BY <1>1, <2>2, <3>1 DEF TypeOK, Follows, Serves
    <3> QED BY <1>1, <3>1, <3>2 DEF Served, Following
  <2> QED BY <2>1, <2>2
<1>8. CASE SetWaypointMode(c)
  <2>1. pc'[c] = "idle" /\ vmode' = "waypoint" /\ wanted.kind = "rth"
    BY <1>1, <1>8 DEF SetWaypointMode, Return, Goto, TypeOK, Serves
  <2> QED BY <1>1, <2>1 DEF Served
<1> QED BY <1>2, <1>3, <1>4, <1>5, <1>6, <1>7, <1>8 DEF Handle, Target

\* The last call wins, whatever calls met or were overtaken before it, for any number
\* of threads, streams and calls: a call that met no other, and was not overtaken by
\* a thread on a route, leaves mode and target to nobody but the next call.
THEOREM LastCallIsHeeded == Spec => []LastCallWins
<1>1. Init => Heeded
  BY DEF Init, Heeded
<1>2. TypeOK /\ Heeded /\ [Next]_vars => Heeded'
  <2> SUFFICES ASSUME TypeOK, Heeded, [Next]_vars PROVE Heeded'
    OBVIOUS
  <2>1. CASE UNCHANGED vars
    BY <2>1 DEF vars, locals, vehicle, observed, Heeded, Serves, Served, Asked, Following, Idle
  <2> QED BY <2>1, MoverHeeds, MoveHeeds, AcceptHeeds, HandleHeeds DEF Next
<1>3. Heeded => LastCallWins
  BY DEF Heeded, Served, Asked, LastCallWins, Requests, Kinds
<1> QED BY <1>1, <1>2, <1>3, TypeCorrect, PTL DEF Spec
=============================================================================
