------------------------------ MODULE AviaryActors ------------------------------
(***************************************************************************)
(* The actors of the simulation (actor.py), which walk a trace of          *)
(* waypoints once or in a circle, as the simulation's task moves them: in  *)
(* the order they were configured, until one of them raises.               *)
(*                                                                         *)
(* The ground is a line without gaps: a step goes towards the target, so    *)
(* only distances matter. Tags, shapes and conversions are left out.       *)
(***************************************************************************)
EXTENDS Integers, Sequences

CONSTANTS
  N,        \* actors are 1 .. N, in the order of the configuration
  Places,   \* where an actor can be
  Configs,  \* what may be configured: for each actor a start, a trace and kwargs
  None      \* no speed

Actors == 1 .. N
Speeds == Nat \ {0}
Waypoints == [to : Places, speed : Speeds, delay : Nat]
ActorConfigs ==
  [origin : Places, trace : Seq(Waypoints), cycling : BOOLEAN, speed : Speeds \cup {None}]

ASSUME ActorAssumption ==
  /\ N \in Nat /\ None \notin Nat
  /\ Places \subseteq Int /\ \A p, q \in Places : p .. q \subseteq Places
  /\ \A config \in Configs : config \in [Actors -> ActorConfigs]

VARIABLES
  config,  \* the configuration
  actor,   \* of each actor: position, position_target, speed_target, waypoints, active_delay
  dead     \* an exception has ended the simulation's task

actorVars == <<config, actor, dead>>

\* Actor.__init__: an actor starts at its target, with no speed unless kwargs set one.
ActorsInit ==
  /\ config \in Configs
  /\ actor = [a \in Actors |->
       [at |-> config[a].origin, goal |-> config[a].origin, speed |-> config[a].speed,
        queue |-> config[a].trace, delay |-> 0]]
  /\ dead = FALSE

-----------------------------------------------------------------------------
\* get_velocity: a step towards the target, and no further.
Toward(from, to, step) ==
  CASE to > from + step -> from + step
    [] to < from - step -> from - step
    [] OTHER            -> to

Moved(a, dt) ==
  LET s == actor[a]
  IN  [s EXCEPT !.at = IF s.at = s.goal THEN s.at ELSE Toward(s.at, s.goal, s.speed * dt)]

\* set_next_waypoint.
SetNext(s) ==
  [s EXCEPT !.goal = Head(s.queue).to, !.speed = Head(s.queue).speed,
            !.delay = Head(s.queue).delay, !.queue = Tail(s.queue)]

\* Faulty: the waypoint taken is put back, not the one the actor is at.
CycleNext_Same(s) ==
  [s EXCEPT !.goal = Head(s.queue).to, !.speed = Head(s.queue).speed,
            !.queue = Append(Tail(s.queue), Head(s.queue))]

\* cycle_next_waypoint; it does not look at the delays.
CycleNext(s) ==
  [s EXCEPT !.goal = Head(s.queue).to, !.speed = Head(s.queue).speed,
            !.queue = Append(Tail(s.queue), [to |-> s.goal, speed |-> s.speed, delay |-> 0])]

\* Faulty: a waiting actor does not count its time down.
After_WaitsOn(a, dt) ==
  LET s == Moved(a, dt)
  IN  CASE s.at # s.goal \/ s.delay > 0 \/ s.queue = <<>> -> s
        [] config[a].cycling -> CycleNext(s)
        [] OTHER             -> SetNext(s)

\* move: at its target an actor waits, then turns to its next waypoint.
After(a, dt) ==
  LET s == Moved(a, dt)
  IN  CASE s.at # s.goal     -> s
        [] s.at = s.goal /\ s.delay > 0 -> [s EXCEPT !.delay = s.delay - dt]
        [] s.at = s.goal /\ s.delay =< 0 /\ s.queue = <<>> -> s
        [] OTHER -> IF config[a].cycling THEN CycleNext(s) ELSE SetNext(s)

\* Line 231 reads a speed_target that nothing has set.
Fails(a) ==
  LET s == actor[a]
  IN  /\ s.at = s.goal /\ s.delay =< 0 /\ s.queue # <<>>
      /\ config[a].cycling /\ s.speed = None

Raises == \E a \in Actors : Fails(a)

\* The first loop of simulate.
ActorsMove(dt) ==
  /\ actor' = [a \in Actors |->
                 IF \E b \in 1 .. a : Fails(b) THEN actor[a] ELSE After(a, dt)]
  /\ UNCHANGED config

-----------------------------------------------------------------------------
ActorsTypeOK ==
  /\ config \in Configs
  /\ dead \in BOOLEAN
  /\ actor \in [Actors -> [at : Places, goal : Places, speed : Speeds \cup {None},
                           queue : Seq(Waypoints), delay : Int]]

\* The points of an actor's round, counted from 0 and on into a second round: its
\* origin, then its trace. Each comes with the speed of the leg that leads to it.
Stops(a) == Len(config[a].trace) + 1
Stop(a, k) ==
  LET i == IF k < Stops(a) THEN k ELSE k - Stops(a)
  IN  IF i = 0 THEN [to |-> config[a].origin, speed |-> config[a].speed]
               ELSE [to |-> config[a].trace[i].to, speed |-> config[a].trace[i].speed]

Within(x, p, q) == (p =< x /\ x =< q) \/ (q =< x /\ x =< p)

\* Actor a is on the leg to its point k.
OnLeg(a, k) ==
  LET s == actor[a]
  IN  /\ [to |-> s.goal, speed |-> s.speed] = Stop(a, k)
      /\ Len(s.queue) = IF config[a].cycling THEN Stops(a) - 1 ELSE Stops(a) - 1 - k
      /\ \A i \in 1 .. Len(s.queue) :
           [to |-> s.queue[i].to, speed |-> s.queue[i].speed] = Stop(a, k + i)
      /\ Within(s.at, Stop(a, k + Stops(a) - 1).to, s.goal)

\* An actor is on the leg between two consecutive points of its round, at the
\* speed of that leg, with the points that follow in its queue: none is lost,
\* repeated or out of order, once or in a circle (actor.py:213-229).
OnTrace == \A a \in Actors : \E k \in 0 .. Stops(a) - 1 : OnLeg(a, k)
=============================================================================
