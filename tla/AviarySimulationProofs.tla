------------------------- MODULE AviarySimulationProofs -------------------------
(***************************************************************************)
(* Proofs about AviarySimulation, for any number of actors, any traces and *)
(* speeds, any angles and rates, and ticks of any length.                  *)
(***************************************************************************)
EXTENDS AviarySimulation, SequenceTheorems, TLAPS

USE ActorAssumption, PoseAssumption, DtAssumption

-----------------------------------------------------------------------------
(* One actor. *)
Actings == [at : Places, goal : Places, speed : Speeds \cup {None},
            queue : Seq(Waypoints), delay : Int]

\* Without a speed an actor is where and as it was configured.
Fresh(a) ==
  /\ actor[a].at = config[a].origin /\ actor[a].goal = config[a].origin
  /\ actor[a].speed = config[a].speed /\ actor[a].queue = config[a].trace
  /\ actor[a].delay = 0

Speedless == \A a \in Actors : actor[a].speed = None => Fresh(a)

LEMMA ConfigType == ASSUME ActorsTypeOK, NEW a \in Actors
                    PROVE  /\ config[a] \in ActorConfigs
                           /\ config[a].trace \in Seq(Waypoints)
                           /\ config[a].origin \in Places
                           /\ config[a].cycling \in BOOLEAN
                           /\ config[a].speed \in Speeds \cup {None}
<1>1. config[a] \in ActorConfigs
  BY DEF ActorsTypeOK
<1> QED BY <1>1 DEF ActorConfigs

\* A step towards a place leads to a place on the way to it.
LEMMA TowardWithin == ASSUME NEW p \in Places, NEW q \in Places, NEW step \in Nat
                      PROVE  /\ Toward(p, q, step) \in Places
                             /\ Within(Toward(p, q, step), p, q)
<1>1. p \in Int /\ q \in Int /\ p .. q \subseteq Places /\ q .. p \subseteq Places
  OBVIOUS
<1>2. Toward(p, q, step) \in p .. q \/ Toward(p, q, step) \in q .. p
  BY <1>1 DEF Toward
<1> QED BY <1>1, <1>2 DEF Within

LEMMA WithinSelf == ASSUME NEW p \in Places, NEW q \in Places PROVE Within(p, p, q)
<1>1. p \in Int /\ q \in Int
  OBVIOUS
<1> QED BY <1>1 DEF Within

LEMMA MovedKeeps == ASSUME ActorsTypeOK, Speedless, NEW a \in Actors, NEW dt \in Nat
                    PROVE  /\ Moved(a, dt) \in Actings
                           /\ Moved(a, dt) = [actor[a] EXCEPT !.at = Moved(a, dt).at]
                           /\ Within(Moved(a, dt).at, actor[a].at, actor[a].goal)
                           /\ actor[a].at = actor[a].goal => Moved(a, dt).at = actor[a].at
<1> DEFINE s == actor[a]
           step == s.speed * dt
<1>1. s \in Actings
  BY DEF ActorsTypeOK, Actings
<1>2. s.at \in Places /\ s.goal \in Places
  BY <1>1 DEF Actings
<1>3. CASE s.at = s.goal
  <2>1. Moved(a, dt) = [s EXCEPT !.at = s.at]
    BY <1>3 DEF Moved
  <2>2. Moved(a, dt) = s
    BY <1>1, <2>1 DEF Actings
  <2>3. Within(s.at, s.at, s.goal)
    BY <1>2, WithinSelf
  <2>4. Moved(a, dt).at = s.at
    BY <2>2
  <2> QED BY <1>1, <1>3, <2>1, <2>2, <2>3, <2>4
<1>4. CASE s.at # s.goal
  <2>1. s.speed # None
    BY <1>4 DEF Speedless, Fresh
  <2>2. s.speed \in Nat
    BY <1>1, <2>1 DEF Actings, Speeds
  <2>3. step \in Nat
    BY <2>2
  <2>4. Moved(a, dt) = [s EXCEPT !.at = Toward(s.at, s.goal, step)]
    BY <1>4 DEF Moved
  <2> HIDE DEF step
  <2>5. Toward(s.at, s.goal, step) \in Places /\ Within(Toward(s.at, s.goal, step), s.at, s.goal)
    BY <1>2, <2>3, TowardWithin
  <2> HIDE DEF s
  <2>6. Moved(a, dt).at = Toward(s.at, s.goal, step)
    BY <1>1, <2>4 DEF Actings
  <2>7. Moved(a, dt) \in Actings
    BY <1>1, <2>4, <2>5 DEF Actings
  <2> QED BY <1>4, <2>4, <2>5, <2>6, <2>7 DEF s
<1> QED BY <1>3, <1>4

\* The next waypoint of an actor without a delay.
LEMMA HeadType == ASSUME NEW s \in Actings, s.queue # <<>>
                  PROVE  /\ Head(s.queue) \in Waypoints /\ Tail(s.queue) \in Seq(Waypoints)
                         /\ Head(s.queue).to \in Places /\ Head(s.queue).delay \in Int
                         /\ Head(s.queue).speed \in Speeds /\ Head(s.queue).speed # None
<1>1. s.queue \in Seq(Waypoints)
  BY DEF Actings
<1>2. Head(s.queue) \in Waypoints /\ Tail(s.queue) \in Seq(Waypoints)
  BY <1>1
<1> QED BY <1>2 DEF Waypoints, Speeds

LEMMA SetNextType == ASSUME NEW s \in Actings, s.queue # <<>>
                     PROVE  SetNext(s) \in Actings /\ SetNext(s).speed # None
BY HeadType DEF SetNext, Actings

LEMMA CycleNextType == ASSUME NEW s \in Actings, s.queue # <<>>, s.speed # None
                       PROVE  CycleNext(s) \in Actings /\ CycleNext(s).speed # None
<1> DEFINE w == [to |-> s.goal, speed |-> s.speed, delay |-> 0]
<1>1. w \in Waypoints
  BY DEF Actings, Waypoints
<1>2. Append(Tail(s.queue), w) \in Seq(Waypoints)
  BY <1>1, HeadType
<1> HIDE DEF w
<1>3. CycleNext(s) = [s EXCEPT !.goal = Head(s.queue).to, !.speed = Head(s.queue).speed,
                               !.queue = Append(Tail(s.queue), w)]
  BY DEF CycleNext, w
<1> QED BY <1>2, <1>3, HeadType DEF Actings

\* What a tick does to an actor that does not raise: it moves, or waits, or turns to
\* its next waypoint.
LEMMA AfterKinds ==
  ASSUME ActorsTypeOK, Speedless, NEW a \in Actors, NEW dt \in Dts, ~Fails(a)
  PROVE  LET s == Moved(a, dt)
         IN  \/ After(a, dt) = s
             \/ After(a, dt) = [s EXCEPT !.delay = s.delay - dt]
                /\ s.at = s.goal /\ s.delay > 0
             \/ /\ s.at = s.goal /\ s.queue # <<>>
                /\ \/ config[a].cycling /\ s.speed # None /\ After(a, dt) = CycleNext(s)
                   \/ ~config[a].cycling /\ After(a, dt) = SetNext(s)
<1> DEFINE s == Moved(a, dt)
<1>0. dt \in Nat
  OBVIOUS
<1>1. s \in Actings /\ s = [actor[a] EXCEPT !.at = s.at] /\ actor[a] \in Actings
  BY <1>0, MovedKeeps DEF ActorsTypeOK, Actings
<1>2. CASE s.at = s.goal /\ ~(s.delay > 0) /\ s.queue # <<>>
  <2>1. After(a, dt) = IF config[a].cycling THEN CycleNext(s) ELSE SetNext(s)
    BY <1>2 DEF After
  <2>2. CASE config[a].cycling
    <3>1. s.speed # None
      <4>1. SUFFICES ASSUME s.speed = None PROVE FALSE
        OBVIOUS
      <4>2. s.delay = actor[a].delay /\ s.queue = actor[a].queue /\ s.speed = actor[a].speed
        BY <1>1 DEF Actings
      <4>3. actor[a].at = actor[a].goal
        BY <4>1, <4>2 DEF Speedless, Fresh
      <4>4. s.delay =< 0
        BY <1>1, <1>2 DEF Actings
      <4> QED BY <1>2, <2>2, <4>1, <4>2, <4>3, <4>4 DEF Fails
    <3> QED BY <1>2, <2>1, <2>2, <3>1
  <2>3. CASE ~config[a].cycling
    BY <1>2, <2>1, <2>3
  <2> QED BY <2>2, <2>3
<1>3. CASE s.at # s.goal
  BY <1>3 DEF After
<1>4. CASE s.at = s.goal /\ s.delay > 0
  BY <1>4 DEF After
<1>5. CASE s.at = s.goal /\ ~(s.delay > 0) /\ s.queue = <<>>
  <2>1. s.delay =< 0
    BY <1>1, <1>5 DEF Actings
  <2> QED BY <1>5, <2>1 DEF After
<1> QED BY <1>2, <1>3, <1>4, <1>5

LEMMA AfterType ==
  ASSUME ActorsTypeOK, Speedless, NEW a \in Actors, NEW dt \in Dts, ~Fails(a)
  PROVE  After(a, dt) \in Actings /\ (After(a, dt).speed = None => After(a, dt) = actor[a])
<1> DEFINE s == Moved(a, dt)
<1>1. /\ s \in Actings /\ s = [actor[a] EXCEPT !.at = s.at]
      /\ actor[a].at = actor[a].goal => s.at = actor[a].at
      /\ actor[a] \in Actings
  BY MovedKeeps DEF ActorsTypeOK, Actings
<1>2. s.speed = None => s = actor[a] /\ s.delay = 0
  <2> SUFFICES ASSUME s.speed = None PROVE s = actor[a] /\ s.delay = 0
    OBVIOUS
  <2>1. actor[a].speed = None
    BY <1>1 DEF Actings
  <2>2. actor[a].at = actor[a].goal /\ actor[a].delay = 0
    BY <2>1 DEF Speedless, Fresh
  <2>3. s.at = actor[a].at
    BY <1>1, <2>2
  <2> QED BY <1>1, <2>2, <2>3 DEF Actings
<1> HIDE DEF s
<1>3. CASE After(a, dt) = s
  BY <1>1, <1>2, <1>3
<1>4. CASE After(a, dt) = [s EXCEPT !.delay = s.delay - dt] /\ s.delay > 0
  <2>1. s.delay - dt \in Int
    BY <1>1 DEF Actings
  <2>2. s.speed # None
    BY <1>2, <1>4
  <2> QED BY <1>1, <1>4, <2>1, <2>2 DEF Actings
<1>5. CASE s.queue # <<>> /\ s.speed # None /\ After(a, dt) = CycleNext(s)
  BY <1>1, <1>5, CycleNextType
<1>6. CASE s.queue # <<>> /\ After(a, dt) = SetNext(s)
  BY <1>1, <1>6, SetNextType
<1> QED BY <1>3, <1>4, <1>5, <1>6, AfterKinds DEF s

-----------------------------------------------------------------------------
(* The loop over the actors. *)

\* A tick leaves an actor alone, when one before it or itself raises, or moves it.
LEMMA OneByOne ==
  ASSUME NEW dt \in Dts, ActorsMove(dt), NEW a \in Actors
  PROVE  \/ actor'[a] = actor[a]
         \/ actor'[a] = After(a, dt) /\ ~Fails(a)
<1>1. a \in 1 .. a /\ 1 .. a \subseteq Actors
  BY DEF Actors
<1>2. CASE \E b \in 1 .. a : Fails(b)
  BY <1>1, <1>2 DEF ActorsMove
<1>3. CASE ~\E b \in 1 .. a : Fails(b)
  BY <1>1, <1>3 DEF ActorsMove
<1> QED BY <1>2, <1>3

LEMMA ActorsMoveType ==
  ASSUME ActorsTypeOK, Speedless, NEW dt \in Dts, ActorsMove(dt), dead' \in BOOLEAN
  PROVE  ActorsTypeOK' /\ Speedless'
<1>1. config' = config /\ DOMAIN actor' = Actors
  BY DEF ActorsMove
<1>2. ASSUME NEW a \in Actors
      PROVE  /\ actor'[a] \in Actings
             /\ actor'[a].speed = None => actor'[a] = actor[a]
  BY OneByOne, AfterType DEF ActorsTypeOK, Actings
<1>3. actor' = [a \in Actors |-> actor'[a]]
  BY <1>1 DEF ActorsMove
<1>4. ActorsTypeOK'
  BY <1>1, <1>2, <1>3 DEF ActorsTypeOK, Actings
<1>5. ASSUME NEW a \in Actors, actor'[a].speed = None PROVE Fresh(a)'
  BY <1>1, <1>2, <1>5 DEF Speedless, Fresh
<1> QED BY <1>4, <1>5 DEF Speedless

LEMMA ActorsInitType == ActorsInit => ActorsTypeOK /\ Speedless
<1> SUFFICES ASSUME ActorsInit PROVE ActorsTypeOK /\ Speedless
  OBVIOUS
<1>1. ASSUME NEW a \in Actors PROVE actor[a] \in Actings /\ Fresh(a)
  <2>1. config[a] \in ActorConfigs
    BY DEF ActorsInit
  <2>2. actor[a] = [at |-> config[a].origin, goal |-> config[a].origin,
                    speed |-> config[a].speed, queue |-> config[a].trace, delay |-> 0]
    BY DEF ActorsInit
  <2> QED BY <2>1, <2>2 DEF ActorConfigs, Actings, Fresh
<1> QED BY <1>1 DEF ActorsInit, ActorsTypeOK, Actings, Speedless

-----------------------------------------------------------------------------
(* The round of an actor. *)

\* OnLeg, of an actor that has become s.
LegOf(s, a, k) ==
  /\ [to |-> s.goal, speed |-> s.speed] = Stop(a, k)
  /\ Len(s.queue) = IF config[a].cycling THEN Stops(a) - 1 ELSE Stops(a) - 1 - k
  /\ \A i \in 1 .. Len(s.queue) :
       [to |-> s.queue[i].to, speed |-> s.queue[i].speed] = Stop(a, k + i)
  /\ Within(s.at, Stop(a, k + Stops(a) - 1).to, s.goal)

LEMMA StopsCount == ASSUME ActorsTypeOK, NEW a \in Actors
                    PROVE  Stops(a) \in Nat /\ Stops(a) >= 1
<1>1. Len(config[a].trace) \in Nat
  BY ConfigType
<1> QED BY <1>1 DEF Stops

LEMMA StopType ==
  ASSUME ActorsTypeOK, NEW a \in Actors, NEW k \in 0 .. 2 * Stops(a) - 1
  PROVE  Stop(a, k).to \in Places
<1> DEFINE n == Stops(a)
           i == IF k < n THEN k ELSE k - n
<1>1. n \in Nat /\ n >= 1 /\ n = Len(config[a].trace) + 1
  BY StopsCount DEF Stops
<1> HIDE DEF n
<1>2. k \in 0 .. 2 * n - 1
  BY DEF n
<1>3. i \in 0 .. n - 1
  BY <1>1, <1>2
<1> HIDE DEF i
<1>4. Stop(a, k) = IF i = 0 THEN [to |-> config[a].origin, speed |-> config[a].speed]
                   ELSE [to |-> config[a].trace[i].to, speed |-> config[a].trace[i].speed]
  BY DEF Stop, n, i
<1>5. CASE i = 0
  BY <1>4, <1>5, ConfigType
<1>6. CASE i # 0
  <2>1. i \in 1 .. Len(config[a].trace)
    BY <1>1, <1>3, <1>6
  <2>2. config[a].trace[i] \in Waypoints
    BY <2>1, ConfigType
  <2> QED BY <1>4, <1>6, <2>2 DEF Waypoints
<1> QED BY <1>5, <1>6

\* A second round is like the first.
LEMMA StopWraps ==
  ASSUME ActorsTypeOK, NEW a \in Actors, NEW k \in 0 .. Stops(a) - 1
  PROVE  Stop(a, k + Stops(a)) = Stop(a, k)
<1>1. Stops(a) \in Nat /\ k < Stops(a) /\ ~(k + Stops(a) < Stops(a)) /\ (k + Stops(a)) - Stops(a) = k
  BY StopsCount
<1> QED BY <1>1 DEF Stop

LEMMA WithinGoesOn ==
  ASSUME NEW p \in Places, NEW q \in Places, NEW x \in Places, NEW y \in Places,
         Within(x, p, q), Within(y, x, q)
  PROVE  Within(y, p, q)
<1>1. p \in Int /\ q \in Int /\ x \in Int /\ y \in Int
  OBVIOUS
<1> QED BY <1>1 DEF Within

LEMMA LegMoves ==
  ASSUME ActorsTypeOK, NEW a \in Actors, NEW k \in 0 .. Stops(a) - 1, NEW s \in Actings,
         LegOf(s, a, k), NEW x \in Places, Within(x, s.at, s.goal)
  PROVE  LegOf([s EXCEPT !.at = x], a, k)
<1> DEFINE t == [s EXCEPT !.at = x]
           p == Stop(a, k + Stops(a) - 1).to
<1>1. k + Stops(a) - 1 \in 0 .. 2 * Stops(a) - 1
  BY StopsCount
<1>2. p \in Places
  BY <1>1, StopType
<1>3. s.at \in Places /\ s.goal \in Places
  BY DEF Actings
<1>4. t.at = x /\ t.goal = s.goal /\ t.speed = s.speed /\ t.queue = s.queue
  BY DEF Actings
<1>5. Within(s.at, p, s.goal)
  BY DEF LegOf
<1>6. Within(x, p, s.goal)
  BY <1>2, <1>3, <1>5, WithinGoesOn
<1> HIDE DEF t
<1> QED BY <1>4, <1>6 DEF LegOf

LEMMA LegWaits ==
  ASSUME NEW a \in Actors, NEW k, NEW s \in Actings, LegOf(s, a, k), NEW d \in Int
  PROVE  LegOf([s EXCEPT !.delay = d], a, k)
<1> DEFINE t == [s EXCEPT !.delay = d]
<1>1. t.at = s.at /\ t.goal = s.goal /\ t.speed = s.speed /\ t.queue = s.queue
  BY DEF Actings
<1> HIDE DEF t
<1> QED BY <1>1 DEF LegOf

\* The queue without its head.
LEMMA TailQueue ==
  ASSUME NEW s \in Actings, s.queue # <<>>
  PROVE  /\ Len(s.queue) \in Nat /\ Len(s.queue) >= 1
         /\ Head(s.queue) = s.queue[1]
         /\ Tail(s.queue) \in Seq(Waypoints) /\ Len(Tail(s.queue)) = Len(s.queue) - 1
         /\ \A i \in 1 .. Len(s.queue) - 1 : Tail(s.queue)[i] = s.queue[i + 1]
<1>1. s.queue \in Seq(Waypoints)
  BY DEF Actings
<1> QED BY <1>1

LEMMA LegNext ==
  ASSUME ActorsTypeOK, NEW a \in Actors, NEW k \in 0 .. Stops(a) - 1, NEW s \in Actings,
         LegOf(s, a, k), s.at = s.goal, s.queue # <<>>, ~config[a].cycling
  PROVE  k + 1 \in 0 .. Stops(a) - 1 /\ LegOf(SetNext(s), a, k + 1)
<1> DEFINE t == SetNext(s)
           n == Stops(a)
           m == Len(s.queue)
<1>1. n \in Nat /\ n >= 1 /\ m \in Nat /\ m >= 1 /\ m = n - 1 - k
  BY StopsCount, TailQueue DEF LegOf
<1>2. t.goal = s.queue[1].to /\ t.speed = s.queue[1].speed /\ t.queue = Tail(s.queue) /\ t.at = s.at
  BY TailQueue DEF SetNext, Actings
<1>3. [to |-> s.goal, speed |-> s.speed] = Stop(a, k)
  BY DEF LegOf
<1>4. \A i \in 1 .. m : [to |-> s.queue[i].to, speed |-> s.queue[i].speed] = Stop(a, k + i)
  BY DEF LegOf
<1>5. Len(t.queue) = m - 1 /\ \A i \in 1 .. m - 1 : t.queue[i] = s.queue[i + 1]
  BY <1>2, TailQueue
<1>6. (k + 1) + n - 1 = k + n
  BY <1>1
<1>7. Stop(a, (k + 1) + n - 1) = Stop(a, k)
  BY <1>6, StopWraps
<1>8. Within(t.at, Stop(a, (k + 1) + n - 1).to, t.goal)
  <2>1. Stop(a, k).to = s.goal
    BY <1>3
  <2>2. s.goal \in Places /\ t.goal \in Places
    BY <1>2, HeadType, TailQueue DEF Actings
  <2> QED BY <1>2, <1>7, <2>1, <2>2, WithinSelf
<1> HIDE DEF t, n, m
<1>9. [to |-> t.goal, speed |-> t.speed] = Stop(a, k + 1)
  BY <1>1, <1>2, <1>4
<1>10. \A i \in 1 .. Len(t.queue) :
         [to |-> t.queue[i].to, speed |-> t.queue[i].speed] = Stop(a, (k + 1) + i)
  <2> TAKE i \in 1 .. Len(t.queue)
  <2>1. i \in 1 .. m - 1 /\ i + 1 \in 1 .. m /\ k + (i + 1) = (k + 1) + i
    BY <1>1, <1>5
  <2> QED BY <1>4, <1>5, <2>1
<1>11. k + 1 \in 0 .. n - 1 /\ Len(t.queue) = n - 1 - (k + 1)
  BY <1>1, <1>5
<1> QED BY <1>8, <1>9, <1>10, <1>11 DEF LegOf, t, n

LEMMA LegCycles ==
  ASSUME ActorsTypeOK, NEW a \in Actors, NEW k \in 0 .. Stops(a) - 1, NEW s \in Actings,
         LegOf(s, a, k), s.at = s.goal, s.queue # <<>>, s.speed # None, config[a].cycling
  PROVE  \E j \in 0 .. Stops(a) - 1 : LegOf(CycleNext(s), a, j)
<1> DEFINE t == CycleNext(s)
           n == Stops(a)
           m == Len(s.queue)
           j == IF k + 1 < n THEN k + 1 ELSE 0
           w == [to |-> s.goal, speed |-> s.speed, delay |-> 0]
<1>1. n \in Nat /\ n >= 1 /\ m \in Nat /\ m >= 1 /\ m = n - 1
  BY StopsCount, TailQueue DEF LegOf
<1>2. /\ t.goal = s.queue[1].to /\ t.speed = s.queue[1].speed
      /\ t.queue = Append(Tail(s.queue), w) /\ t.at = s.at
  BY TailQueue DEF CycleNext, Actings
<1>3. [to |-> s.goal, speed |-> s.speed] = Stop(a, k)
  BY DEF LegOf
<1>4. \A i \in 1 .. m : [to |-> s.queue[i].to, speed |-> s.queue[i].speed] = Stop(a, k + i)
  BY DEF LegOf
<1>5. w \in Waypoints
  BY DEF Actings, Waypoints
<1>6. /\ Len(t.queue) = m /\ t.queue[m] = w
      /\ \A i \in 1 .. m - 1 : t.queue[i] = s.queue[i + 1]
  <2>1. Tail(s.queue) \in Seq(Waypoints) /\ Len(Tail(s.queue)) = m - 1
        /\ \A i \in 1 .. m - 1 : Tail(s.queue)[i] = s.queue[i + 1]
    BY TailQueue
  <2> HIDE DEF w
  <2> QED BY <1>1, <1>2, <1>5, <2>1
\* Where the round ends, the second one is the first again.
<1>7. \A i \in 0 .. n - 1 : Stop(a, j + i) = Stop(a, k + 1 + i)
  <2> TAKE i \in 0 .. n - 1
  <2>1. CASE k + 1 < n
    BY <2>1
  <2>2. CASE ~(k + 1 < n)
    <3>1. k + 1 = n /\ j = 0
      BY <1>1, <2>2
    <3>2. j + i = i /\ k + 1 + i = i + n
      BY <1>1, <3>1
    <3> QED BY <3>2, StopWraps
  <2> QED BY <2>1, <2>2
<1>8. Stop(a, j + n - 1) = Stop(a, k)
  <2>1. n - 1 \in 0 .. n - 1
    BY <1>1
  <2>2. j \in Nat /\ j + (n - 1) = j + n - 1 /\ k + 1 + (n - 1) = k + n
    BY <1>1
  <2> QED BY <1>7, <2>1, <2>2, StopWraps
<1>9. Within(t.at, Stop(a, j + n - 1).to, t.goal)
  <2>1. Stop(a, k).to = s.goal
    BY <1>3
  <2>2. s.goal \in Places /\ t.goal \in Places
    BY <1>2, HeadType, TailQueue DEF Actings
  <2> QED BY <1>2, <1>8, <2>1, <2>2, WithinSelf
<1>10. j \in 0 .. n - 1
  BY <1>1
<1>11. w.to = s.goal /\ w.speed = s.speed
  OBVIOUS
<1> HIDE DEF t, n, m, j, w
<1>12. [to |-> t.goal, speed |-> t.speed] = Stop(a, j)
  <2>1. Stop(a, j) = Stop(a, k + 1)
    <3>1. 0 \in 0 .. n - 1 /\ j + 0 = j /\ k + 1 + 0 = k + 1
      BY <1>1, <1>10
    <3> QED BY <1>7, <3>1
  <2> QED BY <1>1, <1>2, <1>4, <2>1
<1>13. \A i \in 1 .. Len(t.queue) :
         [to |-> t.queue[i].to, speed |-> t.queue[i].speed] = Stop(a, j + i)
  <2> TAKE i \in 1 .. Len(t.queue)
  <2>1. i \in 1 .. m /\ Stop(a, j + i) = Stop(a, k + 1 + i)
    BY <1>1, <1>6, <1>7
  <2>2. CASE i = m
    <3>1. k + 1 + i = k + n
      BY <1>1, <2>2
    <3>2. Stop(a, k + n) = Stop(a, k)
      BY StopWraps DEF n
    <3> QED BY <1>3, <1>6, <1>11, <2>1, <2>2, <3>1, <3>2
  <2>3. CASE i # m
    <3>1. i \in 1 .. m - 1 /\ i + 1 \in 1 .. m /\ k + (i + 1) = k + 1 + i
      BY <1>1, <2>1, <2>3
    <3> QED BY <1>4, <1>6, <2>1, <3>1
  <2> QED BY <2>2, <2>3
<1>14. Len(t.queue) = n - 1
  BY <1>1, <1>6
<1>15. LegOf(t, a, j)
  BY <1>9, <1>12, <1>13, <1>14 DEF LegOf, n
<1> QED BY <1>10, <1>15 DEF t, n

LEMMA ActorsMoveTrace ==
  ASSUME ActorsTypeOK, Speedless, OnTrace, NEW dt \in Dts, ActorsMove(dt)
  PROVE  OnTrace'
<1>1. config' = config
  BY DEF ActorsMove
<1>2. SUFFICES ASSUME NEW a \in Actors
               PROVE  \E j \in 0 .. Stops(a) - 1 : LegOf(actor'[a], a, j)
  <2>1. ASSUME NEW a \in Actors PROVE Stops(a)' = Stops(a)
    BY <1>1 DEF Stops
  <2>2. ASSUME NEW a \in Actors, NEW j PROVE Stop(a, j)' = Stop(a, j)
    BY <1>1, <2>1 DEF Stop
  <2>3. ASSUME NEW a \in Actors, NEW j, LegOf(actor'[a], a, j) PROVE OnLeg(a, j)'
    BY <1>1, <2>1, <2>2, <2>3 DEF OnLeg, LegOf, Within
  <2> QED BY <2>1, <2>3 DEF OnTrace
<1>3. PICK k \in 0 .. Stops(a) - 1 : LegOf(actor[a], a, k)
  BY DEF OnTrace, OnLeg, LegOf
<1>4. CASE actor'[a] = actor[a]
  BY <1>3, <1>4
<1>5. CASE actor'[a] = After(a, dt) /\ ~Fails(a)
  <2> DEFINE s == Moved(a, dt)
  <2>1. actor[a] \in Actings
    BY DEF ActorsTypeOK, Actings
  <2>2. /\ s \in Actings /\ s = [actor[a] EXCEPT !.at = s.at]
        /\ Within(s.at, actor[a].at, actor[a].goal)
    BY MovedKeeps
  <2>3. s.at \in Places
    BY <2>2 DEF Actings
  <2> HIDE DEF s
  <2>4. LegOf(s, a, k)
    BY <1>3, <2>1, <2>2, <2>3, LegMoves
  <2>5. CASE After(a, dt) = s
    BY <1>5, <2>4, <2>5
  <2>6. CASE After(a, dt) = [s EXCEPT !.delay = s.delay - dt]
    <3>1. s.delay - dt \in Int
      BY <2>2 DEF Actings
    <3> QED BY <1>5, <2>2, <2>4, <2>6, <3>1, LegWaits
  <2>7. CASE /\ s.at = s.goal /\ s.queue # <<>> /\ config[a].cycling /\ s.speed # None
             /\ After(a, dt) = CycleNext(s)
    BY <1>5, <2>2, <2>4, <2>7, LegCycles
  <2>8. CASE s.at = s.goal /\ s.queue # <<>> /\ ~config[a].cycling /\ After(a, dt) = SetNext(s)
    <3>1. k + 1 \in 0 .. Stops(a) - 1 /\ LegOf(SetNext(s), a, k + 1)
      BY <2>2, <2>4, <2>8, LegNext
    <3> QED BY <1>5, <2>8, <3>1
  <2> QED BY <1>5, <2>5, <2>6, <2>7, <2>8, AfterKinds DEF s
<1> QED BY <1>4, <1>5, OneByOne

LEMMA ActorsInitTrace == ActorsInit => OnTrace
<1> SUFFICES ASSUME ActorsInit, NEW a \in Actors
             PROVE  \E k \in 0 .. Stops(a) - 1 : LegOf(actor[a], a, k)
  BY DEF OnTrace, OnLeg, LegOf
<1>1. ActorsTypeOK
  BY ActorsInitType
<1> DEFINE n == Stops(a)
<1>2. n \in Nat /\ n >= 1 /\ n = Len(config[a].trace) + 1
  BY <1>1, StopsCount DEF Stops
<1>3. actor[a] = [at |-> config[a].origin, goal |-> config[a].origin,
                  speed |-> config[a].speed, queue |-> config[a].trace, delay |-> 0]
  BY DEF ActorsInit
<1>4. n - 1 \in 0 .. 2 * Stops(a) - 1 /\ 0 + Stops(a) - 1 = n - 1 /\ Len(config[a].trace) = n - 1
  BY <1>2
<1>5. Stop(a, 0 + Stops(a) - 1).to \in Places
  BY <1>1, <1>4, StopType
<1>6. [to |-> config[a].origin, speed |-> config[a].speed] = Stop(a, 0)
  BY <1>2 DEF Stop
<1>7. \A i \in 1 .. Len(config[a].trace) :
        [to |-> config[a].trace[i].to, speed |-> config[a].trace[i].speed] = Stop(a, 0 + i)
  <2> TAKE i \in 1 .. Len(config[a].trace)
  <2>1. i < n /\ i # 0 /\ 0 + i = i
    BY <1>2
  <2> QED BY <2>1 DEF Stop
<1>8. Within(config[a].origin, Stop(a, 0 + Stops(a) - 1).to, config[a].origin)
  <2>1. config[a].origin \in Int /\ Stop(a, 0 + Stops(a) - 1).to \in Int
    BY <1>1, <1>5, ConfigType
  <2> QED BY <2>1 DEF Within
<1>9. Len(config[a].trace) = IF config[a].cycling THEN Stops(a) - 1 ELSE Stops(a) - 1 - 0
  BY <1>4
<1>10. LegOf(actor[a], a, 0)
  BY <1>3, <1>6, <1>7, <1>8, <1>9 DEF LegOf
<1> QED BY <1>2, <1>10

-----------------------------------------------------------------------------
(* The camera. *)

\* convert_angle_heading gives a heading of one turn.
LEMMA HeadingRange == ASSUME NEW x \in Int PROVE Heading(x) \in 0 .. Turn - 1
<1>1. Turn \in Nat /\ Turn > 0
  BY DEF Turn
<1> HIDE DEF Turn
<1>2. -x \in Int
  OBVIOUS
<1> QED BY <1>1, <1>2 DEF Heading

\* A tick turns the camera in the sense of the difference and no further.
LEMMA RotationWithin ==
  ASSUME PoseTypeOK, NEW dt \in Dts, poseMode # "velocity"
  PROVE  /\ Rotation(dt) \in Int
         /\ \/ 0 =< Rotation(dt) /\ Rotation(dt) =< Difference
            \/ Difference =< Rotation(dt) /\ Rotation(dt) =< 0
<1> DEFINE step == AngSpeed * dt
<1>1. step \in Nat
  OBVIOUS
<1>2. Difference \in Int
  BY DEF Difference, PoseTypeOK, Turn
<1>3. Rotation(dt) = IF Size(Difference) =< step THEN Difference
                     ELSE IF Difference < 0 THEN -step ELSE step
  BY DEF Rotation
<1> HIDE DEF step
<1> QED BY <1>1, <1>2, <1>3 DEF Size

\* As long as only angles were asked for, all is within one turn of the headings.
Near ==
  ~rated => /\ poseMode # "velocity" /\ asked # "velocity"
            /\ poseTarget \in 0 .. Turn - 1 /\ heading \in -Turn .. 2 * Turn - 1

LEMMA TargetType ==
  ASSUME PoseTypeOK, NEW value \in Int, NEW mode \in {"angle", "offset", "velocity"}
  PROVE  /\ TargetOf(value, mode) \in Int
         /\ mode # "velocity" => TargetOf(value, mode) \in 0 .. Turn - 1
<1>1. Turn \in Nat
  BY DEF Turn
<1>2. heading \in Int
  BY DEF PoseTypeOK
<1>3. Heading(value) \in 0 .. Turn - 1 /\ Heading(heading) \in 0 .. Turn - 1
  BY <1>2, HeadingRange
<1>4. Heading(heading) + value \in Int
  BY <1>1, <1>3
<1>5. Heading(Heading(heading) + value) \in 0 .. Turn - 1
  BY <1>4, HeadingRange
<1> QED BY <1>1, <1>3, <1>5 DEF TargetOf

LEMMA CameraNear ==
  ASSUME PoseTypeOK, Near, NEW dt \in Dts, CameraTurns(dt)
  PROVE  PoseTypeOK' /\ Near'
<1>1. heading' = heading + Rotation(dt) /\ UNCHANGED <<poseMode, poseTarget, asked, rated>>
  BY DEF CameraTurns
<1>2. heading' \in Int
  <2>1. CASE poseMode = "velocity"
    <3>1. Rotation(dt) = poseTarget * dt
      BY <2>1 DEF Rotation
    <3>2. poseTarget * dt \in Int
      BY DEF PoseTypeOK
    <3> QED BY <1>1, <3>1, <3>2 DEF PoseTypeOK
  <2>2. CASE poseMode # "velocity"
    BY <1>1, <2>2, RotationWithin DEF PoseTypeOK
  <2> QED BY <2>1, <2>2
<1>3. ASSUME ~rated PROVE heading' \in -Turn .. 2 * Turn - 1
  <2>1. /\ poseMode # "velocity" /\ poseTarget \in 0 .. Turn - 1
        /\ heading \in -Turn .. 2 * Turn - 1
    BY <1>3 DEF Near
  <2>2. Half \in Nat /\ Turn = 2 * Half
    BY DEF Turn
  <2>3. heading + Difference \in -Turn .. 2 * Turn - 1
    BY <2>1, <2>2 DEF Difference
  <2>4. /\ Rotation(dt) \in Int /\ Difference \in Int
        /\ \/ 0 =< Rotation(dt) /\ Rotation(dt) =< Difference
           \/ Difference =< Rotation(dt) /\ Rotation(dt) =< 0
    BY <2>1, <2>2, RotationWithin DEF Difference
  <2> HIDE DEF Difference
  <2> QED BY <1>1, <2>1, <2>2, <2>3, <2>4
<1>4. PoseTypeOK'
  BY <1>1, <1>2 DEF PoseTypeOK
<1> QED BY <1>1, <1>3, <1>4 DEF Near

LEMMA CallsNear == ASSUME PoseTypeOK, Near, AskPose \/ SetPoseMode PROVE PoseTypeOK' /\ Near'
<1>1. CASE AskPose
  <2>1. PICK mode \in {"angle", "offset", "velocity"} :
          \E value \in IF mode = "velocity" THEN Rates ELSE Angles :
             poseTarget' = TargetOf(value, mode) /\ asked' = mode
    BY <1>1 DEF AskPose
  <2>2. PICK value \in Int : poseTarget' = TargetOf(value, mode) /\ asked' = mode
    BY <2>1
  <2>3. /\ rated' = (rated \/ asked' = "velocity")
        /\ UNCHANGED <<heading, poseMode>>
    BY <1>1 DEF AskPose
  <2>4. /\ poseTarget' \in Int
        /\ mode # "velocity" => poseTarget' \in 0 .. Turn - 1
    BY <2>2, TargetType
  <2>5. PoseTypeOK'
    BY <2>2, <2>3, <2>4 DEF PoseTypeOK
  <2>6. Near'
    BY <2>2, <2>3, <2>4 DEF Near
  <2> QED BY <2>5, <2>6
<1>2. CASE SetPoseMode
  BY <1>2 DEF SetPoseMode, PoseTypeOK, Near
<1> QED BY <1>1, <1>2

LEMMA Remainder ==
  ASSUME NEW n \in Nat \ {0}, NEW x \in 0 .. n - 1, NEW q \in Int
  PROVE  (x + n * q) % n = x
OBVIOUS

\* A number less than half a turn away from y, but for whole turns, is how far the
\* short way is.
LEMMA ShortWay ==
  ASSUME NEW y \in Int, NEW e \in Int, NEW q \in Int, y = e + Turn * q, Size(e) =< Half
  PROVE  LET x == y % Turn IN (IF x =< Half THEN x ELSE Turn - x) = Size(e)
<1>1. Half \in Nat \ {0} /\ Turn = 2 * Half /\ Turn \in Nat \ {0}
  BY DEF Turn
<1>2. CASE e >= 0
  <2>1. e \in 0 .. Turn - 1
    BY <1>1, <1>2 DEF Size
  <2>2. y % Turn = e
    BY <1>1, <2>1, Remainder
  <2> QED BY <1>1, <1>2, <2>2 DEF Size
<1>3. CASE e < 0
  <2>1. e + Turn \in 0 .. Turn - 1 /\ e + Turn >= Half
    BY <1>1, <1>3 DEF Size
  <2>2. y = (e + Turn) + Turn * (q - 1)
    BY <1>1
  <2>3. y % Turn = e + Turn
    <3>1. \A x \in 0 .. Turn - 1 : \A p \in Int : (x + Turn * p) % Turn = x
      BY <1>1, Remainder
    <3>2. ((e + Turn) + Turn * (q - 1)) % Turn = e + Turn
      BY <2>1, <3>1
    <3> QED BY <2>2, <3>2
  <2> QED BY <1>1, <1>3, <2>1, <2>3 DEF Size
<1> QED BY <1>2, <1>3

LEMMA TurnsCloser ==
  ASSUME PoseTypeOK, NEW dt \in Dts, CameraTurns(dt), heading' # heading, poseMode # "velocity",
         Size(poseTarget - heading) =< Turn + Half
  PROVE  Away' < Away
<1> DEFINE r == Rotation(dt)
           d == poseTarget - heading
           e == Difference
<1>1. heading' = heading + r /\ poseTarget' = poseTarget
  BY DEF CameraTurns
<1>2. r \in Int /\ r # 0 /\ d \in Int
  BY <1>1, RotationWithin DEF PoseTypeOK
<1>3. poseTarget' - heading' = d - r
  BY <1>1, <1>2 DEF PoseTypeOK
<1>4. (0 =< r /\ r =< e) \/ (e =< r /\ r =< 0)
  BY RotationWithin
<1>5. Half \in Nat \ {0} /\ Turn = 2 * Half
  BY DEF Turn
<1>6. e \in Int /\ Size(e) =< Half /\ (d = e \/ d = e + Turn \/ d = e - Turn)
  BY <1>2, <1>5 DEF Difference, Size
<1> HIDE DEF r, d, e
<1>7. PICK q \in {-1, 0, 1} : d = e + Turn * q
  BY <1>2, <1>5, <1>6
<1>8. Size(e - r) < Size(e) /\ Size(e - r) =< Half /\ e - r \in Int /\ d - r \in Int
  BY <1>2, <1>4, <1>5, <1>6 DEF Size
<1>9. d - r = (e - r) + Turn * q
  BY <1>2, <1>5, <1>6, <1>7
<1>10. Away = Size(e)
  BY <1>2, <1>6, <1>7, ShortWay DEF Away, d
<1>11. Away' = Size(e - r)
  <2>1. Away' = LET x == (d - r) % Turn IN IF x =< Half THEN x ELSE Turn - x
    BY <1>3 DEF Away, Turn
  <2> QED BY <1>8, <1>9, <2>1, ShortWay
<1> QED BY <1>8, <1>10, <1>11

-----------------------------------------------------------------------------
(* The whole. *)
ActorsInv == ActorsTypeOK /\ Speedless /\ OnTrace

LEMMA InitAll == Init => ActorsInv /\ PoseTypeOK /\ Near
<1> SUFFICES ASSUME Init PROVE ActorsInv /\ PoseTypeOK /\ Near
  OBVIOUS
<1>1. ActorsTypeOK /\ Speedless /\ OnTrace
  BY ActorsInitType, ActorsInitTrace DEF Init
<1>3. PoseTypeOK
  <2>1. heading \in Int /\ poseTarget \in Int
    BY DEF Init, PoseInit
  <2>2. poseMode = "angle" /\ asked = NoMode
    BY DEF Init, PoseInit
  <2>3. rated \in BOOLEAN
    BY DEF Init, PoseInit
  <2> QED BY <2>1, <2>2, <2>3 DEF PoseTypeOK
<1>4. Near
  BY DEF Init, PoseInit, Near, Turn
<1> QED BY <1>1, <1>3, <1>4 DEF ActorsInv

LEMMA ActorsStay == ASSUME ActorsInv, UNCHANGED actorVars PROVE ActorsInv'
<1>1. config' = config /\ actor' = actor /\ dead' = dead
  BY DEF actorVars
<1>2. ActorsTypeOK' /\ Speedless'
  BY <1>1 DEF ActorsInv, ActorsTypeOK, Speedless, Fresh
<1>4. OnTrace'
  <2>1. ASSUME NEW a \in Actors PROVE Stops(a)' = Stops(a)
    BY <1>1 DEF Stops
  <2>2. ASSUME NEW a \in Actors, NEW k PROVE Stop(a, k)' = Stop(a, k)
    BY <1>1, <2>1 DEF Stop
  <2>3. ASSUME NEW a \in Actors, NEW k, OnLeg(a, k) PROVE OnLeg(a, k)'
    BY <1>1, <2>1, <2>2, <2>3 DEF OnLeg, Within
  <2> QED BY <2>1, <2>3 DEF ActorsInv, OnTrace
<1> QED BY <1>2, <1>4 DEF ActorsInv

LEMMA PoseStays == ASSUME PoseTypeOK, Near, UNCHANGED poseVars PROVE PoseTypeOK' /\ Near'
BY DEF poseVars, PoseTypeOK, Near

LEMMA NextAll == ActorsInv /\ PoseTypeOK /\ Near /\ [Next]_vars =>
                   ActorsInv' /\ PoseTypeOK' /\ Near'
<1> SUFFICES ASSUME ActorsInv, PoseTypeOK, Near, [Next]_vars
             PROVE  ActorsInv' /\ PoseTypeOK' /\ Near'
  OBVIOUS
<1>1. CASE UNCHANGED vars
  BY <1>1, ActorsStay, PoseStays DEF vars
<1>2. CASE Simulate
  <2>1. PICK dt \in Dts :
         ActorsMove(dt) /\ dead' \in BOOLEAN /\ (UNCHANGED poseVars \/ CameraTurns(dt))
    BY <1>2 DEF Simulate
  <2>2. ActorsInv'
    BY <2>1, ActorsMoveType, ActorsMoveTrace DEF ActorsInv
  <2>3. PoseTypeOK' /\ Near'
    BY <2>1, CameraNear, PoseStays
  <2> QED BY <2>2, <2>3
<1>3. CASE Call
  BY <1>3, ActorsStay, CallsNear DEF Call
<1>4. CASE Return
  BY <1>4, ActorsStay, CallsNear DEF Return
<1> QED BY <1>1, <1>2, <1>3, <1>4 DEF Next

\* The inductive invariant: traces and camera together.
THEOREM AllKept == Spec => [](ActorsInv /\ PoseTypeOK /\ Near)
BY InitAll, NextAll, PTL DEF Spec

\* Every reachable state is well typed: no actor walks off the ground.
THEOREM TypeCorrect == Spec => []TypeOK
<1>1. ActorsInv /\ PoseTypeOK /\ Near => TypeOK
  BY DEF ActorsInv, TypeOK
<1> QED BY <1>1, AllKept, PTL

\* An actor walks its trace leg by leg, once or round and round, whatever ticks come.
THEOREM TracesKept == Spec => []OnTrace
<1>1. ActorsInv /\ PoseTypeOK /\ Near => OnTrace
  BY DEF ActorsInv
<1> QED BY <1>1, AllKept, PTL

\* However many angles and offsets are asked for, the camera is not wound up.
THEOREM CameraStaysNearby == Spec => []StaysNearby
<1>1. ActorsInv /\ PoseTypeOK /\ Near => StaysNearby
  BY DEF Near, StaysNearby
<1> QED BY <1>1, AllKept, PTL

\* Up to a turn and a half away a tick turns the camera the short way, closer to the
\* heading asked for and not past it.
THEOREM CameraClosesIn == Spec => ClosesIn
<1>1. PoseTypeOK /\ [Next]_vars =>
        [heading' # heading /\ poseMode # "velocity" /\ Size(poseTarget - heading) =< Turn + Half
           => Away' < Away]_poseVars
  <2> SUFFICES ASSUME PoseTypeOK, [Next]_vars, heading' # heading, poseMode # "velocity",
                      Size(poseTarget - heading) =< Turn + Half
               PROVE  Away' < Away
    OBVIOUS
  <2>1. \E dt \in Dts : CameraTurns(dt)
    BY DEF Next, Simulate, Call, Return, AskPose, SetPoseMode, vars, poseVars
  <2> QED BY <2>1, TurnsCloser
<1> QED BY <1>1, AllKept, PTL DEF Spec, ClosesIn
=============================================================================
