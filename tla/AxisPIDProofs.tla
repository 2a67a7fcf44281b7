----------------------------- MODULE AxisPIDProofs -----------------------------
(***************************************************************************)
(* Proofs about AxisPID, for all gains, limits, dead bands and velocities. *)
(***************************************************************************)
EXTENDS AxisPID, TLAPS

USE PIDAssumption

\* The numbers alone; active is of another kind.
Numbers ==
  /\ target \in Setpoints
  /\ elapsed \in Nat \cup {None} /\ prevError \in Int
  /\ integral \in -MaxI..MaxI
  /\ command \in -(PcmdMax * Unit)..PcmdMax * Unit
  /\ stick \in Int /\ judged \in Setpoints

-----------------------------------------------------------------------------
\* round() gives a whole stick.
LEMMA StickWhole == ASSUME NEW x \in Int PROVE Stick(x) \in Int
<1>1. x \div Unit \in Int
  OBVIOUS
<1> QED BY <1>1 DEF Stick

LEMMA ErrorWhole ==
  ASSUME NEW setpoint \in Setpoints, NEW current \in Readings
  PROVE  Error(setpoint, current) \in Int
BY DEF Error, Abs

LEMMA ClampWithin ==
  ASSUME NEW x \in Int, NEW bound \in Nat
  PROVE  /\ Clamp(x, bound) \in -bound..bound
         /\ x >= 0 => Clamp(x, bound) >= 0
         /\ x =< 0 => Clamp(x, bound) =< 0
BY DEF Clamp

LEMMA LimitWhole == PcmdMax * Unit \in Nat
OBVIOUS

\* One sample leaves the integral within its limits.
LEMMA IntegralWithin ==
  ASSUME Numbers, NEW error \in Int, NEW dt \in Nat
  PROVE  Integral(error, dt) \in -MaxI..MaxI
<1>1. Ki * dt \in Nat
  OBVIOUS
<1>2. DEFINE w == Ki * dt
<1>3. w \in Nat
  BY <1>1
<1> HIDE DEF w
<1>4. CASE Abs(error) < Settling \/ Fresh(dt) \/ Unwinds(error)
  BY <1>4 DEF Integral, Numbers
<1>5. CASE ~(Abs(error) < Settling \/ Fresh(dt) \/ Unwinds(error))
  <2>1. Integral(error, dt) = Clamp(integral + (IF error > 0 THEN w ELSE -w), MaxI)
    BY <1>5 DEF Integral, w
  <2>2. integral + (IF error > 0 THEN w ELSE -w) \in Int
    BY <1>3 DEF Numbers
  <2> QED BY <2>1, <2>2, ClampWithin
<1> QED BY <1>4, <1>5

LEMMA OutputWhole ==
  ASSUME Numbers, NEW error \in Int, NEW dt \in Nat
  PROVE  Output(error, dt) \in Int
<1>1. HalfKp * error \in Int /\ 2 * HalfKp * error \in Int
  OBVIOUS
<1>2. Derivative(error, dt) \in Int
  <2>1. CASE Fresh(dt) \/ elapsed + dt = 0
    BY <2>1 DEF Derivative
  <2>2. CASE ~(Fresh(dt) \/ elapsed + dt = 0)
    <3>1. elapsed + dt \in Nat \ {0}
      BY <2>2 DEF Fresh, Numbers
    <3>2. Kd * (error - prevError) \in Int
      BY DEF Numbers
    <3>3. (Kd * (error - prevError)) \div (elapsed + dt) \in Int
      BY <3>1, <3>2
    <3> QED BY <2>2, <3>3 DEF Derivative
  <2> QED BY <2>1, <2>2
<1>3. Integral(error, dt) \in Int
  BY IntegralWithin
<1> QED BY <1>1, <1>2, <1>3 DEF Output

-----------------------------------------------------------------------------
\* What a sample does to the numbers.
LEMMA SampleEffect ==
  ASSUME Numbers, ~Opposite(judged, command), NEW setpoint \in Setpoints, NEW current \in Readings,
         NEW dt \in 0..Stale + 1, NEW others \in BOOLEAN, Step(setpoint, current, dt, others)
  PROVE  /\ Numbers'
         /\ ~Opposite(judged', command')
<1> DEFINE error == Error(setpoint, current)
           raw == command + Output(error, dt)
           limit == PcmdMax * Unit
<1>1. error \in Int /\ dt \in Nat /\ limit \in Nat
  BY ErrorWhole, LimitWhole
<1>2. raw \in Int
  BY <1>1, OutputWhole DEF Numbers
<1>3. target' \in Setpoints
  BY DEF Step, Numbers
<1>4. command' \in Int => stick' \in Int
  BY StickWhole DEF Step, Transmit, Numbers
<1> HIDE DEF error, raw, limit
<1>5. CASE Repeat(error, dt)
  <2>1. HoldCommand(dt)
    BY <1>5 DEF Step, error
  <2>2. elapsed \in Nat
    BY <1>5 DEF Repeat, Fresh, Numbers
  <2> QED BY <1>1, <1>3, <1>4, <2>1, <2>2 DEF HoldCommand, Numbers, Opposite
<1>6. CASE ~Repeat(error, dt)
  <2>1. Compute(setpoint, error, dt)
    BY <1>6 DEF Step, error
  <2>2. CASE Opposite(setpoint, raw)
    <3>1. command' = 0 /\ ResetPID /\ judged' = setpoint
      BY <2>1, <2>2 DEF Compute, raw
    <3>2. 0 \in -limit..limit
      BY <1>1
    <3> QED BY <1>3, <1>4, <3>1, <3>2 DEF ResetPID, Numbers, Opposite, limit
  <2>3. CASE ~Opposite(setpoint, raw)
    <3>1. /\ command' = Clamp(raw, limit) /\ judged' = setpoint
          /\ integral' = Integral(error, dt) /\ prevError' = error /\ elapsed' = 0
      BY <2>1, <2>3 DEF Compute, raw, limit
    <3>2. /\ command' \in -limit..limit
          /\ raw >= 0 => command' >= 0
          /\ raw =< 0 => command' =< 0
      BY <1>1, <1>2, <3>1, ClampWithin
    <3>3. ~Opposite(judged', command')
      BY <1>1, <1>2, <2>3, <3>1, <3>2 DEF Opposite
    <3>4. Numbers'
      BY <1>1, <1>3, <1>4, <3>1, <3>2, IntegralWithin DEF Numbers, limit
    <3> QED BY <3>3, <3>4
  <2> QED BY <2>2, <2>3
<1> QED BY <1>5, <1>6

\* A handler changes the target, or clears the memory and the command.
LEMMA HandlerEffect ==
  ASSUME Numbers, ~Opposite(judged, command), SetTarget \/ Pause \/ UNCHANGED vars
  PROVE  /\ Numbers'
         /\ ~Opposite(judged', command')
<1>1. CASE SetTarget
  BY <1>1 DEF SetTarget, Numbers, Opposite, pid
<1>2. CASE Pause
  <2>1. 0 \in -(PcmdMax * Unit)..PcmdMax * Unit
    BY LimitWhole
  <2> QED BY <1>2, <2>1 DEF Pause, ResetPID, Numbers, Opposite
<1>3. CASE UNCHANGED vars
  BY <1>3 DEF vars, pid, Numbers, Opposite
<1> QED BY <1>1, <1>2, <1>3

LEMMA NumbersHold == Spec => [](Numbers /\ ~Opposite(judged, command))
<1>1. Init => Numbers /\ ~Opposite(judged, command)
  BY LimitWhole DEF Init, PIDInit, Numbers, Opposite
<1>2. Numbers /\ ~Opposite(judged, command) /\ [Next]_vars
        => (Numbers /\ ~Opposite(judged, command))'
  BY SampleEffect, HandlerEffect DEF Next, Tick, Numbers
<1> QED
  BY <1>1, <1>2, PTL DEF Spec

LEMMA FlagsHold == Spec => [](active \in BOOLEAN /\ frame \in {"body", "neu"})
<1>1. Init => active \in BOOLEAN /\ frame \in {"body", "neu"}
  BY DEF Init
<1>2. active \in BOOLEAN /\ frame \in {"body", "neu"} /\ [Next]_vars
        => (active \in BOOLEAN /\ frame \in {"body", "neu"})'
  BY Zenon DEF Next, Tick, Step, SetTarget, Pause, vars
<1> QED
  BY <1>1, <1>2, PTL DEF Spec

-----------------------------------------------------------------------------
\* Commands stay within PCMD_MIN and PCMD_MAX and the integral within max_i, for
\* all gains.
THEOREM TypeCorrect == Spec => []TypeOK
<1>1. Numbers /\ active \in BOOLEAN /\ frame \in {"body", "neu"} => TypeOK
  BY Zenon DEF Numbers, TypeOK
<1> QED
  BY <1>1, NumbersHold, FlagsHold, PTL

\* No command opposes the setpoint it was computed for.
THEOREM CommandsNeverFight == Spec => []NeverFights
BY NumbersHold, PTL DEF NeverFights
=============================================================================
