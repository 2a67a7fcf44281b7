--------------------------------- MODULE AxisPID ---------------------------------
(***************************************************************************)
(* The arithmetic of velocity_pid.py for one axis: AxisPID, ActuationAxis  *)
(* and the PCMD of VelocityPIDThread._step. What handlers and the thread   *)
(* do to each other is in AnafiControl; here a step runs undisturbed.      *)
(*                                                                         *)
(* Velocities, gains and commands are integers: a velocity in units of the *)
(* sensor, a command in Unit-ths of a stick step, times in ticks. Absolute *)
(* times only ever occur as differences, which are what is kept. The dead  *)
(* bands of lines 174 and 188 lie below the settling error, which those    *)
(* lines are only reached beyond, and are left out.                        *)
(***************************************************************************)
EXTENDS Integers

CONSTANTS
  Setpoints,   \* velocities that can be asked for
  Readings,    \* velocities the sensors report
  Deadband,    \* ERROR_DEADBAND_MPS
  Settling,    \* SETTLING_ERROR_MPS
  Stale,       \* STALE_SAMPLE_S
  HalfKp, Ki, Kd, MaxI,  \* PIDGains, with half of kp
  PcmdMax,     \* PCMD_MAX
  Unit,        \* units of a command in one stick step
  MaxElapsed,  \* bound: how long the readings repeat
  None         \* no time set

ASSUME PIDAssumption ==
  /\ Setpoints \subseteq Int /\ 0 \in Setpoints /\ Readings \subseteq Int
  /\ Deadband \in Nat /\ Settling \in Nat \ {0} /\ Stale \in Nat /\ MaxElapsed \in Nat
  /\ HalfKp \in Nat /\ Ki \in Nat /\ Kd \in Nat /\ MaxI \in Nat
  /\ PcmdMax \in Nat \ {0} /\ Unit \in Nat \ {0}
  /\ None \notin Int

VARIABLES
  active,     \* VelocityPIDThread._active
  target,     \* the axis of _target
  frame,      \* _frame: a target in "neu" turns with the vehicle
  elapsed,    \* AxisPID._prev_time - _last_change_time, None after a reset
  prevError,  \* AxisPID._prev_error
  integral,   \* AxisPID._integral
  command,    \* ActuationAxis._previous_command
  stick,      \* the drone: the stick of the last PCMD it got
  judged      \* observer: the setpoint the command was computed for

pid == <<elapsed, prevError, integral>>
vars == <<active, target, frame, pid, command, stick, judged>>

PIDInit == elapsed = None /\ prevError = 0 /\ integral = 0

Init ==
  /\ active = FALSE /\ target = 0 /\ frame = "body"
  /\ PIDInit
  /\ command = 0 /\ stick = 0 /\ judged = 0

Abs(x) == IF x < 0 THEN -x ELSE x
Clamp(x, bound) == IF x < -bound THEN -bound ELSE IF x > bound THEN bound ELSE x

\* round(): to the nearest stick step, a tie to the even one.
Stick(x) ==
  LET down == x \div Unit
      rest == 2 * (x % Unit)
  IN  IF rest < Unit \/ (rest = Unit /\ down % 2 = 0) THEN down ELSE down + 1

-----------------------------------------------------------------------------
(* AxisPID.update, for a reading dt after the last one.                    *)
Error(setpoint, current) ==
  IF Abs(setpoint - current) < Deadband THEN 0 ELSE setpoint - current

\* Neither the times nor the error of an older sample are used.
Fresh(dt) == elapsed = None \/ dt > Stale

Repeat(error, dt) == ~Fresh(dt) /\ error = prevError

Unwinds(error) == (error > 0 /\ integral < 0) \/ (error < 0 /\ integral > 0)

\* Faulty: the integral is not clamped.
Integral_Unclamped(error, dt) ==
  IF Abs(error) < Settling \/ Fresh(dt) \/ Unwinds(error)
    THEN integral
    ELSE integral + (IF error > 0 THEN Ki * dt ELSE -(Ki * dt))

\* Frozen near the setpoint, and while the error has the other sign.
Integral(error, dt) ==
  IF Abs(error) < Settling \/ Fresh(dt) \/ Unwinds(error)
    THEN integral
    ELSE Clamp(integral + (IF error > 0 THEN Ki * dt ELSE -(Ki * dt)), MaxI)

\* Over the time since the reading last changed, not since the last tick.
Derivative(error, dt) ==
  IF Fresh(dt) \/ elapsed + dt = 0 THEN 0
  ELSE (Kd * (error - prevError)) \div (elapsed + dt)

Output(error, dt) ==
  IF Abs(error) < Settling THEN HalfKp * error
  ELSE 2 * HalfKp * error + Integral(error, dt) + Derivative(error, dt)

ResetPID == elapsed' = None /\ prevError' = 0 /\ integral' = 0

-----------------------------------------------------------------------------
(* ActuationAxis.compute.                                                  *)
Opposite(setpoint, value) ==
  (setpoint =< 0 /\ value > 0) \/ (setpoint >= 0 /\ value < 0)

\* No new reading: the command is held.
HoldCommand(dt) ==
  /\ elapsed + dt =< MaxElapsed
  /\ elapsed' = elapsed + dt
  /\ UNCHANGED <<prevError, integral, command, judged>>

\* Faulty: the brake looks at the command before the output is added.
Compute_BrakesLate(setpoint, error, dt) ==
  /\ judged' = setpoint
  /\ IF Opposite(setpoint, command)
       THEN command' = 0 /\ ResetPID
       ELSE /\ command' = Clamp(command + Output(error, dt), PcmdMax * Unit)
            /\ integral' = Integral(error, dt)
            /\ prevError' = error
            /\ elapsed' = 0

Compute(setpoint, error, dt) ==
  /\ judged' = setpoint
  /\ IF Opposite(setpoint, command + Output(error, dt))
       THEN command' = 0 /\ ResetPID
       ELSE /\ command' = Clamp(command + Output(error, dt), PcmdMax * Unit)
            /\ integral' = Integral(error, dt)
            /\ prevError' = error
            /\ elapsed' = 0

(* VelocityPIDThread.                                                      *)
\* A PCMD is sent only if one of the four sticks is not zero.
Transmit(others) ==
  stick' = IF Stick(command') # 0 \/ others THEN Stick(command') ELSE stick

Step(setpoint, current, dt, others) ==
  /\ active
  /\ LET error == Error(setpoint, current)
     IN  IF Repeat(error, dt) THEN HoldCommand(dt) ELSE Compute(setpoint, error, dt)
  /\ Transmit(others)
  /\ UNCHANGED <<active, target, frame>>

Tick ==
  \E setpoint \in IF frame = "neu" THEN Setpoints ELSE {target},
     current \in Readings, dt \in 0..Stale + 1, others \in BOOLEAN :
       Step(setpoint, current, dt, others)

SetTarget ==
  /\ active' = TRUE
  /\ target' \in Setpoints
  /\ frame' \in {"body", "neu"}
  /\ UNCHANGED <<pid, command, stick, judged>>

\* Hold also sends sticks of zero.
Pause ==
  /\ active' = FALSE
  /\ ResetPID
  /\ command' = 0
  /\ stick' \in {stick, 0}
  /\ UNCHANGED <<target, frame, judged>>

Next == Tick \/ SetTarget \/ Pause

Spec == Init /\ [][Next]_vars

-----------------------------------------------------------------------------
\* The variables are in range: commands within PCMD_MIN and PCMD_MAX, and the
\* integral within max_i.
TypeOK ==
  /\ active \in BOOLEAN /\ target \in Setpoints /\ frame \in {"body", "neu"}
  /\ elapsed \in Nat \cup {None} /\ prevError \in Int
  /\ integral \in -MaxI..MaxI
  /\ command \in -(PcmdMax * Unit)..PcmdMax * Unit
  /\ stick \in Int /\ judged \in Setpoints

\* No command fights the setpoint it was computed for, whatever the derivative and
\* the integral say; for a setpoint of zero every command is zero
\* (velocity_pid.py:199-203).
NeverFights == ~Opposite(judged, command)
=============================================================================
