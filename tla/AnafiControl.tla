------------------------------ MODULE AnafiControl ------------------------------
(***************************************************************************)
(* The Control service of the Parrot Anafi driver (control.py) and its     *)
(* velocity thread (velocity_pid.py). gRPC handler threads write the mode  *)
(* and the setpoint of the DroneWrapper, resume and pause the velocity     *)
(* thread and command the drone, without a lock between them; the thread   *)
(* reads its target under a lock, its PID memory without one, and commands *)
(* the drone too.                                                          *)
(*                                                                         *)
(* One action is what a Python thread does between two accesses to state   *)
(* it shares. The three axes are alike and share nothing: one stands for   *)
(* all, and of its memory only the two times decide which way a step goes. *)
(* Which velocities the sensors report is left open. The drone is          *)
(* external: it takes every command, as the comments of control.py say.    *)
(***************************************************************************)
EXTENDS Naturals

CONSTANTS
  Calls,    \* threads of the gRPC pool that serve Control
  Targets,  \* velocities a client can ask for
  None      \* no setpoint, time not set, no target

VARIABLES
  pc,        \* where each call stands
  op,        \* the call it serves
  setpoint,  \* DroneWrapper.setpoint: which kind of request it is from
  mode,      \* DroneWrapper.flight_mode
  active,    \* VelocityPIDThread._active
  target,    \* VelocityPIDThread._target and _frame
  tick,      \* where the velocity thread stands; "dead" after an exception
  aim,       \* _step: the target it read; None between steps
  first,     \* update: first_sample
  prevTime,  \* AxisPID._prev_time is set
  lastTime,  \* AxisPID._last_change_time is set
  order,     \* the drone: what it is doing
  late,      \* observer: PCMDs against the last call to pause, resume or set_target
  last       \* observer: the kind of the last flight call, None if it met another

callVars   == <<pc, op>>
wrapper    == <<setpoint, mode>>
threadVars == <<tick, aim, first>>
pidVars    == <<prevTime, lastTime>>
vars == <<callVars, wrapper, active, target, threadVars, pidVars, order, late, last>>

\* SetRelativePositionTarget and SetGlobalPositionTarget are one operation here,
\* and so are the two gimbal handlers.
Clearing == {"takeoff", "land", "hold", "kill", "rth"}   \* @nosetpoint
Marking  == {"position", "velocity", "gimbal"}           \* @setpoint
ASSUME NoneAssumption == None \notin Clearing \cup Marking \cup {"set"}

Requests == [kind : (Clearing \cup Marking) \ {"velocity"}, velocity : {None}]
              \cup [kind : {"velocity"}, velocity : Targets]

ModeOf(kind) ==
  CASE kind = "takeoff" -> "takeoff" [] kind = "land" -> "land"
    [] kind = "hold" -> "loiter"     [] kind = "kill" -> "emergency"
    [] kind = "rth"  -> "rth"        [] OTHER -> "guided"

Pausing == {"pause", "reset1", "reset2"}

Goto(c, point) == pc' = [pc EXCEPT ![c] = point]

Init ==
  /\ pc = [c \in Calls |-> "idle"]
  /\ op = [c \in Calls |-> None]
  /\ setpoint = None
  /\ mode = "unspecified"
  /\ active = FALSE
  /\ target = None
  /\ tick = "wait" /\ aim = None /\ first = FALSE
  /\ prevTime = None /\ lastTime = None
  /\ order = "landed"
  /\ late = 0 /\ last = None

-----------------------------------------------------------------------------
(* The drone, as control.py relies on it: on the ground it only takes off, *)
(* with cut motors it only falls; a PCMD cancels a landing (line 125) and  *)
(* not a return to home (line 123).                                        *)
After(command) ==
  CASE order = "landed" -> IF command = "takeoff" THEN "flying" ELSE order
    [] order = "emergency" -> order
    [] order \in {"flying", "land", "rth"} ->
         IF command = "takeoff" \/ (order = "rth" /\ command = "pcmd") THEN order
         ELSE IF command \in {"move", "pcmd"} THEN "flying"
         ELSE command

TouchDown ==
  /\ order \in {"land", "emergency"}
  /\ order' = "landed"
  /\ UNCHANGED <<callVars, wrapper, active, target, threadVars, pidVars, late, last>>

Arrive ==
  /\ order = "rth"
  /\ order' \in {"flying", "land"}
  /\ UNCHANGED <<callVars, wrapper, active, target, threadVars, pidVars, late, last>>

-----------------------------------------------------------------------------
\* Every call but those for the gimbal sets the flight mode.
InFlight(c) == pc[c] # "idle" /\ op[c].kind # "gimbal"

(* The handlers. @nosetpoint clears the setpoint first, @setpoint marks the *)
(* one of the response last.                                               *)
Accept(c) ==
  /\ pc[c] = "idle"
  /\ \E r \in Requests :
       /\ op' = [op EXCEPT ![c] = r]
       /\ Goto(c, IF r.kind \in Clearing THEN "clear"
                  ELSE IF r.kind = "gimbal" THEN "command" ELSE "mode")
       /\ last' = IF r.kind = "gimbal" THEN last
                  ELSE IF \E d \in Calls : InFlight(d) THEN None ELSE r.kind
  /\ UNCHANGED <<wrapper, active, target, threadVars, pidVars, order, late>>

ClearSetpoint(c) ==
  /\ pc[c] = "clear"
  /\ setpoint' = None
  /\ Goto(c, "mode")
  /\ UNCHANGED <<op, mode, active, target, threadVars, pidVars, order, late, last>>

\* Faulty: velocity control is resumed for every guided mode.
SetMode_ResumesGuided(c) ==
  /\ pc[c] = "mode"
  /\ mode' = ModeOf(op[c].kind)
  /\ Goto(c, IF mode' = "guided" THEN "resume" ELSE "pause")
  /\ UNCHANGED <<op, setpoint, active, target, threadVars, pidVars, order, late, last>>

\* Control.set_flight_mode: the mode, then resume or pause.
SetMode(c) ==
  /\ pc[c] = "mode"
  /\ mode' = ModeOf(op[c].kind)
  /\ Goto(c, IF op[c].kind = "velocity" THEN "resume" ELSE "pause")
  /\ UNCHANGED <<op, setpoint, active, target, threadVars, pidVars, order, late, last>>

Resume(c) ==
  /\ pc[c] = "resume"
  /\ active' = TRUE
  /\ late' = 0
  /\ Goto(c, "target")
  /\ UNCHANGED <<op, wrapper, target, threadVars, pidVars, order, last>>

\* Faulty: the flag is left set when the mode leaves velocity control.
Pause_NotCleared(c) ==
  /\ pc[c] = "pause"
  /\ late' = 0
  /\ Goto(c, "reset1")
  /\ UNCHANGED <<op, wrapper, active, target, threadVars, pidVars, order, last>>

Pause(c) ==
  /\ pc[c] = "pause"
  /\ active' = FALSE
  /\ late' = 0
  /\ Goto(c, "reset1")
  /\ UNCHANGED <<op, wrapper, target, threadVars, pidVars, order, last>>

\* AxisPID.reset, one time at a time.
Reset(c) ==
  /\ \/ pc[c] = "reset1" /\ prevTime' = None /\ Goto(c, "reset2") /\ UNCHANGED lastTime
     \/ /\ pc[c] = "reset2" /\ lastTime' = None /\ UNCHANGED prevTime
        /\ Goto(c, IF op[c].kind = "hold" THEN "abort" ELSE "command")
  /\ UNCHANGED <<op, wrapper, active, target, threadVars, order, late, last>>

SetTarget(c) ==
  /\ pc[c] = "target"
  /\ target' = op[c].velocity
  /\ late' = 0
  /\ Goto(c, "mark")
  /\ UNCHANGED <<op, wrapper, active, threadVars, pidVars, order, last>>

Return(c) == Goto(c, "idle") /\ op' = [op EXCEPT ![c] = None]

AfterCommand(c) ==
  IF op[c].kind \in Clearing THEN Return(c) ELSE Goto(c, "mark") /\ UNCHANGED op

\* Faulty: the return to home is not aborted.
Abort_Not(c) ==
  /\ pc[c] = "abort"
  /\ Goto(c, "command")
  /\ UNCHANGED <<op, wrapper, active, target, threadVars, pidVars, order, late, last>>

\* Hold aborts a return to home before it commands the drone.
Abort(c) ==
  /\ pc[c] = "abort"
  /\ order' = IF order = "rth" THEN "flying" ELSE order
  /\ Goto(c, "command")
  /\ UNCHANGED <<op, wrapper, active, target, threadVars, pidVars, late, last>>

Ordered(kind) ==
  CASE kind = "hold" -> "pcmd"     [] kind = "kill" -> "emergency"
    [] kind = "position" -> "move" [] OTHER -> kind

\* TakeOff and Land look at the flying state first and abort the call, which
\* leaves the order as it is; the outcome of a command is ignored.
Command(c) ==
  /\ pc[c] = "command"
  /\ order' = IF op[c].kind = "gimbal" THEN order ELSE After(Ordered(op[c].kind))
  /\ AfterCommand(c)
  /\ UNCHANGED <<wrapper, active, target, threadVars, pidVars, late, last>>

Mark(c) ==
  /\ pc[c] = "mark"
  /\ setpoint' = op[c].kind
  /\ Return(c)
  /\ UNCHANGED <<mode, active, target, threadVars, pidVars, order, late, last>>

-----------------------------------------------------------------------------
(* The velocity thread: run, _step, AxisPID.update, ActuationAxis.compute. *)
\* Faulty: the loop does not wait for _active before every step.
WakeUp_NoWait ==
  /\ tick = "wait"
  /\ tick' = "load"
  /\ UNCHANGED <<callVars, wrapper, active, target, aim, first, pidVars, order, late, last>>

WakeUp ==
  /\ tick = "wait"
  /\ active
  /\ tick' = "load"
  /\ UNCHANGED <<callVars, wrapper, active, target, aim, first, pidVars, order, late, last>>

Load ==
  /\ tick = "load"
  /\ tick' = "sample"
  /\ aim' = target
  /\ UNCHANGED <<callVars, wrapper, active, target, first, pidVars, order, late, last>>

\* Line 144, where first_sample is decided once for the whole update.
Sample ==
  /\ tick = "sample"
  /\ first' = (prevTime = None)
  /\ tick' = "gap"
  /\ UNCHANGED <<callVars, wrapper, active, target, aim, pidVars, order, late, last>>

\* Line 145: subtracting None raises, and nothing catches it.
Gap ==
  /\ tick = "gap"
  /\ tick' \in IF first THEN {"fresh"}
               ELSE IF prevTime = None THEN {"dead"} ELSE {"fresh", "advance"}
  /\ first' = FALSE
  /\ UNCHANGED <<callVars, wrapper, active, target, aim, pidVars, order, late, last>>

\* Lines 148-152: a first sample, or one after a gap.
Fresh ==
  /\ \/ tick = "fresh" /\ prevTime' = "set" /\ tick' = "stamp" /\ UNCHANGED lastTime
     \/ tick = "stamp" /\ lastTime' = "set" /\ tick' = "output" /\ UNCHANGED prevTime
  /\ UNCHANGED <<callVars, wrapper, active, target, aim, first, order, late, last>>

\* Lines 153-162: a repeated reading skips the rest and keeps the command.
Advance ==
  /\ tick = "advance"
  /\ IF prevTime = None
       THEN tick' = "dead" /\ UNCHANGED prevTime
       ELSE tick' \in {"output", "send"} /\ prevTime' = "set"
  /\ UNCHANGED <<callVars, wrapper, active, target, aim, first, lastTime, order, late, last>>

\* Lines 164-193: near the setpoint the time of the last change is only
\* written, elsewhere it is read first.
Output ==
  /\ tick = "output"
  /\ \/ tick' = "compute" /\ lastTime' = "set"
     \/ lastTime = None /\ tick' = "dead" /\ UNCHANGED lastTime
  /\ UNCHANGED <<callVars, wrapper, active, target, aim, first, prevTime, order, late, last>>

\* Lines 222-230: braking resets the PID of the axis; the command is kept.
Compute ==
  /\ tick = "compute"
  /\ \/ prevTime' = None /\ lastTime' = None
     \/ UNCHANGED <<prevTime, lastTime>>
  /\ tick' = "send"
  /\ UNCHANGED <<callVars, wrapper, active, target, aim, first, order, late, last>>

Transmit ==
  /\ tick = "send"
  /\ tick' = "wait"
  /\ order' = After("pcmd")
  /\ late' = IF active /\ aim = target THEN late ELSE late + 1
  /\ aim' = None
  /\ UNCHANGED <<callVars, wrapper, active, target, first, pidVars, last>>

\* All sticks are zero: no PCMD.
Skip ==
  /\ tick = "send"
  /\ tick' = "wait"
  /\ aim' = None
  /\ UNCHANGED <<callVars, wrapper, active, target, first, pidVars, order, late, last>>

-----------------------------------------------------------------------------
Handle(c) ==
  \/ ClearSetpoint(c) \/ SetMode(c) \/ Resume(c) \/ Pause(c) \/ Reset(c)
  \/ SetTarget(c) \/ Abort(c) \/ Command(c) \/ Mark(c)

Tick ==
  \/ WakeUp \/ Load \/ Sample \/ Gap \/ Fresh \/ Advance \/ Output \/ Compute
  \/ Transmit \/ Skip

Drone == TouchDown \/ Arrive

Next == (\E c \in Calls : Accept(c) \/ Handle(c)) \/ Tick \/ Drone

Spec == Init /\ [][Next]_vars

-----------------------------------------------------------------------------
\* The variables are in range, and a call is only where its kind takes it.
TypeOK ==
  /\ pc \in [Calls -> {"idle", "clear", "mode", "resume", "target", "abort", "command", "mark"}
                        \cup Pausing]
  /\ op \in [Calls -> Requests \cup {None}]
  /\ \A c \in Calls :
       /\ pc[c] # "idle" => op[c] \in Requests
       /\ pc[c] \in {"resume", "target"} => op[c].kind = "velocity"
       /\ pc[c] \in Pausing \cup {"command"} => op[c].kind # "velocity"
       /\ pc[c] = "clear" => op[c].kind \in Clearing
       /\ pc[c] \in {"mode"} \cup Pausing => op[c].kind # "gimbal"
       /\ pc[c] = "abort" => op[c].kind = "hold"
       /\ pc[c] = "mark" => op[c].kind \in Marking
  /\ setpoint \in Marking \cup {None}
  /\ mode \in {"unspecified", "takeoff", "land", "loiter", "emergency", "rth", "guided"}
  /\ active \in BOOLEAN
  /\ target \in Targets \cup {None} /\ aim \in Targets \cup {None}
  /\ tick \in {"wait", "load", "sample", "gap", "fresh", "stamp", "advance", "output", "compute",
               "send", "dead"}
  /\ first \in BOOLEAN
  /\ prevTime \in {None, "set"} /\ lastTime \in {None, "set"}
  /\ order \in {"landed", "flying", "land", "rth", "emergency"}
  /\ last \in Clearing \cup {"position", "velocity", None}

\* What a call has told the velocity thread, to pause or to fly another target, is
\* overtaken by at most one PCMD, the one of the step the thread was in, however
\* many calls tell it other things meanwhile (velocity_pid.py:268-281, 299-302, 327).
\* That one PCMD may be sent.
OneStaleStep == late \in {0, 1}

\* Whatever calls that met have left behind, a flight call that met no other puts
\* all in order: with none in progress, velocity control is active exactly when the
\* last one was a SetVelocityTarget, the mode is the one that call stands for, and
\* the setpoint is that call's or a gimbal call's (control.py:43-64, 75-85;
\* "paused/resumed by whichever flight mode is currently active",
\* velocity_pid.py:9-10).
Settled ==
  last # None /\ (\A c \in Calls : ~InFlight(c)) =>
    /\ active <=> last = "velocity"
    /\ mode = ModeOf(last)
    /\ setpoint \in {"gimbal", IF last \in Clearing THEN None ELSE last}

\* Hold ends a return to home and a landing, whatever calls that met have left
\* behind: after it the drone does neither until it is told to (control.py:122-126).
HoldHolds ==
  last = "hold" /\ (\A c \in Calls : ~InFlight(c)) => order \notin {"rth", "land"}

-----------------------------------------------------------------------------
\* "The thread runs for the lifetime of the driver" (velocity_pid.py:9).
ThreadLives == tick # "dead"
=============================================================================
