--------------------------- MODULE AnafiControlProofs ---------------------------
(***************************************************************************)
(* Proofs about AnafiControl, for every number of handler threads and      *)
(* every set of targets.                                                   *)
(***************************************************************************)
EXTENDS AnafiControl, TLAPS

\* What makes OneStaleStep inductive: after a late PCMD the thread waits for
\* _active, or it is in a step for the target that is set.
OneLate ==
  /\ late \in {0, 1}
  /\ late = 1 => tick = "wait" \/ (active /\ (tick = "load" \/ aim = target))

-----------------------------------------------------------------------------
LEMMA InitType == Init => TypeOK
<1> SUFFICES ASSUME Init PROVE TypeOK
  OBVIOUS
<1>1. \A c \in Calls : pc[c] = "idle"
  BY DEF Init
<1>2. /\ pc \in [Calls -> {"idle"}] /\ op \in [Calls -> {None}]
      /\ active \in BOOLEAN /\ first \in BOOLEAN
  BY DEF Init
<1> QED BY <1>1, <1>2 DEF Init, TypeOK, Pausing

LEMMA HandleType == ASSUME TypeOK, NEW c \in Calls, Accept(c) \/ Handle(c) PROVE TypeOK'
<1> USE DEF TypeOK, Goto, Return, Pausing, callVars, wrapper, threadVars, pidVars
<1>1. CASE Accept(c)
  <2>1. PICK r \in Requests :
          /\ op' = [op EXCEPT ![c] = r]
          /\ Goto(c, IF r.kind \in Clearing THEN "clear"
                     ELSE IF r.kind = "gimbal" THEN "command" ELSE "mode")
    BY <1>1 DEF Accept
  <2>2. UNCHANGED <<wrapper, active, target, threadVars, pidVars, order, late>>
    BY <1>1 DEF Accept
  <2>3. last' \in Clearing \cup {"position", "velocity", None}
    BY <1>1 DEF Accept, Requests, Marking
  <2> QED BY <2>1, <2>2, <2>3
<1>2. CASE ClearSetpoint(c)
  BY <1>2 DEF ClearSetpoint, Clearing
<1>3. CASE SetMode(c)
  <2>1. ModeOf(op[c].kind) \in {"takeoff", "land", "loiter", "emergency", "rth", "guided"}
    BY DEF ModeOf
  <2> QED BY <1>3, <2>1 DEF SetMode
<1>4. CASE Resume(c) \/ Pause(c)
  <2>1. active' \in BOOLEAN
    BY <1>4 DEF Resume, Pause
  <2>2. CASE Resume(c)
    BY <2>1, <2>2 DEF Resume
  <2>3. CASE Pause(c)
    BY <2>1, <2>3 DEF Pause
  <2> QED BY <1>4, <2>2, <2>3
<1>5. CASE Reset(c)
  BY <1>5 DEF Reset
<1>6. CASE SetTarget(c)
  <2>1. op[c] \in Requests /\ op[c].kind = "velocity"
    BY <1>6 DEF SetTarget
  <2>2. op[c].velocity \in Targets /\ op[c].kind \in Marking
    BY <2>1 DEF Requests, Clearing, Marking
  <2> QED BY <1>6, <2>1, <2>2 DEF SetTarget
<1>7. CASE Command(c)
  <2>1. op[c] \in Requests /\ op[c].kind # "velocity"
    BY <1>7 DEF Command
  <2>2. op[c].kind \in Clearing \cup Marking
    BY <2>1 DEF Requests, Clearing, Marking
  <2>3. op[c].kind # "gimbal" =>
          Ordered(op[c].kind) \in {"takeoff", "land", "pcmd", "emergency", "rth", "move"}
    BY <2>1, <2>2 DEF Ordered, Clearing, Marking
  <2>4. order' \in {"landed", "flying", "land", "rth", "emergency"}
    BY <1>7, <2>3 DEF Command, After
  <2>5. \/ op[c].kind \in Clearing /\ Return(c)
        \/ op[c].kind \in Marking /\ Goto(c, "mark") /\ UNCHANGED op
    BY <1>7, <2>2 DEF Command, AfterCommand
  <2>6. UNCHANGED <<wrapper, active, target, threadVars, pidVars, late, last>>
    BY <1>7 DEF Command
  <2> QED BY <2>1, <2>4, <2>5, <2>6
<1>8. CASE Mark(c)
  BY <1>8 DEF Mark
<1>9. CASE Abort(c)
  BY <1>9 DEF Abort
<1> QED BY <1>1, <1>2, <1>3, <1>4, <1>5, <1>6, <1>7, <1>8, <1>9 DEF Handle

LEMMA NextType == TypeOK /\ [Next]_vars => TypeOK'
<1> SUFFICES ASSUME TypeOK, [Next]_vars PROVE TypeOK'
  OBVIOUS
<1>1. CASE UNCHANGED vars
  BY <1>1 DEF TypeOK, vars, callVars, wrapper, threadVars, pidVars
<1>2. ASSUME NEW c \in Calls, Accept(c) \/ Handle(c) PROVE TypeOK'
  BY <1>2, HandleType
<1>3. CASE Tick
  <2> USE DEF TypeOK, callVars, wrapper, threadVars, pidVars
  <2>1. CASE WakeUp \/ Load \/ Skip
    BY <2>1 DEF WakeUp, Load, Skip
  <2>2. CASE Sample
    <3>1. first' \in BOOLEAN
      BY <2>2 DEF Sample
    <3>2. tick' = "gap"
          /\ UNCHANGED <<callVars, wrapper, active, target, aim, pidVars, order, last>>
      BY <2>2 DEF Sample
    <3> QED BY <3>1, <3>2
  <2>3. CASE Gap
    <3>1. tick' \in {"fresh", "dead", "advance"}
      BY <2>3 DEF Gap
    <3>2. UNCHANGED <<callVars, wrapper, active, target, aim, pidVars, order, last>>
      BY <2>3 DEF Gap
    <3>3. first' \in BOOLEAN
      BY <2>3 DEF Gap
    <3> QED BY <3>1, <3>2, <3>3
  <2>4. CASE Fresh \/ Advance \/ Output \/ Compute
    <3>1. /\ tick' \in {"stamp", "output", "dead", "send", "compute"}
          /\ prevTime' \in {None, "set"} /\ lastTime' \in {None, "set"}
      <4>1. CASE Fresh
        BY <4>1 DEF Fresh
      <4>2. CASE Advance
        BY <4>2 DEF Advance
      <4>3. CASE Output
        BY <4>3 DEF Output
      <4>4. CASE Compute
        BY <4>4 DEF Compute
      <4> QED BY <2>4, <4>1, <4>2, <4>3, <4>4
    <3>2. UNCHANGED <<callVars, wrapper, active, target, aim, first, order, last>>
      BY <2>4 DEF Fresh, Advance, Output, Compute
    <3> QED BY <3>1, <3>2
  <2>5. CASE Transmit
    <3>1. order' \in {"landed", "flying", "land", "rth", "emergency"}
      BY <2>5 DEF Transmit, After
    <3>2. tick' = "wait" /\ aim' = None
          /\ UNCHANGED <<callVars, wrapper, active, target, first, pidVars, last>>
      BY <2>5 DEF Transmit
    <3> QED BY <3>1, <3>2
  <2> QED BY <1>3, <2>1, <2>2, <2>3, <2>4, <2>5 DEF Tick
<1>4. CASE Drone
  BY <1>4 DEF Drone, TouchDown, Arrive, TypeOK, callVars, wrapper, threadVars, pidVars
<1> QED BY <1>1, <1>2, <1>3, <1>4 DEF Next

LEMMA NextLate == TypeOK /\ OneLate /\ [Next]_vars => OneLate'
<1> SUFFICES ASSUME TypeOK, OneLate, [Next]_vars PROVE OneLate'
  OBVIOUS
<1> USE DEF OneLate, callVars, wrapper, threadVars, pidVars
<1>1. ASSUME UNCHANGED <<active, late, tick, aim, target>> PROVE OneLate'
  BY <1>1
\* Resuming, pausing and another target start the count anew.
<1>2. ASSUME NEW c \in Calls, Resume(c) \/ Pause(c) \/ SetTarget(c) PROVE OneLate'
  BY <1>2 DEF Resume, Pause, SetTarget
\* A thread that has sent its late PCMD begins a step only if it is active, and
\* reads the target that is set.
<1>3. CASE WakeUp \/ Load
  BY <1>3 DEF WakeUp, Load
<1>4. CASE Sample \/ Gap \/ Fresh \/ Advance \/ Output \/ Compute
  <2>1. tick \notin {"wait", "load"} /\ UNCHANGED <<active, late, aim, target>>
    BY <1>4 DEF Sample, Gap, Fresh, Advance, Output, Compute
  <2> QED BY <2>1
<1>5. CASE Transmit
  BY <1>5 DEF Transmit
<1>6. CASE Skip
  BY <1>6 DEF Skip
<1> QED
  BY <1>1, <1>2, <1>3, <1>4, <1>5, <1>6
  DEF Next, vars, Accept, Handle, ClearSetpoint, SetMode, Reset, Abort, Command, Mark, Tick,
      Drone, TouchDown, Arrive

\* Every reachable state is well typed, and every call is only at the points
\* that its decorator and its handler lead through.
THEOREM TypeCorrect == Spec => []TypeOK
BY InitType, NextType, PTL DEF Spec

\* Whatever calls pause and resume velocity control and set targets, and however
\* they interleave, at most one PCMD follows that comes from before the last.
THEOREM StepsAreFresh == Spec => []OneStaleStep
<1>1. Init => OneLate
  BY DEF Init, OneLate
<1>2. OneLate => OneStaleStep
  BY DEF OneLate, OneStaleStep
<1> QED BY <1>1, <1>2, NextLate, TypeCorrect, PTL DEF Spec

-----------------------------------------------------------------------------
(* What a flight call leaves behind if it met no other, whatever the calls *)
(* before it have left, and whatever gimbal calls, the velocity thread and *)
(* the drone do meanwhile.                                                 *)
Reports(kind) == setpoint \in {"gimbal", IF kind \in Clearing THEN None ELSE kind}

\* What Settled and HoldHolds say of the last flight call when none is in progress.
Agreed ==
  /\ active <=> last = "velocity"
  /\ mode = ModeOf(last)
  /\ Reports(last)
  /\ last = "hold" => order \notin {"rth", "land"}

\* How far the call in progress has led there.
UnderWay(c) ==
  /\ pc[c] \notin {"clear", "mode"} => mode = ModeOf(op[c].kind)
  /\ pc[c] \in {"target", "mark"} /\ op[c].kind = "velocity" => active
  /\ pc[c] \in {"reset1", "reset2", "abort", "command", "mark"} /\ op[c].kind # "velocity"
       => ~active
  /\ pc[c] # "clear" /\ op[c].kind \in Clearing => setpoint \in {"gimbal", None}
  /\ pc[c] = "command" /\ op[c].kind = "hold" => order # "rth"

Alone ==
  last # None =>
    /\ (\A c \in Calls : ~InFlight(c)) => Agreed
    /\ \A c \in Calls : InFlight(c) =>
         /\ op[c].kind = last
         /\ UnderWay(c)
         /\ \A d \in Calls : InFlight(d) => d = c

\* The thread and the drone touch only what the drone is doing, and neither
\* begins a return or a landing after a Hold.
LEMMA OthersAlone == TypeOK /\ Alone /\ (Tick \/ Drone) => Alone'
<1> SUFFICES ASSUME TypeOK, Alone, Tick \/ Drone PROVE Alone'
  OBVIOUS
<1>1. UNCHANGED <<pc, op, setpoint, mode, active, last>>
  BY DEF Tick, Drone, WakeUp, Load, Sample, Gap, Fresh, Advance, Output, Compute, Transmit,
         Skip, TouchDown, Arrive, callVars, wrapper
<1>2. /\ order \notin {"rth", "land"} => order' \notin {"rth", "land"}
      /\ order # "rth" => order' # "rth"
  BY DEF Tick, Drone, WakeUp, Load, Sample, Gap, Fresh, Advance, Output, Compute, Transmit,
         Skip, TouchDown, Arrive, After, TypeOK
<1>3. Agreed => Agreed'
  BY <1>1, <1>2 DEF Agreed, Reports
<1>4. ASSUME NEW c \in Calls PROVE InFlight(c)' = InFlight(c)
  BY <1>1 DEF InFlight
<1>5. ASSUME NEW c \in Calls, UnderWay(c) PROVE UnderWay(c)'
  BY <1>1, <1>2, <1>5 DEF UnderWay
<1> QED BY <1>1, <1>3, <1>4, <1>5 DEF Alone

\* A gimbal call marks its setpoint and touches nothing else of this.
LEMMA GimbalAlone ==
  ASSUME TypeOK, Alone, NEW c \in Calls, Handle(c), op[c].kind = "gimbal"
  PROVE  Alone'
<1> USE NoneAssumption DEF TypeOK, Goto, callVars, wrapper, Clearing, Pausing
<1>1. pc[c] \in {"command", "mark"} /\ (Command(c) \/ Mark(c))
  BY DEF Handle, ClearSetpoint, SetMode, Resume, Pause, Reset, SetTarget, Abort, Command, Mark
<1>2. /\ UNCHANGED <<mode, active, order, last>>
      /\ setpoint' \in {setpoint, "gimbal"}
      /\ \A d \in Calls \ {c} : pc'[d] = pc[d] /\ op'[d] = op[d]
      /\ pc'[c] # "idle" => op'[c] = op[c]
  BY <1>1 DEF Command, AfterCommand, Mark, Return
<1>3. ~InFlight(c) /\ ~InFlight(c)'
  BY <1>2 DEF InFlight
<1>4. \A d \in Calls : InFlight(d)' <=> InFlight(d)
  BY <1>2, <1>3 DEF InFlight
<1>5. Agreed => Agreed'
  BY <1>2 DEF Agreed, Reports
<1>6. ASSUME NEW d \in Calls \ {c}, UnderWay(d) PROVE UnderWay(d)'
  BY <1>2, <1>6 DEF UnderWay
<1>7. SUFFICES ASSUME last # None PROVE Alone'
  BY <1>2 DEF Alone
<1>8. (\A d \in Calls : ~InFlight(d)') => Agreed'
  BY <1>4, <1>5, <1>7 DEF Alone
<1>9. ASSUME NEW d \in Calls, InFlight(d)'
      PROVE  op'[d].kind = last /\ UnderWay(d)' /\ \A e \in Calls : InFlight(e)' => e = d
  <2>1. d # c /\ InFlight(d)
    BY <1>3, <1>4, <1>9
  <2>2. op[d].kind = last /\ UnderWay(d) /\ \A e \in Calls : InFlight(e) => e = d
    BY <1>7, <2>1 DEF Alone
  <2> QED BY <1>2, <1>4, <1>6, <2>1, <2>2
<1> QED BY <1>2, <1>8, <1>9 DEF Alone

\* A call that begins is alone, or is forgotten with the one it met.
LEMMA AcceptAlone == ASSUME TypeOK, Alone, NEW c \in Calls, Accept(c) PROVE Alone'
<1> USE NoneAssumption DEF TypeOK
<1>1. PICK r \in Requests :
        /\ op' = [op EXCEPT ![c] = r]
        /\ Goto(c, IF r.kind \in Clearing THEN "clear"
                   ELSE IF r.kind = "gimbal" THEN "command" ELSE "mode")
        /\ last' = IF r.kind = "gimbal" THEN last
                   ELSE IF \E d \in Calls : InFlight(d) THEN None ELSE r.kind
  BY DEF Accept
<1>2. UNCHANGED <<setpoint, mode, active, order>>
  BY DEF Accept, wrapper
<1>3. /\ op'[c] = r /\ pc[c] = "idle"
      /\ pc'[c] = IF r.kind \in Clearing THEN "clear"
                  ELSE IF r.kind = "gimbal" THEN "command" ELSE "mode"
      /\ \A d \in Calls \ {c} : pc'[d] = pc[d] /\ op'[d] = op[d]
  BY <1>1 DEF Accept, Goto
<1>4. /\ \A d \in Calls \ {c} : InFlight(d)' <=> InFlight(d)
      /\ ~InFlight(c) /\ (InFlight(c)' <=> r.kind # "gimbal")
  BY <1>3 DEF InFlight
<1>5. ASSUME NEW d \in Calls \ {c}, UnderWay(d) PROVE UnderWay(d)'
  BY <1>2, <1>3, <1>5 DEF UnderWay
<1>6. CASE r.kind = "gimbal"
  <2>1. last' = last /\ (Agreed => Agreed') /\ ~InFlight(c)'
    BY <1>1, <1>2, <1>4, <1>6 DEF Agreed, Reports
  <2> QED BY <1>3, <1>4, <1>5, <2>1 DEF Alone
<1>7. CASE r.kind # "gimbal" /\ \A d \in Calls : ~InFlight(d)
  <2>1. UnderWay(c)'
    BY <1>3, <1>7 DEF UnderWay
  <2>2. InFlight(c)' /\ op'[c].kind = last'
    BY <1>1, <1>3, <1>4, <1>7
  <2> QED BY <1>4, <1>7, <2>1, <2>2 DEF Alone
<1>8. CASE r.kind # "gimbal" /\ \E d \in Calls : InFlight(d)
  BY <1>1, <1>8 DEF Alone
<1> QED BY <1>6, <1>7, <1>8

\* A flight call that is alone leads to what Agreed says of it.
LEMMA FlightAlone ==
  ASSUME TypeOK, Alone, NEW c \in Calls, Handle(c), op[c].kind # "gimbal"
  PROVE  Alone'
<1> USE NoneAssumption DEF TypeOK, Goto, callVars, wrapper
<1>1. /\ pc[c] # "idle" /\ op[c] \in Requests /\ last' = last
      /\ \A d \in Calls \ {c} : pc'[d] = pc[d] /\ op'[d] = op[d]
      /\ pc'[c] # "idle" => op'[c] = op[c]
  BY DEF Handle, ClearSetpoint, SetMode, Resume, Pause, Reset, SetTarget, Abort, Command,
         AfterCommand, Mark, Return
<1>2. InFlight(c) /\ \A d \in Calls \ {c} : InFlight(d)' <=> InFlight(d)
  BY <1>1 DEF InFlight
<1>3. SUFFICES ASSUME last # None
               PROVE  IF pc'[c] = "idle" THEN Agreed' ELSE UnderWay(c)'
  <2>1. ASSUME last # None
        PROVE  /\ op[c].kind = last /\ \A d \in Calls \ {c} : ~InFlight(d)'
               /\ InFlight(c)' <=> pc'[c] # "idle"
    BY <1>1, <1>2, <2>1 DEF Alone, InFlight
  <2> QED BY <1>1, <2>1 DEF Alone
<1>4. op[c].kind = last /\ UnderWay(c)
  BY <1>2, <1>3 DEF Alone
<1>5. CASE ClearSetpoint(c)
  BY <1>1, <1>5 DEF ClearSetpoint, UnderWay
<1>6. CASE SetMode(c)
  <2>1. pc'[c] \in {"resume", "pause"} /\ mode' = ModeOf(op[c].kind) /\ op' = op
        /\ UNCHANGED <<setpoint, order>> /\ pc[c] = "mode"
    BY <1>6 DEF SetMode
  <2> QED BY <1>4, <2>1 DEF UnderWay
<1>7. CASE Resume(c) \/ SetTarget(c)
  <2>1. /\ pc[c] \in {"resume", "target"} /\ pc'[c] \in {"target", "mark"} /\ op' = op
        /\ op[c].kind = "velocity" /\ UNCHANGED <<setpoint, mode, order>>
        /\ pc[c] = "resume" => active'
        /\ pc[c] = "target" => active' = active
    BY <1>7 DEF Resume, SetTarget
  <2> QED BY <1>4, <2>1 DEF UnderWay, Clearing
<1>8. CASE Pause(c) \/ Reset(c)
  <2>1. /\ pc[c] \in {"pause", "reset1", "reset2"} /\ op' = op
        /\ pc'[c] \in {"reset1", "reset2", "abort", "command"}
        /\ op[c].kind = "hold" => pc'[c] # "command"
        /\ op[c].kind # "velocity" /\ UNCHANGED <<setpoint, mode, order>>
        /\ pc[c] = "pause" => ~active'
        /\ pc[c] # "pause" => active' = active
    BY <1>8 DEF Pause, Reset, Pausing
  <2> QED BY <1>4, <2>1 DEF UnderWay
<1>9. CASE Abort(c)
  <2>1. /\ pc[c] = "abort" /\ pc'[c] = "command" /\ op' = op /\ order' # "rth"
        /\ UNCHANGED <<setpoint, mode, active>>
    BY <1>9 DEF Abort
  <2> QED BY <1>4, <2>1 DEF UnderWay
<1>10. CASE Command(c)
  <2>1. /\ pc[c] = "command" /\ UNCHANGED <<setpoint, mode, active>>
        /\ op[c].kind # "velocity" /\ op[c].kind \in Clearing \cup Marking
    BY <1>1, <1>10 DEF Command, Pausing, Requests, Clearing, Marking
  <2>2. CASE op[c].kind \in Clearing
    <3>1. pc'[c] = "idle"
      BY <1>10, <2>2 DEF Command, AfterCommand, Return
    <3>2. last = "hold" => order' = After("pcmd") /\ order # "rth"
      BY <1>4, <1>10, <2>1 DEF Command, Ordered, UnderWay
    <3>3. order # "rth" => After("pcmd") \notin {"rth", "land"}
      BY DEF After
    <3>4. ~active /\ mode = ModeOf(last) /\ setpoint \in {"gimbal", None}
      BY <1>4, <2>1, <2>2 DEF UnderWay
    <3> QED BY <1>1, <1>4, <2>1, <2>2, <3>1, <3>2, <3>3, <3>4 DEF Agreed, Reports
  <2>3. CASE op[c].kind \in Marking
    <3>1. pc'[c] = "mark" /\ op' = op /\ op[c].kind \notin Clearing
      BY <1>10, <2>3 DEF Command, AfterCommand, Clearing, Marking
    <3> QED BY <1>4, <2>1, <3>1 DEF UnderWay
  <2> QED BY <2>1, <2>2, <2>3
<1>11. CASE Mark(c)
  <2>1. /\ pc[c] = "mark" /\ pc'[c] = "idle" /\ setpoint' = op[c].kind
        /\ UNCHANGED <<mode, active>> /\ op[c].kind \in Marking
    BY <1>11 DEF Mark, Return
  <2>2. last \notin Clearing /\ last # "hold" /\ mode = ModeOf(last)
        /\ (active <=> last = "velocity")
    BY <1>4, <2>1 DEF UnderWay, Marking, Clearing
  <2> QED BY <1>1, <1>4, <2>1, <2>2 DEF Agreed, Reports
<1> QED BY <1>5, <1>6, <1>7, <1>8, <1>9, <1>10, <1>11 DEF Handle

LEMMA NextAlone == TypeOK /\ Alone /\ [Next]_vars => Alone'
<1> SUFFICES ASSUME TypeOK, Alone, [Next]_vars PROVE Alone'
  OBVIOUS
<1>1. CASE UNCHANGED vars
  BY <1>1 DEF Alone, InFlight, Agreed, Reports, UnderWay, vars, callVars, wrapper
<1> QED BY <1>1, OthersAlone, GimbalAlone, AcceptAlone, FlightAlone DEF Next

LEMMA InitAlone == Init => Alone
BY DEF Init, Alone

\* For any number of handlers and however their calls overlap, the next flight
\* call that meets no other puts mode, velocity control and setpoint in order.
THEOREM ModeSettles == Spec => []Settled
<1>1. Alone => Settled
  BY DEF Alone, Settled, Agreed, Reports
<1> QED BY <1>1, InitAlone, NextAlone, TypeCorrect, PTL DEF Spec

\* For any number of handlers and whatever calls that met have left behind, a Hold
\* that meets no other flight call ends a return to home and a landing.
THEOREM HoldEnds == Spec => []HoldHolds
<1>1. Alone => HoldHolds
  BY NoneAssumption DEF Alone, HoldHolds, Agreed, Clearing
<1> QED BY <1>1, InitAlone, NextAlone, TypeCorrect, PTL DEF Spec

-----------------------------------------------------------------------------
(* The life of the velocity thread. It ends when an axis is reset in the   *)
(* midst of its update, and for no other reason: a lock around the two     *)
(* would keep it alive.                                                    *)
Updating == {"sample", "gap", "fresh", "stamp", "advance", "output", "compute"}

Undisturbed == tick \in Updating => \A c \in Calls : pc[c] \notin {"reset1", "reset2"}

\* The two times of the axis are set and reset together, but for the moment
\* between two writes; what update has checked stands until it is used.
TimesAgree ==
  /\ tick # "dead"
  /\ tick = "gap" /\ ~first => prevTime # None
  /\ tick \in {"stamp", "advance", "output"} => prevTime # None
  /\ prevTime # None => lastTime # None \/ tick = "stamp"
  /\ \A c \in Calls : pc[c] = "reset2" => prevTime = None

LEMMA NextTimes ==
  TypeOK /\ Undisturbed /\ Undisturbed' /\ TimesAgree /\ [Next]_vars => TimesAgree'
<1> SUFFICES ASSUME TypeOK, Undisturbed, Undisturbed', TimesAgree, [Next]_vars
             PROVE  TimesAgree'
  OBVIOUS
<1> USE NoneAssumption DEF TimesAgree, callVars, wrapper, threadVars, pidVars, Goto
<1>1. ASSUME UNCHANGED <<pc, tick, first, prevTime, lastTime>> PROVE TimesAgree'
  BY <1>1
<1>2. ASSUME NEW c \in Calls, UNCHANGED <<tick, first, prevTime, lastTime>>,
             \/ Accept(c) \/ ClearSetpoint(c) \/ SetMode(c) \/ Resume(c) \/ Pause(c)
             \/ SetTarget(c) \/ Abort(c) \/ Command(c) \/ Mark(c)
      PROVE  TimesAgree'
  <2>1. \A d \in Calls : pc'[d] = "reset2" => pc[d] = "reset2"
    BY <1>2 DEF Accept, ClearSetpoint, SetMode, Resume, Pause, SetTarget, Abort, Command,
                AfterCommand, Mark, Return, TypeOK
  <2> QED BY <1>2, <2>1
<1>3. ASSUME NEW c \in Calls, Reset(c) PROVE TimesAgree'
  <2>1. /\ UNCHANGED <<tick, first>>
        /\ \A d \in Calls \ {c} : pc'[d] = pc[d]
    BY <1>3 DEF Reset, TypeOK
  <2>2. CASE pc[c] = "reset1"
    <3>1. prevTime' = None /\ lastTime' = lastTime /\ tick \notin Updating
      BY <1>3, <2>2 DEF Reset, Undisturbed
    <3> QED BY <2>1, <3>1 DEF Updating
  <2>3. CASE pc[c] = "reset2"
    <3>1. prevTime' = None /\ tick \notin Updating
      BY <1>3, <2>3 DEF Reset, Undisturbed
    <3> QED BY <2>1, <3>1 DEF Updating
  <2> QED BY <1>3, <2>2, <2>3 DEF Reset
<1>4. CASE Tick
  <2>1. pc' = pc
    BY <1>4 DEF Tick, WakeUp, Load, Sample, Gap, Fresh, Advance, Output, Compute, Transmit, Skip
  <2>2. tick \in Updating \/ tick' \in Updating => \A c \in Calls : pc[c] # "reset2"
    BY <2>1 DEF Undisturbed
  <2>3. CASE WakeUp \/ Load \/ Transmit \/ Skip
    BY <2>1, <2>3 DEF WakeUp, Load, Transmit, Skip
  <2>4. CASE Sample
    <3>1. first' = (prevTime = None) /\ tick' = "gap" /\ UNCHANGED <<prevTime, lastTime>>
          /\ tick = "sample"
      BY <2>4 DEF Sample
    <3>2. prevTime = None => first'
      BY <3>1
    <3> QED BY <2>1, <3>1, <3>2
  <2>5. CASE Gap
    <3>1. tick' \in {"fresh", "advance"} /\ UNCHANGED <<prevTime, lastTime>> /\ tick = "gap"
          /\ (tick' = "advance" => ~first)
      BY <2>5 DEF Gap
    <3> QED BY <2>1, <3>1
  <2>6. CASE Fresh
    BY <2>1, <2>2, <2>6 DEF Fresh, Updating
  <2>7. CASE Advance
    <3>1. tick = "advance" /\ prevTime # None /\ lastTime # None
      BY <2>7 DEF Advance
    <3>2. tick' \in {"output", "send"} /\ prevTime' = "set" /\ UNCHANGED <<first, lastTime>>
      BY <2>7, <3>1 DEF Advance
    <3>3. \A c \in Calls : pc'[c] # "reset2"
      BY <2>1, <2>2, <3>1 DEF Updating
    <3> QED BY <3>1, <3>2, <3>3
  <2>8. CASE Output
    BY <2>1, <2>8 DEF Output
  <2>9. CASE Compute
    BY <2>1, <2>9 DEF Compute
  <2> QED BY <1>4, <2>3, <2>4, <2>5, <2>6, <2>7, <2>8, <2>9 DEF Tick
<1>5. CASE Drone
  BY <1>1, <1>5 DEF Drone, TouchDown, Arrive
<1> QED
  BY <1>1, <1>2, <1>3, <1>4, <1>5
  DEF Next, vars, Handle, Accept, ClearSetpoint, SetMode, Resume, Pause, SetTarget, Abort,
      Command, Mark

\* As long as no call is at the reset of an axis during its update, the thread
\* runs for the lifetime of the driver, as its documentation says.
THEOREM OnlyResetsKill == Spec /\ []Undisturbed => []ThreadLives
<1>1. Init => TimesAgree
  BY DEF Init, TimesAgree
<1>2. TimesAgree => ThreadLives
  BY DEF TimesAgree, ThreadLives
<1> QED BY <1>1, <1>2, NextTimes, TypeCorrect, PTL DEF Spec

=============================================================================
