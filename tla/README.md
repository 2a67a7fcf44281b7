# TLA+ models of the SteelEagle plugins

Three plugins of SteelEagle live in this repository: the **mission service** (Go),
the **Parrot Anafi driver** (Python) and the **aviary simulator** (Python). Each is
a gRPC server whose handlers run on many threads and share state with one
background activity: the `watch` goroutine of a mission, the velocity thread of a
drone, the task of a simulation. This directory holds TLA+ modules of that shared
state, TLC configurations that check them on small instances, and TLAPS proofs of
their main invariants for every instance. Where the code does something a comment
of its own denies, a run shows the counterexample (see *Findings*).

    tlc -workers 2 -config MCMissionService.cfg MCMissionService
    tlapm MissionServiceProofs.tla

`PROJECT.json` names module and configuration of every run, the source lines of
every definition, the hazards each property is meant to catch, and for every
property a mutation of a definition that TLC must find.

## 1. Inventory

| Component (source) | State | Operations | Interacts through | What is hard |
|---|---|---|---|---|
| Mission service: calls, subprocess, shutdown (`mission-service/server.go`, `main.go`) | `server.{binaryPath, uploading, cancel, done}` under `mu`; the files `mission`, `mission.tmp`; one subprocess group | `UploadMission`, `StartMission`, `StopMission`, `GetMissionInfo` (stateless), `watch`, signal handling | gRPC; `done` channel, context, process group, files | calls of all kinds at once; lock released in the middle of an upload and of a stop; missions that exit by themselves; time-outs; shutdown |
| One upload stream (`server.go` `receiveBinary`, `elfcheck.go`) | bytes received, ELF prefix, hash, temp file | header, chunk, end of stream | client stream, temp file | chunk boundaries, limits, failures half way |
| Anafi Control and velocity control (`control.py`, `velocity_pid.py`, `__init__.py`) | `DroneWrapper.{flight_mode, setpoint}`, `VelocityPIDThread.{_active, _target, _frame}`, PID memory of each axis | ten Control calls; `pause`, `resume`, `reset`, `set_target`; the step of the thread | gRPC worker threads, the PID thread, the drone | no lock on mode, setpoint, PID memory; pause does not wait for the step in progress |
| Anafi video and telemetry (`stream.py`) | the newest frame under `_frame_lock`, the capture thread, the publisher | `_grab_frames`, `StreamVideoFrames`, `StreamTelemetry` | capture thread, gRPC workers, drone states | one frame for all streams, ten workers, a capture that fails in three ways |
| Anafi raw frames (`raw_frames.py`) | shared-memory producer and its limit | `publish`, `_resize`, `close` | capture thread, Gabriel | failure between two steps |
| Anafi axis PID (`velocity_pid.py`) | integral, previous error, previous command | `update`, `compute` | velocity thread, handlers (`reset`) | signs, gaps, dead bands |
| Anafi calibration, info, helpers, start-up | none kept | a dialogue, conversions, wiring | drone | |
| Aviary vehicle, Control, telemetry (`vehicle.py`, `interfaces/steeleagle.py`) | `Vehicle.{mode, position_target, velocity_target, waypoints, pose_*}`, `MotionInfo.{mode, setpoint}`, camera position | Control calls, `move` of a tick, `get_velocity`/`get_telemetry` | simulation task, gRPC worker threads | *reading* the velocity takes waypoints; no lock |
| Aviary pose controller and gimbal (`vehicle.py`) | pose mode and target, camera attitude | `set_pose_target`, `get_angular_velocity` | as above | headings on a circle, kept without reduction; target and mode stored in two steps |
| Aviary actors (`actor.py`) | queues of waypoints and delays | `move`, `cycle_next_waypoint` | simulation task | two queues rotated in step, first tick |
| Aviary simulator, start-up (`simulator.py`, `__init__.py`) | scene, cameras, list of vehicles and actors | `simulate` | task | one exception ends it for all |
| Aviary detection engine, data types, helpers | none | projections, records | | |

What makes each component correct:

* **Mission service.** At most one mission and one upload at a time. Only a binary
  that was received completely and verified can be started, and it is not replaced
  while a mission started from it has the slot. An upload that fails changes
  nothing. A stop answered OK leaves no mission. Whatever was cancelled is reaped and frees the slot;
  whatever happens to an upload frees the flag; a signal ends the service.
* **Upload.** What is accepted is whole, intact, within the limit and built for
  this vehicle, however the client cuts it; what is refused is refused early.
* **Anafi control.** A flight call that meets no other leaves mode, setpoint and
  velocity control in agreement, whatever calls that met left behind; what a call tells
  the thread is overtaken by one PCMD at most; `Hold` ends a landing and a return; the
  thread lives as long as the driver.
* **Aviary vehicle.** A route is flown point by point in order, whoever takes the
  waypoints, and its crossing at the height chosen; mode and motion agree; the last
  call wins; the vehicle comes to rest; reading a velocity does not end the simulation.
* **Anafi video.** Frames fit their producer and at most one producer is open; no
  frame goes to two streams; after any failure but an exception of OpenCV frames
  flow again; a stream whose client left gives its worker back.
* **Anafi axis.** No command fights the setpoint it was computed for; commands and
  integral stay in their limits.
* **Aviary pose.** The camera takes the short way to the heading asked for, comes to
  face it and is not wound up by angles and offsets.
* **Aviary actors and task.** An actor runs its trace leg by leg, once or in a
  circle, and reaches every point of it while the task runs.

## 2. Modules

| Module | Models | Kind |
|---|---|---|
| `MissionLauncher` | what a client may rely on: one binary, one mission | abstract specification |
| `MissionService` | `server.go`, `main.go` | one action per critical section, system call or channel operation |
| `MissionObserved` | the same, with an observer of what clients were told | composition with history variables |
| `MissionUpload` | header, `receiveBinary`, `checkELF` | one action per message |
| `MissionServiceProofs`, `MissionUploadProofs` | | theorems; the first is about `MissionObserved` too |
| `AnafiControl` | Control, `set_flight_mode`, velocity thread | one action per access to shared state |
| `AnafiControlProofs` | | theorems |
| `AnafiVideo` | `stream.py`, `raw_frames.py` | one action per step of the capture thread or of a stream that can fail or be interleaved |
| `AnafiVideoProofs` | | theorems |
| `AxisPID` | `AxisPID`, `ActuationAxis`, the PCMD of a step | arithmetic in scaled integers |
| `AxisPIDProofs` | | theorems |
| `RouteFollower` | what a vehicle promises about its points | abstract specification |
| `AviaryVehicle` | Control calls, tick, telemetry as whole methods | implements `RouteFollower` |
| `AviaryThreads` | the same methods, one action per access to an attribute | threads |
| `AviaryVehicleProofs`, `AviaryThreadsProofs` | | theorems |
| `AviaryActors` | `actor.py` | one action, the first loop of a tick |
| `AviaryPose` | the heading of the camera in `vehicle.py` | one action per write |
| `AviarySimulation` | `Simulator.simulate` | composition of the two: a tick moves actors, then the camera |
| `AviarySimulationProofs` | | theorems |
| `MCMissionService`, `MCAnafiControl`, `MCAviaryThreads` | symmetry | for TLC |
| `MCAviaryVehicle`, `MCAxisPID`, `MCAviarySimulation` | negative numbers, configurations of actors | for TLC |

Definitions named `X_Something` preceded by a comment "Faulty:" are not part of any
specification. They are plausible bugs of `X`, kept to show that a property fails
when the code does not do what `X` says.

### 2.1 MissionService

`pc[c]` is where a handler goroutine stands; a handler that is finished may serve
another call. Between two actions a goroutine does only what is local to it. The
correspondence:

| Code | Actions |
|---|---|
| `UploadMission`: first message, `validateHeader`, refused `beginUpload` | `UploadRejected` |
| `beginUpload` (critical section) | `BeginUpload` |
| `os.OpenFile(O_CREATE\|O_TRUNC)` | `OpenTmp` |
| `receiveBinary` | `ReceiveVerified`, `ReceiveFails` (the detail is `MissionUpload`) |
| `commit` (critical section with the rename) | `Commit`, `CommitFails` |
| `os.Remove`, `SendAndClose`, deferred `endUpload` | `RemoveTmp`, `Reply`, `EndUpload` |
| `StartMission` (one critical section, from the check to `cmd.Start` and the assignment of `cancel` and `done`) | `StartMission`, `StartFails` |
| `stop`: critical section, `cancel()`, `<-done`, `time.After` | `StopRead`, `StopCancel`, `StopDone`, `StopTimeout` |
| `watch`: `cmd.Wait`, `close(done)`, critical section | `WaitReturns`, `CloseDone`, `ClearRun` |
| the goroutine of `os/exec` that calls `cmd.Cancel` | `KillGroup` |
| the subprocess and its children | `LeaderExits`, `Fork`, `ChildrenExit` |
| `main`: signal, `stop`, `GracefulStop`, exit | `Signal`, `StopRead`… of the shutdown goroutine, `ServiceExits` |

A pair (`cancel`, `done`) is a *run*; `current` is the run the server holds, or none.
`phase` of a run separates the moments that the code separates: process alive, exited,
reaped by `Wait`, `done` closed, slot cleared. When the exit status and the
cancelled context are there at once, `os/exec` may take either: `WaitReturns` and
`KillGroup` are then both enabled.

Behaviours that the model has and no property forbids:

* `done` is closed before the slot is cleared, in two steps (`server.go:287-297`).
  A `StartMission` right after a `StopMission` that was answered OK can still be
  refused with "mission already running". A test does just that and expects the
  start to succeed (`server_test.go:411-433`); it waits for nothing in between, so it
  can fail when `watch` is slow. `StopIsThorough` promises less: that no mission
  started before the stop is still running.
* `stop` runs before `GracefulStop` (`main.go:75`). A `StartMission` that is in
  flight at the signal, or accepted between the two, starts a mission that outlives
  the service.
* A mission that starts and ends while an upload streams goes unnoticed by the
  second check in `commit` (`server.go:219-224`), which compares nothing with what
  `beginUpload` saw. This is harmless: the mission is over.
* An upload whose `SendAndClose` fails (`server.go:111`) is reported as an error to
  the client although the binary has been replaced.
* The guard `s.done == done` (`server.go:291-293`) is there for a run that has been
  replaced in the meantime. `SlotTracksRun` shows that this never happens: a slot
  is taken again only after it was cleared. The guard is redundant, not wrong.

### 2.2 MissionUpload

`received`, `prefix` and `onDisk` count bytes; `Checked` stands for
`checked, prefix = true, nil`. What the first bytes of the stream say is a record
(magic, byte order, machine), and the machine field is converted to two bytes by
the byte order of the file and read back as `checkELF` does. Among the machines
are those whose number is a wanted one with its bytes swapped: read in the wrong order,
they would be taken for it. `digest` stands for
the hash of a content with that many bytes; two contents with one hash do not
occur. A write that fails leaves any part of its chunk.

### 2.3 AnafiControl

Python switches threads anywhere, so an action is what a thread does between two
accesses to state it shares: `set_flight_mode` writes the mode (`SetMode`), then
sets or clears the event (`Resume`, `Pause`), and `pause` goes on to reset the PID
memory one attribute after the other (`Reset`). The decorators are `ClearSetpoint`
and `Mark`. The thread is `WakeUp` (the event), `Load` (the target, under the lock),
`Sample`, `Gap`, `Fresh`, `Advance`, `Output` (lines 144-193 of `velocity_pid.py`, at
each of their reads of `_prev_time` and `_last_change_time`), `Compute` (the brake,
which resets the axis) and `Transmit` or `Skip`. The drone is external: `After` says
which command has an effect in which state, as the comments of `control.py` do. One
axis stands for the three: they share nothing.

The handlers are any number of threads, and their calls may overlap in any way; the
run has two. `Hold` is `Abort` and then `Command`, its PCMD. Calls that meet can leave mode,
velocity control and setpoint apart: `@setpoint` (`control.py:81`) marks the setpoint of a
call that a `Land` or `Hold` has overtaken, the thread may stay active in a mode that is
not guided, and a `Land` that began before a `Hold` may give its command after it. The
observer `last` is therefore the last flight call only if it met no other. `Settled` and
`HoldHolds` say that such a call puts everything in order, whatever the calls before it
left, with the velocity thread, gimbal calls and the drone running all the time.

Behaviours that the model has and the README only describes:

* `pause` does not leave the PID memory clean: a step in progress writes it again
  (`velocity_pid.py:277`), and the next velocity call starts from an old command.
* The PCMD computed before `pause` is sent after it has returned, also after a
  landing was ordered: `_step` looks at `_active` once, before it starts (291). The
  drone takes it as the pilot's wish to go on flying. In the same way the first step
  after `SetVelocityTarget` may fly an older target, since the thread is resumed before
  the target is stored (`control.py:257-258`). `OneStaleStep` bounds both to one PCMD
  for each thing a call tells the thread; "stops actuating PCMD until resume() is
  called" (275) is that promise taken loosely.
* `SetVelocityTarget` during a return home is accepted and reported as guided, and
  the drone, which takes no PCMD then, goes on returning (`control.py:257-258`, 123).

Left out: the sticks themselves (`AxisPID` has them). Assumed: the drone has published
its states before the first call, and its maximal rotation is not zero; otherwise handlers raise before they change anything. What
a step computes is in `AxisPID`, here only a brake matters. Gimbal calls are one kind that,
as in the code, overwrites the setpoint of a flight call.

### 2.4 AviaryVehicle and AviaryThreads

Both model `Vehicle` and its callers, at two grains. `AviaryVehicle` takes a method
as one action and has everything that decides where the vehicle goes: ten
Control calls, `MotionInfo`, both ways home, the tick and telemetry. A point is a place
and a height, which is what the properties tell apart. `get_velocity`, though a
getter, pops a waypoint at a corner, hence `Telemetry` shares `NextWaypoint` with
`Turn`. The observer `trip` keeps the return in progress.

Heights are integers in simulation coordinates, whose zero is the origin of the first actor
(`simulator.py:246-247`, 310-311), so home and the vehicle may be below it. The minimum
altitude of a return counts from home (`steeleagle.py:158` adds the height of home, as
210-215 explains for positions) and is compared with a height that does not (159). With
home above zero a return may therefore be flown lower than asked; with home below zero even
lower than where the vehicle was called back, by as much as home lies below zero. That is
what `LevelReturn` allows and no more; in both cases the vehicle leaves a place at the
height of the way home only.

`AviaryThreads` takes four points and splits the methods at every access to an
attribute that another thread reads or writes: `self.mode` is read twice
(`vehicle.py:358`, 367), the queue is tested (373) and popped (379), the target is set
(380) and then the mode, twice. It shows what the first model cannot.

The run lets two threads serve any calls, overlapping or not, beside a telemetry stream. So
what the properties promise is what the code keeps under all of that:

* `LastCallWins`: a call is *overtaken* when it has stored its mode or target while
  a thread that follows a route has still to write the ones it has read
  (`vehicle.py:380-381`, `Following`). Such a call is lost: a `Hold` is answered, and the
  vehicle flies on to its next waypoint. A call that is not overtaken and meets no other
  wins, until the next call, whatever the calls before it left.
* `SurvivesUnlessRobbed`: a `ReturnToHome` clears the queue, or telemetry takes its last
  waypoint, between the simulation's test and its pop (373-379), and `IndexError` ends the
  simulation for all. The observer `robbed` is true when that has happened; nothing
  else in these methods ends the task.
* A return wins with its mode; the points it leaves may be fewer. Other threads pop from
  the queue while it is being filled (237-245). If they have emptied it, line 245 raises:
  the call fails and `wanted` is none.
* With telemetry, two threads take a waypoint at the same corner: the finding of run
  `aviary_out_of_order`. Without any, the same happens in three calls, one at a
  time: the mode is read twice (358, 367), and a tick that reads VELOCITY first and
  POSITION then takes itself to be on a route, pops from the one that a return is
  filling, and a corner is skipped.

Described only: telemetry reports HOLDING at each corner, where the velocity is zero
for one reading (`vehicle.py:381`, `steeleagle.py:405-409`); the mode that
`ReturnToHome` tells clients to wait for is never reported (`steeleagle.py:146`,
165, 168); `Kill` changes the reported mode only (138, a TODO); `Land` and `TakeOff`
leave the rate of turn of an earlier call.

### 2.5 AnafiVideo

The capture thread stands at `grab`; its steps are those of `_grab_frames`,
`_read_frames` and `publish`:

| Code | Actions |
|---|---|
| `_open_capture`, `isOpened` | `Open`, `OpenFails` |
| a read without a frame, up to `MAX_FAILED_READS` in a row | `ReadFails` |
| `capture.release()`, the delay | `Release` |
| a frame into the slot, `fresh`, under `_frame_lock` | `NewFrame` |
| `publish`: pose of the vehicle, size against the limit | `Pose`, `PoseFails` |
| `_resize`: `close`, new limit; new producer | `Resize`, `ResizeFails`; `Create`, `CreateFails` |
| `send`, `AgainError`, any exception of `publish` | `Send`, `Drop` |
| an exception of OpenCV, `finally: close` | `Die` |
| `StreamVideoFrames`, `StreamTelemetry`: begin, take the frame, encode or pack, yield | `Call`, `Look`, `Encode`, `EncodeFails`, `Yield` |

The camera, and clients that leave, are external. A frame is its size. A stream that
finds no frame sleeps and looks again, which changes nothing and is no action. A `close`
in `_resize` that raises leaves the old producer and its limit; the one in `finally`, after
which the thread is over, is taken to succeed.

Behaviours that the model has and no property forbids:

* When the creation of a producer fails, the limit stays raised: frames of the same
  size are then sent to no producer, each an `AttributeError` that is logged, until
  a larger frame comes (`raw_frames.py:88`).
* Every frame goes to one stream: two clients share the frame rate.
* A stream without frames never yields, so it does not notice that its client left
  (`stream.py:319-321`). Ten of them hold all workers of the pool, and `Land` waits.
* An exception of OpenCV, unlike a failed read, ends the capture for good:
  `_start_capture` looks whether there is a thread, not whether it is alive.

### 2.6 AxisPID

One axis, undisturbed by handlers. Velocities are integers in the unit of the sensor,
commands in `Unit`-ths of a stick step, times in ticks. `Error`, `Fresh`, `Repeat`,
`Integral`, `Derivative` and `Output` are the parts of `update`; `Compute` and
`HoldCommand` are `compute` with and without a new reading; `Stick` is `round`, ties to
even; `Step` and `Transmit` are `_step`, with the three other sticks as one
Boolean. A target in NEU turns with the vehicle, so each tick may have another
setpoint. Two dead bands (lines 174, 188) are smaller than the settling error,
beyond which they are asked for, and have no effect. Absolute times occur only as the
difference `elapsed`. Division is that of integers, and TLC's constants are chosen
such that it leaves no rest; the proofs use no fact about it but that it is an integer.

Behaviours that the model has and the README only describes:

* A brake of all axes, and any commands that all round to zero, are never sent:
  with four zero sticks there is no PCMD (`velocity_pid.py:326`), so a drone told to stop
  keeps the last sticks it got. Lines 202-203 say that a zero setpoint will "command a hard
  brake". `Transmit` has it, and `stick` keeps what the drone was sent last.
* While readings repeat, the command is held, also when the target has changed:
  it may oppose the new setpoint until the next reading. `NeverFights` is about the
  setpoint a command was computed for.
* The integral never unwinds (178-179): once positive it stays until the axis brakes
  or is paused. Neither that nor a gap, which resets the times but not the integral, is
  among what the docstring of lines 104-107 announces: a "textbook PID plus two shaping
  rules". A property that held would restate the guard, so there is none; `TypeOK` bounds
  the integral.

### 2.7 AviaryActors, AviaryPose, AviarySimulation

`Simulate` is the task: `ActorsMove` is its first loop, `CameraTurns` the rest for one
vehicle. In `ActorsMove`, `After` is `Actor.move` with the waypoint that follows, and
`Fails` the exception of `cycle_next_waypoint`, which leaves the actors behind it and
the vehicle unmoved and ends the task. The vehicle's own move may end it too, with the
`IndexError` of 2.4: `Simulate` may at any tick set `dead` after the actors have moved. The ground is a line: an actor steps towards
its target, so that only distances matter. A queue of waypoints and a queue of delays
are one queue of records, as the code fills and empties both together, except that
`cycle_next_waypoint` does not look at the delays.

`AskPose` and `SetPoseMode` are the two writes of `set_pose_target`, between which a
tick may come. `Difference` is the correction by one turn, `Rotation` the step of
`get_angular_velocity`. The heading is asked for clockwise and kept counter-clockwise
(`Heading`), without reduction. Pitch and roll have no correction and share the one
length of the step; they are left out.

Described only:

* A cycling actor that was configured without `speed_target` ends the simulation at
  its first tick (`actor.py:231`): no method sets one before the first waypoint is
  taken. Actors and vehicles then stand still for good, and calls are still answered.
  `TracesRun` and `Faces` promise progress only while the task lives.
* `waypoint_cycle` is looked for, not looked at: `false` cycles too (`actor.py:55-56`).
* A delay is counted down by whole ticks, so an actor may wait up to one longer, and a
  single long tick ends any delay; a cycling actor never waits.
* The difference to an angle is corrected by one turn only (`vehicle.py:432-435`), while the
  heading is kept unreduced. More than a turn and a half away, the camera goes the long way
  round, away from a target it may be facing already, against line 433: "Rotate in the
  opposite direction if it's faster". A rate winds it up so far, and angles and offsets
  alone can do it as well. `ClosesIn` is about all smaller distances and measures them on the
  circle; `Faces` says that the camera gets to the angle in the end however far it was
  wound up.
* Between the two writes of `set_pose_target`, one tick may take an angle for a rate.

## 3. Runs

| Run | Bounds | Shows |
|---|---|---|
| `mission_service` | 2 calls and shutdown, 2 runs, 2 binaries, preloaded or not, symmetry | `TypeOK`, `SlotTracksRun`, `StartableIsVerified`, `UploadKeepsBinary`, `StopIsThorough`, refinement `ImplementsLauncher` |
| `mission_liveness` | 2 calls, 1 run, 1 binary, no symmetry | `MissionEnds`, `UploadFlagFreed`, `ShutdownCompletes` |
| `stopped_kills_group` | as `mission_service` | violation: finding 1 |
| `mission_upload` | limit of 7 bytes, prefix of 3, chunks of 0, 1, 2, 4, machines and their byte-swapped twins | `AcceptedIsWhole`, `CheckedFirst` |
| `anafi_control` | 2 handlers, 2 targets, symmetry | `TypeOK`, `OneStaleStep`, `Settled`, `HoldHolds` |
| `anafi_thread_lives` | 1 handler, 1 target | violation: finding 2 |
| `anafi_video` | 2 streams, frames of 1, 2, 4, headroom 1, 2 failed reads | `ProducerFits`, `OneProducer`, `HandedOnce`, `FramesFlow`, `WorkerFreed` |
| `axis_pid` | 3 setpoints, 8 readings, readings that repeat for up to one tick | `TypeOK`, `NeverFights` |
| `aviary_vehicle` | 2 places, heights -2 to 1, home at -1 | `OnRoute`, `MotionMatchesMode`, `LevelReturn`, refinement `FollowsRoutes`, `ComesToRest` |
| `aviary_threads` | 2 handlers, 3 calls of any kind, 1 reader, symmetry | `TypeOK`, `LastCallWins`, `SurvivesUnlessRobbed` |
| `aviary_out_of_order` | 1 handler, 1 call, 1 reader | violation: finding 3 |
| `aviary_simulation` | 2 actors in 4 configurations, 5 places, a turn of 8, ticks of 1 and 2, drift up to 21 | `OnTrace`, `StaysNearby`, `ClosesIn`, `TracesRun`, `Faces` |

Where a type invariant is not among the properties of a run, it is proved (section 5)
for all values of the constants.

Why the bounds are enough to be interesting:

* *Mission.* Two calls are the least at which an upload races a start, a stop or
  another upload; with the shutdown goroutine two stops race each other over one
  start. Two launches let a run be replaced, which the guard in `watch` is about;
  two binaries tell a replaced one from the old. The proofs lift all of these.
* *Upload.* Chunks from 0 to 4 against a prefix of 3 and a limit of 7: the prefix is
  completed by the first, second or third chunk, exactly or in the middle of one, or never;
  the size is met, missed and exceeded by one. The real prefix has 20 bytes.
* *Anafi control.* Two handlers, whose calls overlap in every way, and the thread are three
  writers of mode, target and PID memory; the second target tells a stale step from a
  fresh one. That is 8.3 million states up to symmetry; all four properties are proved for
  any number of handlers and targets.
* *Anafi video.* Two streams race for a frame. Of the three sizes the second fits into
  the headroom of the first and the third does not, so a producer is kept, replaced,
  and missing after a failed creation with larger frames to come. Two failed reads in a
  row are one that is forgiven and one that is not.
* *Axis.* Readings lie below, at and beyond the dead band and the settling error, on
  both sides of each setpoint; commands reach their limits, the integral its own;
  gaps, repeats and ticks without elapsed time occur.
* *Aviary simulation.* The actors: one that runs its trace once with a delay longer than
  a tick, one in a circle over its origin, one without a trace, and one that has no
  speed, before and behind another. Steps of two lengths end exactly at, and
  short of, a target. A turn of 8 with steps of 2 and 4 has half turns, odd rests and
  offsets beyond a turn; `MaxDrift` lets a rate wind the camera up by more than two.
* *Aviary vehicle.* Two places and a home that is neither at the lowest nor at the highest
  height make climb, crossing and descent three different legs, any of which may be
  empty. Home at -1, with one height below it and two above, makes the minimum altitude
  and the height compared with it differ, so that a return is flown lower than asked and
  lower than it began.
* *Aviary threads.* Two calls that overlap, and a third that finds what they left; a stream
  and the simulation both take waypoints, so that calls are overtaken, the queue is robbed
  by either, and both threads may die. 5.5 million states up to symmetry; the proofs lift
  all the numbers.

CHECK_DEADLOCK is off only where the system may stop: after the shutdown of the
mission service, after the end of an upload, and in `aviary_threads`, when both threads
that take waypoints have died and no call is left.

## 4. Fairness

* *Mission.* Goroutines are scheduled (`UploadProgress`, `Start`, `Watch`), the
  timer of `stop` fires (`Stop`), SIGKILL takes effect (`KillGroup`), and `Serve`
  returns when the calls are over. Nothing makes a client send or close its stream
  (no deadline: `server.go:167`), hence neither `ReceiveVerified` nor `ReceiveFails`
  is fair, and the properties exempt an open stream; nothing makes a mission
  exit or a signal arrive. `WF` suffices: a goroutine that is able to go on stays so.
  `WF` of `UploadProgress` includes both outcomes of `commit`, so no outcome is
  promised.
* *Video.* The capture thread and the streams are scheduled: `WF(Grab)`, `WF(Serve)`.
  `SF` on `Open`, `NewFrame` and `Encode`: while the drone serves its stream, opening
  it, reading from it and encoding a frame do not fail every time. Nothing makes the
  drone serve its stream or a client leave; that is the premise of the properties.
* *Simulation.* Panda3D calls the task again and again (`WF(Simulate)`), and a call that
  has stored its target stores its mode (`WF(Return)`). `TracesRun` has the
  premise that the camera is given no rate for ever, only because at `MaxDrift`,
  a bound of the model, a rate stops the tick. `Faces` has it because a rate asks for no
  angle. Both are about a task that lives.
* *AviaryVehicle.* `WF(Tick)`: the simulation keeps ticking. `Fly` may leave the
  position as it is; fairness rules out only ticks that do so for ever, which is
  what a tick with a positive step does. Nobody need call or listen.

Everything else is safety: `AnafiControl` and `AviaryThreads` assume no fairness.

## 5. Proofs

All theorems hold for every value of the constants under the named assumptions in the
modules: `None`, `Partial` and `Shutdown` are different from the things they
stand beside (`NoneAssumption`, `ThreadsAssumption` and others); sizes are
naturals, heights integers; home is one of the places and heights; what serves a Control call and what streams
telemetry are different threads while they do.
No theorem about a property of a run has a premise but its specification. One theorem
beyond the runs has one, `OnlyResetsKill`, which says so in its statement.

* **MissionServiceProofs.** `TypeCorrect`, then `OneMissionAtATime`
  (`SlotTracksRun`), `OneUploadAtATime`, `CommitIsVerified`, `OnlyVerifiedStarts`,
  `BinaryKept`. The slot invariant and the upload flag are each inductive with
  types. What is committed rests on the flag: as only one call is between
  `beginUpload` and `endUpload`, nobody else touches the temp file. That the
  startable binary is verified rests on what is committed, and that a run keeps its
  binary on both, with the second check of `commit`. `Refinement` maps each step to
  a step of `MissionLauncher` or a stutter from these invariants: `Commit` is Install,
  `StartMission` is Launch, the end of the leader is Exit, `ClearRun` is Release.
  For `MissionObserved`: every observed step is a step of the service (`ObservedStep`), so
  the invariants above carry over. `StopsThorough` (`StopIsThorough`): by `StopsNoted`, a stop
  in progress has noted only runs that are gone and the one it took, because the slot tracks
  the run (`SlotTracksRun`), and a run that is gone stays so (`GoneForGood`).
  `UploadsKeep` (`UploadKeepsBinary`): what is startable changes only at a commit, and that
  ends the one upload that is pending.
* **MissionUploadProofs.** `Counters` relates what was received, kept as prefix
  and written; with `TypeOK` and `AcceptedIsWhole` it is inductive (`Invariance`).
  `MachineRoundTrip` and `CheckIsBuilt` reduce the byte-level check to what it is
  for. `AcceptedUploads`, `WritesChecked` and `TypeCorrect` follow.
* **AnafiControlProofs.** `TypeCorrect` includes which kind of call may stand
  where. `StepsAreFresh`: `OneStaleStep` alone is not inductive; `OneLate` adds that
  after the one late PCMD the thread waits for the event, or velocity control is active
  and its step is for the target that is set. `ModeSettles` (`Settled`) and `HoldEnds`
  (`HoldHolds`) are read off one invariant, `Alone`: as long as the last flight call has met
  no other, it is the only one in flight, has done what it must have at the point where it
  stands (`UnderWay`), and, once it is over, leaves what the two properties say (`Agreed`).
  Gimbal calls (`GimbalAlone`), the thread and the drone (`OthersAlone`) disturb none of it,
  and a call that meets another is forgotten (`AcceptAlone`). `OnlyResetsKill` (about
  `ThreadLives`, which a run refutes): as long as no call is at a reset while the thread is
  in an update (`Undisturbed`), the two times of an axis are set together (`TimesAgree`) and
  the thread never subtracts `None`. A lock around update and reset would repair it.
* **AviaryVehicleProofs.** `TypeCorrect`, `RouteKept` (`OnRoute`), `FliesHomeLevel`
  (`LevelReturn`, a property of steps), `ModeIsHonest` (`MotionMatchesMode`) and
  `Refinement` to `RouteFollower`. `OnRoute` is the core: legs are convex
  (`LegGoesOn`), so a vehicle that flies on stays on its leg, and the queue
  is always the tail of the route; level flight and the refinement are read off it.
  `TripHigh`, that the way home is no lower than its beginning but for what home lies below
  zero, completes `LevelReturn`.
* **AviaryThreadsProofs.** All for any number of handlers, streams and calls, overlapping or
  not. `TypeCorrect`. `SimulationIsRobbed` (`SurvivesUnlessRobbed`): a simulation about to pop
  from an empty queue has been robbed of it (`Robbed`), for it saw a waypoint there
  and no step but a stream's pop or a return's clear takes one. `LastCallIsHeeded`
  (`LastCallWins`): `Heeded` follows a call that met no other from write to write
  (`Serves`), and says that, once it is answered, no thread that reads the velocity stands
  where it could still write mode or target, except along the route the call itself
  asked for (`Served`). That a thread which has read VELOCITY first stands before its second
  read is allowed: it reads VELOCITY again.
* **AnafiVideoProofs.** `TypeCorrect`, `FramesFit`, `ProducerIsOne`, `FramesHandedOnce`, for any
  number of streams and any sizes. `Numbers` is the strengthening: an open producer was
  made for the limit (`producer = limit`), and where a frame stands in `publish` says
  how its size compares with it. It is split from `ThreadType`, which has the
  Boolean-valued variables, as no backend takes both at once. `SlotUntaken` says that a
  frame in the slot was handed to nobody.
* **AxisPIDProofs.** `TypeCorrect` and `CommandsNeverFight`, for all gains, limits, dead bands
  and sets of velocities. `SampleEffect` says what one step does to command and integral,
  from `IntegralWithin` and `ClampWithin`; the two theorems use nothing else about the
  arithmetic.
* **AviarySimulationProofs.** `AllKept` is the inductive invariant; `TypeCorrect`,
  `TracesKept` and `CameraStaysNearby` follow, and `CameraClosesIn`
  is a property of steps. For `OnTrace`: a moving actor stays on its leg (`LegMoves`, on convex
  ground), and at its end the queue is rotated to the next one (`LegNext`, `LegCycles`,
  over two rounds so that no index is reduced twice). An actor without a speed has not moved
  yet (`Speedless`), so it never moves without one. For the camera: `Near`, by cases on the
  one-turn correction, and for `ClosesIn`, that up to a turn and a half the corrected
  difference is the short way on the circle (`ShortWay`, `Remainder`) and a rotation along it
  goes no further than it (`TurnsCloser`).

Model-checked only: liveness (`MissionEnds`, `UploadFlagFreed`, `ShutdownCompletes`,
`FramesFlow`, `WorkerFreed`, `ComesToRest`, `TracesRun`, `Faces`), which TLAPS does not do
under fairness.
Every other property of a passing run is stated by a theorem.

## 6. Findings

1. `stopped_kills_group`: a stop that meets a mission whose leader has just exited
   is answered OK while children of the mission live on (`server.go:260`, against
   the comment at 256-258).
2. `anafi_thread_lives`: a reset in the middle of an update makes the thread
   subtract `None`, and nothing restarts it (`velocity_pid.py:187`, against 9).
3. `aviary_out_of_order`: telemetry and simulation both pop at one corner and
   skip a waypoint (`vehicle.py:379`, against 231).

Seen while modelling. The models have all of it, except where it says otherwise; no run
checks it, because a property that excludes it fails and one that holds would repeat the
code:

* A start right after a stop that was answered OK may be refused, which a test does not
  expect (2.1). A client that goes silent with its upload open holds the upload flag and the
  shutdown for ever (`server.go:167`); `UploadFlagFreed` and `ShutdownCompletes` exempt it.
* Overlapping calls leave the driver's mode, velocity control and setpoint apart until the
  next call that meets none; a late PCMD may cancel a landing (2.3).
* A stream without frames never notices that its client left, and keeps a worker (2.5).
* A brake of all axes is not sent, and the integral does not unwind (2.6).
* A `Hold` or position call that is overtaken by a thread on a route is lost; a return may be
  left with fewer points; an `IndexError` ends the simulation for all (2.4).
* The minimum altitude of a return counts from home and is compared with one that does
  not (2.4).
* A cycling actor without a speed ends the simulation, and a camera wound up by more than a
  turn and a half takes the long way (2.7).
* The mode and the status that `ReturnToHome` tells clients to wait for are never reported,
  or reported at every corner (2.4; the answers are not modelled).

## 7. Not modelled

* *Telemetry fields and Protobuf records* (most of `stream.py:138-300`,
  `steeleagle.py:327-460`): conversions without state. That they may raise is in
  `PoseFails` and `EncodeFails`.
* *Geodesy, bearings, three-dimensional vectors* (`vehicle.py:56-225`, `control.py`
  conversions): real arithmetic, outside what TLC and the provers do; positions are
  points that are told apart.
* *Calibration* (a sequential dialogue with the drone at the console), `info.py`,
  constants, connecting and wiring of the driver: no state that changes afterwards.
* *Detection engine, cameras, scene graph, command line, reading the configuration* of the
  aviary: projections without state, or set-up that runs once before the first tick.
* *Answers of the Control calls*: both drivers answer when the command is given, and
  the modes they tell clients to wait for change nothing on the server.

What could still be added: pitch and roll in `AviaryPose`, which share the length of one
rotation with the heading.
