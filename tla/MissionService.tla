---------------------------- MODULE MissionService ----------------------------
(***************************************************************************)
(* The mission launcher of mission-service/server.go and main.go: gRPC     *)
(* handler goroutines upload a mission binary, start it as a subprocess    *)
(* and stop it, sharing one `server` value under its mutex; one `watch`    *)
(* goroutine per launched subprocess; and the goroutine of main that, on   *)
(* SIGINT or SIGTERM, stops the mission and drains the gRPC server.        *)
(*                                                                         *)
(* One action is one critical section, one system call or one channel      *)
(* operation: everything between two of them is local to a goroutine.      *)
(* What receiveBinary checks chunk by chunk is module MissionUpload; here  *)
(* a stream either delivers a binary the header describes, or fails.       *)
(***************************************************************************)
CONSTANTS
  Calls,      \* gRPC handler goroutines; a finished one may serve a new call
  Shutdown,   \* the goroutine of main that waits for the signal
  Runs,       \* subprocess launches, each used once: bounds the launches
  Binaries,   \* the contents a mission binary can have
  Partial,    \* contents of a file that is still being written
  None        \* nil, an absent file, no binary

ASSUME CallAssumption == Shutdown \notin Calls
ASSUME RunAssumption == None \notin Runs
ASSUME BinaryAssumption == Partial \notin Binaries \cup {None} /\ None \notin Binaries

VARIABLES
  pc,          \* where each handler, and the shutdown goroutine, stands
  target,      \* the run a stop() call took out of the server
  payload,     \* the binary an upload stream delivered and verified
  binaryPath,  \* server.binaryPath: "" or which file it names
  uploading,   \* server.uploading
  current,     \* the run whose server.cancel and server.done are set
  preload,     \* contents of the file named by -mission-file
  installed,   \* contents of runDir/mission
  tmp,         \* contents of runDir/mission.tmp
  phase,       \* a run: its subprocess, then its watch goroutine
  cancelled,   \* a run: its context has been cancelled
  children,    \* a run: the subprocess left live processes in its group
  image        \* a run: the binary it was started from, and where that was

callVars    == <<pc, target, payload>>
serverVars  == <<binaryPath, uploading, current>>
fileVars    == <<preload, installed, tmp>>
runVars     == <<phase, cancelled, children, image>>
vars        == <<callVars, serverVars, fileVars, runVars>>

Stoppers == Calls \cup {Shutdown}

\* A run goes through its phases in this order. The subprocess is alive only
\* in "running"; "exited" lasts until cmd.Wait has its exit status, "waited"
\* until done is closed, "closed" until watch has run its critical section.
Phases == {"unborn", "running", "exited", "waited", "closed", "cleared"}

\* The points of UploadMission between beginUpload and endUpload.
UploadPoints == {"open", "recv", "verified", "failed", "reply", "endOk", "endErr"}
StopPoints   == {"stop", "cancel", "wait"}

Alive     == pc[Shutdown] # "exited"
Accepting == pc[Shutdown] \in {"idle"} \cup StopPoints
DoneClosed(r) == phase[r] \in {"closed", "cleared"}

\* The contents of the file that server.binaryPath names.
Contents(path) == CASE path = "run"     -> installed
                    [] path = "preload" -> preload
                    [] OTHER            -> None

Goto(c, point) == pc' = [pc EXCEPT ![c] = point]

Init ==
  /\ pc = [c \in Stoppers |-> "idle"]
  /\ target = [c \in Stoppers |-> None]
  /\ payload = [c \in Calls |-> None]
  /\ preload \in Binaries \cup {None}
  /\ binaryPath = IF preload = None THEN "none" ELSE "preload"
  /\ uploading = FALSE
  /\ current = None
  /\ installed = None
  /\ tmp = None
  /\ phase = [r \in Runs |-> "unborn"]
  /\ cancelled = [r \in Runs |-> FALSE]
  /\ children = [r \in Runs |-> FALSE]
  /\ image = [r \in Runs |-> [bin |-> None, path |-> "none"]]

-----------------------------------------------------------------------------
(* The gRPC server hands a call to a handler until GracefulStop begins. *)
Accept(c) ==
  /\ pc[c] = "idle" /\ Accepting
  /\ \E op \in {"upload", "start", "stop"} : Goto(c, op)
  /\ UNCHANGED <<target, payload, serverVars, fileVars, runVars>>

-----------------------------------------------------------------------------
(* UploadMission. A bad first message or header, a running mission or      *)
(* another upload in flight ends the call before it owns the temp file.    *)
UploadRejected(c) ==
  /\ pc[c] = "upload"
  /\ Goto(c, "idle")
  /\ UNCHANGED <<target, payload, serverVars, fileVars, runVars>>

BeginUpload(c) ==
  /\ pc[c] = "upload"
  /\ current = None
  /\ ~uploading
  /\ uploading' = TRUE
  /\ Goto(c, "open")
  /\ UNCHANGED <<target, payload, binaryPath, current, fileVars, runVars>>

\* Faulty: the stream overwrites the installed binary in place.
OpenTmp_InPlace(c) ==
  /\ pc[c] = "open"
  /\ tmp' = Partial /\ installed' = Partial
  /\ Goto(c, "recv")
  /\ UNCHANGED <<target, payload, serverVars, preload, runVars>>

\* O_CREATE|O_TRUNC: whatever the temp file held is gone.
OpenTmp(c) ==
  /\ pc[c] = "open"
  /\ \/ tmp' = Partial /\ Goto(c, "recv")
     \/ UNCHANGED tmp /\ Goto(c, "failed")
  /\ UNCHANGED <<target, payload, serverVars, preload, installed, runVars>>

\* The stream ended and every check passed: the file holds what was hashed.
ReceiveVerified(c) ==
  /\ pc[c] = "recv"
  /\ \E b \in Binaries : payload' = [payload EXCEPT ![c] = b] /\ tmp' = b
  /\ Goto(c, "verified")
  /\ UNCHANGED <<target, serverVars, preload, installed, runVars>>

\* Faulty: the error of receiveBinary is ignored.
ReceiveFails_Ignored(c) ==
  /\ pc[c] = "recv"
  /\ Goto(c, "verified")
  /\ UNCHANGED <<target, payload, serverVars, fileVars, runVars>>

\* A broken or cancelled stream, a failed check, or an I/O error.
ReceiveFails(c) ==
  /\ pc[c] = "recv"
  /\ Goto(c, "failed")
  /\ UNCHANGED <<target, payload, serverVars, fileVars, runVars>>

Commit(c) ==
  /\ pc[c] = "verified"
  /\ current = None
  /\ installed' = tmp
  /\ tmp' = None
  /\ binaryPath' = "run"
  /\ Goto(c, "reply")
  /\ UNCHANGED <<target, payload, uploading, current, preload, runVars>>

\* A mission is running, or, whatever is running, os.Rename failed.
CommitFails(c) ==
  /\ pc[c] = "verified"
  /\ Goto(c, "failed")
  /\ UNCHANGED <<target, payload, serverVars, fileVars, runVars>>

\* The result of os.Remove is ignored.
RemoveTmp(c) ==
  /\ pc[c] = "failed"
  /\ tmp' \in {None, tmp}
  /\ Goto(c, "endErr")
  /\ UNCHANGED <<target, payload, serverVars, preload, installed, runVars>>

\* SendAndClose: its error is the call's error, after the binary is installed.
Reply(c) ==
  /\ pc[c] = "reply"
  /\ \E point \in {"endOk", "endErr"} : Goto(c, point)
  /\ UNCHANGED <<target, payload, serverVars, fileVars, runVars>>

\* Faulty: endUpload is not deferred, and an error return skips it.
EndUpload_OnSuccess(c) ==
  /\ pc[c] \in {"endOk", "endErr"}
  /\ uploading' = IF pc[c] = "endOk" THEN FALSE ELSE uploading
  /\ payload' = [payload EXCEPT ![c] = None]
  /\ Goto(c, "idle")
  /\ UNCHANGED <<target, binaryPath, current, fileVars, runVars>>

EndUpload(c) ==
  /\ pc[c] \in {"endOk", "endErr"}
  /\ uploading' = FALSE
  /\ payload' = [payload EXCEPT ![c] = None]
  /\ Goto(c, "idle")
  /\ UNCHANGED <<target, binaryPath, current, fileVars, runVars>>

-----------------------------------------------------------------------------
\* Faulty: a mission may be started beside a running one.
StartMission_NoRunningCheck(c) ==
  /\ pc[c] = "start"
  /\ binaryPath # "none"
  /\ \E r \in Runs :
       /\ phase[r] = "unborn"
       /\ phase' = [phase EXCEPT ![r] = "running"]
       /\ image' = [image EXCEPT ![r] = [bin |-> Contents(binaryPath), path |-> binaryPath]]
       /\ current' = r
  /\ Goto(c, "idle")
  /\ UNCHANGED <<target, payload, binaryPath, uploading, fileVars, cancelled, children>>

(* StartMission holds the mutex from its first check until the subprocess  *)
(* is started and server.cancel and server.done are set.                   *)
StartMission(c) ==
  /\ pc[c] = "start"
  /\ current = None
  /\ binaryPath # "none"
  /\ \E r \in Runs :
       /\ phase[r] = "unborn"
       /\ phase' = [phase EXCEPT ![r] = "running"]
       /\ image' = [image EXCEPT ![r] = [bin |-> Contents(binaryPath), path |-> binaryPath]]
       /\ current' = r
  /\ Goto(c, "idle")
  /\ UNCHANGED <<target, payload, binaryPath, uploading, fileVars, cancelled, children>>

\* Already running, nothing uploaded, or, whatever the state, exec failed.
StartFails(c) ==
  /\ pc[c] = "start"
  /\ Goto(c, "idle")
  /\ UNCHANGED <<target, payload, serverVars, fileVars, runVars>>

-----------------------------------------------------------------------------
(* stop(), called by StopMission and by the shutdown goroutine, which goes *)
(* on to GracefulStop whether or not stop() succeeded.                     *)
AfterStop(c) == IF c = Shutdown THEN "drain" ELSE "idle"

\* Faulty: stop() goes on with a nil cancel and done.
StopRead_NoNilCheck(c) ==
  /\ pc[c] = "stop"
  /\ target' = [target EXCEPT ![c] = current]
  /\ Goto(c, "cancel")
  /\ UNCHANGED <<payload, serverVars, fileVars, runVars>>

\* Faulty: stop() clears the slot as it reads it, before the mission is dead.
StopRead_TakesSlot(c) ==
  /\ pc[c] = "stop"
  /\ target' = [target EXCEPT ![c] = current]
  /\ current' = None
  /\ Goto(c, IF current = None THEN AfterStop(c) ELSE "cancel")
  /\ UNCHANGED <<payload, binaryPath, uploading, fileVars, runVars>>

StopRead(c) ==
  /\ pc[c] = "stop"
  /\ target' = [target EXCEPT ![c] = current]
  /\ Goto(c, IF current = None THEN AfterStop(c) ELSE "cancel")
  /\ UNCHANGED <<payload, serverVars, fileVars, runVars>>

StopCancel(c) ==
  /\ pc[c] = "cancel"
  /\ cancelled' = [cancelled EXCEPT ![target[c]] = TRUE]
  /\ Goto(c, "wait")
  /\ UNCHANGED <<target, payload, serverVars, fileVars, phase, children, image>>

\* Faulty: stop() returns as soon as it has cancelled the context.
StopDone_NoWait(c) ==
  /\ pc[c] = "wait"
  /\ target' = [target EXCEPT ![c] = None]
  /\ Goto(c, AfterStop(c))
  /\ UNCHANGED <<payload, serverVars, fileVars, runVars>>

StopDone(c) ==
  /\ pc[c] = "wait"
  /\ DoneClosed(target[c])
  /\ target' = [target EXCEPT ![c] = None]
  /\ Goto(c, AfterStop(c))
  /\ UNCHANGED <<payload, serverVars, fileVars, runVars>>

\* Faulty: an error of stop() ends the shutdown goroutine.
StopTimeout_GivesUp(c) ==
  /\ pc[c] = "wait"
  /\ target' = [target EXCEPT ![c] = None]
  /\ Goto(c, "idle")
  /\ UNCHANGED <<payload, serverVars, fileVars, runVars>>

\* stopTimeout may expire at any moment of the wait.
StopTimeout(c) ==
  /\ pc[c] = "wait"
  /\ target' = [target EXCEPT ![c] = None]
  /\ Goto(c, AfterStop(c))
  /\ UNCHANGED <<payload, serverVars, fileVars, runVars>>

-----------------------------------------------------------------------------
(* The subprocess and its descendants.                                     *)
Fork(r) ==
  /\ phase[r] = "running" /\ ~children[r]
  /\ children' = [children EXCEPT ![r] = TRUE]
  /\ UNCHANGED <<callVars, serverVars, fileVars, phase, cancelled, image>>

LeaderExits(r) ==
  /\ phase[r] = "running"
  /\ phase' = [phase EXCEPT ![r] = "exited"]
  /\ UNCHANGED <<callVars, serverVars, fileVars, cancelled, children, image>>

ChildrenExit(r) ==
  /\ children[r]
  /\ children' = [children EXCEPT ![r] = FALSE]
  /\ UNCHANGED <<callVars, serverVars, fileVars, phase, cancelled, image>>

\* Faulty: a signal the mission may ignore.
KillGroup_Ignored(r) ==
  /\ Alive
  /\ cancelled[r]
  /\ phase[r] \in {"running", "exited"}
  /\ children' = [children EXCEPT ![r] = FALSE]
  /\ UNCHANGED <<callVars, serverVars, fileVars, phase, cancelled, image>>

\* The goroutine of os/exec that watches the context calls cmd.Cancel, which
\* sends SIGKILL to the whole process group, unless cmd.Wait, which has the exit
\* status, tells it to return first; when both are ready either may be chosen.
KillGroup(r) ==
  /\ Alive
  /\ cancelled[r]
  /\ phase[r] \in {"running", "exited"}
  /\ phase' = [phase EXCEPT ![r] = "waited"]
  /\ children' = [children EXCEPT ![r] = FALSE]
  /\ UNCHANGED <<callVars, serverVars, fileVars, cancelled, image>>

(* watch(): cmd.Wait returns, done is closed, then, in a critical section   *)
(* of its own, the server is cleared.                                      *)
WaitReturns(r) ==
  /\ Alive
  /\ phase[r] = "exited"
  /\ phase' = [phase EXCEPT ![r] = "waited"]
  /\ UNCHANGED <<callVars, serverVars, fileVars, cancelled, children, image>>

CloseDone(r) ==
  /\ Alive
  /\ phase[r] = "waited"
  /\ phase' = [phase EXCEPT ![r] = "closed"]
  /\ UNCHANGED <<callVars, serverVars, fileVars, cancelled, children, image>>

ClearRun(r) ==
  /\ Alive
  /\ phase[r] = "closed"
  /\ phase' = [phase EXCEPT ![r] = "cleared"]
  /\ current' = IF current = r THEN None ELSE current
  /\ UNCHANGED <<callVars, binaryPath, uploading, fileVars, cancelled, children, image>>

-----------------------------------------------------------------------------
(* main: the signal, and the return of Serve once GracefulStop has waited  *)
(* for every call.                                                         *)
Signal ==
  /\ pc[Shutdown] = "idle"
  /\ Goto(Shutdown, "stop")
  /\ UNCHANGED <<target, payload, serverVars, fileVars, runVars>>

ServiceExits ==
  /\ pc[Shutdown] = "drain"
  /\ \A c \in Calls : pc[c] = "idle"
  /\ Goto(Shutdown, "exited")
  /\ UNCHANGED <<target, payload, serverVars, fileVars, runVars>>

-----------------------------------------------------------------------------
Upload(c) ==
  \/ UploadRejected(c) \/ BeginUpload(c) \/ OpenTmp(c)
  \/ ReceiveVerified(c) \/ ReceiveFails(c)
  \/ Commit(c) \/ CommitFails(c) \/ RemoveTmp(c)
  \/ Reply(c) \/ EndUpload(c)

Start(c) == StartMission(c) \/ StartFails(c)
Stop(c)  == StopRead(c) \/ StopCancel(c) \/ StopDone(c) \/ StopTimeout(c)

Process(r) == Fork(r) \/ LeaderExits(r) \/ ChildrenExit(r)
Watch(r)   == WaitReturns(r) \/ CloseDone(r) \/ ClearRun(r)

Next ==
  \/ \E c \in Calls : Accept(c) \/ Upload(c) \/ Start(c)
  \/ \E c \in Stoppers : Stop(c)
  \/ \E r \in Runs : Process(r) \/ KillGroup(r) \/ Watch(r)
  \/ Signal \/ ServiceExits

Spec == Init /\ [][Next]_vars

(***************************************************************************)
(* Fairness. Goroutines are scheduled, the timer of stop() fires, SIGKILL  *)
(* takes effect. Nothing makes a client send its next chunk or close its   *)
(* stream (no deadline in the code), a mission exit, or a signal arrive.   *)
(***************************************************************************)
UploadProgress(c) ==
  \/ OpenTmp(c) \/ Commit(c) \/ CommitFails(c)
  \/ RemoveTmp(c) \/ Reply(c) \/ EndUpload(c)

Fairness ==
  /\ \A c \in Calls : WF_vars(UploadProgress(c)) /\ WF_vars(Start(c))
  /\ \A c \in Stoppers : WF_vars(Stop(c))
  /\ \A r \in Runs : WF_vars(KillGroup(r)) /\ WF_vars(Watch(r))
  /\ WF_vars(ServiceExits)

FairSpec == Spec /\ Fairness

-----------------------------------------------------------------------------
\* Every variable stays in the range its declaration names, and a stop() call
\* never cancels or waits on a nil run (server.go:313).
TypeOK ==
  /\ pc \in [Stoppers -> {"idle", "upload", "start", "drain", "exited"}
                            \cup UploadPoints \cup StopPoints]
  /\ target \in [Stoppers -> Runs \cup {None}]
  /\ \A c \in Stoppers : pc[c] \in {"cancel", "wait"} => target[c] \in Runs
  /\ payload \in [Calls -> Binaries \cup {None}]
  /\ preload \in Binaries \cup {None}
  /\ installed \in Binaries \cup {None, Partial}
  /\ tmp \in Binaries \cup {None, Partial}
  /\ binaryPath \in {"none", "preload", "run"}
  /\ uploading \in BOOLEAN
  /\ current \in Runs \cup {None}
  /\ phase \in [Runs -> Phases]
  /\ cancelled \in [Runs -> BOOLEAN]
  /\ children \in [Runs -> BOOLEAN]
  /\ image \in [Runs -> [bin : Binaries \cup {None, Partial}, path : {"none", "preload", "run"}]]

\* The server's slot is taken exactly while one run is between its start and
\* the critical section of its watch goroutine (server.go:239-297): no launch
\* finds the slot free while another subprocess lives, and the run that watch
\* clears is always the one in the slot.
SlotTracksRun ==
  \A r \in Runs : current = r <=> phase[r] \notin {"unborn", "cleared"}

\* At most one call is between beginUpload and endUpload, and it is the one
\* the flag stands for (server.go:132-150).
UploadsExclude ==
  /\ \A c \in Calls : pc[c] \in UploadPoints => uploading
  /\ \A c, d \in Calls : pc[c] \in UploadPoints /\ pc[d] \in UploadPoints => c = d

\* What commit renames is what this very call received and verified: no other
\* upload truncated or replaced the temp file since (server.go:100-105).
CommitsVerified ==
  \A c \in Calls : pc[c] = "verified" => tmp = payload[c] /\ tmp \in Binaries

\* What StartMission would exec is a completely received, verified binary, or
\* the preloaded file (server.go:219-233, main.go:67-70).
StartableIsVerified ==
  /\ installed # Partial
  /\ binaryPath # "none" => Contents(binaryPath) \in Binaries

\* The binary a run was started from is not replaced while the run has the
\* slot (server.go:130-137, 221-226; "so it can't be swapped out from under a
\* live run", server_test.go:245-246).
RunKeepsBinary ==
  \A r \in Runs : current = r =>
    image[r].bin \in Binaries /\ image[r].bin = Contents(image[r].path)

-----------------------------------------------------------------------------
\* A run that was cancelled, or whose leader exited, is reaped and its slot is
\* freed, as long as the service lives (server.go:280-297, 317-323).
MissionEnds ==
  \A r \in Runs :
    cancelled[r] \/ phase[r] = "exited" ~> phase[r] = "cleared" \/ ~Alive

\* The upload flag is cleared on every path out of UploadMission (server.go:98):
\* only a client that sends nothing and keeps its stream open can hold it.
UploadFlagFreed == uploading ~> ~uploading \/ \E c \in Calls : pc[c] = "recv"

\* Once signalled, the service exits, unless the drain waits for a client that
\* keeps an upload stream open, whatever stop() answered (main.go:72-77).
ShutdownCompletes ==
  pc[Shutdown] = "stop" ~>
    pc[Shutdown] = "exited" \/ \E c \in Calls : pc[c] \in {"upload", "recv"}

-----------------------------------------------------------------------------
\* What the service promises its clients, and how its state maps to that.
RunBinary == IF current = None THEN None ELSE image[current].bin
RunAlive  == current # None /\ phase[current] = "running"

Promise == INSTANCE MissionLauncher WITH
  running <- RunBinary, alive <- RunAlive, binary <- Contents(binaryPath)

\* The service implements the launcher: at most one mission at a time, started
\* from a complete binary that is never replaced while it has the slot.
ImplementsLauncher == Promise!Spec

=============================================================================
