---------------------------- MODULE MissionObserved ----------------------------
(***************************************************************************)
(* MissionService with an observer that remembers what its clients were    *)
(* told. The observer adds no behaviour: every step below is a step of     *)
(* MissionService!Next, together with what the observer notes of it.       *)
(***************************************************************************)
EXTENDS MissionService

VARIABLES
  before,    \* a call: the startable binary when its upload began
  earlier,   \* a call: the runs born when its stop began
  answered,  \* runs that a StopMission took and answered OK for
  settled    \* runs born before a StopMission that was answered OK began

observer == <<before, earlier, answered, settled>>

Born == {r \in Runs : phase[r] # "unborn"}

ObservedInit ==
  /\ Init
  /\ before = [c \in Calls |-> None]
  /\ earlier = [c \in Calls |-> {}]
  /\ answered = {} /\ settled = {}

ObserveBegin(c) ==
  /\ BeginUpload(c)
  /\ before' = [before EXCEPT ![c] = Contents(binaryPath)]
  /\ UNCHANGED <<earlier, answered, settled>>

ObserveEnd(c) ==
  /\ EndUpload(c)
  /\ before' = [before EXCEPT ![c] = None]
  /\ UNCHANGED <<earlier, answered, settled>>

\* A stop that finds the slot empty is answered OK at once.
ObserveStop(c) ==
  /\ StopRead(c)
  /\ earlier' = [earlier EXCEPT ![c] = IF pc'[c] = "idle" THEN {} ELSE Born]
  /\ settled' = IF pc'[c] = "idle" THEN settled \cup Born ELSE settled
  /\ UNCHANGED <<before, answered>>

ObserveOk(c) ==
  /\ StopDone(c)
  /\ answered' = answered \cup {target[c]}
  /\ settled' = settled \cup earlier[c]
  /\ earlier' = [earlier EXCEPT ![c] = {}]
  /\ UNCHANGED before

ObserveTimeout(c) ==
  /\ StopTimeout(c)
  /\ earlier' = [earlier EXCEPT ![c] = {}]
  /\ UNCHANGED <<before, answered, settled>>

Unnoticed(c) ==
  \/ Accept(c) \/ Start(c)
  \/ UploadRejected(c) \/ OpenTmp(c) \/ ReceiveVerified(c) \/ ReceiveFails(c)
  \/ Commit(c) \/ CommitFails(c) \/ RemoveTmp(c) \/ Reply(c) \/ StopCancel(c)

Background ==
  \/ Stop(Shutdown)
  \/ \E r \in Runs : Process(r) \/ KillGroup(r) \/ Watch(r)
  \/ Signal \/ ServiceExits

ObservedNext ==
  \/ \E c \in Calls :
       \/ ObserveBegin(c) \/ ObserveEnd(c)
       \/ ObserveStop(c) \/ ObserveOk(c) \/ ObserveTimeout(c)
       \/ Unnoticed(c) /\ UNCHANGED observer
  \/ Background /\ UNCHANGED observer

ObservedSpec == ObservedInit /\ [][ObservedNext]_<<vars, observer>>

-----------------------------------------------------------------------------
\* An upload that has not committed leaves what StartMission would run exactly
\* as it was when the upload began, through every failure of the stream, of
\* the checks and of the commit (server.go:75-78, 100-109).
UploadKeepsBinary ==
  \A c \in Calls :
    pc[c] \in {"open", "recv", "verified", "failed"} => Contents(binaryPath) = before[c]

\* When StopMission answers OK, no mission started before the call began is
\* still running its leader process, whether the call found one, met one that
\* was just exiting, or found the slot empty (server.go:299-301).
StopIsThorough == \A r \in settled : phase[r] # "running"

-----------------------------------------------------------------------------
\* "kill the whole group on stop/cancel, not just the immediate child, in case
\* the mission binary spawns its own children" (server.go:256-258): after the OK
\* nothing of the group is left.
StoppedKillsGroup == \A r \in answered : ~children[r]
=============================================================================
