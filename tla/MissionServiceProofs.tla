-------------------------- MODULE MissionServiceProofs --------------------------
(***************************************************************************)
(* Proofs about MissionService, for every set of calls, runs and binaries, *)
(* and about what its observer notes. The six invariants of the service    *)
(* are, together, inductive.                                               *)
(***************************************************************************)
EXTENDS MissionObserved, TLAPS

IInv ==
  /\ TypeOK
  /\ SlotTracksRun
  /\ UploadsExclude
  /\ CommitsVerified
  /\ StartableIsVerified
  /\ RunKeepsBinary

-----------------------------------------------------------------------------
(* Each step is in the range the variables are declared to have.           *)
LEMMA InitType == Init => TypeOK
<1> SUFFICES ASSUME Init PROVE TypeOK
  OBVIOUS
<1>1. /\ pc \in [Stoppers -> {"idle", "upload", "start", "drain", "exited"}
                              \cup UploadPoints \cup StopPoints]
      /\ target \in [Stoppers -> Runs \cup {None}]
      /\ payload \in [Calls -> Binaries \cup {None}]
  BY DEF Init
<1>2. \A c \in Stoppers : pc[c] \notin {"cancel", "wait"}
  BY DEF Init
<1>3. /\ preload \in Binaries \cup {None}
      /\ installed \in Binaries \cup {None, Partial}
      /\ tmp \in Binaries \cup {None, Partial}
      /\ binaryPath \in {"none", "preload", "run"}
      /\ uploading \in BOOLEAN
      /\ current \in Runs \cup {None}
  BY DEF Init
<1>4. /\ phase \in [Runs -> Phases]
      /\ cancelled \in [Runs -> BOOLEAN]
      /\ children \in [Runs -> BOOLEAN]
      /\ image \in [Runs -> [bin : Binaries \cup {None, Partial},
                             path : {"none", "preload", "run"}]]
  BY DEF Init, Phases
<1> QED BY <1>1, <1>2, <1>3, <1>4 DEF TypeOK

LEMMA NextType == TypeOK /\ [Next]_vars => TypeOK'
<1> SUFFICES ASSUME TypeOK, [Next]_vars PROVE TypeOK'
  OBVIOUS
<1> USE CallAssumption, RunAssumption, BinaryAssumption
    DEF TypeOK, Stoppers, Phases, UploadPoints, StopPoints, Goto, AfterStop,
        callVars, serverVars, fileVars, runVars
<1>1. CASE UNCHANGED vars
  BY <1>1 DEF vars
<1>2. ASSUME NEW c \in Calls, Accept(c) PROVE TypeOK'
  BY <1>2 DEF Accept
<1>3. ASSUME NEW c \in Calls, Upload(c) PROVE TypeOK'
  <2>1. CASE UploadRejected(c) BY <2>1 DEF UploadRejected
  <2>2. CASE BeginUpload(c) BY <2>2 DEF BeginUpload
  <2>3. CASE OpenTmp(c) BY <2>3 DEF OpenTmp
  <2>4. CASE ReceiveVerified(c) BY <2>4 DEF ReceiveVerified
  <2>5. CASE ReceiveFails(c) BY <2>5 DEF ReceiveFails
  <2>6. CASE Commit(c) BY <2>6 DEF Commit
  <2>7. CASE CommitFails(c) BY <2>7 DEF CommitFails
  <2>8. CASE RemoveTmp(c) BY <2>8 DEF RemoveTmp
  <2>9. CASE Reply(c) BY <2>9 DEF Reply
  <2>10. CASE EndUpload(c) BY <2>10 DEF EndUpload
  <2> QED BY <1>3, <2>1, <2>2, <2>3, <2>4, <2>5, <2>6, <2>7, <2>8, <2>9, <2>10 DEF Upload
<1>4. ASSUME NEW c \in Calls, Start(c) PROVE TypeOK'
  <2>1. CASE StartMission(c) BY <2>1 DEF StartMission, Contents
  <2>2. CASE StartFails(c) BY <2>2 DEF StartFails
  <2> QED BY <1>4, <2>1, <2>2 DEF Start
<1>5. ASSUME NEW c \in Stoppers, Stop(c) PROVE TypeOK'
  <2>1. CASE StopRead(c) BY <2>1 DEF StopRead
  <2>2. CASE StopCancel(c) BY <2>2 DEF StopCancel
  <2>3. CASE StopDone(c) BY <2>3 DEF StopDone
  <2>4. CASE StopTimeout(c) BY <2>4 DEF StopTimeout
  <2> QED BY <1>5, <2>1, <2>2, <2>3, <2>4 DEF Stop
<1>6. ASSUME NEW r \in Runs, Process(r) \/ KillGroup(r) \/ Watch(r) PROVE TypeOK'
  BY <1>6 DEF Process, Fork, LeaderExits, ChildrenExit, KillGroup,
              Watch, WaitReturns, CloseDone, ClearRun
<1>7. CASE Signal \/ ServiceExits
  BY <1>7 DEF Signal, ServiceExits
<1> QED BY <1>1, <1>2, <1>3, <1>4, <1>5, <1>6, <1>7 DEF Next

\* Every reachable state is well typed, and no stop() call ever cancels or waits
\* on a run that is not there.
THEOREM TypeCorrect == Spec => []TypeOK
BY InitType, NextType, PTL DEF Spec

-----------------------------------------------------------------------------
(* Each invariant is preserved by every step, given the ones before it.     *)

LEMMA NextSlot == TypeOK /\ SlotTracksRun /\ [Next]_vars => SlotTracksRun'
<1> SUFFICES ASSUME TypeOK, SlotTracksRun, [Next]_vars PROVE SlotTracksRun'
  OBVIOUS
<1> USE RunAssumption DEF SlotTracksRun, callVars, serverVars, fileVars, runVars
<1>1. CASE UNCHANGED <<current, phase>>
  BY <1>1
<1>2. ASSUME NEW c \in Calls, StartMission(c) PROVE SlotTracksRun'
  BY <1>2 DEF StartMission, TypeOK
<1>3. ASSUME NEW r \in Runs, LeaderExits(r) \/ KillGroup(r) \/ WaitReturns(r) \/ CloseDone(r)
      PROVE  SlotTracksRun'
  BY <1>3 DEF LeaderExits, KillGroup, WaitReturns, CloseDone, TypeOK
<1>4. ASSUME NEW r \in Runs, ClearRun(r) PROVE SlotTracksRun'
  BY <1>4 DEF ClearRun, TypeOK
<1> QED
  BY <1>1, <1>2, <1>3, <1>4
  DEF Next, vars, Accept, Upload, UploadRejected, BeginUpload, OpenTmp, ReceiveVerified,
      ReceiveFails, Commit, CommitFails, RemoveTmp, Reply, EndUpload, Start, StartFails,
      Stop, StopRead, StopCancel, StopDone, StopTimeout, Process, Fork, ChildrenExit,
      Watch, Signal, ServiceExits

LEMMA NextExclude == TypeOK /\ UploadsExclude /\ [Next]_vars => UploadsExclude'
<1> SUFFICES ASSUME TypeOK, UploadsExclude, [Next]_vars PROVE UploadsExclude'
  OBVIOUS
<1> USE CallAssumption
    DEF UploadsExclude, UploadPoints, Goto, callVars, serverVars, fileVars, runVars
<1>1. ASSUME UNCHANGED <<pc, uploading>> PROVE UploadsExclude'
  BY <1>1
<1>2. ASSUME NEW c \in Calls, Accept(c) \/ UploadRejected(c) \/ Start(c) PROVE UploadsExclude'
  BY <1>2 DEF Accept, UploadRejected, Start, StartMission, StartFails, TypeOK, Stoppers
<1>3. ASSUME NEW c \in Calls, BeginUpload(c) PROVE UploadsExclude'
  BY <1>3 DEF BeginUpload, TypeOK, Stoppers
<1>4. ASSUME NEW c \in Calls,
             \/ OpenTmp(c) \/ ReceiveVerified(c) \/ ReceiveFails(c) \/ Commit(c)
             \/ CommitFails(c) \/ RemoveTmp(c) \/ Reply(c)
      PROVE  UploadsExclude'
  BY <1>4 DEF OpenTmp, ReceiveVerified, ReceiveFails, Commit, CommitFails, RemoveTmp, Reply,
              TypeOK, Stoppers
<1>5. ASSUME NEW c \in Calls, EndUpload(c) PROVE UploadsExclude'
  BY <1>5 DEF EndUpload, TypeOK, Stoppers
<1>6. ASSUME NEW c \in Stoppers, Stop(c) PROVE UploadsExclude'
  BY <1>6 DEF Stop, StopRead, StopCancel, StopDone, StopTimeout, AfterStop, TypeOK, Stoppers
<1>7. ASSUME Signal \/ ServiceExits PROVE UploadsExclude'
  BY <1>7 DEF Signal, ServiceExits, TypeOK, Stoppers
<1>8. ASSUME NEW r \in Runs, Process(r) \/ KillGroup(r) \/ Watch(r) PROVE UploadsExclude'
  BY <1>8 DEF Process, Fork, LeaderExits, ChildrenExit, KillGroup, Watch, WaitReturns,
              CloseDone, ClearRun
<1> QED
  BY <1>1, <1>2, <1>3, <1>4, <1>5, <1>6, <1>7, <1>8 DEF Next, Upload, vars

LEMMA NextVerified ==
  TypeOK /\ UploadsExclude /\ CommitsVerified /\ [Next]_vars => CommitsVerified'
<1> SUFFICES ASSUME TypeOK, UploadsExclude, CommitsVerified, [Next]_vars
             PROVE  CommitsVerified'
  OBVIOUS
<1> USE CallAssumption, BinaryAssumption
    DEF CommitsVerified, Goto, callVars, serverVars, fileVars, runVars
<1>1. ASSUME UNCHANGED <<pc, payload, tmp>> PROVE CommitsVerified'
  BY <1>1
<1>2. ASSUME NEW c \in Calls,
             Accept(c) \/ UploadRejected(c) \/ BeginUpload(c) \/ Start(c)
      PROVE  CommitsVerified'
  BY <1>2 DEF Accept, UploadRejected, BeginUpload, Start, StartMission, StartFails,
              TypeOK, Stoppers
\* Whoever touches the temp file is the only call in an upload.
<1>3. ASSUME NEW c \in Calls, OpenTmp(c) \/ Commit(c) \/ RemoveTmp(c) PROVE CommitsVerified'
  BY <1>3 DEF OpenTmp, Commit, RemoveTmp, TypeOK, Stoppers, UploadsExclude, UploadPoints
<1>4. ASSUME NEW c \in Calls, ReceiveVerified(c) PROVE CommitsVerified'
  BY <1>4 DEF ReceiveVerified, TypeOK, Stoppers, UploadsExclude, UploadPoints
<1>5. ASSUME NEW c \in Calls,
             ReceiveFails(c) \/ CommitFails(c) \/ Reply(c) \/ EndUpload(c)
      PROVE  CommitsVerified'
  BY <1>5 DEF ReceiveFails, CommitFails, Reply, EndUpload, TypeOK, Stoppers
<1>6. ASSUME NEW c \in Stoppers, Stop(c) PROVE CommitsVerified'
  BY <1>6 DEF Stop, StopRead, StopCancel, StopDone, StopTimeout, AfterStop, TypeOK, Stoppers
<1>7. ASSUME Signal \/ ServiceExits PROVE CommitsVerified'
  BY <1>7 DEF Signal, ServiceExits, TypeOK, Stoppers
<1>8. ASSUME NEW r \in Runs, Process(r) \/ KillGroup(r) \/ Watch(r) PROVE CommitsVerified'
  BY <1>8 DEF Process, Fork, LeaderExits, ChildrenExit, KillGroup, Watch, WaitReturns,
              CloseDone, ClearRun
<1> QED
  BY <1>1, <1>2, <1>3, <1>4, <1>5, <1>6, <1>7, <1>8 DEF Next, Upload, vars

\* Only commit changes what StartMission would exec, only while the slot is
\* free, and to the verified contents of the temp file.
LEMMA OnlyCommitInstalls ==
  ASSUME TypeOK, CommitsVerified, [Next]_vars
  PROVE  \/ UNCHANGED <<binaryPath, installed, preload>>
         \/ /\ current = None /\ UNCHANGED <<current, preload, phase, image>>
            /\ binaryPath' = "run" /\ installed' \in Binaries
<1>1. ASSUME NEW c \in Calls, Commit(c)
      PROVE  /\ current = None /\ UNCHANGED <<current, preload, phase, image>>
             /\ binaryPath' = "run" /\ installed' \in Binaries
  BY <1>1 DEF Commit, CommitsVerified, runVars
<1> QED
  BY <1>1
  DEF Next, vars, callVars, serverVars, fileVars, runVars, Accept, Upload, UploadRejected,
      BeginUpload, OpenTmp, ReceiveVerified, ReceiveFails, CommitFails, RemoveTmp, Reply,
      EndUpload, Start, StartMission, StartFails, Stop, StopRead, StopCancel, StopDone,
      StopTimeout, Process, Fork, LeaderExits, ChildrenExit, KillGroup, Watch, WaitReturns,
      CloseDone, ClearRun, Signal, ServiceExits

LEMMA NextStartable ==
  TypeOK /\ CommitsVerified /\ StartableIsVerified /\ [Next]_vars => StartableIsVerified'
BY OnlyCommitInstalls, BinaryAssumption DEF StartableIsVerified, Contents

\* A step that gives the slot to a run, or keeps it there.
LEMMA SlotStep ==
  ASSUME TypeOK, [Next]_vars, NEW r \in Runs, current' = r
  PROVE  \/ current = r /\ UNCHANGED image
         \/ /\ current = None
            /\ image'[r] = [bin |-> Contents(binaryPath), path |-> binaryPath]
            /\ binaryPath # "none" /\ UNCHANGED <<binaryPath, fileVars>>
<1> USE RunAssumption
<1>1. ASSUME NEW c \in Calls, StartMission(c)
      PROVE  /\ current = None
             /\ image'[r] = [bin |-> Contents(binaryPath), path |-> binaryPath]
             /\ binaryPath # "none" /\ UNCHANGED <<binaryPath, fileVars>>
  BY <1>1 DEF StartMission, TypeOK
<1>2. ASSUME NEW q \in Runs, ClearRun(q) PROVE current = r /\ UNCHANGED image
  BY <1>2 DEF ClearRun
<1> QED
  BY <1>1, <1>2
  DEF Next, vars, callVars, serverVars, fileVars, runVars, Accept, Upload, UploadRejected,
      BeginUpload, OpenTmp, ReceiveVerified, ReceiveFails, Commit, CommitFails, RemoveTmp,
      Reply, EndUpload, Start, StartFails, Stop, StopRead, StopCancel, StopDone,
      StopTimeout, Process, Fork, LeaderExits, ChildrenExit, KillGroup, Watch, WaitReturns,
      CloseDone, Signal, ServiceExits

LEMMA NextKeeps ==
  TypeOK /\ CommitsVerified /\ StartableIsVerified /\ RunKeepsBinary /\ [Next]_vars
    => RunKeepsBinary'
<1> SUFFICES ASSUME TypeOK, CommitsVerified, StartableIsVerified, RunKeepsBinary,
                    [Next]_vars, NEW r \in Runs, current' = r
             PROVE  /\ image'[r].bin \in Binaries
                    /\ image'[r].bin = Contents(image[r].path)'
  BY DEF RunKeepsBinary
<1>1. CASE current = r /\ UNCHANGED image
  BY <1>1, OnlyCommitInstalls, RunAssumption DEF RunKeepsBinary, Contents
<1>2. CASE /\ current = None
           /\ image'[r] = [bin |-> Contents(binaryPath), path |-> binaryPath]
           /\ binaryPath # "none" /\ UNCHANGED <<binaryPath, fileVars>>
  BY <1>2 DEF Contents, fileVars, StartableIsVerified
<1> QED BY <1>1, <1>2, SlotStep

-----------------------------------------------------------------------------
LEMMA InitIInv == Init => IInv
<1> SUFFICES ASSUME Init PROVE IInv
  OBVIOUS
<1>1. TypeOK
  BY InitType
<1>2. SlotTracksRun /\ RunKeepsBinary
  BY RunAssumption DEF Init, SlotTracksRun, RunKeepsBinary
<1>3. \A c \in Calls : pc[c] = "idle"
  BY DEF Init, Stoppers
<1>4. UploadsExclude /\ CommitsVerified
  BY <1>3 DEF UploadsExclude, CommitsVerified, UploadPoints
<1>5. StartableIsVerified
  BY BinaryAssumption DEF Init, StartableIsVerified, Contents
<1> QED BY <1>1, <1>2, <1>4, <1>5 DEF IInv

LEMMA NextIInv == IInv /\ [Next]_vars => IInv'
BY NextType, NextSlot, NextExclude, NextVerified, NextStartable, NextKeeps DEF IInv

\* In every reachable state all six invariants hold.
THEOREM Invariance == Spec => []IInv
BY InitIInv, NextIInv, PTL DEF Spec

\* The slot of the server is held by exactly one launched and not yet cleared
\* run, whatever calls of StartMission, StopMission and watch interleave.
THEOREM OneMissionAtATime == Spec => []SlotTracksRun
<1>1. IInv => SlotTracksRun BY DEF IInv
<1> QED BY <1>1, Invariance, PTL

\* beginUpload and endUpload bracket one call at a time.
THEOREM OneUploadAtATime == Spec => []UploadsExclude
<1>1. IInv => UploadsExclude BY DEF IInv
<1> QED BY <1>1, Invariance, PTL

\* commit never renames a temp file that another call wrote or truncated.
THEOREM CommitIsVerified == Spec => []CommitsVerified
<1>1. IInv => CommitsVerified BY DEF IInv
<1> QED BY <1>1, Invariance, PTL

\* StartMission never execs a partial, missing or unverified upload.
THEOREM OnlyVerifiedStarts == Spec => []StartableIsVerified
<1>1. IInv => StartableIsVerified BY DEF IInv
<1> QED BY <1>1, Invariance, PTL

\* No upload swaps the binary of a mission that has the slot.
THEOREM BinaryKept == Spec => []RunKeepsBinary
<1>1. IInv => RunKeepsBinary BY DEF IInv
<1> QED BY <1>1, Invariance, PTL

-----------------------------------------------------------------------------
(* The refinement: every step of the service is a step of MissionLauncher, *)
(* or leaves what a client can rely on as it was.                          *)
LEMMA InitPromise == Init => Promise!Init
BY BinaryAssumption DEF Init, Promise!Init, RunBinary, RunAlive, Contents

LEMMA NextPromise == IInv /\ [Next]_vars => [Promise!Next]_Promise!vars
<1> SUFFICES ASSUME IInv, [Next]_vars PROVE [Promise!Next]_Promise!vars
  OBVIOUS
<1> USE RunAssumption, BinaryAssumption
    DEF Goto, callVars, serverVars, fileVars, runVars, IInv
<1>1. ASSUME UNCHANGED <<binaryPath, current, preload, installed, phase, image>>
      PROVE  UNCHANGED Promise!vars
  BY <1>1 DEF Promise!vars, RunBinary, RunAlive, Contents
<1>2. ASSUME NEW c \in Calls, Commit(c) PROVE Promise!Install
  <2>1. installed' \in Binaries /\ binaryPath' = "run"
    BY <1>2 DEF Commit, CommitsVerified
  <2>2. current = None /\ UNCHANGED <<current, phase, image>>
    BY <1>2 DEF Commit
  <2> QED BY <2>1, <2>2 DEF Promise!Install, RunBinary, RunAlive, Contents
<1>3. ASSUME NEW c \in Calls, StartMission(c) PROVE Promise!Launch
  <2>1. PICK r \in Runs :
          /\ phase' = [phase EXCEPT ![r] = "running"]
          /\ image' = [image EXCEPT ![r] = [bin |-> Contents(binaryPath), path |-> binaryPath]]
          /\ current' = r
    BY <1>3 DEF StartMission
  <2>2. current = None /\ UNCHANGED <<binaryPath, preload, installed>>
    BY <1>3 DEF StartMission
  <2>3. Contents(binaryPath) # None
    BY <1>3 DEF StartMission, StartableIsVerified
  <2>4. RunBinary' = Contents(binaryPath) /\ RunAlive'
    BY <2>1 DEF RunBinary, RunAlive, TypeOK
  <2> QED BY <2>2, <2>3, <2>4 DEF Promise!Launch, RunBinary, Contents
\* The process of a mission that is not in the slot cannot exit: it has.
<1>4. ASSUME NEW r \in Runs,
             LeaderExits(r) \/ KillGroup(r) \/ WaitReturns(r) \/ CloseDone(r)
      PROVE  Promise!Exit \/ UNCHANGED Promise!vars
  <2>1. UNCHANGED <<binaryPath, current, preload, installed, image>>
    BY <1>4 DEF LeaderExits, KillGroup, WaitReturns, CloseDone
  <2>2. RunBinary' = RunBinary /\ Contents(binaryPath)' = Contents(binaryPath)
    BY <2>1 DEF RunBinary, Contents
  <2>3. current = r
    BY <1>4 DEF LeaderExits, KillGroup, WaitReturns, CloseDone, SlotTracksRun
  <2>4. phase'[r] # "running"
    BY <1>4 DEF LeaderExits, KillGroup, WaitReturns, CloseDone, TypeOK
  <2>5. ~RunAlive'
    BY <2>1, <2>3, <2>4 DEF RunAlive
  <2>6. CASE RunAlive
    BY <2>2, <2>5, <2>6 DEF Promise!Exit
  <2>7. CASE ~RunAlive
    <3>1. RunAlive' = RunAlive BY <2>5, <2>7 DEF RunAlive
    <3> QED BY <2>2, <3>1 DEF Promise!vars
  <2> QED BY <2>6, <2>7
<1>5. ASSUME NEW r \in Runs, ClearRun(r) PROVE Promise!Release
  <2>1. current = r /\ current' = None
    BY <1>5 DEF ClearRun, SlotTracksRun
  <2>2. UNCHANGED <<binaryPath, preload, installed, image>> /\ phase[r] = "closed"
    BY <1>5 DEF ClearRun
  <2>3. ~RunAlive /\ ~RunAlive' /\ RunBinary' = None
    BY <2>1, <2>2 DEF RunAlive, RunBinary
  <2>4. RunBinary # None
    BY <2>1 DEF RunBinary, RunKeepsBinary
  <2>5. RunAlive' = RunAlive /\ Contents(binaryPath)' = Contents(binaryPath)
    BY <2>2, <2>3 DEF Contents, RunAlive
  <2> QED BY <2>3, <2>4, <2>5 DEF Promise!Release
<1> QED
  BY <1>1, <1>2, <1>3, <1>4, <1>5
  DEF Next, vars, Promise!Next, Accept, Upload, UploadRejected, BeginUpload, OpenTmp,
      ReceiveVerified, ReceiveFails, CommitFails, RemoveTmp, Reply, EndUpload, Start,
      StartFails, Stop, StopRead, StopCancel, StopDone, StopTimeout, Process, Fork,
      ChildrenExit, Watch, Signal, ServiceExits

\* The service implements MissionLauncher: one mission at a time, started from
\* a complete binary that is not replaced while the mission has the slot.
THEOREM Refinement == Spec => ImplementsLauncher
BY InitPromise, NextPromise, Invariance, PTL DEF Spec, ImplementsLauncher, Promise!Spec

-----------------------------------------------------------------------------
(* What the clients were told. The observer adds no behaviour, so the      *)
(* invariants above hold of MissionObserved too, and are used.             *)
Gone(r) == phase[r] \notin {"unborn", "running"}

\* What the observer noted of stops: an answered stop saw none but runs that are
\* gone, a stop in progress none but those and the one it took.
StopsNoted ==
  /\ earlier \in [Calls -> SUBSET Runs]
  /\ settled \subseteq Runs
  /\ \A r \in settled : Gone(r)
  /\ \A c \in Calls : pc[c] \notin {"cancel", "wait"} => earlier[c] = {}
  /\ \A c \in Calls : \A r \in earlier[c] : Gone(r) \/ r = target[c]

UploadsNoted == before \in [Calls -> Binaries \cup {None, Partial}] /\ UploadKeepsBinary

-----------------------------------------------------------------------------
(* A step that is observed is a step of the service.                       *)
LEMMA ObservedStep == [ObservedNext]_<<vars, observer>> => [Next]_vars
<1> SUFFICES ASSUME ObservedNext PROVE Next
  OBVIOUS
<1>1. ASSUME NEW c \in Calls, ObserveBegin(c) \/ ObserveEnd(c) PROVE Next
  BY <1>1 DEF ObserveBegin, ObserveEnd, Next, Upload
<1>2. ASSUME NEW c \in Calls, ObserveStop(c) \/ ObserveOk(c) \/ ObserveTimeout(c) PROVE Next
  BY <1>2 DEF ObserveStop, ObserveOk, ObserveTimeout, Next, Stop, Stoppers
<1>3. ASSUME NEW c \in Calls, Unnoticed(c) PROVE Next
  BY <1>3 DEF Unnoticed, Next, Upload, Stop, Stoppers
<1>4. ASSUME Background PROVE Next
  BY <1>4 DEF Background, Next, Stoppers
<1> QED BY <1>1, <1>2, <1>3, <1>4 DEF ObservedNext

LEMMA ServiceInvariance == ObservedSpec => []IInv
<1>1. ObservedInit => IInv
  BY InitIInv DEF ObservedInit
<1>2. IInv /\ [ObservedNext]_<<vars, observer>> => IInv'
  BY ObservedStep, NextIInv
<1> QED BY <1>1, <1>2, PTL DEF ObservedSpec

\* A run is born once and never comes back to life.
LEMMA GoneForGood ==
  ASSUME TypeOK, [Next]_vars, NEW r \in Runs, Gone(r)
  PROVE  Gone(r)'
<1> USE DEF Gone, TypeOK
<1>1. CASE UNCHANGED phase
  BY <1>1
<1>2. ASSUME NEW c \in Calls, StartMission(c) PROVE Gone(r)'
  BY <1>2 DEF StartMission
<1>3. ASSUME NEW q \in Runs, Process(q) \/ KillGroup(q) \/ Watch(q) PROVE Gone(r)'
  BY <1>3 DEF Process, Fork, LeaderExits, ChildrenExit, KillGroup, Watch, WaitReturns,
              CloseDone, ClearRun
<1> QED
  BY <1>1, <1>2, <1>3
  DEF Next, vars, runVars, Accept, Upload, UploadRejected, BeginUpload, OpenTmp,
      ReceiveVerified, ReceiveFails, Commit, CommitFails, RemoveTmp, Reply, EndUpload,
      Start, StartFails, Stop, StopRead, StopCancel, StopDone, StopTimeout, Signal,
      ServiceExits

\* By the slot, all runs but the one that holds it are not born or gone.
LEMMA BornIsGone ==
  ASSUME TypeOK, SlotTracksRun, NEW r \in Born
  PROVE  r \in Runs /\ (Gone(r) \/ r = current)
BY DEF Born, SlotTracksRun, Gone, TypeOK, Phases

-----------------------------------------------------------------------------
(* Stops.                                                                  *)

\* What steps that are no stop of call c leave of it.
LEMMA OthersStand ==
  ASSUME TypeOK, NEW c \in Calls, [ObservedNext]_<<vars, observer>>,
         ~(ObserveStop(c) \/ ObserveOk(c) \/ ObserveTimeout(c) \/ StopCancel(c))
  PROVE  /\ pc'[c] \in {"cancel", "wait"} <=> pc[c] \in {"cancel", "wait"}
         /\ target'[c] = target[c]
<1> USE CallAssumption DEF Stoppers, Goto, TypeOK, callVars
<1>1. CASE UNCHANGED <<vars, observer>>
  BY <1>1 DEF vars
<1>2. ASSUME NEW d \in Calls, ObserveBegin(d) \/ ObserveEnd(d)
      PROVE  /\ pc'[c] \in {"cancel", "wait"} <=> pc[c] \in {"cancel", "wait"}
             /\ target'[c] = target[c]
  BY <1>2 DEF ObserveBegin, ObserveEnd, BeginUpload, EndUpload
<1>3. ASSUME NEW d \in Calls, Unnoticed(d)
      PROVE  /\ pc'[c] \in {"cancel", "wait"} <=> pc[c] \in {"cancel", "wait"}
             /\ target'[c] = target[c]
  BY <1>3 DEF Unnoticed, Accept, Start, StartMission, StartFails, UploadRejected, OpenTmp,
              ReceiveVerified, ReceiveFails, Commit, CommitFails, RemoveTmp, Reply, StopCancel
<1>4. ASSUME NEW d \in Calls, d # c, ObserveStop(d) \/ ObserveOk(d) \/ ObserveTimeout(d)
      PROVE  /\ pc'[c] \in {"cancel", "wait"} <=> pc[c] \in {"cancel", "wait"}
             /\ target'[c] = target[c]
  BY <1>4 DEF ObserveStop, ObserveOk, ObserveTimeout, StopRead, StopDone, StopTimeout
<1>5. ASSUME Background
      PROVE  /\ pc'[c] \in {"cancel", "wait"} <=> pc[c] \in {"cancel", "wait"}
             /\ target'[c] = target[c]
  BY <1>5 DEF Background, Stop, StopRead, StopCancel, StopDone, StopTimeout, Process, Fork,
              LeaderExits, ChildrenExit, KillGroup, Watch, WaitReturns, CloseDone, ClearRun,
              Signal, ServiceExits
<1> QED BY <1>1, <1>2, <1>3, <1>4, <1>5 DEF ObservedNext

LEMMA NextStops ==
  TypeOK /\ SlotTracksRun /\ StopsNoted /\ [ObservedNext]_<<vars, observer>> => StopsNoted'
<1> SUFFICES ASSUME TypeOK, SlotTracksRun, StopsNoted, [ObservedNext]_<<vars, observer>>
             PROVE  StopsNoted'
  OBVIOUS
<1>1. \A r \in Runs : Gone(r) => Gone(r)'
  BY ObservedStep, GoneForGood
<1>2. ASSUME NEW c \in Calls, StopCancel(c), UNCHANGED observer PROVE StopsNoted'
  <2>1. /\ UNCHANGED <<target, earlier, settled>>
        /\ \A d \in Calls : pc'[d] \in {"cancel", "wait"} <=> pc[d] \in {"cancel", "wait"}
    BY <1>2 DEF StopCancel, Goto, TypeOK, Stoppers, observer
  <2> QED BY <1>1, <2>1 DEF StopsNoted
<1>3. ASSUME NEW c \in Calls, ObserveStop(c) PROVE StopsNoted'
  <2>1. /\ \A d \in Calls \ {c} : /\ pc'[d] = pc[d] /\ target'[d] = target[d]
                                  /\ earlier'[d] = earlier[d]
        /\ target'[c] = current
        /\ pc'[c] = IF current = None THEN "idle" ELSE "cancel"
    BY <1>3, CallAssumption
    DEF ObserveStop, StopRead, Goto, AfterStop, TypeOK, Stoppers, StopsNoted
  <2>2. Born \subseteq Runs /\ \A r \in Born : Gone(r) \/ r = current
    BY BornIsGone
  <2>3. earlier'[c] = IF current = None THEN {} ELSE Born
    BY <1>3, <2>1 DEF ObserveStop, StopsNoted
  <2>4. settled' = IF current = None THEN settled \cup Born ELSE settled
    BY <1>3, <2>1 DEF ObserveStop
  <2>5. earlier' \in [Calls -> SUBSET Runs]
    BY <1>3, <2>2 DEF ObserveStop, StopsNoted
  <2>6. settled' \subseteq Runs /\ \A r \in settled' : Gone(r)
    BY <2>2, <2>4, RunAssumption DEF StopsNoted
  <2>7. \A d \in Calls : \A r \in earlier'[d] : Gone(r) \/ r = target'[d]
    BY <2>1, <2>2, <2>3 DEF StopsNoted
  <2>8. \A d \in Calls : pc'[d] \notin {"cancel", "wait"} => earlier'[d] = {}
    BY <2>1, <2>3 DEF StopsNoted
  <2> QED BY <1>1, <2>5, <2>6, <2>7, <2>8 DEF StopsNoted
<1>4. ASSUME NEW c \in Calls, ObserveOk(c) \/ ObserveTimeout(c) PROVE StopsNoted'
  <2>1. /\ \A d \in Calls \ {c} : /\ pc'[d] = pc[d] /\ target'[d] = target[d]
                                  /\ earlier'[d] = earlier[d]
        /\ earlier'[c] = {} /\ earlier' \in [Calls -> SUBSET Runs]
    BY <1>4 DEF ObserveOk, ObserveTimeout, StopDone, StopTimeout, Goto, TypeOK, Stoppers,
                StopsNoted
  <2>2. settled' \subseteq settled \cup earlier[c]
    BY <1>4 DEF ObserveOk, ObserveTimeout
  <2>3. ASSUME ObserveOk(c) PROVE Gone(target[c])
    BY <2>3 DEF ObserveOk, StopDone, DoneClosed, Gone
  <2>4. settled' \subseteq Runs /\ \A r \in settled' : Gone(r)
    <3>1. CASE ObserveOk(c)
      BY <2>2, <2>3, <3>1 DEF StopsNoted
    <3>2. CASE ObserveTimeout(c)
      BY <3>2 DEF ObserveTimeout, StopsNoted
    <3> QED BY <1>4, <3>1, <3>2
  <2> QED BY <1>1, <2>1, <2>4 DEF StopsNoted
<1>5. CASE \A c \in Calls :
             ~(ObserveStop(c) \/ ObserveOk(c) \/ ObserveTimeout(c) \/ StopCancel(c))
  <2>1. \A c \in Calls : /\ pc'[c] \in {"cancel", "wait"} <=> pc[c] \in {"cancel", "wait"}
                         /\ target'[c] = target[c]
    BY <1>5, OthersStand
  <2>2. UNCHANGED <<earlier, settled>>
    BY <1>5 DEF ObservedNext, ObserveBegin, ObserveEnd, observer
  <2> QED BY <1>1, <2>1, <2>2 DEF StopsNoted
<1>6. ASSUME NEW c \in Calls, StopCancel(c) PROVE UNCHANGED observer
  <2>1. pc[c] = "cancel" /\ pc'[c] = "wait"
    BY <1>6 DEF StopCancel, Goto, TypeOK, Stoppers
  <2>2. ASSUME NEW d \in Calls,
               \/ ObserveBegin(d) \/ ObserveEnd(d)
               \/ ObserveStop(d) \/ ObserveOk(d) \/ ObserveTimeout(d)
        PROVE  FALSE
    <3>1. pc[d] \notin {"cancel"} /\ \A e \in Calls \ {d} : pc'[e] = pc[e]
      BY <2>2 DEF ObserveBegin, ObserveEnd, ObserveStop, ObserveOk, ObserveTimeout, BeginUpload,
                  EndUpload, StopRead, StopDone, StopTimeout, Goto, TypeOK, Stoppers
    <3> QED BY <2>1, <3>1
  <2> QED BY <2>2 DEF ObservedNext
<1> QED BY <1>2, <1>3, <1>4, <1>5, <1>6

\* No mission started before a StopMission that was answered OK is running, however
\* many calls, missions and time-outs interleave.
THEOREM StopsThorough == ObservedSpec => []StopIsThorough
<1>1. ObservedInit => StopsNoted
  BY DEF ObservedInit, Init, StopsNoted, Stoppers
<1>2. IInv /\ StopsNoted /\ [ObservedNext]_<<vars, observer>> => StopsNoted'
  BY NextStops DEF IInv
<1>3. StopsNoted => StopIsThorough
  BY DEF StopsNoted, StopIsThorough, Gone
<1> QED BY <1>1, <1>2, <1>3, ServiceInvariance, PTL DEF ObservedSpec

-----------------------------------------------------------------------------
(* Uploads.                                                                *)
Pending == {"open", "recv", "verified", "failed"}

\* What StartMission would run changes at a commit only, which ends the one upload.
LEMMA ContentsKept ==
  ASSUME IInv, ObservedNext, NEW c \in Calls, pc'[c] \in Pending
  PROVE  Contents(binaryPath)' = Contents(binaryPath)
<1>1. ASSUME NEW d \in Calls, Commit(d) PROVE FALSE
  <2>1. pc[d] = "verified" /\ pc'[d] = "reply" /\ \A e \in Calls \ {d} : pc'[e] = pc[e]
    BY <1>1 DEF Commit, Goto, IInv, TypeOK, Stoppers
  <2>2. c # d /\ pc[c] \in Pending
    BY <2>1 DEF Pending
  <2> QED BY <2>1, <2>2 DEF IInv, UploadsExclude, UploadPoints, Pending
<1>2. UNCHANGED <<binaryPath, installed, preload>>
  BY <1>1
  DEF ObservedNext, ObserveBegin, ObserveEnd, ObserveStop, ObserveOk, ObserveTimeout,
      Unnoticed, Background, serverVars, fileVars, Accept, UploadRejected,
      BeginUpload, OpenTmp, ReceiveVerified, ReceiveFails, CommitFails, RemoveTmp, Reply,
      EndUpload, Start, StartMission, StartFails, Stop, StopRead, StopCancel, StopDone,
      StopTimeout, Process, Fork, LeaderExits, ChildrenExit, KillGroup, Watch, WaitReturns,
      CloseDone, ClearRun, Signal, ServiceExits
<1> QED BY <1>2 DEF Contents

\* An upload is pending after a step if it was before, or has just begun.
LEMMA PendingStep ==
  ASSUME TypeOK, ObservedNext, NEW c \in Calls, pc'[c] \in Pending,
         before \in [Calls -> Binaries \cup {None, Partial}]
  PROVE  \/ pc[c] \in Pending /\ before'[c] = before[c]
         \/ before'[c] = Contents(binaryPath)
<1> USE CallAssumption DEF Pending, Goto, TypeOK, Stoppers
<1>1. ASSUME NEW d \in Calls, ObserveBegin(d)
      PROVE  \/ pc[c] \in Pending /\ before'[c] = before[c]
             \/ before'[c] = Contents(binaryPath)
  BY <1>1 DEF ObserveBegin, BeginUpload
<1>2. ASSUME NEW d \in Calls, ObserveEnd(d) PROVE pc[c] \in Pending /\ before'[c] = before[c]
  BY <1>2 DEF ObserveEnd, EndUpload
<1>3. ASSUME NEW d \in Calls, ObserveStop(d) \/ ObserveOk(d) \/ ObserveTimeout(d)
      PROVE  pc[c] \in Pending /\ before'[c] = before[c]
  BY <1>3 DEF ObserveStop, ObserveOk, ObserveTimeout, StopRead, StopDone, StopTimeout, AfterStop
<1>4. ASSUME NEW d \in Calls, Unnoticed(d) /\ UNCHANGED observer
      PROVE  pc[c] \in Pending /\ before'[c] = before[c]
  BY <1>4 DEF Unnoticed, observer, Accept, Start, StartMission, StartFails, UploadRejected,
              OpenTmp, ReceiveVerified, ReceiveFails, Commit, CommitFails, RemoveTmp, Reply,
              StopCancel
<1>5. ASSUME Background /\ UNCHANGED observer
      PROVE  pc[c] \in Pending /\ before'[c] = before[c]
  BY <1>5 DEF Background, observer, callVars, Stop, StopRead, StopCancel, StopDone,
              StopTimeout, AfterStop, Process, Fork, LeaderExits, ChildrenExit, KillGroup,
              Watch, WaitReturns, CloseDone, ClearRun, Signal, ServiceExits
<1> QED BY <1>1, <1>2, <1>3, <1>4, <1>5 DEF ObservedNext

LEMMA NextUploads == IInv /\ UploadsNoted /\ [ObservedNext]_<<vars, observer>> => UploadsNoted'
<1> SUFFICES ASSUME IInv, UploadsNoted, [ObservedNext]_<<vars, observer>> PROVE UploadsNoted'
  OBVIOUS
<1>1. CASE UNCHANGED <<vars, observer>>
  BY <1>1 DEF UploadsNoted, UploadKeepsBinary, Contents, vars, callVars, serverVars, fileVars,
              observer
<1>2. CASE ObservedNext
  <2>1. Contents(binaryPath) \in Binaries \cup {None, Partial}
    BY DEF IInv, TypeOK, Contents
  <2>2. before' \in [Calls -> Binaries \cup {None, Partial}]
    BY <1>2, <2>1 DEF UploadsNoted, ObservedNext, ObserveBegin, ObserveEnd, ObserveStop,
                      ObserveOk, ObserveTimeout, observer
  <2>3. ASSUME NEW c \in Calls, pc'[c] \in Pending
        PROVE  Contents(binaryPath)' = before'[c]
    <3>1. Contents(binaryPath)' = Contents(binaryPath)
      BY <1>2, <2>3, ContentsKept
    <3>2. pc[c] \in Pending => Contents(binaryPath) = before[c]
      BY DEF UploadsNoted, UploadKeepsBinary, Pending
    <3>3. before \in [Calls -> Binaries \cup {None, Partial}] /\ TypeOK
      BY DEF UploadsNoted, IInv
    <3> QED BY <1>2, <2>3, <3>1, <3>2, <3>3, PendingStep
  <2> QED BY <2>2, <2>3 DEF UploadsNoted, UploadKeepsBinary, Pending
<1> QED BY <1>1, <1>2

\* Whatever goes wrong with an upload, until it commits StartMission would run what
\* it would have run when the upload began.
THEOREM UploadsKeep == ObservedSpec => []UploadKeepsBinary
<1>1. ObservedInit => UploadsNoted
  BY DEF ObservedInit, Init, UploadsNoted, UploadKeepsBinary, Stoppers
<1>2. UploadsNoted => UploadKeepsBinary
  BY DEF UploadsNoted
<1> QED BY <1>1, <1>2, NextUploads, ServiceInvariance, PTL DEF ObservedSpec
=============================================================================
