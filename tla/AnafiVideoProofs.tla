---------------------------- MODULE AnafiVideoProofs ----------------------------
(***************************************************************************)
(* Proofs about AnafiVideo, for any number of streams, any sizes of frames *)
(* and any number of failed reads the capture tolerates.                   *)
(***************************************************************************)
EXTENDS AnafiVideo, TLAPS

USE VideoAssumption

\* The typing of the capture thread and of the streams, each apart.
ThreadType ==
  /\ camera \in {"up", "down"} /\ live \in BOOLEAN /\ raw \in BOOLEAN
  /\ grab \in {"none", "open", "read", "release", "pose", "resize", "create", "send", "dead"}
  /\ fresh \in BOOLEAN /\ taken \in BOOLEAN
  /\ pc \in [Streams -> {"idle", "look", "encode", "yield"}]
  /\ kind \in [Streams -> {"video", "telemetry"}]
  /\ gone \in [Streams -> BOOLEAN]
  /\ \A s \in Streams : pc[s] = "look" => kind[s] = "video"
  /\ grab = "none" => ~raw /\ ~fresh /\ \A s \in Streams : pc[s] = "idle" \/ kind[s] = "telemetry"

\* The counters, and what the publisher knows of its producer.
Numbers ==
  /\ failed \in 0..MaxFailedReads
  /\ grab \in {"read", "pose", "resize", "create", "send"} => failed < MaxFailedReads
  /\ size \in Sizes \cup {0}
  /\ size # 0 <=> grab \in {"pose", "resize", "create", "send"}
  /\ limit \in Nat /\ producer \in Nat \cup {None} /\ open \in Nat
  /\ open = IF producer = None THEN 0 ELSE 1
  /\ producer # None => producer = limit
  /\ grab = "create" => producer = None
  /\ grab = "dead" => producer = None
  /\ grab \in {"send", "create"} => size =< limit

\* A frame in the slot was handed to no stream.
SlotUntaken == fresh => ~taken

-----------------------------------------------------------------------------
\* The capture thread goes from step to step, and no stream looks for frames
\* before it was started.
LEMMA ThreadTyped == Spec => []ThreadType
<1>1. Init => ThreadType
  BY Zenon DEF Init, FromEnvironment, PublisherInit, ThreadType
<1>2. ThreadType /\ [Next]_vars => ThreadType'
  <2> SUFFICES ASSUME ThreadType, [Next]_vars PROVE ThreadType'
    OBVIOUS
  <2> USE DEF ThreadType, capture, publisher, clients
  <2>1. CASE CameraChanges
    BY <2>1 DEF CameraChanges
  <2>2. CASE Open \/ OpenFails \/ Release
    BY <2>2 DEF Open, OpenFails, Release
  <2>3. CASE ReadFails
    BY <2>3 DEF ReadFails
  <2>4. CASE NewFrame
    BY <2>4 DEF NewFrame
  <2>5. CASE Die
    BY <2>5 DEF Die
  <2>6. CASE Pose \/ PoseFails \/ Resize \/ ResizeFails \/ Create \/ CreateFails \/ Send
    BY <2>6 DEF Pose, PoseFails, Resize, ResizeFails, Create, CreateFails, Send, Drop
  <2>7. ASSUME NEW s \in Streams, Call(s) PROVE ThreadType'
    <3>1. PICK k \in {"video", "telemetry"} :
            /\ kind' = [kind EXCEPT ![s] = k]
            /\ grab' = IF k = "video" /\ grab = "none" THEN "open" ELSE grab
            /\ pc' = [pc EXCEPT ![s] = IF k = "video" THEN "look" ELSE "encode"]
      BY <2>7 DEF Call, Goto, Start
    <3>2. gone' \in [Streams -> BOOLEAN]
      BY <2>7 DEF Call
    <3>3. UNCHANGED <<camera, live, raw, fresh, taken>>
      BY <2>7 DEF Call
    <3>4. kind' \in [Streams -> {"video", "telemetry"}]
      BY <3>1
    <3>5. pc' \in [Streams -> {"idle", "look", "encode", "yield"}]
      BY <3>1
    <3>6. \A t \in Streams : pc'[t] = "look" => kind'[t] = "video"
      BY <3>1
    <3>7. grab' = "none" => ~raw /\ ~fresh /\ \A t \in Streams : pc'[t] = "idle" \/ kind'[t] = "telemetry"
      BY <3>1
    <3> QED BY <3>1, <3>2, <3>3, <3>4, <3>5, <3>6, <3>7
  <2>8. ASSUME NEW s \in Streams, Look(s) \/ Encode(s) PROVE ThreadType'
    <3>1. /\ pc' \in [Streams -> {"idle", "look", "encode", "yield"}]
          /\ \A t \in Streams : pc'[t] = "look" => pc[t] = "look"
          /\ \A t \in Streams : pc[t] = "idle" => pc'[t] = "idle"
      BY <2>8 DEF Look, Encode, Goto
    <3>2. UNCHANGED <<camera, live, raw, grab, kind, gone>>
      BY <2>8 DEF Look, Encode
    <3>3. CASE Look(s)
      BY <3>1, <3>2, <3>3 DEF Look
    <3>4. CASE Encode(s)
      BY <3>1, <3>2, <3>4 DEF Encode
    <3> QED BY <2>8, <3>3, <3>4
  <2>9. ASSUME NEW s \in Streams, EncodeFails(s) PROVE ThreadType'
    <3>1. /\ pc[s] = "encode" /\ Start(kind[s]) \in {"look", "encode"}
          /\ Start(kind[s]) = "look" => kind[s] = "video"
          /\ pc' = [pc EXCEPT ![s] = Start(kind[s])]
      BY <2>9 DEF EncodeFails, Goto, Start
    <3>2. UNCHANGED <<camera, live, raw, grab, fresh, kind, gone, taken>>
      BY <2>9 DEF EncodeFails
    <3> QED BY <3>1, <3>2
  <2>10. ASSUME NEW s \in Streams, Yield(s) PROVE ThreadType'
    BY <2>10 DEF Yield, Goto, Start
  <2>11. ASSUME NEW s \in Streams, ClientLeaves(s) PROVE ThreadType'
    BY <2>11 DEF ClientLeaves
  <2>12. CASE UNCHANGED vars
    BY <2>12 DEF vars
  <2> QED
    BY <2>1, <2>2, <2>3, <2>4, <2>5, <2>6, <2>7, <2>8, <2>9, <2>10, <2>11, <2>12
       DEF Next, Grab, Serve
<1> QED
  BY <1>1, <1>2, PTL DEF Spec

-----------------------------------------------------------------------------
\* The publisher raises its limit before it makes the producer, so the limit is
\* that of the producer whenever there is one.
LEMMA NumbersHold == Spec => []Numbers
<1>1. Init => Numbers
  BY DEF Init, FromEnvironment, PublisherInit, Numbers
<1>2. Numbers /\ [Next]_vars => Numbers'
  <2> SUFFICES ASSUME Numbers, [Next]_vars PROVE Numbers'
    OBVIOUS
  <2> USE DEF Numbers, capture, publisher, clients
  <2>1. CASE CameraChanges
    BY <2>1 DEF CameraChanges
  <2>2. CASE Open \/ OpenFails \/ Release
    BY <2>2 DEF Open, OpenFails, Release
  <2>3. CASE ReadFails
    BY <2>3 DEF ReadFails
  <2>4. CASE NewFrame
    BY <2>4 DEF NewFrame
  <2>5. CASE Die
    BY <2>5 DEF Die
  <2>6. CASE Pose \/ PoseFails \/ ResizeFails \/ CreateFails \/ Send
    <3>1. CASE Pose
      BY <3>1 DEF Pose
    <3>2. CASE PoseFails \/ ResizeFails \/ CreateFails \/ Send
      BY <3>2 DEF PoseFails, ResizeFails, CreateFails, Send, Drop
    <3> QED BY <2>6, <3>1, <3>2
  <2>7. CASE Resize
    BY <2>7 DEF Resize
  <2>8. CASE Create
    BY <2>8 DEF Create
  <2>9. ASSUME NEW s \in Streams, Call(s) PROVE Numbers'
    <3>1. UNCHANGED <<failed, size, producer, limit, open>>
      BY <2>9 DEF Call
    <3>2. PICK k \in {"video", "telemetry"} :
            grab' = IF k = "video" /\ grab = "none" THEN "open" ELSE grab
      BY <2>9 DEF Call
    <3> QED BY <3>1, <3>2
  <2>10. ASSUME NEW s \in Streams, Serve(s) \/ ClientLeaves(s) PROVE Numbers'
    BY <2>10 DEF Serve, Look, Encode, EncodeFails, Yield, ClientLeaves
  <2>11. CASE UNCHANGED vars
    BY <2>11 DEF vars
  <2> QED
    BY <2>1, <2>2, <2>3, <2>4, <2>5, <2>6, <2>7, <2>8, <2>9, <2>10, <2>11 DEF Next, Grab
<1> QED
  BY <1>1, <1>2, PTL DEF Spec

\* The variables stay in range, the capture thread holds a frame exactly while it
\* publishes, and no stream waits for a capture nobody started.
THEOREM TypeCorrect == Spec => []TypeOK
<1>1. ThreadType /\ Numbers => TypeOK
  BY DEF ThreadType, Numbers, TypeOK
<1> QED
  BY <1>1, ThreadTyped, NumbersHold, PTL

\* A frame that is sent fits the producer, for frames of any sizes in any order.
THEOREM FramesFit == Spec => []ProducerFits
<1>1. Numbers => ProducerFits
  BY DEF Numbers, ProducerFits
<1> QED
  BY <1>1, NumbersHold, PTL

\* However often the producer is replaced or cannot be made, at most one is open,
\* and none once the capture thread has ended.
THEOREM ProducerIsOne == Spec => []OneProducer
<1>1. Numbers => OneProducer
  BY DEF Numbers, OneProducer
<1> QED
  BY <1>1, NumbersHold, PTL

-----------------------------------------------------------------------------
LEMMA UntakenSlot == Spec => []SlotUntaken
<1>1. Init => SlotUntaken
  BY DEF Init, SlotUntaken
<1>2. SlotUntaken /\ [Next]_vars => SlotUntaken'
  BY DEF SlotUntaken, Next, vars, CameraChanges, Grab, Open, OpenFails, ReadFails, Release,
         NewFrame, Die, Pose, PoseFails, Resize, ResizeFails, Create, CreateFails, Send,
         Call, Serve, Look, Encode, EncodeFails, Yield, ClientLeaves
<1> QED
  BY <1>1, <1>2, PTL DEF Spec

\* No frame reaches two streams, for any number of them.
THEOREM FramesHandedOnce == Spec => HandedOnce
<1>1. SlotUntaken => [\A s \in Streams : Look(s) => ~taken]_vars
  BY DEF SlotUntaken, Look
<1> QED
  BY <1>1, UntakenSlot, PTL DEF HandedOnce
=============================================================================
