------------------------------- MODULE AnafiVideo -------------------------------
(***************************************************************************)
(* The video of the Parrot Anafi driver: the capture thread and the gRPC   *)
(* streams of stream.py, and the Gabriel publisher of raw_frames.py. The   *)
(* capture thread keeps only the newest frame, in one slot under a lock,   *)
(* and owns the publisher; a stream takes the frame out of the slot. Each  *)
(* stream occupies a worker of the driver's pool until it next yields to a *)
(* client that has left.                                                   *)
(*                                                                         *)
(* A frame is its size when the publisher serializes it, and nothing when  *)
(* a stream encodes it. Frame rates, pixels and telemetry fields are left  *)
(* out. The camera, OpenCV, Gabriel and gRPC are external.                 *)
(***************************************************************************)
EXTENDS Naturals

CONSTANTS
  Streams,         \* workers of the gRPC pool that serve a stream
  MaxFailedReads,  \* MAX_FAILED_READS
  Sizes,           \* sizes of serialized frames
  Headroom,        \* RAW_FRAME_HEADROOM
  None             \* no producer

ASSUME VideoAssumption ==
  /\ MaxFailedReads \in Nat \ {0}
  /\ Sizes \subseteq Nat \ {0}
  /\ Headroom \in Nat
  /\ None \notin Nat

VARIABLES
  camera,    \* whether the drone serves its video stream
  live,      \* whether the open capture gives frames
  raw,       \* a publisher was configured
  grab,      \* where the capture thread stands; "none" before it is started
  failed,    \* failed_reads
  size,      \* the frame in the capture thread's hands, 0 when there is none
  fresh,     \* _latest_frame is not None
  producer,  \* RawFramePublisher._producer: the limit it was made with
  limit,     \* RawFramePublisher._max_input_size
  open,      \* Gabriel: producers that are open
  pc,        \* where each stream stands
  kind,      \* what it streams
  gone,      \* its client has left
  taken      \* observer: a stream was handed the newest frame

capture == <<live, failed, size>>
publisher == <<producer, limit, open>>
clients == <<pc, kind, gone>>
vars == <<camera, capture, raw, grab, fresh, publisher, clients, taken>>

\* from_environment: eagled says whether raw frames are published.
FromEnvironment == raw \in BOOLEAN

\* The producer is made for the first frame, which is larger than 0.
PublisherInit == producer = None /\ limit = 0 /\ open = 0

Init ==
  /\ camera \in {"up", "down"} /\ live = FALSE
  /\ FromEnvironment
  /\ grab = IF raw THEN "open" ELSE "none"
  /\ failed = 0 /\ size = 0 /\ fresh = FALSE
  /\ PublisherInit
  /\ pc = [s \in Streams |-> "idle"]
  /\ kind = [s \in Streams |-> "telemetry"]
  /\ gone = [s \in Streams |-> FALSE]
  /\ taken = FALSE

-----------------------------------------------------------------------------
(* The drone's video server. A capture that has lost it stays silent.      *)
CameraChanges ==
  /\ \/ camera = "up" /\ camera' = "down" /\ live' = FALSE
     \/ camera = "down" /\ camera' = "up" /\ UNCHANGED live
  /\ UNCHANGED <<raw, grab, failed, size, fresh, publisher, clients, taken>>

(* The capture thread.                                                     *)
Open ==
  /\ grab = "open"
  /\ camera = "up"
  /\ grab' = "read"
  /\ live' = TRUE
  /\ failed' = 0
  /\ UNCHANGED <<camera, raw, size, fresh, publisher, clients, taken>>

\* The capture is released and opened again after a delay.
OpenFails ==
  /\ grab = "open"
  /\ grab' = "release"
  /\ UNCHANGED <<camera, capture, raw, fresh, publisher, clients, taken>>

\* Faulty: a failed read is not counted.
ReadFails_Uncounted ==
  /\ grab = "read"
  /\ UNCHANGED failed
  /\ grab' = IF failed' = MaxFailedReads THEN "release" ELSE "read"
  /\ UNCHANGED <<camera, live, raw, size, fresh, publisher, clients, taken>>

ReadFails ==
  /\ grab = "read"
  /\ failed' = failed + 1
  /\ grab' = IF failed' = MaxFailedReads THEN "release" ELSE "read"
  /\ UNCHANGED <<camera, live, raw, size, fresh, publisher, clients, taken>>

Release ==
  /\ grab = "release"
  /\ grab' = "open"
  /\ live' = FALSE
  /\ failed' = 0
  /\ UNCHANGED <<camera, raw, size, fresh, publisher, clients, taken>>

NewFrame ==
  /\ grab = "read"
  /\ live
  /\ failed' = 0
  /\ fresh' = TRUE
  /\ taken' = FALSE
  /\ IF raw THEN grab' = "pose" /\ size' \in Sizes ELSE UNCHANGED <<grab, size>>
  /\ UNCHANGED <<camera, live, raw, publisher, clients>>

\* OpenCV raises: the thread ends, closes the producer, which is taken to succeed,
\* and is not replaced.
Die ==
  /\ grab \in {"open", "read"}
  /\ grab' = "dead"
  /\ producer' = None
  /\ open' = IF producer = None THEN open ELSE open - 1
  /\ UNCHANGED <<camera, capture, raw, fresh, limit, clients, taken>>

-----------------------------------------------------------------------------
(* RawFramePublisher.publish, on the capture thread. Whatever it raises    *)
(* costs the frame and no more.                                            *)
Drop == grab' = "read" /\ size' = 0

Pose ==
  /\ grab = "pose"
  /\ grab' = IF size > limit THEN "resize" ELSE "send"
  /\ UNCHANGED <<camera, capture, raw, fresh, publisher, clients, taken>>

\* A state the drone has not reported yet, or a setpoint cleared between the test
\* and the packing of get_position_info.
PoseFails ==
  /\ grab = "pose"
  /\ Drop
  /\ UNCHANGED <<camera, live, failed, raw, fresh, publisher, clients, taken>>

\* Faulty: the smaller producer is left open.
Resize_Leaks ==
  /\ grab = "resize"
  /\ producer' = None
  /\ UNCHANGED open
  /\ limit' = size + Headroom
  /\ grab' = "create"
  /\ UNCHANGED <<camera, capture, raw, fresh, clients, taken>>

Resize ==
  /\ grab = "resize"
  /\ producer' = None
  /\ open' = IF producer = None THEN open ELSE open - 1
  /\ limit' = size + Headroom
  /\ grab' = "create"
  /\ UNCHANGED <<camera, capture, raw, fresh, clients, taken>>

\* The close of the smaller producer raises: it stays, and so does the limit.
ResizeFails ==
  /\ grab = "resize"
  /\ producer # None
  /\ Drop
  /\ UNCHANGED <<camera, live, failed, raw, fresh, publisher, clients, taken>>

\* Faulty: the producer is made for inputs of the usual size.
Create_Fixed ==
  /\ grab = "create"
  /\ producer' = Headroom
  /\ open' = open + 1
  /\ grab' = "send"
  /\ UNCHANGED <<camera, capture, raw, fresh, limit, clients, taken>>

Create ==
  /\ grab = "create"
  /\ producer' = limit
  /\ open' = open + 1
  /\ grab' = "send"
  /\ UNCHANGED <<camera, capture, raw, fresh, limit, clients, taken>>

\* The raised limit stays: only a frame beyond it is another attempt.
CreateFails ==
  /\ grab = "create"
  /\ Drop
  /\ UNCHANGED <<camera, live, failed, raw, fresh, publisher, clients, taken>>

\* Sent, dropped for want of a buffer, or refused for want of a producer.
Send ==
  /\ grab = "send"
  /\ Drop
  /\ UNCHANGED <<camera, live, failed, raw, fresh, publisher, clients, taken>>

-----------------------------------------------------------------------------
(* The streams.                                                            *)
Goto(s, point) == pc' = [pc EXCEPT ![s] = point]

Start(k) == IF k = "video" THEN "look" ELSE "encode"

\* A video stream starts the capture, once: the check and the start share a lock.
Call(s) ==
  /\ pc[s] = "idle"
  /\ \E k \in {"video", "telemetry"} :
       /\ kind' = [kind EXCEPT ![s] = k]
       /\ grab' = IF k = "video" /\ grab = "none" THEN "open" ELSE grab
       /\ Goto(s, Start(k))
  /\ gone' = [gone EXCEPT ![s] = FALSE]
  /\ UNCHANGED <<camera, capture, raw, fresh, publisher, taken>>

\* Faulty: the newest frame stays in its slot.
Look_Keeps(s) ==
  /\ pc[s] = "look"
  /\ fresh
  /\ taken' = TRUE
  /\ Goto(s, "encode")
  /\ UNCHANGED <<camera, capture, raw, grab, fresh, publisher, kind, gone>>

\* _read_latest_frame; without a frame the stream sleeps and looks again.
Look(s) ==
  /\ pc[s] = "look"
  /\ fresh
  /\ fresh' = FALSE
  /\ taken' = TRUE
  /\ Goto(s, "encode")
  /\ UNCHANGED <<camera, capture, raw, grab, publisher, kind, gone>>

Encode(s) ==
  /\ pc[s] = "encode"
  /\ Goto(s, "yield")
  /\ UNCHANGED <<camera, capture, raw, grab, fresh, publisher, kind, gone, taken>>

EncodeFails(s) ==
  /\ pc[s] = "encode"
  /\ Goto(s, Start(kind[s]))
  /\ UNCHANGED <<camera, capture, raw, grab, fresh, publisher, kind, gone, taken>>

\* gRPC asks for the next message only if the client is still there.
Yield(s) ==
  /\ pc[s] = "yield"
  /\ Goto(s, IF gone[s] THEN "idle" ELSE Start(kind[s]))
  /\ gone' = [gone EXCEPT ![s] = FALSE]
  /\ UNCHANGED <<camera, capture, raw, grab, fresh, publisher, kind, taken>>

ClientLeaves(s) ==
  /\ pc[s] # "idle"
  /\ gone' = [gone EXCEPT ![s] = TRUE]
  /\ UNCHANGED <<camera, capture, raw, grab, fresh, publisher, pc, kind, taken>>

-----------------------------------------------------------------------------
Grab ==
  \/ Open \/ OpenFails \/ ReadFails \/ Release \/ NewFrame
  \/ Pose \/ PoseFails \/ Resize \/ ResizeFails \/ Create \/ CreateFails \/ Send

Serve(s) == Look(s) \/ Encode(s) \/ EncodeFails(s) \/ Yield(s)

Next ==
  \/ CameraChanges \/ Grab \/ Die
  \/ \E s \in Streams : Call(s) \/ Serve(s) \/ ClientLeaves(s)

Spec == Init /\ [][Next]_vars

\* Threads are scheduled, and what can succeed does not fail for ever.
FairSpec ==
  /\ Spec
  /\ WF_vars(Grab) /\ SF_vars(Open) /\ SF_vars(NewFrame)
  /\ \A s \in Streams : WF_vars(Serve(s)) /\ SF_vars(Encode(s))

-----------------------------------------------------------------------------
\* The variables are in range, the thread holds a frame exactly while it
\* publishes, and a stream that needs frames has started the capture.
TypeOK ==
  /\ camera \in {"up", "down"} /\ live \in BOOLEAN /\ raw \in BOOLEAN
  /\ grab \in {"none", "open", "read", "release", "pose", "resize", "create", "send", "dead"}
  /\ failed \in 0..MaxFailedReads
  /\ size \in Sizes \cup {0}
  /\ size # 0 <=> grab \in {"pose", "resize", "create", "send"}
  /\ fresh \in BOOLEAN /\ taken \in BOOLEAN
  /\ limit \in Nat /\ producer \in Nat \cup {None} /\ open \in Nat
  /\ pc \in [Streams -> {"idle", "look", "encode", "yield"}]
  /\ kind \in [Streams -> {"video", "telemetry"}]
  /\ gone \in [Streams -> BOOLEAN]
  /\ \A s \in Streams : pc[s] = "look" => kind[s] = "video"
  /\ grab = "none" => ~raw /\ ~fresh /\ \A s \in Streams : pc[s] = "idle" \/ kind[s] = "telemetry"

\* "Large enough for it" (raw_frames.py:33): a frame that is sent fits into the
\* producer, if there is one, however the sizes of the frames changed.
ProducerFits == grab = "send" /\ producer # None => size =< producer

\* At most one producer is open, the one the publisher knows, and none once the
\* capture thread has ended (raw_frames.py:87, stream.py:108).
OneProducer ==
  /\ open = IF producer = None THEN 0 ELSE 1
  /\ grab = "dead" => producer = None

\* Two streams never get the same frame: one takes it from the other.
HandedOnce == [][\A s \in Streams : Look(s) => ~taken]_vars

\* Once the drone serves its stream for good, frames come again after any failure:
\* the publisher gets them, and some stream yields while one waits.
FramesFlow ==
  <>[](camera = "up" /\ grab # "dead") =>
    /\ raw => []<>(grab = "pose")
    /\ \A s \in Streams : pc[s] = "look" ~> \E t \in Streams : pc[t] = "yield"

\* A worker whose client has left is free again, as long as the camera gives
\* frames that no other video stream takes: with neither, it loops for good.
Undisturbed(s) ==
  /\ camera = "up" /\ grab # "dead"
  /\ \A t \in Streams \ {s} : pc[t] = "idle" \/ kind[t] = "telemetry"

WorkerFreed ==
  \A s \in Streams : <>[]Undisturbed(s) => (gone[s] ~> pc[s] = "idle")
=============================================================================
