-------------------------- MODULE MissionUploadProofs --------------------------
(***************************************************************************)
(* Proofs about MissionUpload, for every size limit, prefix length, set of *)
(* chunk sizes and architecture.                                           *)
(***************************************************************************)
EXTENDS MissionUpload, TLAPS

\* What relates the counters while the stream is read.
Counters ==
  /\ stage = "header" => onDisk = 0 /\ received = 0 /\ prefix = 0
  /\ stage \in {"stream", "accepted"} => onDisk = received /\ ValidHeader(header)
  /\ stage = "stream" => received <= header.size
  /\ onDisk > 0 => ValidHeader(header) /\ onDisk <= header.size
  /\ prefix = Checked => BuiltForHost /\ received >= PrefixLen
  /\ prefix # Checked => onDisk <= prefix
  /\ stage = "stream" /\ prefix # Checked => prefix = received

IInv == TypeOK /\ Counters /\ AcceptedIsWhole

-----------------------------------------------------------------------------
\* Reading the machine field undoes writing it, in either byte order.
LEMMA MachineRoundTrip ==
  \A e \in ElfFiles : Uint16(e.order, MachineBytes(e)) = e.machine
BY DEF ElfFiles, Machines, X86, ARM, Uint16, MachineBytes

\* The byte-level check is the check it is meant to be.
LEMMA CheckIsBuilt ==
  ASSUME elf \in ElfFiles, NEW len \in Nat
  PROVE  CheckELF(len, elf) <=> len >= PrefixLen /\ BuiltForHost
BY MachineRoundTrip DEF CheckELF, BuiltForHost

LEMMA InitIInv == Init => IInv
<1> SUFFICES ASSUME Init PROVE IInv
  OBVIOUS
<1>1. TypeOK
  BY SizeAssumption DEF Checked, Init, TypeOK
<1>2. Counters /\ AcceptedIsWhole
  BY <1>1, SizeAssumption DEF Checked, Init, Counters, AcceptedIsWhole
<1> QED BY <1>1, <1>2 DEF IInv

LEMMA NextType == IInv /\ [Next]_vars => TypeOK'
<1> SUFFICES ASSUME IInv, [Next]_vars PROVE TypeOK'
  OBVIOUS
<1> USE SizeAssumption, ChunkAssumption DEF Checked, IInv, TypeOK, Reject
<1>1. CASE UNCHANGED vars
  BY <1>1 DEF vars
<1>2. CASE FirstHeader \/ NoHeader \/ StreamFails \/ EndOfStream
  BY <1>2 DEF FirstHeader, NoHeader, StreamFails, EndOfStream
<1>3. ASSUME NEW len \in ChunkSizes, Chunk(len) \/ WriteFails(len) PROVE TypeOK'
  BY <1>3 DEF Chunk, WriteFails, Take, PrefixComplete
<1>4. ASSUME NEW len \in ChunkSizes, ChunkRefused(len) PROVE TypeOK'
  BY <1>4 DEF ChunkRefused
<1> QED BY <1>1, <1>2, <1>3, <1>4 DEF Next

LEMMA NextCounters == IInv /\ [Next]_vars => Counters'
<1> SUFFICES ASSUME IInv, [Next]_vars PROVE Counters'
  OBVIOUS
<1> USE SizeAssumption, ChunkAssumption DEF Checked, IInv, TypeOK, Counters, Reject
<1>1. CASE UNCHANGED vars
  BY <1>1 DEF vars, ValidHeader, BuiltForHost
<1>2. CASE FirstHeader \/ NoHeader
  <2>1. stage = "header" /\ UNCHANGED <<header, elf, received, prefix, content, onDisk>>
    BY <1>2 DEF FirstHeader, NoHeader
  <2>2. stage' = "rejected" \/ (stage' = "stream" /\ ValidHeader(header))
    BY <1>2 DEF FirstHeader, NoHeader
  <2>3. ValidHeader(header)' <=> ValidHeader(header)
    BY <2>1 DEF ValidHeader
  <2>4. header.size \in Nat
    BY DEF Headers
  <2> QED BY <2>1, <2>2, <2>3, <2>4
<1>3. CASE StreamFails \/ EndOfStream
  <2>1. stage = "stream" /\ stage' \in {"accepted", "rejected"}
    BY <1>3 DEF StreamFails, EndOfStream
  <2>2. UNCHANGED <<header, elf, received, prefix, onDisk>>
    BY <1>3 DEF StreamFails, EndOfStream
  <2> QED BY <2>1, <2>2 DEF ValidHeader, BuiltForHost
<1>4. ASSUME NEW len \in ChunkSizes, Chunk(len) \/ WriteFails(len) PROVE Counters'
  <2>1. header.size \in Nat /\ len \in Nat /\ prefix \in Nat \cup {Checked}
    BY DEF Headers
  <2>2. PrefixComplete(len) => BuiltForHost
    BY <1>4, <2>1, CheckIsBuilt DEF Chunk, WriteFails, Passes
  <2>3. stage = "stream" /\ onDisk = received /\ ValidHeader(header)
    BY <1>4 DEF Chunk, WriteFails
  <2>4. received' = received + len /\ received' <= header.size
    BY <1>4 DEF Chunk, WriteFails, Passes, Take
  <2>5. onDisk' <= received' /\ (stage' = "stream" => onDisk' = received') /\ onDisk' \in Nat
    BY <1>4, <2>1, <2>3, <2>4 DEF Chunk, WriteFails
  <2>6. stage' \in {"stream", "rejected"} /\ header' = header /\ elf' = elf
    BY <1>4, <2>3 DEF Chunk, WriteFails
  <2>7. prefix' = IF prefix = Checked \/ PrefixComplete(len) THEN Checked ELSE prefix + len
    BY <1>4 DEF Chunk, WriteFails, Take
  <2>8. prefix' = Checked => BuiltForHost' /\ received' >= PrefixLen
    BY <2>1, <2>2, <2>3, <2>4, <2>6, <2>7 DEF BuiltForHost, PrefixComplete
  <2>9. prefix' # Checked => prefix' = received'
    BY <2>1, <2>3, <2>4, <2>7
  <2> QED BY <2>1, <2>3, <2>4, <2>5, <2>6, <2>8, <2>9 DEF ValidHeader
<1>5. ASSUME NEW len \in ChunkSizes, ChunkRefused(len) PROVE Counters'
  BY <1>5 DEF ChunkRefused, ValidHeader, BuiltForHost
<1> QED BY <1>1, <1>2, <1>3, <1>4, <1>5 DEF Next

LEMMA NextAccepted == IInv /\ [Next]_vars => AcceptedIsWhole'
<1> SUFFICES ASSUME IInv, [Next]_vars, stage' = "accepted" PROVE AcceptedIsWhole'
  BY DEF AcceptedIsWhole
<1> USE DEF IInv, Reject
<1>1. CASE UNCHANGED vars
  BY <1>1 DEF vars, AcceptedIsWhole, BuiltForHost
<1>2. CASE EndOfStream
  <2>1. UNCHANGED <<header, elf, received, prefix, content, onDisk>>
    BY <1>2 DEF EndOfStream
  <2>2. received = header.size /\ content = "intact" /\ header.digest = received /\ onDisk = received
    BY <1>2 DEF EndOfStream, HashMatches, Counters
  <2>3. prefix = Checked \/ CheckELF(prefix, elf)
    BY <1>2 DEF EndOfStream
  <2>4. BuiltForHost /\ received >= PrefixLen
    BY <1>2, <2>3, CheckIsBuilt, SizeAssumption DEF Checked, EndOfStream, Counters, TypeOK
  <2>5. header.size <= MaxSize /\ header.size \in Nat
    BY <1>2, SizeAssumption DEF Checked, EndOfStream, Counters, ValidHeader, TypeOK, Headers
  <2> QED
    BY <2>1, <2>2, <2>4, <2>5, SizeAssumption DEF Checked, AcceptedIsWhole, BuiltForHost
<1>3. ~(FirstHeader \/ NoHeader \/ StreamFails)
  BY DEF FirstHeader, NoHeader, StreamFails
<1>4. \A len \in ChunkSizes : ~(Chunk(len) \/ ChunkRefused(len) \/ WriteFails(len))
  BY DEF Chunk, ChunkRefused, WriteFails
<1> QED BY <1>1, <1>2, <1>3, <1>4 DEF Next

\* The inductive invariant: however the stream is cut and wherever it breaks, the
\* counters of receiveUpload (server.go:157-214) stay related to the disk.
THEOREM Invariance == Spec => []IInv
<1>1. IInv /\ [Next]_vars => IInv'
  BY NextType, NextCounters, NextAccepted DEF IInv
<1> QED BY <1>1, InitIInv, PTL DEF Spec

\* Every upload stays well typed: less than an ELF prefix is kept in memory, and
\* the counters of server.go:165-185 never turn negative.
THEOREM TypeCorrect == Spec => []TypeOK
<1>1. IInv => TypeOK BY DEF IInv
<1> QED BY <1>1, Invariance, PTL

\* What is accepted is on disk whole, as it was hashed, and runs on the vehicle.
THEOREM AcceptedUploads == Spec => []AcceptedIsWhole
<1>1. IInv => AcceptedIsWhole BY DEF IInv
<1> QED BY <1>1, Invariance, PTL

\* No chunking writes more than the header declared, nor more than the limit, nor
\* as many bytes of a wrong binary as the ELF check needs.
THEOREM WritesChecked == Spec => []CheckedFirst
<1>1. IInv => CheckedFirst
  <2> SUFFICES ASSUME IInv PROVE CheckedFirst
    OBVIOUS
  <2>1. onDisk > 0 => onDisk <= header.size /\ header.size <= MaxSize
    BY DEF IInv, Counters, ValidHeader
  <2>2. onDisk >= PrefixLen => prefix = Checked
    BY SizeAssumption DEF Checked, IInv, TypeOK, Counters
  <2> QED BY <2>1, <2>2 DEF IInv, Counters, CheckedFirst
<1> QED BY <1>1, Invariance, PTL

=============================================================================
