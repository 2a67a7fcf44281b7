----------------------------- MODULE MissionUpload -----------------------------
(***************************************************************************)
(* One upload stream of the mission service: the first message and its     *)
(* header (UploadMission, validateHeader), then the chunks (receiveBinary) *)
(* and the ELF check (elfcheck.go). MissionService takes the outcome of    *)
(* this module as one step, ReceiveVerified or ReceiveFails.               *)
(*                                                                         *)
(* Bytes are counted, not kept. Of the content, only what the checks look  *)
(* at is modelled: the fields of the ELF header, and whether what arrived  *)
(* is what the client hashed.                                              *)
(***************************************************************************)
EXTENDS Integers

CONSTANTS
  MaxSize,     \* maxMissionSize
  PrefixLen,   \* elfPrefixLen
  ChunkSizes,  \* the sizes a chunk can have, 0 included
  Arch         \* runtime.GOARCH of the vehicle

ASSUME SizeAssumption  == MaxSize \in Nat /\ PrefixLen \in Nat \ {0}
ASSUME ChunkAssumption == ChunkSizes \subseteq Nat

VARIABLES
  stage,     \* "header", "stream", then "accepted" or "rejected"
  header,    \* the MissionHeader of the first message
  elf,       \* what the first PrefixLen bytes of the content say
  received,  \* bytes received
  prefix,    \* len(prefix), or Checked: `checked, prefix = true, nil`
  content,   \* "intact", or "changed" on the way
  onDisk     \* bytes in the temp file

vars == <<stage, header, elf, received, prefix, content, onDisk>>

\* The ELF check has passed.
Checked == -1

\* EM_X86_64 and EM_AARCH64, a machine the map does not know, and those two with
\* their bytes swapped.
X86 == 62
ARM == 183
Machines == {X86, ARM, 8, 256 * X86, 256 * ARM}

\* goarchMachines: partial, hosts without an entry skip the machine check.
GoarchMachines == [amd64 |-> X86, arm64 |-> ARM]

\* digest: how many bytes the hashed content has; a hash determines them.
\* hashLen: whether the sha256 field has the length of a SHA-256.
Headers == [size : 0..(MaxSize + 1), digest : 0..(MaxSize + 1), hashLen : BOOLEAN,
            arch : {"amd64", "arm64", Arch}]

Orders   == {"lsb", "msb", "unknown"}
ElfFiles == [magic : BOOLEAN, order : Orders, machine : Machines]

\* The two e_machine bytes as the toolchain wrote them, and as Uint16 reads them.
MachineBytes(e) == IF e.order = "msb" THEN <<e.machine \div 256, e.machine % 256>>
                                      ELSE <<e.machine % 256, e.machine \div 256>>
Uint16(order, b) == IF order = "msb" THEN 256 * b[1] + b[2] ELSE b[1] + 256 * b[2]

CheckELF(len, e) ==
  /\ len >= PrefixLen
  /\ e.magic
  /\ e.order # "unknown"
  /\ Arch \in DOMAIN GoarchMachines =>
       Uint16(e.order, MachineBytes(e)) = GoarchMachines[Arch]

ValidHeader(h) ==
  /\ h.size # 0
  /\ h.size <= MaxSize
  /\ h.hashLen
  /\ h.arch = Arch

Reject == stage' = "rejected"

Init ==
  /\ stage = "header"
  /\ header \in Headers
  /\ elf \in ElfFiles
  /\ received = 0 /\ prefix = 0 /\ onDisk = 0
  /\ content = "intact"

-----------------------------------------------------------------------------
(* The first message. Anything but a valid header ends the call.           *)
FirstHeader ==
  /\ stage = "header"
  /\ stage' = IF ValidHeader(header) THEN "stream" ELSE "rejected"
  /\ UNCHANGED <<header, elf, received, prefix, content, onDisk>>

NoHeader ==
  /\ stage = "header"
  /\ Reject
  /\ UNCHANGED <<header, elf, received, prefix, content, onDisk>>

(* One chunk of len bytes: the size, the ELF prefix once it is complete,   *)
(* the hash, the write. A failed write may leave part of the chunk.        *)
PrefixComplete(len) == prefix # Checked /\ prefix + len >= PrefixLen

\* Faulty: the size is compared with what came before this chunk.
Passes_LateSizeCheck(len) ==
  received <= header.size /\ (PrefixComplete(len) => CheckELF(prefix + len, elf))

Passes(len) ==
  /\ received + len <= header.size
  /\ PrefixComplete(len) => CheckELF(prefix + len, elf)

Take(len) ==
  /\ received' = received + len
  /\ prefix' = IF prefix = Checked \/ PrefixComplete(len) THEN Checked ELSE prefix + len

Chunk(len) ==
  /\ stage = "stream" /\ Passes(len)
  /\ Take(len)
  /\ onDisk' = onDisk + len
  /\ content' \in {content, "changed"}
  /\ UNCHANGED <<stage, header, elf>>

WriteFails(len) ==
  /\ stage = "stream" /\ Passes(len)
  /\ Take(len)
  /\ onDisk' \in onDisk..(onDisk + len)
  /\ Reject
  /\ UNCHANGED <<header, elf, content>>

ChunkRefused(len) ==
  /\ stage = "stream" /\ ~Passes(len)
  /\ received' = received + len
  /\ Reject
  /\ UNCHANGED <<header, elf, prefix, content, onDisk>>

\* The stream breaks, is cancelled, or carries a second header; or the temp
\* file cannot be created.
StreamFails ==
  /\ stage = "stream"
  /\ Reject
  /\ UNCHANGED <<header, elf, received, prefix, content, onDisk>>

(* The end of the stream.                                                  *)
HashMatches == content = "intact" /\ header.digest = received

\* Faulty: a stream too short for the ELF check is not checked at all.
EndOfStream_ShortUnchecked ==
  /\ stage = "stream"
  /\ \/ received = header.size /\ HashMatches /\ stage' = "accepted"
     \/ Reject
  /\ UNCHANGED <<header, elf, received, prefix, content, onDisk>>

EndOfStream ==
  /\ stage = "stream"
  /\ \/ /\ prefix = Checked \/ CheckELF(prefix, elf)
        /\ received = header.size
        /\ HashMatches
        /\ stage' = "accepted"
     \/ Reject   \* a check failed, or Sync, Chmod or Close did
  /\ UNCHANGED <<header, elf, received, prefix, content, onDisk>>

Next ==
  \/ FirstHeader \/ NoHeader \/ StreamFails \/ EndOfStream
  \/ \E len \in ChunkSizes : Chunk(len) \/ ChunkRefused(len) \/ WriteFails(len)

Spec == Init /\ [][Next]_vars

-----------------------------------------------------------------------------
\* What checkELF is for, told from the file and not from its bytes: an ELF file
\* built for the vehicle (elfcheck.go:21-24).
BuiltForHost ==
  /\ elf.magic
  /\ elf.order # "unknown"
  /\ Arch \in DOMAIN GoarchMachines => elf.machine = GoarchMachines[Arch]

\* The variables are in range; of the bytes received, only a prefix too short to
\* be checked is kept in memory.
TypeOK ==
  /\ stage \in {"header", "stream", "accepted", "rejected"}
  /\ header \in Headers
  /\ elf \in ElfFiles
  /\ received \in Nat /\ onDisk \in Nat
  /\ prefix \in 0..(PrefixLen - 1) \cup {Checked}
  /\ content \in {"intact", "changed"}

\* An accepted upload is on disk from its first to its last byte, as the client
\* hashed it, within the limit, and is an executable for this vehicle
\* (server.go:152-154).
AcceptedIsWhole ==
  stage = "accepted" =>
    /\ onDisk = header.size /\ onDisk = header.digest /\ content = "intact"
    /\ onDisk \in PrefixLen..MaxSize
    /\ BuiltForHost

\* Chunks are judged before they are written: however they are cut, the temp file
\* never outgrows the declared size, nor that the limit, and of a stream that is no
\* executable for this vehicle fewer bytes reach the disk than the check needs, not
\* 128 MiB ("so a binary for the wrong architecture is refused early",
\* elfcheck.go:21-23).
CheckedFirst ==
  /\ onDisk > 0 => onDisk <= header.size /\ header.size <= MaxSize
  /\ onDisk >= PrefixLen => BuiltForHost
=============================================================================
