----------------------------- MODULE ProgramElf -----------------------------
(***************************************************************************)
(* program_read_elf (src/program_elf.c): the program headers are checked   *)
(* one by one, then the segments are copied one by one.  The file header   *)
(* is valid or not; ElfSections models the section that is parsed.       *)
(* The file comes from program_input_bytes (ProgramInput).                 *)
(***************************************************************************)
EXTENDS ProgramFile, Sequences

CONSTANTS RamSizes, Entries,  \* the RAM of the call, the entry of the file
          Headers,            \* what a program header may say
          MaxSegments         \* ELF_MAX_SEGMENTS

ASSUME ElfAssumption ==
  /\ FileSize \in Nat /\ MaxSegments \in Nat
  /\ RamSizes \subseteq Nat /\ Entries \subseteq Nat
  /\ \A k \in 0 .. FileSize - 1 : Content(k) \in Byte
  /\ \A size \in RamSizes : Null \notin [0 .. size - 1 -> Byte]
  /\ Headers \subseteq [type : Nat, offset : Nat, address : Nat, physical : Nat,
                        filesz : Nat, memsz : Nat, executable : BOOLEAN, align : Nat]

VARIABLES request,   \* RAM size and entry
          segments,  \* the headers seen so far
          scan,      \* lowest, highest, executable_entry
          next,      \* the Program being built
          copied,    \* how many headers the copy loop has done
          owned, output, stage, result

elfVars == <<request, segments, scan, next, copied, owned, output, stage, result>>

PT_LOAD == 1
Unsupported == {2, 3, 7}  \* PT_DYNAMIC, PT_INTERP, PT_TLS

ElfInit ==
  /\ request \in [size : RamSizes, entry : Entries]
  /\ segments = << >> /\ copied = 0
  /\ scan = [lowest |-> request.size, highest |-> 0, executable |-> FALSE]
  /\ next = NoProgram /\ output = OldProgram /\ owned = {"old"}
  /\ stage = "start" /\ result = [ok |-> FALSE, message |-> "running"]

\* program_destroy(&next) also frees the file.
ElfFail(message) ==
  /\ stage' = "done" /\ result' = [ok |-> FALSE, message |-> message]
  /\ owned' = owned \ {"file", "ram"}
  /\ UNCHANGED <<request, scan, next, copied, output>>

ReadFile ==
  /\ stage = "start" /\ UNCHANGED segments
  /\ \/ ~SizeValid(request.size) /\ ElfFail("size")
     \/ SizeValid(request.size) /\ ElfFail("input")
     \/ /\ SizeValid(request.size)
        /\ owned' = owned \cup {"file"} /\ stage' = "header"
        /\ UNCHANGED <<request, scan, next, copied, output, result>>

\* The header, the section table and the bounds of the program headers.
CheckHeader ==
  /\ stage = "header" /\ UNCHANGED segments
  /\ \/ ElfFail("header")
     \/ stage' = "scan" /\ UNCHANGED <<request, scan, next, copied, owned, output, result>>

IsLoad(s) == s.type = PT_LOAD
\* A power of two, align & (align - 1) == 0: no divisor but 1 is odd.
PowerOfTwo(n) == \A d \in 2 .. n : n % d = 0 => d % 2 = 0
AlignmentValid(s) ==
  s.align > 1 => PowerOfTwo(s.align) /\ s.address % s.align = s.offset % s.align

\* t has been seen before s.
Overlaps(s, t) ==
  /\ IsLoad(t) /\ t.memsz # 0
  /\ s.address < t.address + t.memsz /\ t.address < s.address + s.memsz

\* The entry may be in the part of the segment that is not in the file.
HoldsEntryInBss(s) ==
  /\ s.executable /\ s.memsz >= WordSize
  /\ request.entry >= s.address /\ request.entry - s.address <= s.memsz - WordSize
  /\ request.entry % WordSize = 0
HoldsEntry(s) ==
  /\ s.executable /\ s.filesz >= WordSize
  /\ request.entry >= s.address /\ request.entry - s.address <= s.filesz - WordSize
  /\ request.entry % WordSize = 0

\* Why a header is refused, in the order of the tests; "" if it is not.
Objection(s) ==
  IF s.type \in Unsupported THEN "unsupported"
  ELSE IF ~IsLoad(s) THEN ""
  ELSE IF s.filesz > s.memsz \/ ~InRange(s.offset, s.filesz, FileSize) THEN "exceeds"
  ELSE IF s.physical # s.address THEN "physical"
  ELSE IF ~AlignmentValid(s) THEN "alignment"
  ELSE IF ~InRange(s.address, s.memsz, request.size) THEN "fit"
  ELSE IF s.memsz # 0 /\ \E j \in DOMAIN segments : Overlaps(s, segments[j]) THEN "overlap"
  ELSE ""

\* The end of the image is that of the last segment.
WidenToLast(s) == [scan EXCEPT !.lowest = IF s.address < @ THEN s.address ELSE @,
                               !.highest = s.address + s.memsz,
                               !.executable = @ \/ HoldsEntry(s)]
Widen(s) == [scan EXCEPT !.lowest = IF s.address < @ THEN s.address ELSE @,
                         !.highest = IF s.address + s.memsz > @ THEN s.address + s.memsz ELSE @,
                         !.executable = @ \/ HoldsEntry(s)]

ScanSegment(s) ==
  /\ stage = "scan" /\ Len(segments) < MaxSegments
  /\ segments' = Append(segments, s)
  /\ \/ Objection(s) # "" /\ ElfFail(Objection(s))
     \/ /\ Objection(s) = ""
        /\ scan' = IF IsLoad(s) /\ s.memsz # 0 THEN Widen(s) ELSE scan
        /\ UNCHANGED <<request, next, copied, owned, output, stage, result>>

NotRunnable ==
  /\ stage = "scan" /\ segments # << >> /\ UNCHANGED segments
  /\ ~scan.executable \/ scan.lowest >= scan.highest
  /\ ElfFail("entry")

AllocateRam ==
  /\ stage = "scan" /\ segments # << >> /\ UNCHANGED segments
  /\ scan.executable /\ scan.lowest < scan.highest
  /\ \/ ElfFail("memory")
     \/ /\ next' = Program(Zeros(request.size), request.size, scan.lowest, request.entry,
                           scan.highest - scan.lowest)
        /\ owned' = owned \cup {"ram"} /\ stage' = "copy"
        /\ UNCHANGED <<request, scan, copied, output, result>>

CopiedLength(s) == s.filesz

CopySegment ==
  LET s == segments[copied + 1]
  IN /\ stage = "copy" /\ copied < Len(segments)
     /\ next' = IF IsLoad(s)
                  THEN [next EXCEPT !.memory.bytes =
                          [a \in DOMAIN @ |-> IF a \in s.address .. s.address + CopiedLength(s) - 1
                                                THEN Content(s.offset + a - s.address) ELSE @[a]]]
                  ELSE next
     /\ copied' = copied + 1
     /\ UNCHANGED <<request, segments, scan, owned, output, stage, result>>

ReplaceProgram ==
  /\ stage = "copy" /\ copied = Len(segments)
  /\ output' = next /\ owned' = owned \ {"old"}
  /\ stage' = "done" /\ result' = [ok |-> TRUE, message |-> ""]
  /\ UNCHANGED <<request, segments, scan, next, copied>>

ElfDone == stage = "done" /\ UNCHANGED elfVars

ElfNext ==
  \/ ReadFile \/ CheckHeader \/ NotRunnable \/ AllocateRam \/ CopySegment \/ ReplaceProgram
  \/ \E s \in Headers : ScanSegment(s)
  \/ ElfDone
ElfSpec == ElfInit /\ [][ElfNext]_elfVars
-----------------------------------------------------------------------------
Loads == {j \in DOMAIN segments : IsLoad(segments[j])}
Occupied(s) == s.address .. s.address + s.memsz - 1
FileBacked(s) == s.address .. s.address + s.filesz - 1

\* What the loader delivers machine_load accepts: the span of the segments holds the
\* whole instruction at the entry, although load_elf tests the entry against one
\* segment while the span is still growing.
ElfDeliversLoadable == result.ok => LoadAccepts(output)

\* In the RAM that is delivered every file byte of every segment is in place, not
\* overwritten by another one; BSS, gaps and the rest are zero.
SegmentsInPlace ==
  LET bytes == output.memory.bytes
  IN result.ok =>
       /\ \A j \in Loads : \A a \in FileBacked(segments[j]) :
            bytes[a] = Content(segments[j].offset + a - segments[j].address)
       /\ \A a \in DOMAIN bytes :
            (\A j \in Loads : a \notin FileBacked(segments[j])) => bytes[a] = 0

\* The image spans all segments that occupy memory, and no more.
SpanIsTight ==
  LET image == output.load_address .. output.load_address + output.image_size - 1
  IN result.ok =>
       /\ \A j \in Loads : Occupied(segments[j]) \subseteq image
       /\ {output.load_address, output.load_address + output.image_size - 1}
            \subseteq UNION {Occupied(segments[j]) : j \in Loads}

\* The three together: the program is the image that the segments describe.
ElfImageInPlace == ElfDeliversLoadable /\ SegmentsInPlace /\ SpanIsTight

HoldsInstruction(s, entry) ==
  s.executable /\ entry .. entry + WordSize - 1 \subseteq FileBacked(s)

\* Two segments, whichever comes first, share an address.
Shared == \E j, k \in Loads :
            j < k /\ Occupied(segments[j]) \cap Occupied(segments[k]) # {}

\* What a message says of one program header.
HeaderIsWrong(message, s) ==
  \/ message = "unsupported" /\ s.type \in Unsupported
  \/ /\ IsLoad(s)
     /\ \/ message = "exceeds" /\ (s.filesz > s.memsz \/ s.offset + s.filesz > FileSize)
        \/ message = "physical" /\ s.physical # s.address
        \/ /\ message = "alignment" /\ s.align > 1
           /\ ~PowerOfTwo(s.align) \/ (s.address - s.offset) % s.align # 0
        \/ message = "fit" /\ s.address + s.memsz > request.size

\* What a message says of the call and of the headers seen so far.
FaultMessages ==
  {"size", "unsupported", "exceeds", "physical", "alignment", "fit", "overlap", "entry"}
FileIsWrong(message) ==
  \/ message = "size" /\ ~SizeValid(request.size)
  \/ \E j \in DOMAIN segments : HeaderIsWrong(message, segments[j])
  \/ message = "overlap" /\ Shared
  \/ /\ message = "entry"
     /\ request.entry % WordSize = 0 =>
          \A j \in Loads : ~HoldsInstruction(segments[j], request.entry)

\* Each refusal is right: a file that is refused with one of these messages has that
\* fault.  None is missed: a file that is accepted, or refused only for want of memory,
\* has none of them, in any of its headers and between any two of its segments.  (The
\* tests of the file header and of the sections are "header" here, and left open.)
RefusalsAreExact ==
  /\ result.message \in FaultMessages => FileIsWrong(result.message)
  /\ result.ok \/ result.message = "memory" => \A m \in FaultMessages : ~FileIsWrong(m)

\* The instruction at the entry is in the file: no part of it is BSS, which would be
\* executed as zeros.
EntryIsFileBacked == result.ok => \E j \in Loads : HoldsInstruction(segments[j], output.entry)

\* A failure keeps the old program and releases what was allocated for the new one; a
\* success keeps the file, which the debug information is read from.
ElfReplacesOrKeeps ==
  stage = "done" =>
    IF result.ok THEN owned = {"file", "ram"} ELSE owned = {"old"} /\ output = OldProgram

\* The three together: what the tests of the program headers refuse is wrong in the way
\* the message says, what they accept is not, and a refusal costs nothing.
ElfRefusesExactly == RefusalsAreExact /\ EntryIsFileBacked /\ ElfReplacesOrKeeps
=============================================================================
