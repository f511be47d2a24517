---------------------------- MODULE ProgramProofs ----------------------------
(***************************************************************************)
(* Proofs about the loaders: the file buffer takes in exactly the files    *)
(* that its limit lets through, and what load_elf delivers can be loaded,  *)
(* holds every segment and nothing else, and starts in the file.           *)
(***************************************************************************)
EXTENDS ProgramInput, ProgramReaders, ProgramElf, ElfSections, MemoryAccessProofs,
        FiniteSetTheorems, SequenceTheorems, TLAPS

\* data holds the first m bytes of the file.
Holds(data, m) == data \in Seq(Nat) /\ Len(data) = m /\ \A k \in 1 .. m : data[k] = k

FileTypes ==
  /\ file \in [length : FileLengths, limit : Limits, position : Nat]
  /\ file.position <= file.length
BufferTypes == buffer \in [data : Seq(Nat), capacity : Nat, allocated : BOOLEAN]
ControlTypes ==
  /\ step \in {"allocate", "fread", "fgetc", "grow", "done"} /\ answer \in Results
  /\ step # "done" <=> answer = "running"

\* What is in the block: all that has been read, but for the byte that waits for a
\* larger block.
Stored ==
  /\ buffer.capacity <= file.limit
  /\ step = "allocate" => Holds(buffer.data, 0) /\ file.position = 0
  /\ step \in {"fread", "fgetc", "grow"} => buffer.capacity > 0 /\ buffer.allocated
  /\ step \in {"fread", "fgetc"} => Holds(buffer.data, file.position)
  /\ step \in {"fgetc", "grow"} => used = buffer.capacity
  /\ step = "grow" => /\ file.position = used + 1 /\ buffer.capacity < file.limit
                      /\ Holds(buffer.data, used)

\* What the result says of the file.
Answered ==
  /\ step = "allocate" => ~buffer.allocated
  /\ answer = "ok" => Holds(buffer.data, file.length) /\ buffer.allocated
  /\ answer = "too long" => file.length > file.limit
  /\ answer \in {"no memory", "read error", "too long"} => ~buffer.allocated

InputInv == FileTypes /\ BufferTypes /\ ControlTypes /\ BufferFits /\ Stored /\ Answered
-----------------------------------------------------------------------------
LEMMA InputFields ==
  ASSUME InputInv
  PROVE  /\ file.length \in Nat /\ file.limit \in Nat /\ file.limit > 0 /\ file.position \in Nat
         /\ file.position <= file.length
         /\ buffer.data \in Seq(Nat) /\ used \in Nat /\ buffer.capacity \in Nat
         /\ buffer.allocated \in BOOLEAN /\ used <= buffer.capacity
         /\ buffer.capacity <= file.limit
<1>1. /\ file.length \in FileLengths /\ file.limit \in Limits /\ file.position \in Nat
      /\ file.position <= file.length
  BY DEF InputInv, FileTypes
<1>2. buffer.data \in Seq(Nat) /\ buffer.capacity \in Nat /\ buffer.allocated \in BOOLEAN
  BY DEF InputInv, BufferTypes
<1>3. used \in Nat
  BY <1>2 DEF used
<1>4. used <= buffer.capacity /\ buffer.capacity <= file.limit
  BY DEF InputInv, BufferFits
<1>5. file.length \in Nat /\ file.limit \in Nat /\ file.limit # 0
  BY <1>1, ProgramInputAssumption
<1> QED
  BY <1>1, <1>2, <1>3, <1>4, <1>5

\* A prefix of the file goes on with what is read next, and with the byte read ahead.
LEMMA HoldsMore ==
  ASSUME NEW m \in Nat, NEW n \in Nat, NEW data, Holds(data, m)
  PROVE  Holds(data \o Contents(m + 1, m + n), m + n)
<1> DEFINE more == Contents(m + 1, m + n)
<1>1. more = [k \in 1 .. n |-> m + k]
  BY DEF Contents
<1>2. more \in Seq(Nat) /\ Len(more) = n
  BY <1>1
<1>3. data \in Seq(Nat) /\ Len(data) = m
  BY DEF Holds
<1> HIDE DEF more
<1>4. data \o more \in Seq(Nat) /\ Len(data \o more) = m + n
  <2>1. data \o more \in Seq(Nat) /\ Len(data \o more) = Len(data) + Len(more)
    BY <1>2, <1>3, ConcatProperties, Zenon
  <2> QED
    BY <1>2, <1>3, <2>1
<1>5. ASSUME NEW k \in 1 .. m + n PROVE (data \o more)[k] = k
  <2>1. (data \o more)[k] = IF k <= m THEN data[k] ELSE more[k - m]
    BY <1>2, <1>3
  <2>2. CASE k <= m
    BY <2>1, <2>2 DEF Holds
  <2>3. CASE ~(k <= m)
    <3>1. k - m \in 1 .. n /\ m + (k - m) = k
      BY <2>3
    <3>2. more[k - m] = m + (k - m)
      BY <1>1, <3>1
    <3> QED
      BY <2>1, <2>3, <3>1, <3>2
  <2> QED
    BY <2>2, <2>3
<1> QED
  BY <1>4, <1>5 DEF Holds, more

LEMMA HoldsOneMore ==
  ASSUME NEW m \in Nat, NEW data, Holds(data, m)
  PROVE  Holds(Append(data, m + 1), m + 1)
<1>1. data \in Seq(Nat) /\ Len(data) = m /\ \A k \in 1 .. m : data[k] = k
  BY DEF Holds
<1>2. Append(data, m + 1) \in Seq(Nat) /\ Len(Append(data, m + 1)) = m + 1
  BY <1>1
<1>3. \A k \in 1 .. m + 1 : Append(data, m + 1)[k] = k
  BY <1>1
<1> QED
  BY <1>2, <1>3 DEF Holds

LEMMA HoldsAll ==
  ASSUME NEW m \in Nat, NEW data, Holds(data, m)
  PROVE  data = Contents(1, m)
<1>1. Contents(1, m) = [k \in 1 .. m |-> k]
  BY DEF Contents
<1>2. data = [k \in 1 .. m |-> data[k]]
  BY DEF Holds
<1> QED
  BY <1>1, <1>2 DEF Holds

\* Doubling makes room for the byte read ahead and stops at the limit.
LEMMA GrownFits ==
  ASSUME NEW c \in Nat, c > 0, file.limit \in Nat, c < file.limit
  PROVE  Grown(c) \in Nat /\ c + 1 <= Grown(c) /\ Grown(c) <= file.limit
BY DEF Grown
-----------------------------------------------------------------------------
LEMMA InputInitInv == InputInit => InputInv
<1> SUFFICES ASSUME InputInit PROVE InputInv
  OBVIOUS
<1>0. file.length \in FileLengths /\ file.limit \in Limits /\ file.position = 0
  BY DEF InputInit
<1>1. /\ file \in [length : FileLengths, limit : Limits, position : Nat]
      /\ file.position <= file.length /\ file.limit \in Nat /\ 0 <= file.limit
  <2>1. file \in [length : FileLengths, limit : Limits, position : Nat]
    BY DEF InputInit
  <2>2. file.length \in Nat /\ file.limit \in Nat
    BY <1>0, ProgramInputAssumption
  <2> QED
    BY <1>0, <2>1, <2>2
<1>2. /\ buffer = [data |-> << >>, capacity |-> 0, allocated |-> FALSE]
      /\ step = "allocate" /\ answer = "running"
  BY DEF InputInit
<1>3. buffer.data = << >> /\ buffer.capacity = 0 /\ ~buffer.allocated /\ used = 0
  BY <1>2 DEF used
<1>4. BufferTypes
  BY <1>2 DEF BufferTypes
<1>5. Holds(buffer.data, 0)
  BY <1>3 DEF Holds
<1> QED
  BY <1>0, <1>1, <1>2, <1>3, <1>4, <1>5
  DEF InputInv, FileTypes, ControlTypes, BufferFits, Stored, Answered, Results

\* A failure frees the block; what has been read before it does not matter.
LEMMA FailKeepsInv ==
  ASSUME InputInv, NEW r \in {"no memory", "read error", "too long"}, InputFail(r),
         FileTypes', file'.length = file.length, file'.limit = file.limit,
         r = "too long" => file.length > file.limit
  PROVE  InputInv'
<1>1. /\ step' = "done" /\ answer' = r /\ buffer' = [buffer EXCEPT !.allocated = FALSE]
  BY DEF InputFail, Answer
<1>2. BufferTypes
  BY DEF InputInv
<1>3. /\ buffer'.data = buffer.data /\ buffer'.capacity = buffer.capacity /\ ~buffer'.allocated
      /\ BufferTypes'
  BY <1>1, <1>2 DEF BufferTypes
<1>4. BufferFits' /\ Stored'
  BY <1>1, <1>3, InputFields DEF BufferFits, Stored, used
<1>5. ControlTypes' /\ Answered'
  BY <1>1, <1>3 DEF ControlTypes, Answered, Results
<1> QED
  BY <1>3, <1>4, <1>5 DEF InputInv

LEMMA AllocateKeepsInv == InputInv /\ Allocate => InputInv'
<1> SUFFICES ASSUME InputInv, Allocate PROVE InputInv'
  OBVIOUS
<1>1. /\ step = "allocate" /\ file' = file /\ ~buffer.allocated /\ file.position = 0
      /\ Holds(buffer.data, 0) /\ BufferTypes
  BY DEF Allocate, InputInv, Stored, Answered
<1>2. CASE Answer("no memory") /\ UNCHANGED buffer
  BY <1>1, <1>2 DEF InputInv, FileTypes, BufferTypes, ControlTypes, BufferFits, Stored,
                    Answered, Answer, Results, used
<1>3. CASE /\ buffer' = [buffer EXCEPT !.allocated = TRUE,
                          !.capacity = IF file.limit < Chunk THEN file.limit ELSE Chunk]
           /\ step' = "fread" /\ UNCHANGED answer
  <2>1. /\ buffer'.data = buffer.data /\ buffer'.allocated
        /\ buffer'.capacity = IF file.limit < Chunk THEN file.limit ELSE Chunk
    BY <1>1, <1>3 DEF BufferTypes
  <2>2. buffer'.capacity \in Nat /\ buffer'.capacity > 0 /\ buffer'.capacity <= file.limit
    BY <2>1, InputFields, ProgramInputAssumption
  <2>3. BufferTypes'
    BY <1>1, <1>3, <2>1, <2>2 DEF BufferTypes
  <2>4. BufferFits' /\ Stored'
    BY <1>1, <1>3, <2>1, <2>2 DEF BufferFits, Stored, used, Holds
  <2>5. answer' = "running" /\ FileTypes' /\ ControlTypes'
    BY <1>1, <1>3 DEF InputInv, FileTypes, ControlTypes, Results
  <2> QED
    BY <1>3, <2>3, <2>4, <2>5 DEF InputInv, Answered
<1> QED
  BY <1>2, <1>3 DEF Allocate

LEMMA FreadKeepsInv == InputInv /\ Fread => InputInv'
<1> SUFFICES ASSUME InputInv, Fread PROVE InputInv'
  OBVIOUS
<1> DEFINE room == buffer.capacity - used
           rest == file.length - file.position
           n == IF rest < room THEN rest ELSE room
           data == buffer.data \o Contents(file.position + 1, file.position + n)
<1>1. /\ step = "fread" /\ file' = [file EXCEPT !.position = @ + n]
      /\ buffer' = [buffer EXCEPT !.data = data]
  BY DEF Fread
<1>2. CASE \/ rest < room /\ Answer("ok")
           \/ ~(rest < room) /\ step' = "fgetc" /\ answer' = answer
  <2>1. /\ file.position \in Nat /\ file.length \in Nat /\ used \in Nat /\ buffer.capacity \in Nat
        /\ file.position <= file.length /\ used <= buffer.capacity
        /\ Holds(buffer.data, file.position) /\ buffer.capacity > 0 /\ buffer.allocated
        /\ buffer.capacity <= file.limit /\ file.limit \in Nat
    BY <1>1, InputFields DEF InputInv, Stored
  <2>2. used = file.position
    BY <2>1 DEF Holds, used
  <2>3. /\ n \in Nat /\ file.position + n <= file.length
        /\ file.position + n <= buffer.capacity
        /\ rest < room => file.position + n = file.length
        /\ ~(rest < room) => file.position + n = buffer.capacity
    BY <2>1, <2>2
  <2> HIDE DEF n
  <2>4. Holds(data, file.position + n)
    BY <2>1, <2>3, HoldsMore
  <2>5. data \in Seq(Nat) /\ Len(data) = file.position + n
    BY <2>4 DEF Holds
  <2> HIDE DEF data
  <2>6. buffer \in [data : Seq(Nat), capacity : Nat, allocated : BOOLEAN]
    BY DEF InputInv, BufferTypes
  <2>7. /\ buffer'.data = data /\ buffer'.capacity = buffer.capacity /\ buffer'.allocated
        /\ BufferTypes'
    BY <1>1, <2>1, <2>5, <2>6 DEF BufferTypes
  <2>8. file \in [length : FileLengths, limit : Limits, position : Nat]
    BY DEF InputInv, FileTypes
  <2>9. /\ file'.position = file.position + n /\ file'.length = file.length
        /\ file'.limit = file.limit /\ file' \in [length : FileLengths, limit : Limits, position : Nat]
    BY <1>1, <2>1, <2>3, <2>8
  <2>10. FileTypes'
    BY <2>3, <2>9 DEF FileTypes
  <2>11. used' = file.position + n
    BY <2>5, <2>7 DEF used
  <2>12. BufferFits'
    BY <2>1, <2>3, <2>7, <2>9, <2>11 DEF BufferFits
  <2>13. answer = "running"
    BY <1>1 DEF InputInv, ControlTypes
  <2>14. CASE rest < room /\ Answer("ok")
    <3>1. step' = "done" /\ answer' = "ok"
      BY <2>14 DEF Answer
    <3>2. Stored' /\ Answered' /\ ControlTypes'
      BY <2>1, <2>3, <2>4, <2>7, <2>9, <2>14, <3>1 DEF Stored, Answered, ControlTypes, Results
    <3> QED
      BY <2>7, <2>10, <2>12, <3>2 DEF InputInv
  <2>15. CASE ~(rest < room) /\ step' = "fgetc" /\ answer' = answer
    <3>1. Stored' /\ Answered' /\ ControlTypes'
      BY <2>1, <2>3, <2>4, <2>7, <2>9, <2>11, <2>13, <2>15 DEF Stored, Answered, ControlTypes, Results
    <3> QED
      BY <2>7, <2>10, <2>12, <3>1 DEF InputInv
  <2> QED
    BY <1>2, <2>14, <2>15
<1>3. \/ rest < room /\ Answer("ok")
      \/ ~(rest < room) /\ step' = "fgetc" /\ answer' = answer
  BY DEF Fread, Answer
<1> QED
  BY <1>2, <1>3, Zenon

LEMMA FreadErrorKeepsInv == InputInv /\ FreadError => InputInv'
<1> SUFFICES ASSUME InputInv, FreadError PROVE InputInv'
  OBVIOUS
<1>1. PICK n \in 0 .. file.length - file.position :
        n <= buffer.capacity - used /\ file' = [file EXCEPT !.position = @ + n]
  BY DEF FreadError
<1>2. file \in [length : FileLengths, limit : Limits, position : Nat]
  BY DEF InputInv, FileTypes
<1>3. file.position \in Nat /\ file.length \in Nat /\ n \in Nat /\ file.position + n <= file.length
  BY <1>1, InputFields
<1>4. /\ file'.position = file.position + n /\ file'.length = file.length
      /\ file'.limit = file.limit /\ file' \in [length : FileLengths, limit : Limits, position : Nat]
  BY <1>1, <1>2, <1>3
<1>5. FileTypes'
  BY <1>3, <1>4 DEF FileTypes
<1> QED
  BY <1>4, <1>5, FailKeepsInv DEF FreadError

LEMMA FgetcByteKeepsInv == InputInv /\ FgetcByte => InputInv'
<1> SUFFICES ASSUME InputInv, FgetcByte PROVE InputInv'
  OBVIOUS
<1>1. /\ step = "fgetc" /\ file.position < file.length
      /\ file' = [file EXCEPT !.position = @ + 1]
  BY DEF FgetcByte
<1>2. /\ Holds(buffer.data, file.position) /\ used = buffer.capacity /\ answer = "running"
      /\ buffer.capacity > 0 /\ buffer.allocated
      /\ file \in [length : FileLengths, limit : Limits, position : Nat]
  BY <1>1 DEF InputInv, Stored, FileTypes, ControlTypes
<1>3. /\ used = file.position /\ file.position \in Nat /\ file.length \in Nat /\ file.limit \in Nat
      /\ buffer.capacity <= file.limit
  BY <1>2, InputFields DEF Holds, used
<1>4. /\ file'.position = file.position + 1 /\ file'.length = file.length
      /\ file'.limit = file.limit /\ file' \in [length : FileLengths, limit : Limits, position : Nat]
  BY <1>1, <1>2, <1>3
<1>5. FileTypes'
  BY <1>1, <1>3, <1>4 DEF FileTypes
<1>6. CASE buffer.capacity = file.limit
  BY <1>1, <1>2, <1>3, <1>4, <1>5, <1>6, FailKeepsInv DEF FgetcByte
<1>7. CASE buffer.capacity # file.limit
  <2>1. step' = "grow" /\ buffer' = buffer /\ answer' = answer
    BY <1>7 DEF FgetcByte
  <2>2. used' = used /\ buffer.capacity < file.limit
    BY <1>3, <1>7, <2>1, InputFields DEF used
  <2>3. Stored'
    BY <1>2, <1>3, <1>4, <2>1, <2>2 DEF Stored
  <2>4. BufferTypes' /\ BufferFits'
    BY <1>4, <2>1, <2>2 DEF InputInv, BufferTypes, BufferFits
  <2>5. ControlTypes' /\ Answered'
    BY <1>2, <2>1 DEF ControlTypes, Answered, Results
  <2> QED
    BY <1>5, <2>3, <2>4, <2>5 DEF InputInv
<1> QED
  BY <1>6, <1>7

LEMMA FgetcEndKeepsInv == InputInv /\ FgetcEnd => InputInv'
<1> SUFFICES ASSUME InputInv, FgetcEnd PROVE InputInv'
  OBVIOUS
<1>1. /\ step = "fgetc" /\ file.position = file.length /\ step' = "done" /\ answer' = "ok"
      /\ file' = file /\ buffer' = buffer
  BY DEF FgetcEnd, Answer
<1>2. Holds(buffer.data, file.length) /\ buffer.allocated /\ used' = used
  BY <1>1 DEF InputInv, Stored, used
<1>3. FileTypes' /\ BufferTypes' /\ BufferFits'
  BY <1>1, <1>2 DEF InputInv, FileTypes, BufferTypes, BufferFits
<1>4. Stored' /\ Answered' /\ ControlTypes'
  BY <1>1, <1>2 DEF InputInv, Stored, Answered, ControlTypes, Results
<1> QED
  BY <1>3, <1>4 DEF InputInv

LEMMA GrowKeepsInv == InputInv /\ Grow => InputInv'
<1> SUFFICES ASSUME InputInv, Grow PROVE InputInv'
  OBVIOUS
<1>1. /\ step = "grow" /\ file' = file /\ step' = "fread" /\ answer' = answer
      /\ buffer' = [buffer EXCEPT !.capacity = Grown(@), !.data = Append(@, file.position)]
  BY DEF Grow
<1>2. /\ file.position = used + 1 /\ buffer.capacity < file.limit /\ buffer.capacity > 0
      /\ Holds(buffer.data, used) /\ used = buffer.capacity /\ buffer.allocated
      /\ answer = "running"
  BY <1>1 DEF InputInv, Stored, ControlTypes
<1>3. used \in Nat /\ buffer.capacity \in Nat /\ file.limit \in Nat /\ file.position \in Nat
  BY InputFields
<1>4. Holds(Append(buffer.data, file.position), file.position)
  BY <1>2, <1>3, HoldsOneMore
<1>5. /\ Grown(buffer.capacity) \in Nat /\ buffer.capacity + 1 <= Grown(buffer.capacity)
      /\ Grown(buffer.capacity) <= file.limit
  BY <1>2, <1>3, GrownFits
<1>6. buffer \in [data : Seq(Nat), capacity : Nat, allocated : BOOLEAN]
  BY DEF InputInv, BufferTypes
<1>7. /\ buffer'.data = Append(buffer.data, file.position)
      /\ buffer'.capacity = Grown(buffer.capacity) /\ buffer'.allocated
  BY <1>1, <1>2, <1>6
<1>8. BufferTypes'
  <2>1. Append(buffer.data, file.position) \in Seq(Nat)
    BY <1>4 DEF Holds
  <2> QED
    BY <1>1, <1>5, <1>6, <2>1 DEF BufferTypes
<1>9. used' = file.position
  BY <1>4, <1>7 DEF used, Holds
<1>10. BufferFits' /\ Stored'
  BY <1>1, <1>2, <1>3, <1>4, <1>5, <1>7, <1>9 DEF BufferFits, Stored
<1>11. FileTypes' /\ ControlTypes' /\ Answered'
  BY <1>1, <1>2, <1>7 DEF InputInv, FileTypes, ControlTypes, Answered, Results
<1> QED
  BY <1>8, <1>10, <1>11 DEF InputInv

\* The same facts hold after every step of program_input_bytes.
THEOREM InputInvariant == InputSpec => []InputInv
<1>1. InputInv /\ [InputNext]_inputVars => InputInv'
  <2> SUFFICES ASSUME InputInv, [InputNext]_inputVars PROVE InputInv'
    OBVIOUS
  <2>1. CASE UNCHANGED inputVars
    <3>1. file' = file /\ buffer' = buffer /\ step' = step /\ answer' = answer /\ used' = used
      BY <2>1 DEF inputVars, used
    <3> QED
      BY <3>1 DEF InputInv, FileTypes, BufferTypes, ControlTypes, BufferFits, Stored, Answered
  <2>2. CASE FgetcError \/ GrowFails
    <3>1. file' = file /\ FileTypes'
      BY <2>2 DEF FgetcError, GrowFails, InputInv, FileTypes
    <3> QED
      BY <2>2, <3>1, FailKeepsInv DEF FgetcError, GrowFails
  <2>3. CASE Allocate \/ Fread \/ FreadError \/ FgetcByte \/ FgetcEnd \/ Grow
    BY <2>3, AllocateKeepsInv, FreadKeepsInv, FreadErrorKeepsInv, FgetcByteKeepsInv,
       FgetcEndKeepsInv, GrowKeepsInv
  <2> QED
    BY <2>1, <2>2, <2>3 DEF InputNext, InputDone
<1> QED
  BY <1>1, InputInitInv, PTL DEF InputSpec

\* The bytes stored never pass the block, nor the block the limit.
THEOREM BufferNeverPassed == InputSpec => []BufferFits
<1>1. InputInv => BufferFits
  BY DEF InputInv
<1> QED
  BY <1>1, InputInvariant, PTL

\* What is delivered is the whole file, in order, whatever its length, the limit and the
\* first block.
THEOREM WholeFileDelivered == InputSpec => []DeliversFile
<1>1. InputInv => DeliversFile
  BY InputFields, HoldsAll DEF InputInv, Answered, DeliversFile
<1> QED
  BY <1>1, InputInvariant, PTL

\* A file is refused for its length exactly when it is longer than the limit.
THEOREM OnlyLongerRefused == InputSpec => []RefusesOnlyLonger
<1>1. InputInv => RefusesOnlyLonger
  <2> SUFFICES ASSUME InputInv PROVE RefusesOnlyLonger
    OBVIOUS
  <2>1. answer = "ok" => file.length <= file.limit
    BY InputFields DEF InputInv, Answered, Holds, used
  <2> QED
    BY <2>1 DEF InputInv, Answered, RefusesOnlyLonger
<1> QED
  BY <1>1, InputInvariant, PTL

\* The block is the caller's after a success, and freed after any failure.
THEOREM BlockIsAccounted == InputSpec => []BlockAccounted
<1>1. InputInv => BlockAccounted
  BY DEF InputInv, ControlTypes, Answered, Results, BlockAccounted
<1> QED
  BY <1>1, InputInvariant, PTL

\* program_input_bytes reads a file whole or refuses it for a reason, and neither passes
\* nor loses its block, whatever stdio and realloc do.
THEOREM FileIsReadWhole == InputSpec => []FileIsRead
<1>1. BufferFits /\ DeliversFile /\ RefusesOnlyLonger /\ BlockAccounted => FileIsRead
  BY DEF FileIsRead
<1> QED
  BY <1>1, BufferNeverPassed, WholeFileDelivered, OnlyLongerRefused, BlockIsAccounted, PTL
-----------------------------------------------------------------------------
\* The copying goes on, or is over and has succeeded.
Copying == stage = "copy" \/ result.ok
Accepting == stage = "scan" \/ Copying

Fits(s) ==
  /\ s.filesz <= s.memsz /\ s.offset + s.filesz <= FileSize
  /\ s.address + s.memsz <= request.size

Types ==
  /\ request.size \in RamSizes /\ request.size \in Nat /\ request.entry \in Nat
  /\ segments \in Seq(Headers)
  /\ stage \in {"start", "header", "scan", "copy", "done"}
  /\ result.ok \in BOOLEAN /\ (result.ok => stage = "done")
  /\ copied \in Nat /\ (stage \in {"start", "header", "scan"} => copied = 0)
  /\ copied <= Len(segments) /\ (result.ok => copied = Len(segments))
  /\ stage \in {"header", "scan", "copy"} \/ result.ok => SizeValid(request.size)

\* Every segment that was accepted lies in the file and in the RAM.
SegmentsFit == Accepting => \A j \in DOMAIN segments : IsLoad(segments[j]) => Fits(segments[j])

\* No two of them share an address.
Disjoint ==
  Accepting =>
    \A j, k \in DOMAIN segments :
      j < k /\ IsLoad(segments[j]) /\ IsLoad(segments[k])
        /\ segments[j].memsz # 0 /\ segments[k].memsz # 0 =>
      \/ segments[j].address + segments[j].memsz <= segments[k].address
      \/ segments[k].address + segments[k].memsz <= segments[j].address

\* The bounds of the scan, once there is a segment that holds the entry.
Bounds ==
  Accepting =>
    /\ scan \in [lowest : Nat, highest : Nat, executable : BOOLEAN]
    /\ scan.highest <= request.size
    /\ scan.executable =>
         \E j \in DOMAIN segments :
           /\ IsLoad(segments[j]) /\ HoldsEntry(segments[j])
           /\ scan.lowest <= segments[j].address
           /\ segments[j].address + segments[j].memsz <= scan.highest

\* Which bytes of the RAM have been copied from which segment.
Placed(bytes, n) ==
  /\ bytes \in [0 .. request.size - 1 -> Byte]
  /\ \A j \in 1 .. n : IsLoad(segments[j]) =>
       \A a \in FileBacked(segments[j]) :
         bytes[a] = Content(segments[j].offset + a - segments[j].address)
  /\ \A a \in 0 .. request.size - 1 :
       (\A j \in 1 .. n : IsLoad(segments[j]) => a \notin FileBacked(segments[j])) => bytes[a] = 0

Building ==
  Copying =>
    /\ scan.executable /\ scan.lowest < scan.highest
    /\ Placed(next.memory.bytes, copied)
    /\ next = Program(next.memory.bytes, request.size, scan.lowest, request.entry,
                      scan.highest - scan.lowest)
    /\ result.ok => output = next

\* The scan begins with the empty list of segments.
NoneYet ==
  stage \in {"start", "header"} =>
    segments = << >> /\ scan = [lowest |-> request.size, highest |-> 0, executable |-> FALSE]

ElfInv == NoneYet /\ Types /\ SegmentsFit /\ Disjoint /\ Bounds /\ Building
-----------------------------------------------------------------------------
\* Bounds that are moved apart still enclose what they enclosed.
LEMMA Wider ==
  ASSUME NEW l \in Nat, NEW h \in Nat, NEW low \in Nat, NEW high \in Nat,
         NEW a \in Nat, NEW m \in Nat, low <= l, h <= high, l <= a, a + m <= h
  PROVE  low <= a /\ a + m <= high
OBVIOUS

\* Where a byte of the file goes: from inside the file to inside the RAM.
LEMMA InFileAndRam ==
  ASSUME NEW a \in Int, NEW base \in Nat, NEW o \in Nat, NEW f \in Nat, NEW m \in Nat,
         NEW length \in Nat, NEW size \in Nat, a \in base .. base + f - 1,
         f <= m, o + f <= length, base + m <= size
  PROVE  o + a - base \in 0 .. length - 1 /\ a \in 0 .. size - 1
OBVIOUS

LEMMA HeaderTypes ==
  ASSUME NEW s \in Headers
  PROVE  /\ s.type \in Nat /\ s.offset \in Nat /\ s.address \in Nat /\ s.physical \in Nat
         /\ s.filesz \in Nat /\ s.memsz \in Nat /\ s.executable \in BOOLEAN /\ s.align \in Nat
BY ElfAssumption

LEMMA SegmentTypes ==
  ASSUME Types
  PROVE  /\ Len(segments) \in Nat /\ DOMAIN segments = 1 .. Len(segments)
         /\ \A j \in DOMAIN segments : segments[j] \in Headers
BY DEF Types

\* Before the segments are accepted nothing is promised of them.
LEMMA NothingPromised ==
  ASSUME ~Accepting
  PROVE  SegmentsFit /\ Disjoint /\ Bounds /\ Building
BY DEF Accepting, SegmentsFit, Disjoint, Bounds, Building

LEMMA InitInv == ElfInit => ElfInv
<1> SUFFICES ASSUME ElfInit PROVE ElfInv
  OBVIOUS
<1>1. request.size \in RamSizes /\ request.size \in Nat /\ request.entry \in Nat
  BY ElfAssumption DEF ElfInit
<1>2. segments = << >> /\ stage = "start" /\ result.ok = FALSE /\ copied = 0
  BY DEF ElfInit
<1>3. segments \in Seq(Headers) /\ Len(segments) = 0
  BY <1>2
<1>4. Types
  <2>1. result.ok \in BOOLEAN /\ (result.ok => stage = "done")
    BY <1>2
  <2>2. ~result.ok
    BY <1>2
  <2>3. stage \notin {"header", "scan", "copy"}
    BY <1>2
  <2> QED
    BY <1>1, <1>2, <1>3, <2>1, <2>2, <2>3 DEF Types
<1>5. ~Accepting
  BY <1>2 DEF Accepting, Copying
<1>6. NoneYet
  BY DEF ElfInit, NoneYet
<1> QED
  BY <1>4, <1>5, <1>6, NothingPromised DEF ElfInv

\* A failure ends the call: nothing is promised of what has been built.
LEMMA FailInv ==
  ASSUME ElfInv, NEW message, ElfFail(message), stage \in {"start", "header", "scan"},
         segments' \in Seq(Headers), Len(segments') >= Len(segments)
  PROVE  ElfInv'
<1>1. /\ stage' = "done" /\ result'.ok = FALSE /\ request' = request /\ copied' = copied
  BY DEF ElfFail
<1>2. Len(segments') \in Nat /\ copied = 0
      /\ request.size \in RamSizes /\ request.size \in Nat /\ request.entry \in Nat
  BY DEF ElfInv, Types
<1>3. Types'
  <2>1. result'.ok \in BOOLEAN /\ ~result'.ok
    BY <1>1
  <2>2. stage' \notin {"header", "scan", "copy"}
    BY <1>1
  <2> QED
    BY <1>1, <1>2, <2>1, <2>2 DEF Types
<1>4. ~Accepting'
  BY <1>1 DEF Accepting, Copying
<1>5. NoneYet'
  BY <1>1 DEF NoneYet
<1>6. SegmentsFit' /\ Disjoint' /\ Bounds' /\ Building'
  BY <1>4, NothingPromised DEF Accepting, Copying, SegmentsFit, Disjoint, Bounds, Building
<1> QED
  BY <1>3, <1>5, <1>6 DEF ElfInv

LEMMA ReadFileInv == ElfInv /\ ReadFile => ElfInv'
<1> SUFFICES ASSUME ElfInv, ReadFile PROVE ElfInv'
  OBVIOUS
<1>1. stage = "start" /\ segments' = segments /\ segments \in Seq(Headers) /\ Len(segments) \in Nat
  BY DEF ReadFile, ElfInv, Types
<1>2. CASE \E message : ElfFail(message)
  BY <1>1, <1>2, FailInv
<1>3. CASE /\ SizeValid(request.size) /\ stage' = "header"
           /\ UNCHANGED <<request, scan, next, copied, output, result>>
  <2>1. ~result.ok
    BY <1>1 DEF ElfInv, Types
  <2>2. Types'
    BY <1>1, <1>3, <2>1 DEF ElfInv, Types
  <2>3. NoneYet'
    BY <1>1, <1>3 DEF ElfInv, NoneYet
  <2>4. SegmentsFit' /\ Disjoint' /\ Bounds' /\ Building'
    BY <1>3, <2>1 DEF Accepting, Copying, SegmentsFit, Disjoint, Bounds, Building
  <2> QED
    BY <2>2, <2>3, <2>4 DEF ElfInv
<1> QED
  BY <1>2, <1>3 DEF ReadFile

LEMMA CheckHeaderInv == ElfInv /\ CheckHeader => ElfInv'
<1> SUFFICES ASSUME ElfInv, CheckHeader PROVE ElfInv'
  OBVIOUS
<1>1. /\ stage = "header" /\ segments' = segments /\ segments \in Seq(Headers)
      /\ Len(segments) \in Nat /\ ~result.ok
  BY DEF CheckHeader, ElfInv, Types
<1>2. CASE ElfFail("header")
  BY <1>1, <1>2, FailInv
<1>3. CASE stage' = "scan" /\ UNCHANGED <<request, scan, next, copied, owned, output, result>>
  <2>1. /\ segments' = << >> /\ scan' = [lowest |-> request.size, highest |-> 0, executable |-> FALSE]
        /\ request' = request /\ result' = result /\ request.size \in Nat
    BY <1>1, <1>3 DEF ElfInv, NoneYet, Types
  <2>2. Types'
    BY <1>1, <1>3 DEF ElfInv, Types
  <2>3. SegmentsFit' /\ Disjoint'
    BY <2>1 DEF SegmentsFit, Disjoint
  <2>4. Bounds'
    BY <2>1 DEF Bounds
  <2>5. NoneYet' /\ Building'
    BY <1>1, <1>3 DEF NoneYet, Building, Copying
  <2> QED
    BY <2>2, <2>3, <2>4, <2>5 DEF ElfInv
<1> QED
  BY <1>2, <1>3 DEF CheckHeader
-----------------------------------------------------------------------------
\* The empty string is kept out of the arithmetic below.
Accepted(s) == Objection(s) = ""

\* What the tests of a header leave.
LEMMA NoObjection ==
  ASSUME NEW s \in Headers, Accepted(s), IsLoad(s), Types
  PROVE  /\ Fits(s) /\ s.physical = s.address /\ AlignmentValid(s)
         /\ s.memsz # 0 => \A j \in DOMAIN segments : ~Overlaps(s, segments[j])
<1>1. s.type \notin Unsupported
  BY DEF IsLoad, PT_LOAD, Unsupported
<1> DEFINE exceeds == s.filesz > s.memsz \/ ~InRange(s.offset, s.filesz, FileSize)
           outside == ~InRange(s.address, s.memsz, request.size)
           overlap == s.memsz # 0 /\ \E j \in DOMAIN segments : Overlaps(s, segments[j])
<1>2. Objection(s) = IF exceeds THEN "exceeds"
                     ELSE IF s.physical # s.address THEN "physical"
                     ELSE IF ~AlignmentValid(s) THEN "alignment"
                     ELSE IF outside THEN "fit" ELSE IF overlap THEN "overlap" ELSE ""
  BY <1>1 DEF Objection
<1>3. ~exceeds /\ ~outside /\ ~overlap /\ s.physical = s.address /\ AlignmentValid(s)
  <2> HIDE DEF exceeds, outside, overlap
  <2> QED
    BY <1>2, Zenon DEF Accepted
<1>4. s.filesz <= s.memsz /\ InRange(s.offset, s.filesz, FileSize)
      /\ InRange(s.address, s.memsz, request.size)
  BY <1>3, HeaderTypes
<1>5. Fits(s)
  <2> HIDE DEF exceeds, outside, overlap
  <2>1. s.offset + s.filesz <= FileSize
    BY <1>4, HeaderTypes, ElfAssumption DEF InRange
  <2>2. request.size \in Nat
    BY DEF Types
  <2>3. s.address + s.memsz <= request.size
    BY <1>4, <2>2, HeaderTypes DEF InRange
  <2> QED
    BY <1>4, <2>1, <2>3 DEF Fits
<1> QED
  BY <1>3, <1>5

\* A header that is accepted keeps the invariant: its segment lies in the RAM, apart
\* from those before it, and the bounds are widened to it.
LEMMA AcceptInv ==
  ASSUME ElfInv, NEW s \in Headers, stage = "scan", Accepted(s),
         segments' = Append(segments, s),
         scan' = IF IsLoad(s) /\ s.memsz # 0 THEN Widen(s) ELSE scan,
         UNCHANGED <<request, next, copied, owned, output, stage, result>>
  PROVE  ElfInv'
<1> DEFINE n == Len(segments)
<1>1. /\ Types /\ n \in Nat /\ segments \in Seq(Headers)
      /\ \A j \in 1 .. n : segments[j] \in Headers
      /\ Accepting /\ ~result.ok
  BY SegmentTypes DEF ElfInv, Types, Accepting
<1>2. /\ segments' \in Seq(Headers) /\ Len(segments') = n + 1 /\ DOMAIN segments' = 1 .. n + 1
      /\ segments'[n + 1] = s
      /\ \A j \in 1 .. n : segments'[j] = segments[j]
  BY <1>1
<1>3. /\ s.address \in Nat /\ s.memsz \in Nat /\ s.filesz \in Nat /\ s.executable \in BOOLEAN
      /\ \A j \in 1 .. n : segments[j].address \in Nat /\ segments[j].memsz \in Nat
  BY <1>1, HeaderTypes
<1>4. IsLoad(s) => /\ Fits(s)
                   /\ s.memsz # 0 => \A j \in 1 .. n : ~Overlaps(s, segments[j])
  BY <1>1, NoObjection DEF Types
<1>5. NoneYet'
  BY DEF NoneYet
<1>6. Types'
  <2>1. result' = result /\ stage' = stage /\ request' = request /\ copied' = copied
    OBVIOUS
  <2>2. copied \in Nat /\ copied = 0 /\ n + 1 \in Nat /\ copied <= n + 1
    BY <1>1 DEF Types
  <2> QED
    BY <1>1, <1>2, <2>1, <2>2 DEF Types
<1>7. SegmentsFit'
  <2> SUFFICES ASSUME NEW j \in 1 .. n + 1, IsLoad(segments'[j]) PROVE Fits(segments[j])'
    BY <1>2 DEF SegmentsFit, IsLoad
  <2>1. CASE j = n + 1
    BY <1>2, <1>4, <2>1 DEF Fits
  <2>2. CASE j \in 1 .. n
    BY <1>1, <1>2, <2>2 DEF Fits, ElfInv, SegmentsFit
  <2> QED
    BY <1>1, <2>1, <2>2
<1>8. Disjoint'
  <2> SUFFICES ASSUME NEW j \in 1 .. n + 1, NEW k \in 1 .. n + 1, j < k,
                      IsLoad(segments'[j]), IsLoad(segments'[k]),
                      segments'[j].memsz # 0, segments'[k].memsz # 0
               PROVE  \/ segments'[j].address + segments'[j].memsz <= segments'[k].address
                      \/ segments'[k].address + segments'[k].memsz <= segments'[j].address
    BY <1>2 DEF Disjoint, IsLoad
  <2>1. j \in 1 .. n /\ segments'[j] = segments[j]
    BY <1>1, <1>2
  <2>2. CASE k = n + 1
    <3>1. ~Overlaps(s, segments[j])
      BY <1>2, <1>4, <2>1, <2>2
    <3> QED
      BY <1>2, <1>3, <2>1, <2>2, <3>1 DEF Overlaps
  <2>3. CASE k \in 1 .. n
    BY <1>1, <1>2, <2>1, <2>3 DEF ElfInv, Disjoint
  <2>4. k \in 1 .. n \/ k = n + 1
    BY <1>1
  <2> QED
    BY <2>2, <2>3, <2>4, Zenon
<1>9. Bounds'
  <2>0. scan \in [lowest : Nat, highest : Nat, executable : BOOLEAN]
    BY <1>1 DEF ElfInv, Bounds
  <2>1. /\ scan.lowest \in Nat /\ scan.highest \in Nat /\ scan.highest <= request.size
        /\ scan.executable \in BOOLEAN
    BY <1>1, <2>0 DEF ElfInv, Bounds
  <2>2. scan.executable =>
          \E j \in 1 .. n : /\ IsLoad(segments[j]) /\ HoldsEntry(segments[j])
                            /\ scan.lowest <= segments[j].address
                            /\ segments[j].address + segments[j].memsz <= scan.highest
    BY <1>1, SegmentTypes DEF ElfInv, Bounds
  <2>3. CASE ~(IsLoad(s) /\ s.memsz # 0)
    <3>1. scan' = scan /\ request' = request
      BY <2>3
    <3>2. scan.executable =>
            \E j \in 1 .. n + 1 : /\ IsLoad(segments'[j]) /\ HoldsEntry(segments'[j])
                                  /\ scan.lowest <= segments'[j].address
                                  /\ segments'[j].address + segments'[j].memsz <= scan.highest
      BY <1>1, <1>2, <2>2
    <3> QED
      BY <1>2, <2>0, <2>1, <3>1, <3>2 DEF Bounds, HoldsEntry, IsLoad
  <2>4. CASE IsLoad(s) /\ s.memsz # 0
    <3>1. /\ scan'.lowest = IF s.address < scan.lowest THEN s.address ELSE scan.lowest
          /\ scan'.highest = IF s.address + s.memsz > scan.highest
                               THEN s.address + s.memsz ELSE scan.highest
          /\ scan'.executable = (scan.executable \/ HoldsEntry(s))
      <4>1. scan' = [scan EXCEPT !.lowest = IF s.address < @ THEN s.address ELSE @,
                                 !.highest = IF s.address + s.memsz > @ THEN s.address + s.memsz ELSE @,
                                 !.executable = @ \/ HoldsEntry(s)]
        BY <2>4 DEF Widen
      <4> QED
        BY <2>0, <4>1
    <3>2. /\ scan'.lowest \in Nat /\ scan'.highest \in Nat /\ scan'.executable \in BOOLEAN
          /\ scan'.lowest <= scan.lowest /\ scan.highest <= scan'.highest
          /\ scan'.lowest <= s.address /\ s.address + s.memsz <= scan'.highest
          /\ scan'.highest <= request.size
      <4>1. s.address + s.memsz <= request.size
        BY <1>4, <2>4 DEF Fits
      <4>2. scan'.executable \in BOOLEAN
        BY <2>1, <3>1 DEF HoldsEntry
      <4> QED
        BY <1>3, <2>1, <3>1, <4>1, <4>2
    <3>3. scan'.executable =>
            \E j \in 1 .. n + 1 : /\ IsLoad(segments'[j]) /\ HoldsEntry(segments'[j])
                                  /\ scan'.lowest <= segments'[j].address
                                  /\ segments'[j].address + segments'[j].memsz <= scan'.highest
      <4>1. CASE HoldsEntry(s)
        BY <1>1, <1>2, <2>4, <3>2, <4>1
      <4>2. CASE ~HoldsEntry(s)
        <5> SUFFICES ASSUME scan.executable
              PROVE \E j \in 1 .. n + 1 : /\ IsLoad(segments'[j]) /\ HoldsEntry(segments'[j])
                                  /\ scan'.lowest <= segments'[j].address
                                  /\ segments'[j].address + segments'[j].memsz <= scan'.highest
          BY <3>1, <4>2
        <5>1. PICK j \in 1 .. n : /\ IsLoad(segments[j]) /\ HoldsEntry(segments[j])
                                  /\ scan.lowest <= segments[j].address
                                  /\ segments[j].address + segments[j].memsz <= scan.highest
          BY <2>2
        <5> DEFINE l == scan.lowest
                   h == scan.highest
                   low == scan'.lowest
                   high == scan'.highest
                   a == segments[j].address
                   m == segments[j].memsz
        <5>2. /\ a \in Nat /\ m \in Nat /\ l \in Nat /\ h \in Nat /\ l <= a /\ a + m <= h
              /\ low \in Nat /\ high \in Nat /\ low <= l /\ h <= high
          BY <1>3, <2>1, <3>2, <5>1
        <5> HIDE DEF l, h, low, high, a, m
        <5>3. low <= a /\ a + m <= high
          BY <5>2, Wider
        <5> QED
          BY <1>1, <1>2, <5>1, <5>3 DEF low, high, a, m
      <4> QED
        BY <4>1, <4>2
    <3>4. scan' \in [lowest : Nat, highest : Nat, executable : BOOLEAN]
      BY <2>0, <2>4, <3>2 DEF Widen
    <3> QED
      BY <1>2, <3>2, <3>3, <3>4 DEF Bounds, HoldsEntry, IsLoad
  <2> QED
    BY <2>3, <2>4
<1>10. Building'
  BY <1>1 DEF Building, Copying
<1> QED
  BY <1>5, <1>6, <1>7, <1>8, <1>9, <1>10 DEF ElfInv

LEMMA ScanSegmentInv ==
  ASSUME ElfInv, NEW s \in Headers, ScanSegment(s)
  PROVE  ElfInv'
<1>0. stage = "scan" /\ segments' = Append(segments, s)
  BY Zenon DEF ScanSegment
<1>1. segments \in Seq(Headers) /\ Len(segments) \in Nat
  BY DEF ElfInv, Types
<1>2. segments' \in Seq(Headers) /\ Len(segments') >= Len(segments)
  BY <1>0, <1>1
<1>3. CASE ElfFail(Objection(s))
  BY <1>0, <1>1, <1>2, <1>3, FailInv
<1>4. CASE /\ Objection(s) = ""
           /\ scan' = IF IsLoad(s) /\ s.memsz # 0 THEN Widen(s) ELSE scan
           /\ UNCHANGED <<request, next, copied, owned, output, stage, result>>
  BY <1>0, <1>4, AcceptInv, Zenon DEF Accepted
<1> QED
  BY <1>3, <1>4, Zenon DEF ScanSegment

LEMMA NotRunnableInv == ElfInv /\ NotRunnable => ElfInv'
<1> SUFFICES ASSUME ElfInv, NotRunnable PROVE ElfInv'
  OBVIOUS
<1>1. stage = "scan" /\ segments' = segments /\ segments \in Seq(Headers) /\ Len(segments) \in Nat
  BY DEF NotRunnable, ElfInv, Types
<1> QED
  BY <1>1, FailInv DEF NotRunnable

\* The RAM is allocated zeroed, before anything is copied.
LEMMA AllocateRamInv == ElfInv /\ AllocateRam => ElfInv'
<1> SUFFICES ASSUME ElfInv, AllocateRam PROVE ElfInv'
  OBVIOUS
<1>1. /\ stage = "scan" /\ segments' = segments /\ segments \in Seq(Headers)
      /\ Len(segments) \in Nat /\ ~result.ok /\ scan.executable /\ scan.lowest < scan.highest
      /\ request.size \in Nat /\ copied = 0 /\ Accepting
  BY DEF AllocateRam, ElfInv, Types, Accepting
<1>2. CASE ElfFail("memory")
  BY <1>1, <1>2, FailInv
<1>3. CASE /\ next' = Program(Zeros(request.size), request.size, scan.lowest, request.entry,
                              scan.highest - scan.lowest)
           /\ stage' = "copy" /\ UNCHANGED <<request, scan, copied, output, result>>
  <2>1. Types' /\ NoneYet'
    BY <1>1, <1>3 DEF ElfInv, Types, NoneYet
  <2>2. SegmentsFit' /\ Disjoint' /\ Bounds'
    BY <1>1, <1>3 DEF ElfInv, SegmentsFit, Disjoint, Bounds, Fits, HoldsEntry
  <2>3. Placed(Zeros(request.size), 0)
    BY <1>1, ByteBaseAssumption DEF Placed, Zeros, Byte
  <2>4. next'.memory.bytes = Zeros(request.size)
    BY <1>3 DEF Program
  <2>5. Building'
    <3>1. request' = request /\ copied' = 0 /\ segments' = segments /\ scan' = scan /\ ~result'.ok
      BY <1>1, <1>3
    <3>2. Placed(next.memory.bytes, copied)'
      BY <2>3, <2>4, <3>1 DEF Placed
    <3> QED
      BY <1>1, <1>3, <2>4, <3>1, <3>2 DEF Building
  <2> QED
    BY <2>1, <2>2, <2>5 DEF ElfInv
<1> QED
  BY <1>2, <1>3 DEF AllocateRam

\* File bytes of regions that are apart are apart.
LEMMA Apart ==
  ASSUME NEW a \in Int, NEW b1 \in Nat, NEW f1 \in Nat, NEW m1 \in Nat,
         NEW b2 \in Nat, NEW f2 \in Nat, NEW m2 \in Nat,
         b1 <= a, a < b1 + f1, f1 <= m1, b2 <= a, a < b2 + f2, f2 <= m2,
         b1 + m1 <= b2 \/ b2 + m2 <= b1
  PROVE  FALSE
OBVIOUS

\* Copying one more segment disturbs none of those already copied, for they are disjoint.
LEMMA CopyOne ==
  ASSUME ElfInv, stage = "copy", copied < Len(segments), IsLoad(segments[copied + 1]),
         NEW bytes,
         bytes = [a \in DOMAIN next.memory.bytes |->
                   IF a \in FileBacked(segments[copied + 1])
                     THEN Content(segments[copied + 1].offset + a - segments[copied + 1].address)
                     ELSE next.memory.bytes[a]]
  PROVE  Placed(bytes, copied + 1)
<1> DEFINE s == segments[copied + 1]
           old == next.memory.bytes
<1>1. /\ Types /\ copied \in Nat /\ request.size \in Nat /\ Placed(old, copied)
      /\ segments \in Seq(Headers) /\ Len(segments) \in Nat /\ Accepting
  BY DEF ElfInv, Types, Building, Copying, Accepting
<1>2. /\ 1 .. copied + 1 \subseteq DOMAIN segments
      /\ \A j \in 1 .. copied + 1 : segments[j] \in Headers
  BY <1>1, SegmentTypes
<1>3. /\ s \in Headers /\ Fits(s)
      /\ \A j \in 1 .. copied : IsLoad(segments[j]) => Fits(segments[j])
  BY <1>1, <1>2 DEF ElfInv, SegmentsFit
<1>4. /\ s.offset \in Nat /\ s.address \in Nat /\ s.filesz \in Nat /\ s.memsz \in Nat
  BY <1>3, HeaderTypes
<1>5. /\ s.filesz <= s.memsz /\ s.offset + s.filesz <= FileSize
      /\ s.address + s.memsz <= request.size /\ FileSize \in Nat
  BY <1>3, ElfAssumption DEF Fits
<1>6. FileBacked(s) = s.address .. s.address + s.filesz - 1
  BY DEF FileBacked
<1>7. DOMAIN old = 0 .. request.size - 1 /\ \A a \in 0 .. request.size - 1 : old[a] \in Byte
  BY <1>1 DEF Placed
<1>8. /\ bytes = [a \in 0 .. request.size - 1 |->
                   IF a \in FileBacked(s) THEN Content(s.offset + a - s.address) ELSE old[a]]
  BY <1>7
<1> HIDE DEF s, old
<1>9. \A a \in FileBacked(s) : a \in 0 .. request.size - 1 /\ Content(s.offset + a - s.address) \in Byte
  <2> TAKE a \in FileBacked(s)
  <2>1. a \in s.address .. s.address + s.filesz - 1 /\ a \in Int
    BY <1>4, <1>6
  <2>2. s.offset + a - s.address \in 0 .. FileSize - 1 /\ a \in 0 .. request.size - 1
    BY <1>1, <1>4, <1>5, <2>1, InFileAndRam, Zenon
  <2> QED
    BY <2>2, ElfAssumption, Zenon
<1>10. bytes \in [0 .. request.size - 1 -> Byte]
  BY <1>7, <1>8, <1>9
<1>11. ASSUME NEW j \in 1 .. copied, IsLoad(segments[j]), NEW a \in FileBacked(segments[j])
       PROVE  a \in 0 .. request.size - 1 /\ a \notin FileBacked(s)
  <2>1. /\ segments[j] \in Headers /\ Fits(segments[j]) /\ j \in DOMAIN segments
        /\ copied + 1 \in DOMAIN segments /\ j < copied + 1
    BY <1>1, <1>2, <1>3, <1>11
  <2>2. /\ segments[j].address \in Nat /\ segments[j].filesz \in Nat /\ segments[j].memsz \in Nat
    BY <2>1, HeaderTypes
  <2>3. /\ a \in Int /\ segments[j].address <= a /\ a < segments[j].address + segments[j].filesz
        /\ segments[j].filesz <= segments[j].memsz
        /\ segments[j].address + segments[j].memsz <= request.size
    BY <1>11, <2>1, <2>2 DEF FileBacked, Fits
  <2>4. a \in 0 .. request.size - 1 /\ segments[j].memsz # 0
    BY <1>1, <2>2, <2>3
  <2>5. ASSUME a \in FileBacked(s) PROVE FALSE
    <3>1. s.address <= a /\ a < s.address + s.filesz
      BY <1>4, <1>6, <2>3, <2>5
    <3>2. s.memsz # 0
      BY <1>4, <1>5, <2>3, <3>1
    <3>3. \/ segments[j].address + segments[j].memsz <= s.address
          \/ s.address + s.memsz <= segments[j].address
      BY <1>1, <1>11, <2>1, <2>4, <3>2 DEF ElfInv, Disjoint, s
    <3> QED
      BY <1>4, <1>5, <2>2, <2>3, <3>1, <3>3, Apart
  <2> QED
    BY <2>4, <2>5
<1>12. ASSUME NEW j \in 1 .. copied + 1, IsLoad(segments[j]), NEW a \in FileBacked(segments[j])
       PROVE  bytes[a] = Content(segments[j].offset + a - segments[j].address)
  <2>1. CASE j = copied + 1
    BY <1>8, <1>9, <1>12, <2>1 DEF s
  <2>2. CASE j \in 1 .. copied
    <3>1. a \in 0 .. request.size - 1 /\ a \notin FileBacked(s)
      BY <1>11, <1>12, <2>2
    <3>2. bytes[a] = old[a]
      BY <1>8, <3>1
    <3> QED
      BY <1>1, <1>12, <2>2, <3>2 DEF Placed
  <2> QED
    BY <1>1, <2>1, <2>2
<1>13. ASSUME NEW a \in 0 .. request.size - 1,
              \A j \in 1 .. copied + 1 : IsLoad(segments[j]) => a \notin FileBacked(segments[j])
       PROVE  bytes[a] = 0
  <2>1. copied + 1 \in 1 .. copied + 1 /\ 1 .. copied \subseteq 1 .. copied + 1
    BY <1>1
  <2>2. a \notin FileBacked(s)
    BY <1>13, <2>1 DEF s
  <2>3. bytes[a] = old[a]
    BY <1>8, <2>2
  <2>4. old[a] = 0
    BY <1>1, <1>13, <2>1 DEF Placed
  <2> QED
    BY <2>3, <2>4
<1> QED
  BY <1>10, <1>12, <1>13 DEF Placed

LEMMA CopySegmentInv == ElfInv /\ CopySegment => ElfInv'
<1> SUFFICES ASSUME ElfInv, CopySegment PROVE ElfInv'
  OBVIOUS
<1> DEFINE s == segments[copied + 1]
           old == next.memory.bytes
<1>1. /\ stage = "copy" /\ copied < Len(segments) /\ copied' = copied + 1
      /\ request' = request /\ segments' = segments /\ scan' = scan /\ output' = output
      /\ stage' = stage /\ result' = result
  BY DEF CopySegment
<1>2. /\ copied \in Nat /\ Len(segments) \in Nat /\ ~result.ok /\ Accepting /\ Copying
      /\ Placed(old, copied) /\ scan.executable /\ scan.lowest < scan.highest
      /\ next = Program(old, request.size, scan.lowest, request.entry, scan.highest - scan.lowest)
  BY <1>1 DEF ElfInv, Types, Building, Copying, Accepting
<1>3. Types' /\ NoneYet'
  BY <1>1, <1>2 DEF ElfInv, Types, NoneYet
<1>4. SegmentsFit' /\ Disjoint' /\ Bounds'
  BY <1>1, <1>2 DEF ElfInv, SegmentsFit, Disjoint, Bounds, Fits, HoldsEntry
<1>5. Building'
  <2>1. CASE IsLoad(s)
    <3> DEFINE bytes == [a \in DOMAIN old |-> IF a \in FileBacked(s)
                           THEN Content(s.offset + a - s.address) ELSE old[a]]
    <3>1. Placed(bytes, copied + 1)
      BY <1>1, <2>1, CopyOne
    <3>2. next' = [next EXCEPT !.memory.bytes = bytes]
      BY <1>1, <2>1 DEF CopySegment, CopiedLength, FileBacked
    <3> HIDE DEF bytes
    <3>3. next' = Program(bytes, request.size, scan.lowest, request.entry,
                          scan.highest - scan.lowest)
      <4> HIDE DEF old
      <4> QED
        BY <1>2, <3>2 DEF Program
    <3>4. next'.memory.bytes = bytes
      BY <3>3 DEF Program
    <3>5. Placed(next.memory.bytes, copied)'
      BY <1>1, <3>1, <3>4 DEF Placed
    <3> QED
      BY <1>1, <1>2, <3>3, <3>4, <3>5 DEF Building
  <2>2. CASE ~IsLoad(s)
    <3>1. next' = next
      BY <1>1, <2>2 DEF CopySegment
    <3>2. Placed(old, copied + 1)
      BY <1>2, <2>2 DEF Placed
    <3>3. Placed(next.memory.bytes, copied)'
      BY <1>1, <3>1, <3>2 DEF Placed
    <3> QED
      BY <1>1, <1>2, <3>1, <3>3 DEF Building
  <2> QED
    BY <2>1, <2>2
<1> QED
  BY <1>3, <1>4, <1>5 DEF ElfInv

LEMMA ReplaceInv == ElfInv /\ ReplaceProgram => ElfInv'
<1> SUFFICES ASSUME ElfInv, ReplaceProgram PROVE ElfInv'
  OBVIOUS
<1>1. /\ stage = "copy" /\ copied = Len(segments) /\ output' = next /\ stage' = "done"
      /\ request' = request /\ segments' = segments /\ scan' = scan /\ next' = next
      /\ copied' = copied
  BY DEF ReplaceProgram
<1>2. result'.ok = TRUE
  BY DEF ReplaceProgram
<1>3. Copying /\ Accepting /\ Copying' /\ Accepting'
  BY <1>1, <1>2 DEF Copying, Accepting
<1>4. Types' /\ NoneYet'
  BY <1>1, <1>2 DEF ElfInv, Types, NoneYet
<1>5. SegmentsFit' /\ Disjoint' /\ Bounds'
  BY <1>1, <1>3 DEF ElfInv, SegmentsFit, Disjoint, Bounds, Fits, HoldsEntry
<1>6. Building'
  <2>1. Placed(next.memory.bytes, copied)'
    BY <1>1, <1>3 DEF ElfInv, Building, Placed
  <2> QED
    BY <1>1, <1>3, <2>1 DEF ElfInv, Building
<1> QED
  BY <1>4, <1>5, <1>6 DEF ElfInv

LEMMA StutterInv == ElfInv /\ UNCHANGED elfVars => ElfInv'
<1> SUFFICES ASSUME ElfInv, UNCHANGED elfVars PROVE ElfInv'
  OBVIOUS
<1>1. /\ request' = request /\ segments' = segments /\ scan' = scan /\ next' = next
      /\ copied' = copied /\ output' = output /\ stage' = stage /\ result' = result
  BY DEF elfVars
<1>2. Types' /\ NoneYet'
  BY <1>1 DEF ElfInv, Types, NoneYet
<1>3. SegmentsFit' /\ Disjoint' /\ Bounds'
  BY <1>1 DEF ElfInv, SegmentsFit, Disjoint, Bounds, Fits, HoldsEntry, Accepting, Copying
<1>4. Building'
  BY <1>1 DEF ElfInv, Building, Copying, Placed
<1> QED
  BY <1>2, <1>3, <1>4 DEF ElfInv

\* Every step of load_elf keeps the segments that were accepted inside the RAM and apart,
\* and what has been copied in its place.
THEOREM ElfInvariant == ElfSpec => []ElfInv
<1>1. ElfInv /\ [ElfNext]_elfVars => ElfInv'
  <2> SUFFICES ASSUME ElfInv, [ElfNext]_elfVars PROVE ElfInv'
    OBVIOUS
  <2>1. ASSUME NEW s \in Headers, ScanSegment(s) PROVE ElfInv'
    BY <2>1, ScanSegmentInv
  <2>2. CASE ElfDone
    BY <2>2, StutterInv DEF ElfDone
  <2>3. CASE ReadFile \/ CheckHeader \/ NotRunnable \/ AllocateRam \/ CopySegment \/ ReplaceProgram
    BY <2>3, ReadFileInv, CheckHeaderInv, NotRunnableInv, AllocateRamInv, CopySegmentInv, ReplaceInv
  <2> QED
    BY <2>1, <2>2, <2>3, StutterInv DEF ElfNext
<1> QED
  BY <1>1, InitInv, PTL DEF ElfSpec
-----------------------------------------------------------------------------
\* The segment that holds the entry lies in the image that is delivered.
LEMMA EntrySegment ==
  ASSUME ElfInv, result.ok
  PROVE  \E j \in Loads :
           /\ HoldsEntry(segments[j]) /\ Fits(segments[j]) /\ segments[j] \in Headers
           /\ scan.lowest <= segments[j].address
           /\ segments[j].address + segments[j].memsz <= scan.highest
BY SegmentTypes DEF ElfInv, Bounds, Building, SegmentsFit, Accepting, Copying, Loads

\* What load_elf delivers machine_load accepts: the entry is aligned, and its four bytes
\* lie in the image, whatever the segments are and in whatever order they come.
THEOREM DeliversLoadableProgram == ElfSpec => []ElfDeliversLoadable
<1>1. ElfInv => ElfDeliversLoadable
  <2> SUFFICES ASSUME ElfInv, result.ok PROVE LoadAccepts(output)
    BY DEF ElfDeliversLoadable
  <2> DEFINE bytes == next.memory.bytes
  <2>1. output = Program(bytes, request.size, scan.lowest, request.entry,
                         scan.highest - scan.lowest)
    BY DEF ElfInv, Building, Copying
  <2>2. /\ output.memory.bytes = bytes /\ output.memory.size = request.size
        /\ output.load_address = scan.lowest /\ output.entry = request.entry
        /\ output.image_size = scan.highest - scan.lowest
    BY <2>1 DEF Program
  <2>3. bytes # Null
    <3>1. bytes \in [0 .. request.size - 1 -> Byte]
      BY DEF ElfInv, Building, Copying, Placed
    <3> QED
      BY <3>1, ElfAssumption DEF ElfInv, Types
  <2>4. PICK j \in Loads :
           /\ HoldsEntry(segments[j]) /\ Fits(segments[j]) /\ segments[j] \in Headers
           /\ scan.lowest <= segments[j].address
           /\ segments[j].address + segments[j].memsz <= scan.highest
    BY EntrySegment
  <2> DEFINE s == segments[j]
  <2>5. s.address \in Nat /\ s.filesz \in Nat /\ s.memsz \in Nat /\ s.filesz <= s.memsz
    BY <2>4, HeaderTypes DEF Fits
  <2>6. /\ scan \in [lowest : Nat, highest : Nat, executable : BOOLEAN]
        /\ scan.highest <= request.size
    BY DEF ElfInv, Bounds, Accepting, Copying
  <2>7. scan.lowest \in Nat /\ scan.highest \in Nat
    BY <2>6
  <2>8. request.size \in Nat /\ request.entry \in Nat /\ SizeValid(request.size)
    BY DEF ElfInv, Types
  <2>9. /\ s.filesz >= 4 /\ request.entry >= s.address
        /\ request.entry - s.address <= s.filesz - 4 /\ request.entry % WordSize = 0
    BY <2>4 DEF HoldsEntry, WordSize
  <2> HIDE DEF bytes, s
  <2>10. /\ scan.lowest <= s.address /\ s.address + s.memsz <= scan.highest
    BY <2>4 DEF s
  <2>11. /\ scan.highest - scan.lowest >= 4 /\ scan.lowest <= request.size - 4
         /\ scan.highest - scan.lowest <= request.size - scan.lowest
         /\ request.entry >= scan.lowest
         /\ request.entry - scan.lowest <= (scan.highest - scan.lowest) - 4
    BY <2>5, <2>6, <2>7, <2>8, <2>9, <2>10
  <2> QED
    BY <2>2, <2>3, <2>8, <2>9, <2>11 DEF LoadAccepts, WordSize
<1> QED
  BY <1>1, ElfInvariant, PTL

\* The test of a segment for the entry, and what it is for.
LEMMA HoldsWholeInstruction ==
  ASSUME NEW s \in Headers, request.entry \in Nat
  PROVE  HoldsEntry(s) <=> HoldsInstruction(s, request.entry) /\ request.entry % WordSize = 0
<1> DEFINE e == request.entry
<1>1. s.address \in Nat /\ s.filesz \in Nat /\ e \in Nat
  BY HeaderTypes
<1>2. e .. e + 3 \subseteq s.address .. s.address + s.filesz - 1
        <=> s.filesz >= 4 /\ e >= s.address /\ e - s.address <= s.filesz - 4
  <2> HIDE DEF e
  <2>1. ASSUME e .. e + 3 \subseteq s.address .. s.address + s.filesz - 1
        PROVE  s.filesz >= 4 /\ e >= s.address /\ e - s.address <= s.filesz - 4
    <3>1. e \in e .. e + 3 /\ e + 3 \in e .. e + 3
      BY <1>1
    <3>2. e \in s.address .. s.address + s.filesz - 1
          /\ e + 3 \in s.address .. s.address + s.filesz - 1
      BY <2>1, <3>1
    <3> QED
      BY <1>1, <3>2
  <2>2. ASSUME s.filesz >= 4, e >= s.address, e - s.address <= s.filesz - 4
        PROVE  e .. e + 3 \subseteq s.address .. s.address + s.filesz - 1
    BY <1>1, <2>2
  <2> QED
    BY <2>1, <2>2
<1> QED
  BY <1>1, <1>2 DEF HoldsEntry, HoldsInstruction, FileBacked, WordSize

\* The four bytes of the first instruction come from the file.
THEOREM EntryComesFromFile == ElfSpec => []EntryIsFileBacked
<1>1. ElfInv => EntryIsFileBacked
  <2> SUFFICES ASSUME ElfInv, result.ok
               PROVE \E j \in Loads : HoldsInstruction(segments[j], output.entry)
    BY DEF EntryIsFileBacked
  <2>1. output.entry = request.entry /\ request.entry \in Nat
    BY DEF ElfInv, Building, Copying, Program, Types
  <2>2. PICK j \in Loads : HoldsEntry(segments[j]) /\ segments[j] \in Headers
    BY EntrySegment
  <2> QED
    BY <2>1, <2>2, HoldsWholeInstruction
<1> QED
  BY <1>1, ElfInvariant, PTL

\* The RAM that is delivered holds every byte of every segment, and zeros elsewhere.
THEOREM SegmentsAreInPlace == ElfSpec => []SegmentsInPlace
<1>1. ElfInv => SegmentsInPlace
  <2> SUFFICES ASSUME ElfInv, result.ok PROVE SegmentsInPlace
    BY DEF SegmentsInPlace
  <2> DEFINE bytes == output.memory.bytes
  <2>1. output = next /\ copied = Len(segments)
    BY DEF ElfInv, Building, Copying, Types
  <2>2. Placed(bytes, Len(segments))
    BY <2>1 DEF ElfInv, Building, Copying
  <2>3. Loads = {j \in 1 .. Len(segments) : IsLoad(segments[j])}
    BY SegmentTypes DEF ElfInv, Loads
  <2>4. DOMAIN bytes = 0 .. request.size - 1
    BY <2>2 DEF Placed
  <2> HIDE DEF bytes
  <2>5. \A j \in Loads : \A a \in FileBacked(segments[j]) :
          bytes[a] = Content(segments[j].offset + a - segments[j].address)
    BY <2>2, <2>3 DEF Placed
  <2>6. \A a \in DOMAIN bytes :
          (\A j \in Loads : a \notin FileBacked(segments[j])) => bytes[a] = 0
    BY <2>2, <2>3, <2>4 DEF Placed
  <2> QED
    BY <2>5, <2>6 DEF SegmentsInPlace, bytes
<1> QED
  BY <1>1, ElfInvariant, PTL
-----------------------------------------------------------------------------
(* The refusals: each has the reason that its message gives, and none is missed. *)

\* The headers that were accepted have no fault of their own.
Passed ==
  Accepting => \A j \in DOMAIN segments : \A m \in FaultMessages : ~HeaderIsWrong(m, segments[j])

\* A segment with the entry is not overlooked.
Found == Accepting => ((\E j \in Loads : HoldsEntry(segments[j])) => scan.executable)

NothingWrong == \A m \in FaultMessages : ~FileIsWrong(m)
Justified ==
  /\ stage # "done" => result.message = "running"
  /\ result.message \in FaultMessages => FileIsWrong(result.message)
  /\ result.message = "memory" => NothingWrong

ReasonInv == Passed /\ Found /\ Justified

\* A small multiple of n is 0.
LEMMA SmallMultiple ==
  ASSUME NEW n \in Nat, NEW d \in Int, -n < n * d, n * d < n
  PROVE  d = 0
<1>1. CASE d >= 1
  <2>1. n * d >= n
    BY <1>1
  <2> QED
    BY <2>1
<1>2. CASE d <= -1
  <2>1. n * d <= -n
    BY <1>2
  <2> QED
    BY <2>1
<1> QED
  BY <1>1, <1>2

\* Two numbers leave the same remainder when their difference leaves none.
LEMMA SameRemainder ==
  ASSUME NEW a \in Nat, NEW b \in Nat, NEW n \in Nat, n > 1
  PROVE  a % n = b % n <=> (a - b) % n = 0
<1> DEFINE q == (a - b) \div n
           r == (a - b) % n
           qa == a \div n
           ra == a % n
           qb == b \div n
           rb == b % n
<1>1. /\ q \in Int /\ r \in 0 .. n - 1 /\ a - b = n * q + r
      /\ qa \in Int /\ ra \in 0 .. n - 1 /\ a = n * qa + ra
      /\ qb \in Int /\ rb \in 0 .. n - 1 /\ b = n * qb + rb
  OBVIOUS
<1> HIDE DEF q, r, qa, ra, qb, rb
<1>2. n * q + r = n * (qa - qb) + (ra - rb)
  BY <1>1
<1>3. n * (q - (qa - qb)) = (ra - rb) - r /\ q - (qa - qb) \in Int
  BY <1>1, <1>2
<1>4. ASSUME ra = rb PROVE r = 0
  <2>1. -n < n * (q - (qa - qb)) /\ n * (q - (qa - qb)) < n
    BY <1>1, <1>3, <1>4
  <2>2. q - (qa - qb) = 0
    BY <1>3, <2>1, SmallMultiple
  <2> QED
    BY <1>1, <1>3, <1>4, <2>2
<1>5. ASSUME r = 0 PROVE ra = rb
  <2>1. -n < n * (q - (qa - qb)) /\ n * (q - (qa - qb)) < n
    BY <1>1, <1>3, <1>5
  <2>2. q - (qa - qb) = 0
    BY <1>3, <2>1, SmallMultiple
  <2> QED
    BY <1>1, <1>3, <1>5, <2>2
<1> QED
  BY <1>4, <1>5 DEF r, ra, rb

LEMMA AlignmentMeans ==
  ASSUME NEW s \in Headers
  PROVE  AlignmentValid(s) <=>
           (s.align > 1 => PowerOfTwo(s.align) /\ (s.address - s.offset) % s.align = 0)
<1>1. s.address \in Nat /\ s.offset \in Nat /\ s.align \in Nat
  BY HeaderTypes
<1>2. s.align > 1 =>
        (s.address % s.align = s.offset % s.align <=> (s.address - s.offset) % s.align = 0)
  BY <1>1, SameRemainder
<1> QED
  BY <1>2 DEF AlignmentValid

LEMMA OverlapShares ==
  ASSUME NEW s \in Headers, NEW t \in Headers, s.memsz # 0, Overlaps(s, t)
  PROVE  Occupied(s) \cap Occupied(t) # {}
<1>1. /\ s.address \in Nat /\ s.memsz \in Nat /\ t.address \in Nat /\ t.memsz \in Nat
  BY HeaderTypes
<1>2. t.memsz # 0 /\ s.address < t.address + t.memsz /\ t.address < s.address + s.memsz
  BY DEF Overlaps
<1>3. CASE s.address >= t.address
  <2>1. s.memsz > 0
    BY <1>1, <1>2, <1>3
  <2>2. s.address \in Occupied(s) /\ s.address \in Occupied(t)
    BY <1>1, <1>2, <1>3, <2>1 DEF Occupied
  <2> QED
    BY <2>2
<1>4. CASE s.address < t.address
  <2>1. t.address \in Occupied(s) /\ t.address \in Occupied(t)
    BY <1>1, <1>2, <1>4 DEF Occupied
  <2> QED
    BY <2>1
<1> QED
  BY <1>1, <1>3, <1>4

\* A header that is accepted has no fault.
LEMMA AcceptedIsRight ==
  ASSUME NEW s \in Headers, Accepted(s), Types
  PROVE  \A m \in FaultMessages : ~HeaderIsWrong(m, s)
<1>1. s.type \notin Unsupported
  BY Zenon DEF Accepted, Objection
<1>2. CASE ~IsLoad(s)
  BY <1>1, <1>2 DEF HeaderIsWrong
<1>3. CASE IsLoad(s)
  <2>1. Fits(s) /\ s.physical = s.address /\ AlignmentValid(s)
    BY <1>3, NoObjection
  <2>2. /\ s.filesz \in Nat /\ s.memsz \in Nat /\ s.offset \in Nat /\ s.address \in Nat
        /\ request.size \in Nat /\ FileSize \in Nat
    BY HeaderTypes, ElfAssumption DEF Types
  <2>3. /\ ~(s.filesz > s.memsz \/ s.offset + s.filesz > FileSize)
        /\ ~(s.address + s.memsz > request.size)
    BY <2>1, <2>2 DEF Fits
  <2>4. s.align > 1 => PowerOfTwo(s.align) /\ (s.address - s.offset) % s.align = 0
    BY <2>1, AlignmentMeans
  <2> QED
    BY <1>1, <2>1, <2>3, <2>4 DEF HeaderIsWrong
<1> QED
  BY <1>2, <1>3

\* A header that is refused has the fault that the message names, or overlaps another.
LEMMA ObjectionIsFault ==
  ASSUME NEW s \in Headers, Types, ~Accepted(s)
  PROVE  \/ HeaderIsWrong(Objection(s), s)
         \/ /\ Objection(s) = "overlap" /\ IsLoad(s) /\ s.memsz # 0
            /\ \E j \in DOMAIN segments : Overlaps(s, segments[j])
<1>1. CASE s.type \in Unsupported
  <2>1. Objection(s) = "unsupported"
    BY <1>1, Zenon DEF Objection
  <2> QED
    BY <1>1, <2>1 DEF HeaderIsWrong
<1>2. CASE s.type \notin Unsupported /\ ~IsLoad(s)
  BY <1>2, Zenon DEF Objection, Accepted
<1>3. CASE s.type \notin Unsupported /\ IsLoad(s)
  <2> DEFINE exceeds == s.filesz > s.memsz \/ ~InRange(s.offset, s.filesz, FileSize)
             outside == ~InRange(s.address, s.memsz, request.size)
             overlap == s.memsz # 0 /\ \E j \in DOMAIN segments : Overlaps(s, segments[j])
             o == Objection(s)
  <2>0. o = IF exceeds THEN "exceeds"
            ELSE IF s.physical # s.address THEN "physical"
            ELSE IF ~AlignmentValid(s) THEN "alignment"
            ELSE IF outside THEN "fit" ELSE IF overlap THEN "overlap" ELSE ""
    BY <1>3, Zenon DEF Objection
  <2>1. /\ s.filesz \in Nat /\ s.memsz \in Nat /\ s.offset \in Nat /\ s.address \in Nat
        /\ request.size \in Nat /\ FileSize \in Nat
    BY HeaderTypes, ElfAssumption DEF Types
  <2>2. exceeds => s.filesz > s.memsz \/ s.offset + s.filesz > FileSize
    BY <2>1 DEF InRange
  <2>3. outside => s.address + s.memsz > request.size
    BY <2>1 DEF InRange
  <2>4. ~AlignmentValid(s) =>
          s.align > 1 /\ (~PowerOfTwo(s.align) \/ (s.address - s.offset) % s.align # 0)
    BY AlignmentMeans
  <2>5. o # ""
    BY DEF Accepted
  <2> HIDE DEF exceeds, outside, overlap, o
  <2>6. \/ o = "exceeds" /\ exceeds
        \/ o = "physical" /\ s.physical # s.address
        \/ o = "alignment" /\ ~AlignmentValid(s)
        \/ o = "fit" /\ outside
        \/ o = "overlap" /\ overlap
    BY <2>0, <2>5, Zenon
  <2>7. HeaderIsWrong(o, s) \/ (o = "overlap" /\ overlap)
    BY <1>3, <2>2, <2>3, <2>4, <2>6, Zenon DEF HeaderIsWrong
  <2> QED
    BY <1>3, <2>7 DEF o, overlap
<1> QED
  BY <1>1, <1>2, <1>3

\* No two of the segments that were accepted share an address.
LEMMA AcceptedApart ==
  ASSUME ElfInv, Accepting
  PROVE  ~Shared
<1> SUFFICES ASSUME NEW j \in Loads, NEW k \in Loads, j < k,
                    NEW a \in Occupied(segments[j]), a \in Occupied(segments[k])
             PROVE  FALSE
  BY DEF Shared
<1>1. /\ j \in DOMAIN segments /\ k \in DOMAIN segments /\ IsLoad(segments[j])
      /\ IsLoad(segments[k]) /\ segments[j] \in Headers /\ segments[k] \in Headers
  BY SegmentTypes DEF Loads, ElfInv
<1>2. /\ segments[j].address \in Nat /\ segments[j].memsz \in Nat
      /\ segments[k].address \in Nat /\ segments[k].memsz \in Nat
  BY <1>1, HeaderTypes
<1>3. /\ a \in Int /\ segments[j].address <= a /\ a < segments[j].address + segments[j].memsz
      /\ segments[k].address <= a /\ a < segments[k].address + segments[k].memsz
  BY <1>2 DEF Occupied
<1>4. segments[j].memsz # 0 /\ segments[k].memsz # 0
  BY <1>2, <1>3
<1>5. \/ segments[j].address + segments[j].memsz <= segments[k].address
      \/ segments[k].address + segments[k].memsz <= segments[j].address
  BY <1>1, <1>4 DEF ElfInv, Disjoint
<1> QED
  BY <1>2, <1>3, <1>5, Apart

\* What the scan has let through, with a segment for the entry, has no fault.
LEMMA RunnableIsRight ==
  ASSUME ElfInv, Passed, Accepting, scan.executable, SizeValid(request.size)
  PROVE  NothingWrong
<1>1. PICK j \in DOMAIN segments : IsLoad(segments[j]) /\ HoldsEntry(segments[j])
  BY DEF ElfInv, Bounds
<1>2. segments[j] \in Headers /\ request.entry \in Nat /\ j \in Loads
  BY <1>1, SegmentTypes DEF ElfInv, Types, Loads
<1>3. HoldsInstruction(segments[j], request.entry) /\ request.entry % WordSize = 0
  BY <1>1, <1>2, HoldsWholeInstruction
<1>4. ~Shared
  BY AcceptedApart
<1> QED
  BY <1>2, <1>3, <1>4 DEF NothingWrong, FileIsWrong, Passed

\* A program that cannot run has no segment with the whole instruction at its entry.
LEMMA NotRunnableIsWrong ==
  ASSUME ElfInv, Found, stage = "scan", ~scan.executable \/ scan.lowest >= scan.highest
  PROVE  FileIsWrong("entry")
<1>1. Accepting /\ request.entry \in Nat
  BY DEF Accepting, ElfInv, Types
<1>2. ~scan.executable
  <2> SUFFICES ASSUME scan.executable PROVE FALSE
    OBVIOUS
  <2>1. PICK j \in DOMAIN segments :
          /\ IsLoad(segments[j]) /\ HoldsEntry(segments[j])
          /\ scan.lowest <= segments[j].address
          /\ segments[j].address + segments[j].memsz <= scan.highest
    BY <1>1 DEF ElfInv, Bounds
  <2>2. segments[j] \in Headers /\ segments[j].filesz <= segments[j].memsz
    BY <1>1, <2>1, SegmentTypes DEF ElfInv, SegmentsFit, Fits
  <2>3. /\ segments[j].address \in Nat /\ segments[j].filesz \in Nat
        /\ segments[j].memsz \in Nat /\ segments[j].filesz >= 4
    BY <2>1, <2>2, HeaderTypes DEF HoldsEntry, WordSize
  <2>4. scan \in [lowest : Nat, highest : Nat, executable : BOOLEAN]
    BY <1>1 DEF ElfInv, Bounds
  <2>5. scan.lowest \in Nat /\ scan.highest \in Nat
    BY <2>4
  <2>6. scan.lowest < scan.highest
    BY <2>1, <2>2, <2>3, <2>5
  <2> QED
    BY <2>5, <2>6
<1>3. \A j \in Loads : segments[j] \in Headers /\ ~HoldsEntry(segments[j])
  BY <1>1, <1>2, SegmentTypes DEF Found, Loads, ElfInv
<1>4. request.entry % WordSize = 0 =>
        \A j \in Loads : ~HoldsInstruction(segments[j], request.entry)
  BY <1>1, <1>3, HoldsWholeInstruction
<1> QED
  BY <1>4 DEF FileIsWrong

\* A step that goes on, or ends for a reason that is none of the faults.
LEMMA OtherwiseJustified ==
  ASSUME Justified, stage # "done",
         \/ UNCHANGED result
         \/ stage' = "done" /\ result'.message \notin FaultMessages \cup {"memory"}
  PROVE  Justified'
<1>1. "running" \notin FaultMessages \cup {"memory"}
  BY DEF FaultMessages
<1>2. result'.message \notin FaultMessages \cup {"memory"}
  BY <1>1 DEF Justified
<1> QED
  BY <1>2 DEF Justified

LEMMA ScanReason ==
  ASSUME ElfInv, ReasonInv, NEW s \in Headers, ScanSegment(s)
  PROVE  ReasonInv'
<1> DEFINE n == Len(segments)
<1>1. stage = "scan" /\ segments' = Append(segments, s) /\ request' = request
  BY Zenon DEF ScanSegment, ElfFail
<1>2. /\ Types /\ segments \in Seq(Headers) /\ n \in Nat /\ DOMAIN segments = 1 .. n
      /\ \A j \in 1 .. n : segments[j] \in Headers
      /\ Accepting
  BY <1>1, SegmentTypes DEF ElfInv, Types, Accepting
<1>3. /\ DOMAIN segments' = 1 .. n + 1 /\ segments'[n + 1] = s
      /\ \A j \in 1 .. n : segments'[j] = segments[j]
  BY <1>1, <1>2
<1>4. CASE ~Accepted(s) /\ ElfFail(Objection(s))
  <2>0. PICK m : m = Objection(s)
    OBVIOUS
  <2>1. stage' = "done" /\ result'.ok = FALSE /\ result'.message = m
    BY <1>4, <2>0 DEF ElfFail
  <2>2. Passed' /\ Found'
    BY <2>1 DEF Passed, Found, Accepting, Copying
  <2>3. FileIsWrong(m)'
    <3>1. CASE HeaderIsWrong(m, s)
      <4>1. PICK k : k \in DOMAIN segments' /\ segments'[k] = s
        BY <1>2, <1>3
      <4>2. HeaderIsWrong(m, segments[k])'
        BY <1>1, <3>1, <4>1 DEF HeaderIsWrong
      <4> QED
        BY <4>1, <4>2 DEF FileIsWrong
    <3>2. CASE /\ m = "overlap" /\ IsLoad(s) /\ s.memsz # 0
               /\ \E j \in DOMAIN segments : Overlaps(s, segments[j])
      <4>1. PICK j \in 1 .. n : Overlaps(s, segments[j])
        BY <1>2, <3>2
      <4>2. IsLoad(segments[j]) /\ segments[j] \in Headers
        BY <1>2, <4>1 DEF Overlaps
      <4>3. Occupied(s) \cap Occupied(segments[j]) # {}
        BY <3>2, <4>1, <4>2, OverlapShares
      <4>4. j \in 1 .. n + 1 /\ n + 1 \in 1 .. n + 1 /\ j < n + 1
        BY <1>2
      <4>5. /\ segments'[j] = segments[j] /\ segments'[n + 1] = s
            /\ j \in Loads' /\ n + 1 \in Loads'
        BY <1>3, <3>2, <4>2, <4>4 DEF Loads
      <4>6. Occupied(segments'[j]) \cap Occupied(segments'[n + 1]) # {}
        BY <4>3, <4>5
      <4>7. Shared'
        BY <4>4, <4>5, <4>6, Zenon DEF Shared
      <4> QED
        BY <3>2, <4>7 DEF FileIsWrong
    <3> QED
      BY <1>2, <1>4, <2>0, <3>1, <3>2, ObjectionIsFault
  <2>4. result'.message # "memory"
    <3>1. m \in FaultMessages
      BY Zenon, <1>4, <2>0 DEF Objection, FaultMessages, Accepted
    <3> QED
      BY <2>1, <3>1 DEF FaultMessages
  <2>5. Justified'
    BY <2>1, <2>3, <2>4 DEF Justified
  <2> QED
    BY <2>2, <2>5 DEF ReasonInv
<1>5. CASE /\ Accepted(s) /\ UNCHANGED <<result, stage>>
           /\ scan' = IF IsLoad(s) /\ s.memsz # 0 THEN Widen(s) ELSE scan
  <2>1. Accepting'
    BY <1>1, <1>5 DEF Accepting
  <2>2. Passed'
    <3> SUFFICES ASSUME NEW j \in 1 .. n + 1, NEW m \in FaultMessages
                 PROVE  ~HeaderIsWrong(m, segments[j])'
      BY <1>3, <2>1 DEF Passed
    <3>1. CASE j = n + 1
      <4>1. ~HeaderIsWrong(m, s)
        BY <1>2, <1>5, AcceptedIsRight
      <4> QED
        BY <1>1, <1>3, <3>1, <4>1 DEF HeaderIsWrong
    <3>2. CASE j \in 1 .. n
      <4>1. ~HeaderIsWrong(m, segments[j])
        BY <1>2, <3>2 DEF ReasonInv, Passed
      <4> QED
        BY <1>1, <1>3, <3>2, <4>1 DEF HeaderIsWrong
    <3> QED
      BY <1>2, <3>1, <3>2
  <2>3. Found'
    <3> SUFFICES ASSUME NEW j \in Loads', HoldsEntry(segments[j])' PROVE scan'.executable
      BY DEF Found
    <3>1. j \in 1 .. n + 1 /\ IsLoad(segments'[j]) /\ HoldsEntry(segments'[j])
      BY <1>1, <1>3 DEF Loads, HoldsEntry
    <3>2. scan \in [lowest : Nat, highest : Nat, executable : BOOLEAN]
      BY <1>2 DEF ElfInv, Bounds
    <3>3. scan.executable => scan'.executable
      BY <1>5, <3>2 DEF Widen
    <3>4. CASE j = n + 1
      <4>1. IsLoad(s) /\ HoldsEntry(s)
        BY <1>3, <3>1, <3>4
      <4>2. s.memsz # 0
        <5>1. Fits(s)
          BY <1>2, <1>5, <4>1, NoObjection
        <5> QED
          BY <4>1, <5>1, HeaderTypes DEF Fits, HoldsEntry, WordSize
      <4> QED
        BY <1>5, <3>2, <4>1, <4>2 DEF Widen
    <3>5. CASE j \in 1 .. n
      <4>1. j \in Loads /\ HoldsEntry(segments[j])
        BY <1>2, <1>3, <3>1, <3>5 DEF Loads
      <4>2. scan.executable
        BY <1>2, <4>1 DEF ReasonInv, Found
      <4> QED
        BY <3>3, <4>2
    <3> QED
      BY <1>2, <3>1, <3>4, <3>5
  <2>4. Justified'
    BY <1>1, <1>5, OtherwiseJustified DEF ReasonInv
  <2> QED
    BY <2>2, <2>3, <2>4 DEF ReasonInv
<1> QED
  BY <1>4, <1>5, Zenon DEF ScanSegment, Accepted

\* What has been scanned stays as it is while the call goes on.
LEMMA ScannedReason ==
  ASSUME ReasonInv, UNCHANGED <<request, segments, scan>>, Accepting' => Accepting
  PROVE  Passed' /\ Found'
  BY DEF ReasonInv, Passed, Found, HeaderIsWrong, Loads, HoldsEntry

LEMMA ReasonStep ==
  ASSUME ElfInv, ReasonInv, [ElfNext]_elfVars
  PROVE  ReasonInv'
<1>0. Passed /\ Found /\ Justified
  BY DEF ReasonInv
<1>1. CASE UNCHANGED elfVars
  BY <1>1 DEF elfVars, ReasonInv, Passed, Found, Justified, NothingWrong, FileIsWrong, HeaderIsWrong,
     Shared, Loads, HoldsEntry, Accepting, Copying
<1>2. CASE ReadFile
  <2>1. stage = "start" /\ UNCHANGED <<request, segments, scan>>
        /\ stage' \in {"done", "header"} /\ (result' = result \/ ~result'.ok) /\ ~result.ok
    BY <1>2 DEF ReadFile, ElfFail, ElfInv, Types
  <2>2. Passed' /\ Found'
    BY <2>1, ScannedReason DEF Accepting, Copying
  <2>3. Justified'
    <3>1. CASE ~SizeValid(request.size) /\ ElfFail("size")
      <4>1. stage' = "done" /\ result'.message = "size" /\ ~SizeValid(request'.size)
        BY <2>1, <3>1 DEF ElfFail
      <4> QED
        BY <4>1 DEF Justified, FileIsWrong
    <3>2. CASE ElfFail("input")
      BY <1>0, <2>1, <3>2, OtherwiseJustified DEF ElfFail, FaultMessages
    <3>3. CASE UNCHANGED result
      BY <1>0, <2>1, <3>3, OtherwiseJustified
    <3> QED
      BY <1>2, <3>1, <3>2, <3>3 DEF ReadFile
  <2> QED
    BY <2>2, <2>3 DEF ReasonInv
<1>3. CASE CheckHeader
  <2>1. stage = "header" /\ UNCHANGED <<request, segments, scan>> /\ segments = << >>
    BY <1>3 DEF CheckHeader, ElfFail, ElfInv, NoneYet
  <2>2. Passed' /\ Found'
    BY <2>1 DEF Passed, Found, Loads
  <2>3. Justified'
    BY <1>0, <1>3, <2>1, OtherwiseJustified DEF CheckHeader, ElfFail, FaultMessages
  <2> QED
    BY <2>2, <2>3 DEF ReasonInv
<1>4. CASE NotRunnable
  <2>1. /\ stage = "scan" /\ UNCHANGED <<request, segments, scan>> /\ stage' = "done"
        /\ ~result'.ok /\ result'.message = "entry"
    BY <1>4 DEF NotRunnable, ElfFail
  <2>2. Passed' /\ Found'
    BY <2>1, ScannedReason DEF Accepting, Copying
  <2>3. FileIsWrong("entry")
    BY <1>0, <1>4, <2>1, NotRunnableIsWrong DEF NotRunnable
  <2>4. FileIsWrong("entry")'
    BY <2>1, <2>3 DEF FileIsWrong, HeaderIsWrong, Loads, Shared
  <2> QED
    BY <2>1, <2>2, <2>4 DEF ReasonInv, Justified
<1>5. CASE AllocateRam
  <2>1. /\ stage = "scan" /\ UNCHANGED <<request, segments, scan>> /\ scan.executable /\ Accepting
        /\ SizeValid(request.size)
    BY <1>5 DEF AllocateRam, ElfFail, Accepting, ElfInv, Types
  <2>2. Passed' /\ Found'
    BY <2>1, ScannedReason
  <2>3. Justified'
    <3>1. CASE ElfFail("memory")
      <4>1. NothingWrong
        BY <1>0, <2>1, RunnableIsRight
      <4>2. NothingWrong'
        BY <2>1, <4>1 DEF NothingWrong, FileIsWrong, HeaderIsWrong, Loads, Shared
      <4> QED
        BY <3>1, <4>2 DEF Justified, ElfFail, FaultMessages
    <3>2. CASE UNCHANGED result
      BY <1>0, <2>1, <3>2, OtherwiseJustified
    <3> QED
      BY <1>5, <3>1, <3>2 DEF AllocateRam
  <2> QED
    BY <2>2, <2>3 DEF ReasonInv
<1>6. CASE CopySegment \/ ReplaceProgram
  <2>1. /\ stage = "copy" /\ UNCHANGED <<request, segments, scan>> /\ Accepting
        /\ result' = result \/ (stage' = "done" /\ result'.message = "")
    <3>1. CASE CopySegment
      BY <3>1, Zenon DEF CopySegment, Accepting, Copying
    <3>2. CASE ReplaceProgram
      BY <3>2 DEF ReplaceProgram, Accepting, Copying
    <3> QED
      BY <1>6, <3>1, <3>2
  <2>2. Passed' /\ Found'
    BY <2>1, ScannedReason
  <2>3. Justified'
    BY <1>0, <2>1, OtherwiseJustified DEF FaultMessages
  <2> QED
    BY <2>2, <2>3 DEF ReasonInv
<1> QED
  BY <1>1, <1>2, <1>3, <1>4, <1>5, <1>6, ScanReason DEF ElfNext, ElfDone

\* Each refusal of a program header has the reason that its message gives, and nothing that
\* has one of these faults is accepted, whatever the headers are.
THEOREM RefusalsHaveReasons == ElfSpec => []RefusalsAreExact
<1>1. ElfInit => ReasonInv
  BY DEF ElfInit, ReasonInv, Passed, Found, Justified, Loads, FaultMessages
<1>2. ElfInv /\ ReasonInv => RefusalsAreExact
  <2>1. ElfInv /\ Passed /\ result.ok => NothingWrong
    BY RunnableIsRight DEF Accepting, Copying, ElfInv, Building, Types
  <2> QED
    BY <2>1 DEF ReasonInv, Justified, RefusalsAreExact, NothingWrong
<1> QED
  BY <1>1, <1>2, ElfInvariant, ReasonStep, PTL DEF ElfSpec
-----------------------------------------------------------------------------
\* What is owned follows the call: the old program until it is replaced, the file once it
\* has been read, the RAM once it has been allocated.
Owns ==
  /\ stage = "start" => owned = {"old"}
  /\ stage \in {"header", "scan"} => owned = {"old", "file"}
  /\ stage = "copy" => owned = {"old", "file", "ram"}
  /\ stage # "done" => ~result.ok /\ output = OldProgram
  /\ stage \in {"start", "header", "scan", "copy", "done"}

LEMMA FailKeeps ==
  ASSUME NEW message, Owns, stage # "done", ElfFail(message)
  PROVE  ElfReplacesOrKeeps' /\ Owns'
<1>1. owned \subseteq {"old", "file", "ram"} /\ "old" \in owned /\ output = OldProgram
  BY DEF Owns
<1>2. stage' = "done" /\ ~result'.ok /\ owned' = owned \ {"file", "ram"} /\ output' = output
  BY DEF ElfFail
<1>3. owned' = {"old"}
  BY <1>1, <1>2
<1> QED
  BY <1>1, <1>2, <1>3 DEF ElfReplacesOrKeeps, Owns, OldProgram

LEMMA OwnsInv ==
  ASSUME Owns, ElfReplacesOrKeeps, [ElfNext]_elfVars
  PROVE  Owns' /\ ElfReplacesOrKeeps'
<1>1. CASE UNCHANGED elfVars
  BY <1>1 DEF elfVars, Owns, ElfReplacesOrKeeps, OldProgram
<1>2. CASE ReadFile
  <2>1. CASE \E message : ElfFail(message)
    BY <1>2, <2>1, FailKeeps DEF ReadFile
  <2>2. CASE owned' = owned \cup {"file"} /\ stage' = "header" /\ UNCHANGED <<output, result>>
    BY <1>2, <2>2 DEF ReadFile, Owns, ElfReplacesOrKeeps
  <2> QED
    BY <1>2, <2>1, <2>2 DEF ReadFile
<1>3. CASE CheckHeader
  <2>1. CASE ElfFail("header")
    BY <1>3, <2>1, FailKeeps DEF CheckHeader
  <2>2. CASE stage' = "scan" /\ UNCHANGED <<owned, output, result>>
    BY <1>3, <2>2 DEF CheckHeader, Owns, ElfReplacesOrKeeps
  <2> QED
    BY <1>3, <2>1, <2>2 DEF CheckHeader
<1>4. CASE NotRunnable
  BY <1>4, FailKeeps DEF NotRunnable
<1>5. CASE AllocateRam
  <2>1. CASE ElfFail("memory")
    BY <1>5, <2>1, FailKeeps DEF AllocateRam
  <2>2. CASE owned' = owned \cup {"ram"} /\ stage' = "copy" /\ UNCHANGED <<output, result>>
    BY <1>5, <2>2 DEF AllocateRam, Owns, ElfReplacesOrKeeps
  <2> QED
    BY <1>5, <2>1, <2>2 DEF AllocateRam
<1>6. CASE CopySegment
  BY <1>6 DEF CopySegment, Owns, ElfReplacesOrKeeps
<1>7. CASE ReplaceProgram
  <2>1. stage' = "done" /\ result'.ok /\ owned' = owned \ {"old"} /\ owned = {"old", "file", "ram"}
    BY <1>7 DEF ReplaceProgram, Owns
  <2>2. owned' = {"file", "ram"}
    BY <2>1
  <2> QED
    BY <2>1, <2>2 DEF Owns, ElfReplacesOrKeeps
<1>8. ASSUME NEW s \in Headers, ScanSegment(s) PROVE Owns' /\ ElfReplacesOrKeeps'
  <2>1. stage = "scan"
    BY <1>8, Zenon DEF ScanSegment
  <2>2. CASE ElfFail(Objection(s))
    BY <2>1, <2>2, FailKeeps
  <2>3. CASE UNCHANGED <<owned, output, stage, result>>
    BY <2>1, <2>3 DEF Owns, ElfReplacesOrKeeps
  <2> QED
    BY <1>8, <2>2, <2>3, Zenon DEF ScanSegment
<1> QED
  BY <1>1, <1>2, <1>3, <1>4, <1>5, <1>6, <1>7, <1>8 DEF ElfNext, ElfDone

\* A failure at any point keeps the old program and releases all that the call acquired.
THEOREM OwnershipIsKept == ElfSpec => []ElfReplacesOrKeeps
<1>1. ElfInit => Owns /\ ElfReplacesOrKeeps
  BY DEF ElfInit, Owns, ElfReplacesOrKeeps
<1> QED
  BY <1>1, OwnsInv, PTL DEF ElfSpec
-----------------------------------------------------------------------------
\* The bounds of the scan are those of the segments that occupy memory: none lies
\* outside, and each bound is reached by one.
Spanned == {j \in Loads : segments[j].memsz # 0}
Span ==
  Accepting =>
    /\ \A j \in Spanned : /\ scan.lowest <= segments[j].address
                          /\ segments[j].address + segments[j].memsz <= scan.highest
    /\ scan.highest = 0 => scan.lowest = request.size
    /\ scan.highest # 0 => /\ \E j \in Spanned : segments[j].address = scan.lowest
                           /\ \E j \in Spanned : segments[j].address + segments[j].memsz = scan.highest

LEMMA SpanUnchanged ==
  ASSUME Span, Accepting, UNCHANGED <<request, segments, scan>>
  PROVE  Span'
BY DEF Span, Spanned, Loads

\* A header that is accepted widens the bounds to its segment and no further.
LEMMA AcceptSpan ==
  ASSUME ElfInv, Span, NEW s \in Headers, stage = "scan", Accepted(s),
         segments' = Append(segments, s),
         scan' = IF IsLoad(s) /\ s.memsz # 0 THEN Widen(s) ELSE scan,
         UNCHANGED request
  PROVE  Span'
<1> DEFINE n == Len(segments)
<1>1. /\ Types /\ n \in Nat /\ DOMAIN segments = 1 .. n /\ Accepting
      /\ \A j \in 1 .. n : segments[j] \in Headers
  BY SegmentTypes DEF ElfInv, Accepting
<1>2. /\ DOMAIN segments' = 1 .. n + 1 /\ segments'[n + 1] = s
      /\ \A j \in 1 .. n : segments'[j] = segments[j]
  BY <1>1 DEF Types
<1>3. Spanned' = Spanned \cup (IF IsLoad(s) /\ s.memsz # 0 THEN {n + 1} ELSE {})
  BY <1>1, <1>2 DEF Spanned, Loads
<1>4. /\ \A j \in Spanned : j \in 1 .. n /\ segments'[j] = segments[j]
      /\ \A j \in Spanned : segments[j].address \in Nat /\ segments[j].memsz \in Nat
                            /\ segments[j].memsz # 0
  BY <1>1, <1>2, HeaderTypes DEF Spanned, Loads
<1>5. /\ \A j \in Spanned : /\ scan.lowest <= segments[j].address
                            /\ segments[j].address + segments[j].memsz <= scan.highest
      /\ scan.highest = 0 => scan.lowest = request.size
      /\ scan.highest # 0 => /\ \E j \in Spanned : segments[j].address = scan.lowest
                             /\ \E j \in Spanned : segments[j].address + segments[j].memsz = scan.highest
  BY <1>1 DEF Span
<1>6. CASE ~(IsLoad(s) /\ s.memsz # 0)
  BY <1>3, <1>4, <1>5, <1>6 DEF Span
<1>7. CASE IsLoad(s) /\ s.memsz # 0
  <2>1. scan \in [lowest : Nat, highest : Nat, executable : BOOLEAN]
    BY <1>1 DEF ElfInv, Bounds
  <2>2. /\ scan'.lowest = IF s.address < scan.lowest THEN s.address ELSE scan.lowest
        /\ scan'.highest = IF s.address + s.memsz > scan.highest
                             THEN s.address + s.memsz ELSE scan.highest
    BY <1>7, <2>1 DEF Widen
  <2>3. /\ s.address \in Nat /\ s.memsz \in Nat /\ scan.lowest \in Nat /\ scan.highest \in Nat
        /\ s.memsz # 0 /\ s.address + s.memsz <= request.size /\ request.size \in Nat
    BY <1>1, <1>7, <2>1, HeaderTypes, NoObjection DEF Fits, Types
  <2>4. Spanned' = Spanned \cup {n + 1} /\ segments'[n + 1] = s
    BY <1>2, <1>3, <1>7
  <2>5. scan'.highest # 0
    BY <2>2, <2>3
  <2>6. \A j \in Spanned' : /\ scan'.lowest <= segments'[j].address
                            /\ segments'[j].address + segments'[j].memsz <= scan'.highest
    <3> SUFFICES ASSUME NEW j \in Spanned'
                 PROVE  /\ scan'.lowest <= segments'[j].address
                        /\ segments'[j].address + segments'[j].memsz <= scan'.highest
      OBVIOUS
    <3>1. CASE j = n + 1
      BY <2>2, <2>3, <2>4, <3>1
    <3>2. CASE j \in Spanned
      <4> DEFINE l == scan.lowest
                 h == scan.highest
                 low == scan'.lowest
                 high == scan'.highest
                 a == segments[j].address
                 m == segments[j].memsz
      <4>1. segments'[j] = segments[j] /\ a \in Nat /\ m \in Nat /\ l <= a /\ a + m <= h
        BY <1>4, <1>5, <3>2
      <4>2. l \in Nat /\ h \in Nat /\ low \in Nat /\ high \in Nat /\ low <= l /\ h <= high
        BY <2>2, <2>3
      <4> HIDE DEF l, h, low, high, a, m
      <4>3. low <= a /\ a + m <= high
        BY <4>1, <4>2, Wider
      <4> QED
        BY <4>1, <4>3 DEF low, high, a, m
    <3> QED
      BY <2>4, <3>1, <3>2
  <2>7. \E j \in Spanned' : segments'[j].address = scan'.lowest
    <3>1. CASE scan'.lowest = s.address
      BY <2>4, <3>1
    <3>2. CASE scan'.lowest # s.address
      <4>1. scan'.lowest = scan.lowest /\ ~(s.address < scan.lowest)
        BY <2>2, <3>2
      <4>2. scan.highest # 0
        BY <1>5, <2>3, <4>1
      <4> QED
        BY <1>4, <1>5, <2>4, <4>1, <4>2
    <3> QED
      BY <3>1, <3>2
  <2>8. \E j \in Spanned' : segments'[j].address + segments'[j].memsz = scan'.highest
    <3>1. CASE scan'.highest = s.address + s.memsz
      BY <2>4, <3>1
    <3>2. CASE scan'.highest # s.address + s.memsz
      <4>1. scan'.highest = scan.highest /\ scan.highest # 0
        BY <2>2, <2>5, <3>2
      <4> QED
        BY <1>4, <1>5, <2>4, <4>1
    <3> QED
      BY <3>1, <3>2
  <2> QED
    BY <2>5, <2>6, <2>7, <2>8 DEF Span
<1> QED
  BY <1>6, <1>7

LEMMA SpanInv == ElfInv /\ ElfInv' /\ Span /\ [ElfNext]_elfVars => Span'
<1> SUFFICES ASSUME ElfInv, ElfInv', Span, [ElfNext]_elfVars PROVE Span'
  OBVIOUS
<1>1. CASE UNCHANGED elfVars
  BY <1>1 DEF elfVars, Span, Spanned, Loads, Accepting, Copying
<1>2. ASSUME NEW message, ElfFail(message) PROVE Span'
  BY <1>2 DEF ElfFail, Span, Accepting, Copying
<1>3. CASE ReadFile
  <2>1. CASE stage' = "header" /\ result' = result
    <3>1. ~result.ok
      BY <1>3 DEF ReadFile, ElfInv, Types
    <3> QED
      BY <2>1, <3>1 DEF Span, Accepting, Copying
  <2> QED
    BY <1>2, <1>3, <2>1 DEF ReadFile
<1>4. CASE CheckHeader
  <2>1. CASE stage' = "scan" /\ UNCHANGED <<request, scan>> /\ UNCHANGED segments
    <3>1. /\ segments' = << >>
          /\ scan' = [lowest |-> request'.size, highest |-> 0, executable |-> FALSE]
      BY <1>4, <2>1 DEF CheckHeader, ElfInv, NoneYet
    <3>2. Spanned' = {}
      BY <3>1 DEF Spanned, Loads
    <3> QED
      BY <3>1, <3>2 DEF Span
  <2> QED
    BY <1>2, <1>4, <2>1 DEF CheckHeader
<1>5. CASE NotRunnable
  BY <1>2, <1>5 DEF NotRunnable
<1>6. CASE AllocateRam
  <2>1. Accepting
    BY <1>6 DEF AllocateRam, Accepting
  <2>2. CASE UNCHANGED <<request, segments, scan>>
    BY <2>1, <2>2, SpanUnchanged
  <2> QED
    BY <1>2, <1>6, <2>2 DEF AllocateRam
<1>7. CASE CopySegment
  BY <1>7, SpanUnchanged DEF CopySegment, Accepting, Copying
<1>8. CASE ReplaceProgram
  BY <1>8, SpanUnchanged DEF ReplaceProgram, Accepting, Copying
<1>9. ASSUME NEW s \in Headers, ScanSegment(s) PROVE Span'
  <2>1. stage = "scan" /\ segments' = Append(segments, s)
    BY <1>9, Zenon DEF ScanSegment
  <2>2. CASE ElfFail(Objection(s))
    BY <1>2, <2>2
  <2>3. CASE /\ Objection(s) = ""
             /\ scan' = IF IsLoad(s) /\ s.memsz # 0 THEN Widen(s) ELSE scan
             /\ UNCHANGED <<request, next, copied, owned, output, stage, result>>
    <3>1. Accepted(s) /\ request' = request
      BY <2>3, Zenon DEF Accepted
    <3> QED
      BY <2>1, <2>3, <3>1, AcceptSpan, Zenon
  <2> QED
    BY <1>9, <2>2, <2>3, Zenon DEF ScanSegment
<1> QED
  BY <1>1, <1>3, <1>4, <1>5, <1>6, <1>7, <1>8, <1>9 DEF ElfNext, ElfDone

\* The image runs from the lowest to the highest address that a segment occupies, and
\* none lies outside, in whatever order the headers come.
THEOREM SpanIsThatOfSegments == ElfSpec => []SpanIsTight
<1>1. ElfInit => Span
  BY DEF ElfInit, Span, Accepting, Copying
<1>2. ElfInv /\ Span => SpanIsTight
  <2> SUFFICES ASSUME ElfInv, Span, result.ok PROVE SpanIsTight
    BY DEF SpanIsTight
  <2> DEFINE image == output.load_address .. output.load_address + output.image_size - 1
  <2>1. output.load_address = scan.lowest /\ output.image_size = scan.highest - scan.lowest
    BY DEF ElfInv, Building, Copying, Program
  <2>2. scan.lowest \in Nat /\ scan.highest \in Nat /\ scan.lowest < scan.highest
    <3>1. scan \in [lowest : Nat, highest : Nat, executable : BOOLEAN] /\ scan.lowest < scan.highest
      BY DEF ElfInv, Bounds, Building, Accepting, Copying
    <3> QED
      BY <3>1
  <2>3. image = scan.lowest .. scan.highest - 1
        /\ output.load_address + output.image_size - 1 = scan.highest - 1
    BY <2>1, <2>2
  <2>4. \A j \in Loads : segments[j].address \in Nat /\ segments[j].memsz \in Nat
    BY SegmentTypes, HeaderTypes DEF ElfInv, Loads
  <2>5. /\ \A j \in Spanned : /\ scan.lowest <= segments[j].address
                              /\ segments[j].address + segments[j].memsz <= scan.highest
        /\ \E j \in Spanned : segments[j].address = scan.lowest
        /\ \E j \in Spanned : segments[j].address + segments[j].memsz = scan.highest
    BY <2>2 DEF Span, Accepting, Copying
  <2> HIDE DEF image
  <2>6. ASSUME NEW j \in Loads PROVE Occupied(segments[j]) \subseteq image
    <3>1. CASE segments[j].memsz = 0
      <4>1. segments[j].address + segments[j].memsz - 1 < segments[j].address
        BY <2>4, <3>1
      <4>2. Occupied(segments[j]) = {}
        BY <2>4, <4>1 DEF Occupied
      <4> QED
        BY <4>2
    <3>2. CASE segments[j].memsz # 0
      <4>1. j \in Spanned
        BY <3>2 DEF Spanned
      <4> QED
        BY <2>2, <2>3, <2>4, <2>5, <4>1 DEF Occupied
    <3> QED
      BY <3>1, <3>2
  <2>7. \E j \in Loads : scan.lowest \in Occupied(segments[j])
    <3>1. PICK j \in Spanned : segments[j].address = scan.lowest
      BY <2>5
    <3>2. j \in Loads /\ segments[j].memsz # 0
      BY DEF Spanned
    <3>3. scan.lowest \in Occupied(segments[j])
      BY <2>2, <2>4, <3>1, <3>2 DEF Occupied
    <3> QED
      BY <3>2, <3>3
  <2>8. \E j \in Loads : scan.highest - 1 \in Occupied(segments[j])
    <3>1. PICK j \in Spanned : segments[j].address + segments[j].memsz = scan.highest
      BY <2>5
    <3>2. j \in Loads /\ segments[j].memsz # 0
      BY DEF Spanned
    <3>3. scan.highest - 1 \in Occupied(segments[j])
      BY <2>2, <2>4, <3>1, <3>2 DEF Occupied
    <3> QED
      BY <3>2, <3>3
  <2>9. {scan.lowest, scan.highest - 1} \subseteq UNION {Occupied(segments[j]) : j \in Loads}
    BY <2>7, <2>8
  <2> QED
    BY <2>1, <2>3, <2>6, <2>9 DEF SpanIsTight, image
<1> QED
  BY <1>1, <1>2, SpanInv, ElfInvariant, PTL DEF ElfSpec
-----------------------------------------------------------------------------
\* The program that load_elf delivers is the image that the segments describe, for every
\* file and RAM.
THEOREM ElfImageIsInPlace == ElfSpec => []ElfImageInPlace
<1>1. ElfDeliversLoadable /\ SegmentsInPlace /\ SpanIsTight => ElfImageInPlace
  BY DEF ElfImageInPlace
<1> QED
  BY <1>1, DeliversLoadableProgram, SegmentsAreInPlace, SpanIsThatOfSegments, PTL

\* What the tests of the program headers refuse is wrong in the way the message says, what
\* they accept is not, and a refusal costs nothing.
THEOREM ElfRefusalIsExact == ElfSpec => []ElfRefusesExactly
<1>1. RefusalsAreExact /\ EntryIsFileBacked /\ ElfReplacesOrKeeps => ElfRefusesExactly
  BY DEF ElfRefusesExactly
<1> QED
  BY <1>1, RefusalsHaveReasons, EntryComesFromFile, OwnershipIsKept, PTL
-----------------------------------------------------------------------------
(* The parser of the attributes. *)

Places == {"section", "vendor", "name", "subsection", "next vendor", "tag", "text", "number",
           "done"}

\* The cursors are those of the record that is being parsed: each is inside the one
\* around it as soon as there is one.
ParserInv ==
  /\ section \in [start : Nat, length : Nat] /\ read \in [first : Nat, length : Nat]
  /\ offset \in Nat /\ end \in Nat /\ p \in Nat /\ subend \in Nat /\ place \in Places
  /\ ReadsInSection /\ Nested
  /\ place = "name" => offset + Shortest <= end /\ end <= Size
  /\ place = "next vendor" => end <= Size

\* The test of in_range keeps both numbers inside.
LEMMA InRangeBounds ==
  ASSUME NEW a \in Nat, NEW b \in Nat, NEW c \in Nat, InRange(a, b, c)
  PROVE  a + b <= c
  BY DEF InRange

LEMMA ParserFields ==
  ASSUME ParserInv
  PROVE  /\ section.start \in Nat /\ section.length \in Nat /\ Size \in Nat
         /\ Size = section.length
         /\ read.first \in Nat /\ read.length \in Nat /\ InRange(read.first, read.length, Size)
         /\ InRange(section.start, section.length, FileSize)
  BY DEF ParserInv, ReadsInSection, Size

\* What a range that is examined must satisfy.
LEMMA ReadsInside ==
  ASSUME ParserInv, UNCHANGED section, NEW a \in Nat, NEW n \in Nat, Reads(a, n), a + n <= Size
  PROVE  read' \in [first : Nat, length : Nat] /\ ReadsInSection'
<1>1. read' = [first |-> a, length |-> n]
  BY DEF Reads
<1>2. InRange(a, n, Size)
  BY ParserFields DEF InRange
<1> QED
  BY <1>1, <1>2, ParserFields DEF ReadsInSection, Size

LEMMA NothingRead ==
  ASSUME ParserInv, UNCHANGED <<section, read>>
  PROVE  read' \in [first : Nat, length : Nat] /\ ReadsInSection'
  BY DEF ParserInv, ReadsInSection, Size

\* A step inside the section: what is left to show are the cursors.
LEMMA CursorsKeep ==
  ASSUME ParserInv, UNCHANGED section, read' \in [first : Nat, length : Nat], ReadsInSection',
         offset' \in Nat, end' \in Nat, p' \in Nat, subend' \in Nat, place' \in Places,
         place' \in {"tag", "text", "number"} =>
           offset' < p' /\ p' <= subend' /\ subend' <= end' /\ end' <= Size,
         place' = "subsection" => offset' < p' /\ p' <= end' /\ end' <= Size,
         place' = "name" => offset' + Shortest <= end' /\ end' <= Size,
         place' = "next vendor" => end' <= Size
  PROVE  ParserInv'
  BY DEF ParserInv, Nested, Size, Shortest

LEMMA SectionStep ==
  ASSUME ParserInv, EndOfSections \/ OtherSection \/ EndOfAttributes \/ NextVendor \/ EndOfTags
  PROVE  ParserInv'
<1>1. /\ UNCHANGED <<section, read, end, p, subend>> /\ offset' \in Nat
  BY DEF ParserInv, EndOfSections, OtherSection, EndOfAttributes, NextVendor, EndOfTags
<1>2. read' \in [first : Nat, length : Nat] /\ ReadsInSection'
  BY <1>1, NothingRead
<1>3. CASE EndOfSections \/ OtherSection \/ EndOfAttributes \/ NextVendor
  <2>1. place' \in {"done", "section", "vendor"}
    BY <1>3 DEF EndOfSections, OtherSection, EndOfAttributes, NextVendor, Return
  <2> QED
    BY <1>1, <1>2, <2>1, CursorsKeep DEF ParserInv, Places
<1>4. CASE EndOfTags
  <2>1. place = "tag" /\ place' = "subsection" /\ offset' = offset
    BY <1>4 DEF EndOfTags
  <2>2. offset < p /\ p <= subend /\ subend <= end /\ end <= Size
    BY <2>1 DEF ParserInv, Nested
  <2>3. p \in Nat /\ subend \in Nat /\ end \in Nat
    BY DEF ParserInv
  <2>4. p <= end
    BY <2>2, <2>3
  <2> QED
    BY <1>1, <1>2, <2>1, <2>2, <2>4, CursorsKeep DEF ParserInv, Places
<1> QED
  BY <1>3, <1>4

LEMMA AttributeSectionKeeps ==
  ASSUME ParserInv, NEW a \in Nat, NEW n \in Nat, AttributeSection(a, n)
  PROVE  ParserInv'
<1>1. /\ InRange(a, n, FileSize) /\ section' = [start |-> a, length |-> n]
      /\ UNCHANGED <<end, p, subend>>
  BY DEF AttributeSection
<1>2. /\ place' \in {"done", "vendor"} /\ offset' \in {offset, 1}
      /\ \E length \in {0, 1} : read' = [first |-> 0, length |-> length] /\ length <= n
  <2>1. CASE n < 1
    BY <2>1 DEF AttributeSection, Return, NoRead
  <2>2. CASE ~(n < 1)
    <3>1. /\ place' \in {"done", "vendor"} /\ offset' \in {offset, 1}
          /\ read' = [first |-> 0, length |-> 1]
      BY <2>2 DEF AttributeSection, Return, Reads
    <3> QED
      BY <2>2, <3>1
  <2> QED
    BY <2>1, <2>2
<1>3. offset' \in Nat /\ end' \in Nat /\ p' \in Nat /\ subend' \in Nat
  <2>1. offset \in Nat /\ end \in Nat /\ p \in Nat /\ subend \in Nat
    BY DEF ParserInv
  <2> QED
    BY <1>1, <1>2, <2>1
<1>4. read' \in [first : Nat, length : Nat] /\ section' \in [start : Nat, length : Nat]
  BY <1>1, <1>2
<1>5. ReadsInSection'
  BY <1>1, <1>2 DEF ReadsInSection, InRange, Size
<1> QED
  BY <1>2, <1>3, <1>4, <1>5 DEF ParserInv, Nested, Places

LEMMA VendorLengthKeeps ==
  ASSUME ParserInv, NEW n \in Nat, VendorLength(n)
  PROVE  ParserInv'
<1>1. place = "vendor" /\ offset < Size /\ UNCHANGED <<section, offset, p, subend>>
  BY DEF VendorLength
<1>2. read' \in [first : Nat, length : Nat] /\ ReadsInSection'
  <2>1. CASE InRange(offset, 4, Size)
    <3>1. Reads(offset, 4) /\ offset \in Nat /\ offset + 4 <= Size
      BY <2>1, InRangeBounds, ParserFields DEF VendorLength, ParserInv
    <3> QED
      BY <1>1, <3>1, ReadsInside
  <2>2. CASE ~InRange(offset, 4, Size)
    BY <1>1, <2>2, NothingRead DEF VendorLength
  <2> QED
    BY <2>1, <2>2
<1>3. CASE n >= Shortest /\ InRange(offset, n, Size) /\ end' = offset + n /\ place' = "name"
  <2>1. offset + n <= Size /\ offset \in Nat
    BY <1>3, InRangeBounds, ParserFields DEF ParserInv
  <2>2. end' \in Nat /\ offset + Shortest <= end' /\ end' <= Size
    BY <1>3, <2>1 DEF Shortest
  <2> QED
    BY <1>1, <1>2, <1>3, <2>2, CursorsKeep DEF ParserInv, Places
<1>4. CASE place' = "done" /\ end' = end
  BY <1>1, <1>2, <1>4, CursorsKeep DEF ParserInv, Places
<1> QED
  BY <1>3, <1>4 DEF VendorLength, Return

LEMMA VendorNameKeeps == ASSUME ParserInv, VendorName PROVE ParserInv'
<1> DEFINE vendor == offset + 4
<1>1. /\ place = "name" /\ Reads(vendor, end - vendor)
      /\ UNCHANGED <<section, offset, end, subend>>
  BY DEF VendorName
<1>2. /\ offset \in Nat /\ end \in Nat /\ vendor \in Nat /\ offset + 5 <= end /\ end <= Size
      /\ end - vendor \in Nat /\ vendor + (end - vendor) <= Size
  BY <1>1, ParserFields DEF ParserInv, Shortest
<1>3. read' \in [first : Nat, length : Nat] /\ ReadsInSection'
  BY <1>1, <1>2, ReadsInside
<1>4. CASE place' \in {"done", "next vendor"} /\ p' = p
  BY <1>1, <1>2, <1>3, <1>4, CursorsKeep DEF ParserInv, Places
<1>5. ASSUME NEW nul \in vendor .. end - 1, p' = nul + 1, place' = "subsection"
      PROVE  ParserInv'
  <2>1. p' \in Nat /\ offset < p' /\ p' <= end
    BY <1>2, <1>5
  <2> QED
    BY <1>1, <1>2, <1>3, <1>5, <2>1, CursorsKeep DEF ParserInv, Places
<1> QED
  BY <1>4, <1>5 DEF VendorName, Return

\* A failure examines a part of what is left, and ends the parse.
LEMMA ParseFails ==
  ASSUME ParserInv, UNCHANGED <<section, offset, end, p, subend>>, place' = "done",
         NEW n \in Nat, Reads(p, n), p + n <= Size
  PROVE  ParserInv'
<1>1. read' \in [first : Nat, length : Nat] /\ ReadsInSection'
  BY ReadsInside DEF ParserInv
<1> QED
  BY <1>1, CursorsKeep DEF ParserInv, Places

LEMMA ScopeFailsKeeps == ASSUME ParserInv, ScopeFails PROVE ParserInv'
<1>1. PICK n \in Group(p, end) : Reads(p, n)
  BY DEF ScopeFails
<1>2. /\ place = "subsection" /\ place' = "done"
      /\ UNCHANGED <<section, offset, end, p, subend>>
  BY DEF ScopeFails, Return
<1>3. n \in Nat /\ p + n <= Size
  BY <1>2, ParserFields DEF Group, ParserInv, Nested
<1> QED
  BY <1>1, <1>2, <1>3, ParseFails

LEMMA TagFailsKeeps == ASSUME ParserInv, TagFails PROVE ParserInv'
<1>1. PICK n \in Group(p, subend) : Reads(p, n)
  BY DEF TagFails
<1>2. /\ place = "tag" /\ place' = "done"
      /\ UNCHANGED <<section, offset, end, p, subend>>
  BY DEF TagFails, Return
<1>3. n \in Nat /\ p + n <= Size
  BY <1>2, ParserFields DEF Group, ParserInv, Nested
<1> QED
  BY <1>1, <1>2, <1>3, ParseFails

LEMMA ScopeKeeps ==
  ASSUME ParserInv, NEW n \in 1 .. 5, NEW subsize \in Nat, Scope(n, subsize)
  PROVE  ParserInv'
<1> DEFINE cursor == p + n + 4
<1>1. /\ place = "subsection" /\ UNCHANGED <<section, offset, end>>
      /\ p + n <= end
  BY DEF Scope, Group
<1>2. /\ p \in Nat /\ end \in Nat /\ Size \in Nat /\ offset \in Nat
      /\ offset < p /\ p <= end /\ end <= Size
  BY <1>1, ParserFields DEF ParserInv, Nested
<1>3. CASE end - (p + n) < 4
  <2>1. Reads(p, n) /\ place' = "done" /\ UNCHANGED <<p, subend>>
    BY <1>3 DEF Scope, Return
  <2> QED
    BY <1>1, <1>2, <2>1, ParseFails
<1>4. CASE ~(end - (p + n) < 4)
  <2>1. Reads(p, n + 4) /\ p' = cursor
    BY <1>4 DEF Scope
  <2>2. cursor \in Nat /\ cursor <= end /\ offset < cursor /\ p + (n + 4) <= Size
    BY <1>2, <1>4
  <2>3. read' \in [first : Nat, length : Nat] /\ ReadsInSection'
    BY <1>1, <1>2, <2>1, <2>2, ReadsInside
  <2>4. CASE SubendFits(p, cursor, subsize) /\ subend' = p + subsize /\ place' = "tag"
    <3>1. subend' \in Nat /\ cursor <= subend' /\ subend' <= end
      BY <1>2, <2>4 DEF SubendFits
    <3> QED
      BY <1>1, <1>2, <2>1, <2>2, <2>3, <2>4, <3>1, CursorsKeep DEF ParserInv, Places
  <2>5. CASE place' = "done" /\ UNCHANGED subend
    BY <1>1, <2>1, <2>2, <2>3, <2>5, CursorsKeep DEF ParserInv, Places
  <2> QED
    BY <1>4, <2>4, <2>5 DEF Scope, Return
<1> QED
  BY <1>3, <1>4

\* Inside a subsection the cursor only moves on, and not beyond its end.
LEMMA TagKeeps == ASSUME ParserInv, Tag PROVE ParserInv'
<1>1. PICK n \in Group(p, subend) \ {0} : Reads(p, n) /\ p' = p + n
  BY DEF Tag
<1>2. /\ place = "tag" /\ place' \in {"text", "number"}
      /\ UNCHANGED <<section, offset, end, subend>>
  BY DEF Tag
<1>3. /\ p \in Nat /\ subend \in Nat /\ end \in Nat /\ Size \in Nat /\ offset \in Nat
      /\ offset < p /\ p <= subend /\ subend <= end /\ end <= Size
      /\ n \in Nat /\ p + n <= subend
  BY <1>2, ParserFields DEF Group, ParserInv, Nested
<1>4. p + n \in Nat /\ offset < p + n /\ p + n <= Size
  BY <1>3
<1>5. read' \in [first : Nat, length : Nat] /\ ReadsInSection'
  BY <1>1, <1>2, <1>3, <1>4, ReadsInside
<1> QED
  BY <1>1, <1>2, <1>3, <1>4, <1>5, CursorsKeep DEF Places

LEMMA TextValueKeeps == ASSUME ParserInv, TextValue PROVE ParserInv'
<1>1. place = "text" /\ Reads(p, subend - p) /\ UNCHANGED <<section, offset, end, subend>>
  BY DEF TextValue
<1>2. /\ p \in Nat /\ subend \in Nat /\ end \in Nat /\ Size \in Nat /\ offset \in Nat
      /\ offset < p /\ p <= subend /\ subend <= end /\ end <= Size
  BY <1>1, ParserFields DEF ParserInv, Nested
<1>3. subend - p \in Nat /\ p + (subend - p) <= Size
  BY <1>2
<1>4. read' \in [first : Nat, length : Nat] /\ ReadsInSection'
  BY <1>1, <1>2, <1>3, ReadsInside
<1>5. CASE place' = "done" /\ UNCHANGED p
  BY <1>1, <1>2, <1>4, <1>5, CursorsKeep DEF Places
<1>6. ASSUME NEW nul \in p .. subend - 1, p' = nul + 1, place' = "tag"
      PROVE  ParserInv'
  <2>1. p' \in Nat /\ offset < p' /\ p' <= subend
    BY <1>2, <1>6
  <2> QED
    BY <1>1, <1>2, <1>4, <1>6, <2>1, CursorsKeep DEF Places
<1> QED
  BY <1>5, <1>6 DEF TextValue, Return

LEMMA NumberValueKeeps == ASSUME ParserInv, NumberValue PROVE ParserInv'
<1>1. PICK n \in Group(p, subend) :
        /\ Reads(p, n)
        /\ \/ place' = "done" /\ UNCHANGED p
           \/ n > 0 /\ p' = p + n /\ place' = "tag"
  BY DEF NumberValue, Return
<1>2. place = "number" /\ UNCHANGED <<section, offset, end, subend>>
  BY DEF NumberValue
<1>3. /\ p \in Nat /\ subend \in Nat /\ end \in Nat /\ Size \in Nat /\ offset \in Nat
      /\ offset < p /\ p <= subend /\ subend <= end /\ end <= Size
      /\ n \in Nat /\ p + n <= subend
  BY <1>2, ParserFields DEF Group, ParserInv, Nested
<1>4. p + n \in Nat /\ offset < p + n /\ p + n <= Size
  BY <1>3
<1>5. read' \in [first : Nat, length : Nat] /\ ReadsInSection'
  BY <1>1, <1>2, <1>3, <1>4, ReadsInside
<1> QED
  BY <1>1, <1>2, <1>3, <1>4, <1>5, CursorsKeep DEF Places

LEMMA SectionsNextKeep == ParserInv /\ [SectionsNext]_sectionVars => ParserInv'
<1> SUFFICES ASSUME ParserInv, [SectionsNext]_sectionVars PROVE ParserInv'
  OBVIOUS
<1>1. Numbers \subseteq Nat
  BY SectionsAssumption
<1>2. CASE EndOfSections \/ OtherSection \/ EndOfAttributes \/ NextVendor \/ EndOfTags
  BY <1>2, SectionStep
<1>3. CASE \/ \E a, b \in Numbers : AttributeSection(a, b)
           \/ \E a \in Numbers : VendorLength(a)
           \/ \E a \in Numbers, n \in 1 .. 5 : Scope(n, a)
  BY <1>1, <1>3, AttributeSectionKeeps, VendorLengthKeeps, ScopeKeeps
<1>4. CASE VendorName \/ ScopeFails \/ TagFails \/ Tag \/ TextValue \/ NumberValue
  BY <1>4, VendorNameKeeps, ScopeFailsKeeps, TagFailsKeeps, TagKeeps, TextValueKeeps,
     NumberValueKeeps
<1>5. CASE SectionsDone \/ UNCHANGED sectionVars
  BY <1>5 DEF SectionsDone, sectionVars, ParserInv, ReadsInSection, Nested, Size
<1> QED
  BY <1>2, <1>3, <1>4, <1>5 DEF SectionsNext, Parse

\* Whatever the lengths in the file say, every byte that the parser of the attributes
\* examines lies in the section, and its nested records stay nested.
THEOREM ParserIsInside == SectionsSpec => []ParserStaysInside
<1>1. SectionsInit => ParserInv
  BY SectionsAssumption DEF SectionsInit, ParserInv, ReadsInSection, Nested, InRange, NoRead,
     Size, Places
<1>2. ParserInv /\ [SectionsNext]_sectionVars => ParserInv'
  BY SectionsNextKeep
<1>3. ParserInv => ParserStaysInside
  BY DEF ParserInv, ParserStaysInside
<1> QED
  BY <1>1, <1>2, <1>3, PTL DEF SectionsSpec
-----------------------------------------------------------------------------
(* The readers of a text of words and of raw bytes. *)

\* WordsIn and At, of any text and any call.
Counted(t, n) == Cardinality({k \in 1 .. n : t[k].kind = "word"})
WordAt(r, count) == r.load_address + WordSize * count

\* The words of a text are in place, one after the other, and nothing else is there.
TextPlaced(bytes, t, r) ==
  /\ \A k \in 1 .. Len(t) : t[k].kind = "word" =>
       ReadBytes(bytes, WordAt(r, Counted(t, k) - 1), WordSize) = t[k].word
  /\ \A a \in 0 .. r.size - 1 :
       a < r.load_address \/ a >= WordAt(r, Counted(t, Len(t))) => bytes[a] = 0

\* A line that cannot be loaded.
BadLine(t, r, k) ==
  t[k] \in Broken \/ (t[k].kind = "word" /\ WordAt(r, Counted(t, k)) > r.size)

\* That line is the one that ended the call.
FirstBad(t, r, line, message) ==
  /\ IF message = "input" THEN line = Len(t) + 1 ELSE line = Len(t) /\ BadLine(t, r, line)
  /\ \A k \in 1 .. line - 1 : ~BadLine(t, r, k)

CallTypes ==
  /\ asked \in Requests /\ text \in Seq(Lines) /\ point \in {"start", "lines", "file", "done"}
  /\ point # "done" => given = OldProgram /\ outcome = Running
  /\ point = "start" => text = << >> /\ held = {"old"}
  /\ point \in {"lines", "file"} => AddressValid(asked)

\* The image so far ends behind the last word that was read, inside the RAM.
TextSoFar ==
  point = "lines" =>
    /\ held = {"old", "ram"}
    /\ building.memory.bytes \in Arrays(asked.size)
    /\ building = Program(building.memory.bytes, asked.size, asked.load_address,
                          asked.entry, WordSize * Counted(text, Len(text)))
    /\ TextPlaced(building.memory.bytes, text, asked)
    /\ WordAt(asked, Counted(text, Len(text))) <= asked.size
    /\ \A k \in 1 .. Len(text) : ~BadLine(text, asked, k)

FileTaken ==
  point = "file" =>
    /\ text = << >> /\ held = {"old", "file"}
    /\ building.image_size \in FileSizes
    /\ building.image_size <= asked.size - asked.load_address

ReadersInv == CallTypes /\ TextSoFar /\ FileTaken /\ ReadersDeliver /\ ReadersFailCleanly

LEMMA LineKinds ==
  /\ Blank \in Lines /\ Blank.kind = "blank" /\ Blank \notin Broken
  /\ Broken \subseteq Lines
  /\ \A l \in Broken : l.kind \in {"nul", "long", "digits", "ninth", "second"}
  /\ \A l \in Lines : l.kind = "word" => l.word \in Word /\ l \notin Broken
<1>1. Blank \in Lines /\ Blank.kind = "blank" /\ Broken \subseteq Lines
  BY DEF Lines, Blank
<1>2. \A l \in Broken : l.kind \in {"nul", "long", "digits", "ninth", "second"}
  <2> SUFFICES ASSUME NEW l \in Broken
               PROVE  l.kind \in {"nul", "long", "digits", "ninth", "second"}
    OBVIOUS
  <2>1. PICK k \in {"nul", "long", "digits", "ninth", "second"} :
          l = [kind |-> k, word |-> 0]
    BY DEF Broken
  <2> QED
    BY <2>1
<1>3. \A w \in Words : WordLine(w).kind = "word" /\ WordLine(w).word \in Word
  BY ReadersAssumption DEF WordLine
<1>4. ASSUME NEW l \in Lines, l.kind = "word" PROVE l.word \in Word /\ l \notin Broken
  <2>1. l \notin Broken
    BY <1>2, <1>4
  <2>2. l # Blank
    BY <1>1, <1>4
  <2>3. PICK w \in Words : l = WordLine(w)
    BY <2>1, <2>2 DEF Lines
  <2> QED
    BY <1>3, <2>1, <2>3
<1>5. Blank \notin Broken
  BY <1>1, <1>2
<1> QED
  BY <1>1, <1>2, <1>4, <1>5

LEMMA CountedType ==
  ASSUME NEW t, NEW n \in Nat
  PROVE  IsFiniteSet({k \in 1 .. n : t[k].kind = "word"}) /\ Counted(t, n) \in Nat
<1> DEFINE S == {k \in 1 .. n : t[k].kind = "word"}
<1>1. IsFiniteSet(1 .. n) /\ S \in SUBSET (1 .. n)
  BY FS_Interval
<1>2. IsFiniteSet(S)
  BY <1>1, FS_Subset
<1>3. Cardinality(S) \in Nat
  BY <1>2, FS_CardinalityType
<1> QED
  BY <1>2, <1>3 DEF Counted

LEMMA NoLineCounted == ASSUME NEW t PROVE Counted(t, 0) = 0
<1>1. {k \in 1 .. 0 : t[k].kind = "word"} = {}
  OBVIOUS
<1> QED
  BY <1>1, FS_EmptySet DEF Counted

LEMMA CountedStep ==
  ASSUME NEW t, NEW n \in Nat
  PROVE  Counted(t, n + 1) = IF t[n + 1].kind = "word" THEN Counted(t, n) + 1 ELSE Counted(t, n)
<1> DEFINE S(m) == {k \in 1 .. m : t[k].kind = "word"}
<1>1. IsFiniteSet(S(n)) /\ n + 1 \notin S(n)
  <2>1. IsFiniteSet({k \in 1 .. n : t[k].kind = "word"})
    BY CountedType
  <2> QED
    BY <2>1
<1>2. CASE t[n + 1].kind = "word"
  <2>1. S(n + 1) = S(n) \cup {n + 1}
    BY <1>2
  <2>2. Cardinality(S(n) \cup {n + 1}) = Cardinality(S(n)) + 1
    <3> HIDE DEF S
    <3> QED
      BY <1>1, FS_AddElement
  <2> QED
    BY <1>2, <2>1, <2>2 DEF Counted
<1>3. CASE t[n + 1].kind # "word"
  <2>1. S(n + 1) = S(n)
    BY <1>3
  <2> QED
    BY <1>3, <2>1 DEF Counted
<1> QED
  BY <1>2, <1>3

LEMMA CountedGrows ==
  ASSUME NEW t, NEW m \in Nat, NEW n \in Nat, m <= n
  PROVE  Counted(t, m) <= Counted(t, n)
<1> DEFINE S(k) == {j \in 1 .. k : t[j].kind = "word"}
<1>1. S(m) \in SUBSET S(n) /\ IsFiniteSet(S(n))
  <2>1. IsFiniteSet({k \in 1 .. n : t[k].kind = "word"})
    BY CountedType
  <2>2. \A k \in S(m) : k \in S(n)
    OBVIOUS
  <2> QED
    BY <2>1, <2>2
<1>2. Cardinality(S(m)) <= Cardinality(S(n))
  <2> HIDE DEF S
  <2> QED
    BY <1>1, FS_Subset
<1> QED
  BY <1>2 DEF Counted

\* A word is counted at its own line.
LEMMA CountedAtWord ==
  ASSUME NEW t, NEW k \in Nat \ {0}, t[k].kind = "word"
  PROVE  Counted(t, k) \in Nat \ {0}
<1>1. k - 1 \in Nat /\ (k - 1) + 1 = k
  OBVIOUS
<1>2. Counted(t, k) = Counted(t, k - 1) + 1
  BY <1>1, CountedStep
<1>3. Counted(t, k - 1) \in Nat
  BY <1>1, CountedType
<1> QED
  BY <1>2, <1>3

\* A line more changes nothing of the lines before it.
LEMMA OneMoreLine ==
  ASSUME NEW t \in Seq(Lines), NEW l \in Lines
  PROVE  LET u == Append(t, l)
             n == Len(t)
         IN /\ u \in Seq(Lines) /\ n \in Nat /\ Len(u) = n + 1 /\ u[n + 1] = l
            /\ \A k \in 1 .. n : u[k] = t[k] /\ Counted(u, k) = Counted(t, k)
            /\ Counted(u, n + 1) = IF l.kind = "word" THEN Counted(t, n) + 1 ELSE Counted(t, n)
<1> DEFINE u == Append(t, l)
           n == Len(t)
           S(v, m) == {k \in 1 .. m : v[k].kind = "word"}
<1>1. /\ u \in Seq(Lines) /\ n \in Nat /\ Len(u) = n + 1 /\ u[n + 1] = l
      /\ \A k \in 1 .. n : u[k] = t[k]
  OBVIOUS
<1> HIDE DEF u
<1>2. \A m \in 0 .. n : S(u, m) = S(t, m)
  BY <1>1
<1>3. \A m \in 0 .. n : Counted(u, m) = Counted(t, m)
  BY <1>2 DEF Counted
<1>4. Counted(u, n + 1) = IF l.kind = "word" THEN Counted(t, n) + 1 ELSE Counted(t, n)
  <2>1. Counted(u, n + 1) = IF u[n + 1].kind = "word" THEN Counted(u, n) + 1 ELSE Counted(u, n)
    BY <1>1, CountedStep
  <2>2. Counted(u, n) = Counted(t, n)
    BY <1>1, <1>3
  <2> QED
    BY <1>1, <2>1, <2>2
<1>5. n \in 0 .. n /\ \A k \in 1 .. n : k \in 0 .. n
  BY <1>1
<1> QED
  BY <1>1, <1>3, <1>4, <1>5 DEF u

\* A line without a word leaves the image as it is.
LEMMA NothingPlaced ==
  ASSUME NEW t \in Seq(Lines), NEW l \in Lines, l.kind # "word", NEW bytes, NEW r,
         TextPlaced(bytes, t, r)
  PROVE  TextPlaced(bytes, Append(t, l), r)
<1> DEFINE u == Append(t, l)
           n == Len(t)
<1>1. /\ n \in Nat /\ Len(u) = n + 1 /\ u[n + 1] = l
      /\ \A k \in 1 .. n : u[k] = t[k] /\ Counted(u, k) = Counted(t, k)
      /\ Counted(u, n + 1) = Counted(t, n)
  BY OneMoreLine
<1> HIDE DEF u
<1>2. \A k \in 1 .. Len(u) : k = n + 1 \/ k \in 1 .. n
  BY <1>1
<1>3. TextPlaced(bytes, u, r)
  BY <1>1, <1>2 DEF TextPlaced
<1> QED
  BY <1>3 DEF u

\* A word written behind the words that are in place is in place, and so are they still.
LEMMA WordPlaced ==
  ASSUME NEW t \in Seq(Lines), NEW l \in Lines, l.kind = "word",
         NEW r \in [size : Nat, load_address : Nat, entry : Nat],
         NEW bytes \in Arrays(r.size), TextPlaced(bytes, t, r),
         AccessValid(r.size, WordAt(r, Counted(t, Len(t))), WordSize)
  PROVE  TextPlaced(WriteBytes(bytes, WordAt(r, Counted(t, Len(t))), WordSize, l.word),
                    Append(t, l), r)
<1> DEFINE u == Append(t, l)
           n == Len(t)
           c == Counted(t, n)
           a == WordAt(r, c)
           w == l.word
           g == WriteBytes(bytes, a, WordSize, w)
<1>1. /\ n \in Nat /\ Len(u) = n + 1 /\ u[n + 1] = l
      /\ \A k \in 1 .. n : u[k] = t[k] /\ Counted(u, k) = Counted(t, k)
      /\ Counted(u, n + 1) = c + 1
  BY OneMoreLine
<1>2. c \in Nat /\ r.load_address \in Nat /\ r.size \in Nat /\ a \in Nat
      /\ a = r.load_address + 4 * c /\ WordSize = 4 /\ WordSize \in Widths
  <2>1. c \in Nat
    BY <1>1, CountedType
  <2>2. a = r.load_address + 4 * c
    BY DEF WordAt, WordSize
  <2> QED
    BY <2>1, <2>2 DEF WordSize, Widths
<1>3. w \in Word /\ w \in Nat /\ w % Place(WordSize) = w
  <2>1. w \in Word
    BY LineKinds
  <2>2. Place(WordSize) \in Nat /\ Place(WordSize) > 0
    BY PlaceType DEF WordSize
  <2> QED
    BY <2>1, <2>2 DEF Word
<1>4. ReadBytes(g, a, WordSize) = w
  BY <1>2, <1>3, WriteThenRead
<1>5. \A i \in 0 .. r.size - 1 : i < a \/ i >= a + 4 => g[i] = bytes[i]
  BY <1>2 DEF WriteBytes, Arrays
<1>6. a + 4 <= r.size
  BY <1>2 DEF AccessValid
<1> HIDE DEF u, g, c, a, w, n
<1>7. \A k \in 1 .. n : u[k].kind = "word" =>
        ReadBytes(g, WordAt(r, Counted(u, k) - 1), WordSize) = u[k].word
  <2> SUFFICES ASSUME NEW k \in 1 .. n, t[k].kind = "word"
               PROVE  ReadBytes(g, WordAt(r, Counted(t, k) - 1), WordSize) = t[k].word
    BY <1>1
  <2> DEFINE b == WordAt(r, Counted(t, k) - 1)
  <2>1. Counted(t, k) \in Nat \ {0} /\ Counted(t, k) <= c
    BY <1>1, CountedAtWord, CountedGrows DEF c
  <2>2. b = r.load_address + 4 * (Counted(t, k) - 1)
    BY DEF WordAt, WordSize
  <2> HIDE DEF b
  <2>3. b \in Nat /\ b + 4 <= a
    <3> DEFINE x == Counted(t, k)
    <3>1. x \in Nat \ {0} /\ x <= c /\ b = r.load_address + 4 * (x - 1)
      BY <2>1, <2>2
    <3>2. r.load_address \in Nat /\ c \in Nat /\ a = r.load_address + 4 * c
      BY <1>2
    <3> HIDE DEF x
    <3> QED
      BY <3>1, <3>2
  <2>4. r.size \in Nat /\ a \in Nat /\ a + 4 <= r.size
    BY <1>2, <1>6
  <2>5. \A i \in {b, b + 1, b + 2, b + 3} : i \in 0 .. r.size - 1 /\ i < a
    BY <2>3, <2>4
  <2>6. \A i \in {b, b + 1, b + 2, b + 3} : g[i] = bytes[i]
    BY <1>5, <2>5
  <2>7. ReadBytes(bytes, b, WordSize) = t[k].word
    BY <1>1 DEF TextPlaced, n, b
  <2>8. ReadBytes(g, b, WordSize) = ReadBytes(bytes, b, WordSize)
    BY <2>6 DEF ReadBytes, ByteSize, HalfwordSize, WordSize
  <2> QED
    BY <2>7, <2>8 DEF b
<1>8. WordAt(r, Counted(u, n + 1) - 1) = a /\ WordAt(r, Counted(u, n + 1)) = a + 4
  BY <1>1, <1>2 DEF WordAt
<1>9. \A i \in 0 .. r.size - 1 :
        i < r.load_address \/ i >= WordAt(r, Counted(u, n + 1)) => g[i] = 0
  <2> SUFFICES ASSUME NEW i \in 0 .. r.size - 1, i < r.load_address \/ i >= a + 4
               PROVE  g[i] = 0
    BY <1>8
  <2>1. i < r.load_address \/ i >= a
    BY <1>2
  <2>2. bytes[i] = 0
    BY <2>1 DEF TextPlaced, a, c, n
  <2>3. i < a \/ i >= a + 4
    BY <1>2
  <2> QED
    BY <1>5, <2>2, <2>3
<1>10. \A k \in 1 .. Len(u) : k = n + 1 \/ k \in 1 .. n
  BY <1>1
<1>11. TextPlaced(g, u, r)
  BY <1>1, <1>4, <1>7, <1>8, <1>9, <1>10 DEF TextPlaced, w
<1> QED
  BY <1>11 DEF u, g, a, c, w, n

LEMMA CallFields ==
  ASSUME asked \in Requests
  PROVE  /\ asked \in [size : Nat, load_address : Nat, entry : Nat]
         /\ asked.size \in Nat /\ asked.load_address \in Nat /\ asked.entry \in Nat
         /\ Null \notin Arrays(asked.size)
  BY ReadersAssumption

\* What AddressValid says of the numbers.
LEMMA CallIsValid ==
  ASSUME asked \in Requests, AddressValid(asked)
  PROVE  /\ SizeValid(asked.size) /\ asked.size >= 4
         /\ asked.load_address % 4 = 0 /\ asked.load_address <= asked.size - 4
         /\ asked.entry % 4 = 0 /\ asked.entry >= asked.load_address
  BY CallFields DEF AddressValid, SizeValid, WordSize

\* The line that ErrorNamesLine calls bad.
LEMMA BadLineIs ==
  ASSUME NEW t, NEW r \in [size : Nat, load_address : Nat, entry : Nat], NEW k \in Nat
  PROVE  BadLine(t, r, k) <=>
           \/ t[k] \in Broken
           \/ t[k].kind = "word"
              /\ r.load_address + WordSize * (Counted(t, k) - 1) + WordSize > r.size
<1>1. Counted(t, k) \in Nat /\ r.load_address \in Nat /\ r.size \in Nat
  BY CountedType
<1>2. r.load_address + 4 * (Counted(t, k) - 1) + 4 = r.load_address + 4 * Counted(t, k)
  BY <1>1
<1> QED
  BY <1>2 DEF BadLine, WordAt, WordSize

\* A failure that names no line, or the right one, keeps the invariant.
LEMMA FailureKeepsInv ==
  ASSUME ReadersInv, point # "done", NEW line \in Nat, NEW message, ReadersFail(line, message),
         asked' = asked, text' \in Seq(Lines), message # "range",
         line # 0 => FirstBad(text', asked, line, message)
  PROVE  ReadersInv'
<1>1. /\ asked \in Requests /\ given = OldProgram
      /\ held \in {{"old"}, {"old", "ram"}, {"old", "file"}}
  BY DEF ReadersInv, CallTypes, TextSoFar, FileTaken
<1>2. /\ point' = "done" /\ outcome' = [ok |-> FALSE, line |-> line, message |-> message]
      /\ held' = held \ {"ram", "file"} /\ given' = given
  BY DEF ReadersFail
<1>3. CallTypes' /\ TextSoFar' /\ FileTaken'
  BY <1>1, <1>2 DEF CallTypes, TextSoFar, FileTaken
<1>4. ~outcome'.ok /\ outcome'.line = line /\ outcome'.message = message
  BY <1>2
<1>5. ReadersDeliver'
  BY <1>4 DEF ReadersDeliver, ReadersDeliverLoadable, TextInPlace, BinaryInPlace, FitTestSuffices
<1>6. ReadersReplaceOrKeep'
  BY <1>1, <1>2, <1>4 DEF ReadersReplaceOrKeep
<1>7. \A k \in Nat : BadLine(text', asked, k) <=>
                       \/ text'[k] \in Broken
                       \/ text'[k].kind = "word" /\ (At(WordsIn(k)) + WordSize > asked.size)'
  BY <1>1, CallFields, BadLineIs DEF At, WordsIn, Counted
<1>8. CASE line = 0
  <2>1. ErrorNamesLine'
    BY <1>4, <1>8 DEF ErrorNamesLine
  <2> QED
    BY <1>3, <1>5, <1>6, <2>1 DEF ReadersInv, ReadersFailCleanly
<1>9. CASE line # 0
  <2>1. FirstBad(text', asked, line, message)
    BY <1>9
  <2>2. \A k \in 1 .. line - 1 : k \in Nat
    OBVIOUS
  <2>3. ErrorNamesLine'
    BY <1>4, <1>7, <2>1, <2>2 DEF ErrorNamesLine, FirstBad
  <2> QED
    BY <1>3, <1>5, <1>6, <2>3 DEF ReadersInv, ReadersFailCleanly
<1> QED
  BY <1>8, <1>9

LEMMA ReadersInitInv == ReadersInit => ReadersInv
<1> SUFFICES ASSUME ReadersInit PROVE ReadersInv
  OBVIOUS
<1>1. CallTypes /\ TextSoFar /\ FileTaken
  BY DEF ReadersInit, CallTypes, TextSoFar, FileTaken
<1>2. ~outcome.ok /\ outcome.line = 0 /\ outcome.message = "running" /\ point = "start"
  BY DEF ReadersInit, Running
<1>3. ReadersDeliver
  BY <1>2 DEF ReadersDeliver, ReadersDeliverLoadable, TextInPlace, BinaryInPlace, FitTestSuffices
<1>4. ReadersFailCleanly
  BY <1>2 DEF ReadersFailCleanly, ErrorNamesLine, ReadersReplaceOrKeep
<1> QED
  BY <1>1, <1>3, <1>4 DEF ReadersInv

\* As long as nothing is delivered and nothing has failed.
LEMMA StillRunning ==
  ASSUME outcome' = Running, point' # "done"
  PROVE  ReadersDeliver' /\ ReadersFailCleanly'
<1>1. ~outcome'.ok /\ outcome'.line = 0 /\ outcome'.message = "running"
  BY DEF Running
<1>2. ReadersDeliver'
  BY <1>1 DEF ReadersDeliver, ReadersDeliverLoadable, TextInPlace, BinaryInPlace, FitTestSuffices
<1>3. ReadersFailCleanly'
  BY <1>1 DEF ReadersFailCleanly, ErrorNamesLine, ReadersReplaceOrKeep
<1> QED
  BY <1>2, <1>3

LEMMA ReadWordsKeepsInv == ASSUME ReadersInv, ReadWords PROVE ReadersInv'
<1>1. /\ asked \in Requests /\ text = << >> /\ held = {"old"}
      /\ given = OldProgram /\ outcome = Running /\ AddressValid(asked)
  BY DEF ReadersInv, CallTypes, ReadWords
<1>2. /\ asked' = asked /\ text' = << >> /\ point' = "lines" /\ held' = {"old", "ram"}
      /\ given' = given /\ outcome' = outcome
      /\ building' = Program(Zeros(asked.size), asked.size, asked.load_address, asked.entry, 0)
  BY <1>1 DEF ReadWords
<1>3. Counted(text', Len(text')) = 0 /\ Len(text') = 0
  BY <1>2, NoLineCounted
<1>4. CallTypes' /\ FileTaken'
  BY <1>1, <1>2 DEF CallTypes, FileTaken
<1>5. building'.memory.bytes = Zeros(asked.size) /\ Zeros(asked.size) \in Arrays(asked.size)
  BY <1>1, <1>2, CallFields, ZerosType DEF Program
<1>6. TextPlaced(Zeros(asked.size), text', asked)
  BY <1>3 DEF TextPlaced, Zeros
<1>7. WordAt(asked, 0) = asked.load_address /\ asked.load_address <= asked.size
  BY <1>1, CallFields, CallIsValid DEF WordAt, WordSize
<1>8. WordSize * 0 = 0
  BY DEF WordSize
<1>9. TextSoFar'
  BY <1>2, <1>3, <1>5, <1>6, <1>7, <1>8 DEF TextSoFar
<1> QED
  BY <1>1, <1>2, <1>4, <1>9, StillRunning DEF ReadersInv

\* What the invariant says before a line is read.
LEMMA BetweenLines ==
  ASSUME ReadersInv, point = "lines"
  PROVE  LET n == Len(text)
             c == Counted(text, n)
         IN /\ asked \in Requests /\ AddressValid(asked)
            /\ text \in Seq(Lines) /\ n \in Nat /\ c \in Nat
            /\ given = OldProgram /\ outcome = Running /\ held = {"old", "ram"}
            /\ building.memory.bytes \in Arrays(asked.size)
            /\ building = Program(building.memory.bytes, asked.size, asked.load_address,
                                  asked.entry, WordSize * c)
            /\ building.memory.size = asked.size /\ building.load_address = asked.load_address
            /\ building.entry = asked.entry /\ building.image_size = 4 * c
            /\ TextPlaced(building.memory.bytes, text, asked)
            /\ WordAt(asked, c) = asked.load_address + 4 * c
            /\ asked.load_address + 4 * c <= asked.size
            /\ \A k \in 1 .. n : ~BadLine(text, asked, k)
<1> DEFINE n == Len(text)
           c == Counted(text, n)
<1>1. /\ asked \in Requests /\ AddressValid(asked) /\ text \in Seq(Lines)
      /\ given = OldProgram /\ outcome = Running
  BY DEF ReadersInv, CallTypes
<1>2. n \in Nat /\ c \in Nat
  <2>1. n \in Nat
    BY <1>1
  <2> QED
    BY <2>1, CountedType
<1>3. /\ held = {"old", "ram"} /\ building.memory.bytes \in Arrays(asked.size)
      /\ building = Program(building.memory.bytes, asked.size, asked.load_address,
                            asked.entry, WordSize * c)
      /\ TextPlaced(building.memory.bytes, text, asked) /\ WordAt(asked, c) <= asked.size
      /\ \A k \in 1 .. n : ~BadLine(text, asked, k)
  BY DEF ReadersInv, TextSoFar
<1>4. WordAt(asked, c) = asked.load_address + 4 * c
  BY DEF WordAt, WordSize
<1> HIDE DEF n, c
<1>5. /\ building.memory.size = asked.size /\ building.load_address = asked.load_address
      /\ building.entry = asked.entry /\ building.image_size = 4 * c
  BY <1>3 DEF Program, WordSize
<1> QED
  BY <1>1, <1>2, <1>3, <1>4, <1>5 DEF n, c

\* The lines that were good stay good when one more is read.
LEMMA GoodSoFar ==
  ASSUME NEW t \in Seq(Lines), NEW l \in Lines, NEW r,
         \A k \in 1 .. Len(t) : ~BadLine(t, r, k)
  PROVE  \A k \in 1 .. Len(t) : ~BadLine(Append(t, l), r, k)
  BY OneMoreLine DEF BadLine

LEMMA BlankKeepsInv ==
  ASSUME ReadersInv, NEW l \in Lines, l = Blank, point = "lines",
         text' = Append(text, l), UNCHANGED <<asked, building, held, given, point, outcome>>
  PROVE  ReadersInv'
<1> DEFINE n == Len(text)
<1>1. l.kind # "word" /\ l \notin Broken
  BY LineKinds
<1>2. /\ text' \in Seq(Lines) /\ n \in Nat /\ Len(text') = n + 1 /\ text'[n + 1] = l
      /\ Counted(text', Len(text')) = Counted(text, n)
  BY <1>1, BetweenLines, OneMoreLine
<1>3. TextPlaced(building.memory.bytes, text', asked)
  BY <1>1, BetweenLines, NothingPlaced
<1>4. \A k \in 1 .. n : ~BadLine(text', asked, k)
  BY BetweenLines, GoodSoFar
<1>5. ~BadLine(text', asked, n + 1)
  BY <1>1, <1>2 DEF BadLine
<1>6. \A k \in 1 .. Len(text') : ~BadLine(text', asked, k)
  BY <1>2, <1>4, <1>5
<1>7. TextSoFar'
  BY <1>2, <1>3, <1>6 DEF ReadersInv, TextSoFar
<1>8. CallTypes' /\ FileTaken'
  BY <1>2, BetweenLines DEF CallTypes, FileTaken
<1> QED
  BY <1>7, <1>8, BetweenLines, StillRunning DEF ReadersInv

LEMMA BadLineKeepsInv ==
  ASSUME ReadersInv, NEW l \in Lines, NEW message, point = "lines",
         message \notin {"input", "range"},
         text' = Append(text, l), UNCHANGED asked, ReadersFail(ErrorLine(l), message),
         l \in Broken \/ (l.kind = "word" /\ DoesNotFit)
  PROVE  ReadersInv'
<1> DEFINE n == Len(text)
<1>1. /\ text' \in Seq(Lines) /\ n \in Nat /\ Len(text') = n + 1 /\ text'[n + 1] = l
      /\ l.kind = "word" => Counted(text', n + 1) = Counted(text, n) + 1
  BY BetweenLines, OneMoreLine
<1>2. \A k \in 1 .. n : ~BadLine(text', asked, k)
  BY BetweenLines, GoodSoFar
<1>3. ASSUME l.kind = "word", DoesNotFit PROVE WordAt(asked, Counted(text', n + 1)) > asked.size
  <2> DEFINE c == Counted(text, n)
  <2>1. c \in Nat /\ asked.load_address \in Nat /\ asked.size \in Nat
    BY BetweenLines, CallFields
  <2>2. 4 * c > asked.size - asked.load_address - 4
    BY <1>3, BetweenLines DEF DoesNotFit, WordSize
  <2>3. WordAt(asked, Counted(text', n + 1)) = asked.load_address + 4 * (c + 1)
    BY <1>1, <1>3 DEF WordAt, WordSize
  <2> HIDE DEF c, n
  <2>4. asked.load_address + 4 * (c + 1) > asked.size
    BY <2>1, <2>2
  <2> QED
    BY <2>3, <2>4
<1>4. BadLine(text', asked, n + 1)
  BY <1>1, <1>3 DEF BadLine
<1> HIDE DEF n
<1>5. n + 1 \in Nat /\ (n + 1) - 1 = n
  BY <1>1
<1>6. ReadersFail(n + 1, message)
  BY DEF ErrorLine, n
<1>7. FirstBad(text', asked, n + 1, message)
  BY <1>1, <1>2, <1>4, <1>5 DEF FirstBad
<1> QED
  BY <1>1, <1>5, <1>6, <1>7, FailureKeepsInv

LEMMA StoreWordKeepsInv ==
  ASSUME ReadersInv, NEW l \in Lines, l.kind = "word", ~DoesNotFit, point = "lines",
         text' = Append(text, l), UNCHANGED asked, StoreWord(l)
  PROVE  ReadersInv'
<1> DEFINE n == Len(text)
           c == Counted(text, n)
           a == WordAt(asked, c)
           b == building.memory.bytes
           g == WriteBytes(b, a, WordSize, l.word)
<1>1. /\ text' \in Seq(Lines) /\ n \in Nat /\ Len(text') = n + 1 /\ text'[n + 1] = l
      /\ Counted(text', n + 1) = c + 1
  BY BetweenLines, OneMoreLine
<1>2. /\ c \in Nat /\ a = asked.load_address + 4 * c /\ asked.size \in Nat
      /\ asked.load_address \in Nat /\ asked \in [size : Nat, load_address : Nat, entry : Nat]
      /\ b \in Arrays(asked.size)
  BY BetweenLines, CallFields
<1>3. /\ building.memory.size = asked.size
      /\ building.load_address + building.image_size = a
      /\ 4 * c <= asked.size - asked.load_address - 4
  <2>1. ~(4 * c > asked.size - asked.load_address - 4)
    BY BetweenLines DEF DoesNotFit, WordSize
  <2> QED
    BY <1>2, <2>1, BetweenLines
<1>4. AccessValid(asked.size, a, WordSize)
  <2>1. /\ SizeValid(asked.size) /\ asked.size >= 4 /\ asked.load_address % 4 = 0
    BY BetweenLines, CallIsValid
  <2> HIDE DEF c
  <2>2. a <= asked.size - 4 /\ a % 4 = 0
    BY <1>2, <1>3, <2>1
  <2> QED
    BY <2>1, <2>2 DEF AccessValid, WordSize
<1>5. /\ building' = [building EXCEPT !.memory.bytes = g, !.image_size = @ + WordSize]
      /\ UNCHANGED <<held, given, point, outcome>>
  BY <1>3, <1>4 DEF StoreWord
<1>6. l.word \in Word /\ l \notin Broken
  BY LineKinds
<1>7. g \in Arrays(asked.size)
  <2>1. a \in Nat /\ WordSize \in Widths
    BY <1>2 DEF Widths
  <2> QED
    BY <1>2, <1>6, <2>1, WriteBytesType
<1>8. TextPlaced(g, text', asked)
  BY <1>2, <1>4, BetweenLines, WordPlaced
<1> HIDE DEF g, a, b
<1>9. building' = Program(g, asked.size, asked.load_address, asked.entry, WordSize * (c + 1))
  <2>1. building = Program(b, asked.size, asked.load_address, asked.entry, WordSize * c)
    BY BetweenLines DEF b
  <2>2. WordSize * c + WordSize = WordSize * (c + 1)
    BY <1>2 DEF WordSize
  <2> HIDE DEF c
  <2> QED
    BY <1>5, <2>1, <2>2 DEF Program
<1>10. building'.memory.bytes = g
  BY <1>9 DEF Program
<1>11. WordAt(asked, c + 1) <= asked.size
  BY <1>2, <1>3 DEF WordAt, WordSize
<1>12. \A k \in 1 .. Len(text') : ~BadLine(text', asked, k)
  <2>1. \A k \in 1 .. n : ~BadLine(text', asked, k)
    BY BetweenLines, GoodSoFar
  <2>2. WordAt(asked, Counted(text', n + 1)) <= asked.size
    BY <1>1, <1>11
  <2>3. WordAt(asked, Counted(text', n + 1)) \in Nat
    BY <1>1, <1>2 DEF WordAt, WordSize
  <2>4. ~BadLine(text', asked, n + 1)
    BY <1>1, <1>2, <1>6, <2>2, <2>3 DEF BadLine
  <2> QED
    BY <1>1, <2>1, <2>4
<1>13. TextSoFar'
  BY <1>1, <1>5, <1>7, <1>8, <1>9, <1>10, <1>11, <1>12, BetweenLines DEF TextSoFar
<1>14. CallTypes' /\ FileTaken'
  BY <1>1, <1>5, BetweenLines DEF CallTypes, FileTaken
<1> QED
  BY <1>5, <1>13, <1>14, BetweenLines, StillRunning DEF ReadersInv

LEMMA ReadLineKeepsInv ==
  ASSUME ReadersInv, NEW l \in Lines, ReadLine(l)
  PROVE  ReadersInv'
<1>1. point = "lines" /\ text' = Append(text, l) /\ asked' = asked
  BY DEF ReadLine
<1>2. CASE l = Blank /\ UNCHANGED <<building, held, given, point, outcome>>
  BY <1>1, <1>2, BlankKeepsInv
<1>3. CASE l \in Broken /\ ReadersFail(ErrorLine(l), l.kind)
  <2>1. l.kind \notin {"input", "range"}
    BY <1>3, LineKinds
  <2> QED
    BY <1>1, <1>3, <2>1, BadLineKeepsInv
<1>4. CASE l.kind = "word" /\ DoesNotFit /\ ReadersFail(ErrorLine(l), "fit")
  BY <1>1, <1>4, BadLineKeepsInv
<1>5. CASE l.kind = "word" /\ ~DoesNotFit /\ StoreWord(l)
  BY <1>1, <1>5, StoreWordKeepsInv
<1> QED
  BY <1>2, <1>3, <1>4, <1>5 DEF ReadLine

LEMMA ReadErrorKeepsInv == ASSUME ReadersInv, ReadError PROVE ReadersInv'
<1>1. /\ point = "lines" /\ ReadersFail(Len(text) + 1, "input")
      /\ asked' = asked /\ text' = text
  BY DEF ReadError
<1>2. /\ text \in Seq(Lines) /\ Len(text) \in Nat
      /\ \A k \in 1 .. Len(text) : ~BadLine(text, asked, k)
  BY <1>1, BetweenLines
<1>3. Len(text) + 1 \in Nat /\ (Len(text) + 1) - 1 = Len(text)
  BY <1>2
<1>4. FirstBad(text', asked, Len(text) + 1, "input")
  BY <1>1, <1>2, <1>3 DEF FirstBad
<1> QED
  BY <1>1, <1>2, <1>3, <1>4, FailureKeepsInv

\* A failure after the last line, or before the first, names no line.
LEMMA NoLineKeepsInv ==
  ASSUME ReadersInv, point # "done", NEW message, message # "range",
         ReadersFail(0, message), UNCHANGED <<asked, text>>
  PROVE  ReadersInv'
<1>1. text' \in Seq(Lines) /\ asked' = asked
  BY DEF ReadersInv, CallTypes
<1> QED
  BY <1>1, FailureKeepsInv

\* The tests of machine_load on a program whose image ends inside the RAM and holds
\* the word of its entry.
LEMMA WhatIsLoadable ==
  ASSUME asked \in Requests, AddressValid(asked), NEW b \in Arrays(asked.size),
         NEW size \in Nat, size >= 4, asked.load_address + size <= asked.size,
         asked.entry - asked.load_address <= size - 4
  PROVE  LoadAccepts(Program(b, asked.size, asked.load_address, asked.entry, size))
<1>1. /\ asked.size \in Nat /\ asked.load_address \in Nat /\ asked.entry \in Nat /\ b # Null
  BY CallFields
<1>2. /\ SizeValid(asked.size) /\ asked.load_address <= asked.size - 4
      /\ asked.entry % 4 = 0 /\ asked.entry >= asked.load_address
  BY CallIsValid
<1>3. size <= asked.size - asked.load_address
  BY <1>1
<1> QED
  BY <1>1, <1>2, <1>3 DEF LoadAccepts, Program, WordSize

\* A delivered program replaces the caller's, and no failure is reported.
LEMMA DeliveryKeepsInv ==
  ASSUME ReadersInv, NEW program, Deliver(program), held' = {"ram"}, UNCHANGED <<asked, text>>,
         ReadersDeliverLoadable', TextInPlace', BinaryInPlace'
  PROVE  ReadersInv'
<1>1. /\ point' = "done" /\ outcome'.ok /\ outcome'.message = ""
  BY DEF Deliver
<1>2. CallTypes' /\ TextSoFar' /\ FileTaken'
  BY <1>1 DEF ReadersInv, CallTypes, TextSoFar, FileTaken
<1>3. ReadersDeliver'
  BY <1>1 DEF ReadersDeliver, FitTestSuffices
<1>4. ReadersFailCleanly'
  BY <1>1 DEF ReadersFailCleanly, ErrorNamesLine, ReadersReplaceOrKeep
<1> QED
  BY <1>2, <1>3, <1>4 DEF ReadersInv

LEMMA TextIsDelivered ==
  ASSUME ReadersInv, point = "lines", building.image_size # 0,
         building.entry - building.load_address < building.image_size,
         Deliver(building), held' = held \ {"old"}, UNCHANGED <<asked, text>>
  PROVE  ReadersInv'
<1> DEFINE n == Len(text)
           c == Counted(text, n)
           b == building.memory.bytes
<1>1. /\ asked \in Requests /\ AddressValid(asked) /\ text \in Seq(Lines) /\ n \in Nat /\ c \in Nat
      /\ held = {"old", "ram"} /\ b \in Arrays(asked.size)
      /\ building = Program(b, asked.size, asked.load_address, asked.entry, WordSize * c)
      /\ building.image_size = 4 * c /\ TextPlaced(b, text, asked)
      /\ building.load_address = asked.load_address /\ building.entry = asked.entry
      /\ asked.load_address + 4 * c <= asked.size
  BY BetweenLines
<1>2. /\ asked.size \in Nat /\ asked.load_address \in Nat /\ asked.entry \in Nat
      /\ asked.load_address % 4 = 0 /\ asked.entry % 4 = 0 /\ asked.entry >= asked.load_address
  BY <1>1, CallFields, CallIsValid
<1>3. given' = building /\ outcome'.ok
  BY DEF Deliver
<1> HIDE DEF n, c, b
<1>4. 4 * c >= 4 /\ asked.entry - asked.load_address <= 4 * c - 4
  <2>1. c # 0 /\ asked.entry - asked.load_address < 4 * c
    BY <1>1
  <2>2. PICK e \in Nat : asked.entry = 4 * e
    BY <1>2
  <2>3. PICK a \in Nat : asked.load_address = 4 * a
    BY <1>2
  <2> QED
    BY <1>1, <2>1, <2>2, <2>3
<1>5. ReadersDeliverLoadable'
  <2>1. 4 * c \in Nat /\ WordSize * c = 4 * c
    BY <1>1 DEF WordSize
  <2>2. LoadAccepts(Program(b, asked.size, asked.load_address, asked.entry, 4 * c))
    BY <1>1, <1>4, <2>1, WhatIsLoadable
  <2> QED
    BY <1>1, <1>3, <2>1, <2>2 DEF ReadersDeliverLoadable
<1>6. /\ given'.memory.bytes = b /\ given'.image_size = WordSize * c
  BY <1>1, <1>3 DEF Program, b
<1>7. TextInPlace'
  <2>1. \A k \in DOMAIN text' : text'[k].kind = "word" =>
          ReadBytes(b, At(WordsIn(k))', WordSize) = text'[k].word
    <3>1. DOMAIN text' = 1 .. Len(text)
      BY <1>1
    <3> QED
      BY <1>1, <3>1 DEF TextPlaced, At, WordsIn, WordAt, Counted
  <2>2. /\ asked'.load_address + WordSize * (1 - 1) = asked.load_address
        /\ asked'.load_address + WordSize * ((c + 1) - 1) = WordAt(asked, c)
    <3>1. asked.load_address + 4 * (1 - 1) = asked.load_address
      BY <1>2
    <3>2. (c + 1) - 1 = c
      BY <1>1
    <3> QED
      BY <1>1, <3>1, <3>2 DEF WordAt, WordSize
  <2>3. WordsIn(Len(text))' = c
    BY DEF WordsIn, Counted, c, n
  <2>4. \A i \in DOMAIN b : \/ i < asked'.load_address + WordSize * (1 - 1)
                           \/ i >= asked'.load_address + WordSize * ((c + 1) - 1)
                           => b[i] = 0
    <3>1. DOMAIN b = 0 .. asked.size - 1
      BY <1>1 DEF Arrays
    <3> QED
      BY <1>1, <2>2, <3>1 DEF TextPlaced, c, n
  <2>5. \A i \in DOMAIN b : i < At(1)' \/ i >= At(WordsIn(Len(text)) + 1)' => b[i] = 0
    BY <2>3, <2>4 DEF At
  <2>6. given'.image_size = WordSize * WordsIn(Len(text))'
    BY <1>6, <2>3
  <2> QED
    BY <1>6, <2>1, <2>5, <2>6 DEF TextInPlace
<1>8. BinaryInPlace'
  <2> SUFFICES ASSUME text = << >> PROVE FALSE
    BY DEF BinaryInPlace
  <2>1. c = 0
    BY NoLineCounted DEF c, n
  <2> QED
    BY <1>1, <2>1
<1>9. held' = {"ram"}
  BY <1>1
<1> QED
  BY <1>5, <1>7, <1>8, <1>9, DeliveryKeepsInv

LEMMA EndOfTextKeepsInv == ASSUME ReadersInv, EndOfText PROVE ReadersInv'
<1>1. point = "lines" /\ UNCHANGED <<asked, text>>
  BY DEF EndOfText
<1>2. CASE ReadersFail(0, "empty")
  BY <1>1, <1>2, NoLineKeepsInv
<1>3. CASE ReadersFail(0, "entry")
  BY <1>1, <1>3, NoLineKeepsInv
<1>4. CASE /\ building.image_size # 0
           /\ building.entry - building.load_address < building.image_size
           /\ Deliver(building) /\ held' = held \ {"old"}
  BY <1>1, <1>4, TextIsDelivered
<1> QED
  BY <1>2, <1>3, <1>4 DEF EndOfText

LEMMA ReadBinaryKeepsInv ==
  ASSUME ReadersInv, NEW size \in FileSizes, ReadBinary(size)
  PROVE  ReadersInv'
<1>1. point = "start" /\ AddressValid(asked) /\ UNCHANGED <<asked, text>>
  BY DEF ReadBinary
<1>2. CASE ReadersFail(0, "input")
  BY <1>1, <1>2, NoLineKeepsInv
<1>3. CASE ReadersFail(0, "long")
  BY <1>1, <1>3, NoLineKeepsInv
<1>4. CASE /\ size <= asked.size - asked.load_address
           /\ held' = held \cup {"file"}
           /\ building' = [NoProgram EXCEPT !.image_size = size]
           /\ point' = "file" /\ UNCHANGED <<given, outcome>>
  <2>1. /\ asked \in Requests /\ text = << >> /\ held = {"old"}
        /\ given = OldProgram /\ outcome = Running
    BY <1>1 DEF ReadersInv, CallTypes
  <2>2. building'.image_size = size
    BY <1>4 DEF NoProgram
  <2>3. CallTypes' /\ TextSoFar' /\ FileTaken'
    BY <1>1, <1>4, <2>1, <2>2 DEF CallTypes, TextSoFar, FileTaken
  <2> QED
    BY <1>4, <2>1, <2>3, StillRunning DEF ReadersInv
<1> QED
  BY <1>2, <1>3, <1>4 DEF ReadBinary

LEMMA CopyBinaryKeepsInv == ASSUME ReadersInv, CopyBinary PROVE ReadersInv'
<1> DEFINE size == building.image_size
           b == Copied(size)
<1>1. /\ point = "file" /\ EntryComplete /\ UNCHANGED <<asked, text>>
      /\ Deliver(Program(b, asked.size, asked.load_address, asked.entry, size))
      /\ held' = (held \ {"old", "file"}) \cup {"ram"}
  BY DEF CopyBinary
<1>2. /\ asked \in Requests /\ AddressValid(asked) /\ text = << >> /\ held = {"old", "file"}
      /\ size \in FileSizes /\ size <= asked.size - asked.load_address
  BY <1>1 DEF ReadersInv, CallTypes, FileTaken
<1>3. /\ size \in Nat /\ \A k \in 0 .. size - 1 : Content(k) \in Byte
      /\ asked.size \in Nat /\ asked.load_address \in Nat
  BY <1>2, CallFields, ReadersAssumption
<1>4. size >= 4 /\ asked.entry - asked.load_address <= size - 4
  BY <1>1 DEF EntryComplete, WordSize
<1> HIDE DEF size
<1>5. \A i \in 0 .. asked.size - 1 :
        b[i] = IF i - asked.load_address \in 0 .. size - 1 THEN Content(i - asked.load_address) ELSE 0
  <2>1. \A i \in 0 .. asked.size - 1 :
          i \in asked.load_address .. asked.load_address + size - 1
            <=> i - asked.load_address \in 0 .. size - 1
    BY <1>3
  <2> QED
    BY <2>1 DEF Copied
<1>6. b \in Arrays(asked.size)
  <2>1. 0 \in Byte
    BY ByteBaseAssumption DEF Byte
  <2>2. \A i \in 0 .. asked.size - 1 : b[i] \in Byte
    BY <1>3, <1>5, <2>1
  <2>3. b = [i \in 0 .. asked.size - 1 |-> b[i]]
    BY DEF Copied
  <2> HIDE DEF b
  <2> QED
    BY <2>2, <2>3 DEF Arrays
<1>7. DOMAIN b = 0 .. asked.size - 1
  BY DEF Copied
<1> HIDE DEF b
<1>8. given' = Program(b, asked.size, asked.load_address, asked.entry, size)
  BY <1>1 DEF Deliver
<1>9. ReadersDeliverLoadable'
  <2>1. asked.load_address + size <= asked.size
    BY <1>2, <1>3
  <2>2. LoadAccepts(Program(b, asked.size, asked.load_address, asked.entry, size))
    BY <1>2, <1>3, <1>4, <1>6, <2>1, WhatIsLoadable
  <2> QED
    BY <1>8, <2>2 DEF ReadersDeliverLoadable
<1>10. given'.memory.bytes = b /\ given'.image_size = size
  BY <1>8 DEF Program
<1>11. TextInPlace' /\ BinaryInPlace'
  BY <1>1, <1>2, <1>5, <1>7, <1>10 DEF TextInPlace, BinaryInPlace
<1>12. held' = {"ram"}
  BY <1>1, <1>2
<1> QED
  BY <1>1, <1>9, <1>11, <1>12, DeliveryKeepsInv

LEMMA ReadersStep == ReadersInv /\ [ReadersNext]_readerVars => ReadersInv'
<1> SUFFICES ASSUME ReadersInv, [ReadersNext]_readerVars PROVE ReadersInv'
  OBVIOUS
<1>1. CASE UNCHANGED readerVars
  <2>1. UNCHANGED <<asked, text, building, held, given, point, outcome>>
    BY <1>1 DEF readerVars
  <2>2. CallTypes' /\ TextSoFar' /\ FileTaken'
    BY <2>1 DEF ReadersInv, CallTypes, TextSoFar, FileTaken
  <2>3. ReadersDeliver'
    BY <2>1 DEF ReadersInv, ReadersDeliver, ReadersDeliverLoadable, TextInPlace, BinaryInPlace,
                FitTestSuffices, At, WordsIn
  <2>4. ReadersFailCleanly'
    BY <2>1 DEF ReadersInv, ReadersFailCleanly, ErrorNamesLine, ReadersReplaceOrKeep, At, WordsIn
  <2> QED
    BY <2>2, <2>3, <2>4 DEF ReadersInv
<1>2. CASE Refuse
  BY <1>2, NoLineKeepsInv DEF Refuse
<1>3. CASE AllocationFails
  BY <1>3, NoLineKeepsInv DEF AllocationFails
<1>4. CASE CheckBinary
  BY <1>4, NoLineKeepsInv DEF CheckBinary
<1>5. CASE BinaryRamFails
  BY <1>5, NoLineKeepsInv DEF BinaryRamFails
<1>6. CASE ReadersDone
  BY <1>1, <1>6 DEF ReadersDone
<1> QED
  BY <1>1, <1>2, <1>3, <1>4, <1>5, <1>6, ReadWordsKeepsInv, ReadErrorKeepsInv,
     EndOfTextKeepsInv, ReadLineKeepsInv, ReadBinaryKeepsInv, CopyBinaryKeepsInv DEF ReadersNext

LEMMA ReadersInvariant == ReadersSpec => []ReadersInv
<1>1. ReadersInit => ReadersInv
  BY ReadersInitInv
<1>2. ReadersInv /\ [ReadersNext]_readerVars => ReadersInv'
  BY ReadersStep
<1> QED
  BY <1>1, <1>2, PTL DEF ReadersSpec

\* What the readers deliver is what the file says, where it says: machine_load accepts
\* it, word k of a text and byte k of a binary are in their places with zeros around
\* them, and the fit test before the write of a word suffices (read_words,
\* program_read_binary).
THEOREM ReadersDeliverTheFile == ReadersSpec => []ReadersDeliver
<1>1. ReadersInv => ReadersDeliver
  BY DEF ReadersInv
<1> QED
  BY <1>1, ReadersInvariant, PTL

\* A failure names the first line that cannot be loaded, keeps the caller's program and
\* leaves nothing allocated (read_words, program_read_binary).
THEOREM ReadersFailCleanlyAlways == ReadersSpec => []ReadersFailCleanly
<1>1. ReadersInv => ReadersFailCleanly
  BY DEF ReadersInv
<1> QED
  BY <1>1, ReadersInvariant, PTL
=============================================================================
