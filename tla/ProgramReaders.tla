--------------------------- MODULE ProgramReaders ---------------------------
(***************************************************************************)
(* program_read_words (src/program.c) and program_read_binary              *)
(* (src/program_io.c).  The text is read a line at a time; what a line may *)
(* be is Lines.  The file of a binary comes from program_input_bytes, of   *)
(* which ProgramInput shows that it delivers exactly the files within its  *)
(* limit.  Any allocation may fail, and any line may end in a read error.  *)
(***************************************************************************)
EXTENDS ProgramFile, Sequences, FiniteSets

CONSTANTS Requests,   \* RAM size, load address and entry of a call
          Words,      \* the words of a text
          MaxLines,   \* how many lines a text may have
          FileSizes   \* how long a binary may be

ASSUME ReadersAssumption ==
  /\ Requests \subseteq [size : Nat, load_address : Nat, entry : Nat]
  /\ \A r \in Requests : Null \notin Arrays(r.size)
  /\ Words \subseteq Word /\ FileSizes \subseteq Nat
  /\ \A size \in FileSizes : \A k \in 0 .. size - 1 : Content(k) \in Byte

VARIABLES asked,  \* the arguments of the call
          text,     \* the lines read so far
          building,     \* the Program being built
          held,    \* the allocations that the function or its caller still hold
          given,   \* the caller's Program
          point, outcome

readerVars == <<asked, text, building, held, given, point, outcome>>

\* What a line turns out to be.  NUL bytes and lines over 511 bytes are found
\* before the line is counted; no digit, a ninth digit and a second word after.
Blank == [kind |-> "blank", word |-> 0]
Broken == {[kind |-> k, word |-> 0] : k \in {"nul", "long", "digits", "ninth", "second"}}
WordLine(w) == [kind |-> "word", word |-> w]
Lines == {Blank} \cup Broken \cup {WordLine(w) : w \in Words}

Running == [ok |-> FALSE, line |-> 0, message |-> "running"]

\* program_address_valid
AddressValid(r) ==
  /\ SizeValid(r.size)
  /\ r.load_address % WordSize = 0 /\ r.load_address <= r.size - WordSize
  /\ r.entry % WordSize = 0 /\ r.entry >= r.load_address /\ r.entry <= r.size - WordSize

ReadersInit ==
  /\ asked \in Requests
  /\ text = << >> /\ building = NoProgram /\ given = OldProgram /\ held = {"old"}
  /\ point = "start" /\ outcome = Running

\* Every error path destroys the program being built and frees the file.
ReadersFail(line, message) ==
  /\ point' = "done" /\ outcome' = [ok |-> FALSE, line |-> line, message |-> message]
  /\ held' = held \ {"ram", "file"} /\ building' = NoProgram
  /\ UNCHANGED given

\* program_destroy(output); *output = next
Deliver(program) ==
  /\ point' = "done" /\ outcome' = [ok |-> TRUE, line |-> 0, message |-> ""]
  /\ given' = program /\ building' = NoProgram

Refuse ==
  /\ point = "start" /\ ~AddressValid(asked)
  /\ ReadersFail(0, "address") /\ UNCHANGED <<asked, text>>
AllocationFails ==
  /\ point = "start" /\ AddressValid(asked)
  /\ ReadersFail(0, "memory") /\ UNCHANGED <<asked, text>>

ReadWords ==
  /\ point = "start" /\ AddressValid(asked)
  /\ building' = Program(Zeros(asked.size), asked.size, asked.load_address, asked.entry, 0)
  /\ held' = held \cup {"ram"}
  /\ point' = "lines" /\ UNCHANGED <<asked, text, given, outcome>>

\* The start of the word is compared with the end of the RAM.
DoesNotFitLate == building.image_size > building.memory.size - building.load_address
\* available_bytes - MEMORY_WORD_SIZE does not underflow: the load address is
\* at most the last word of the RAM.
DoesNotFit == building.image_size > building.memory.size - building.load_address - WordSize

\* line_number, or line_number + 1 before the line has been counted.
ErrorLine(l) == Len(text) + 1

StoreWord(l) ==
  LET address == building.load_address + building.image_size
  IN IF AccessValid(building.memory.size, address, WordSize)
       THEN /\ building' = [building EXCEPT !.memory.bytes = WriteBytes(@, address, WordSize, l.word),
                                    !.image_size = @ + WordSize]
            /\ UNCHANGED <<held, given, point, outcome>>
       ELSE ReadersFail(ErrorLine(l), "range")

ReadLine(l) ==
  /\ point = "lines" /\ Len(text) < MaxLines
  /\ text' = Append(text, l) /\ UNCHANGED asked
  /\ \/ l = Blank /\ UNCHANGED <<building, held, given, point, outcome>>
     \/ l \in Broken /\ ReadersFail(ErrorLine(l), l.kind)
     \/ l.kind = "word" /\ DoesNotFit /\ ReadersFail(ErrorLine(l), "fit")
     \/ l.kind = "word" /\ ~DoesNotFit /\ StoreWord(l)

\* An input error is noticed at the end of the line it cuts short.
ReadError ==
  /\ point = "lines" /\ ReadersFail(Len(text) + 1, "input") /\ UNCHANGED <<asked, text>>

EndOfText ==
  /\ point = "lines" /\ UNCHANGED <<asked, text>>
  /\ \/ building.image_size = 0 /\ ReadersFail(0, "empty")
     \/ /\ building.image_size # 0 /\ building.entry - building.load_address >= building.image_size
        /\ ReadersFail(0, "entry")
     \/ /\ building.image_size # 0 /\ building.entry - building.load_address < building.image_size
        /\ Deliver(building) /\ held' = held \ {"old"}

\* program_input_bytes with the room behind the load address as its limit.
ReadBinary(size) ==
  /\ point = "start" /\ AddressValid(asked)
  /\ UNCHANGED <<asked, text>>
  /\ \/ ReadersFail(0, "input")  \* a read or an allocation failed
     \/ size > asked.size - asked.load_address /\ ReadersFail(0, "long")
     \/ /\ size <= asked.size - asked.load_address
        /\ held' = held \cup {"file"}
        /\ building' = [NoProgram EXCEPT !.image_size = size]
        /\ point' = "file" /\ UNCHANGED <<given, outcome>>

EntryComplete ==
  /\ building.image_size >= WordSize
  /\ asked.entry - asked.load_address <= building.image_size - WordSize

\* The file is not freed when it does not hold the entry.
CheckBinaryLeaks ==
  /\ point = "file" /\ ~EntryComplete /\ UNCHANGED <<asked, text, given>>
  /\ point' = "done" /\ outcome' = [ok |-> FALSE, line |-> 0, message |-> "entry"]
  /\ building' = NoProgram /\ UNCHANGED held
CheckBinary ==
  /\ point = "file" /\ ~EntryComplete
  /\ ReadersFail(0, "entry") /\ UNCHANGED <<asked, text>>

BinaryRamFails ==
  /\ point = "file" /\ EntryComplete
  /\ ReadersFail(0, "memory") /\ UNCHANGED <<asked, text>>

Copied(size) ==
  [i \in 0 .. asked.size - 1 |->
     IF i \in asked.load_address .. asked.load_address + size - 1
       THEN Content(i - asked.load_address) ELSE 0]

CopyBinary ==
  /\ point = "file" /\ EntryComplete /\ UNCHANGED <<asked, text>>
  /\ Deliver(Program(Copied(building.image_size), asked.size, asked.load_address,
                     asked.entry, building.image_size))
  /\ held' = (held \ {"old", "file"}) \cup {"ram"}

ReadersDone == point = "done" /\ UNCHANGED readerVars

ReadersNext == \/ Refuse \/ AllocationFails \/ ReadWords \/ ReadError \/ EndOfText
        \/ \E l \in Lines : ReadLine(l)
        \/ \E size \in FileSizes : ReadBinary(size)
        \/ CheckBinary \/ BinaryRamFails \/ CopyBinary \/ ReadersDone
ReadersSpec == ReadersInit /\ [][ReadersNext]_readerVars
-----------------------------------------------------------------------------
\* How many of the first n lines are words.
WordsIn(n) == Cardinality({k \in 1 .. n : text[k].kind = "word"})
At(k) == asked.load_address + WordSize * (k - 1)

\* Whatever a reader delivers, machine_load accepts: the five subtractions of the
\* readers guard the same edges as those of the machine (program_address_valid,
\* the fit test, the entry tests of both readers against machine_load).
ReadersDeliverLoadable == outcome.ok => LoadAccepts(given)

\* Word k of the text is the k-th word from the load address, comments and blank
\* lines leave no gap, and the rest of the RAM is zero (read_words).
TextInPlace ==
  LET count == WordsIn(Len(text))
      bytes == given.memory.bytes
  IN outcome.ok /\ text # << >> =>
       /\ given.image_size = WordSize * count
       /\ \A k \in DOMAIN text : text[k].kind = "word" =>
            ReadBytes(bytes, At(WordsIn(k)), WordSize) = text[k].word
       /\ \A i \in DOMAIN bytes : i < At(1) \/ i >= At(count + 1) => bytes[i] = 0

\* A binary is the image byte for byte from the load address, and the rest of the
\* RAM is zero (the memcpy of program_read_binary).
BinaryInPlace ==
  LET bytes == given.memory.bytes
      i0 == asked.load_address
  IN outcome.ok /\ text = << >> =>
       \A i \in DOMAIN bytes :
         bytes[i] = IF i - i0 \in 0 .. given.image_size - 1 THEN Content(i - i0) ELSE 0

\* The write of a word is never refused: the fit test before it, which subtracts on
\* the side of the RAM, lets no word through that would pass its end (read_words).
FitTestSuffices == outcome.message # "range"

\* The four together: what the readers deliver is what the file says, where it says.
ReadersDeliver == ReadersDeliverLoadable /\ TextInPlace /\ BinaryInPlace /\ FitTestSuffices

\* The line of a message is the first line that cannot be loaded: broken, or a word
\* beyond the end of the RAM.  The line being read counts when the input fails.
ErrorNamesLine ==
  LET bad(k) == \/ text[k] \in Broken
                \/ text[k].kind = "word"
                   /\ At(WordsIn(k)) + WordSize > asked.size
      line == outcome.line
  IN ~outcome.ok /\ line > 0 =>
       /\ IF outcome.message = "input" THEN line = Len(text) + 1 ELSE line = Len(text) /\ bad(line)
       /\ \A k \in 1 .. line - 1 : ~bad(k)

\* A failure at any point keeps the caller's program, a success releases it, and
\* nothing else stays allocated ("A successful load replaces the old owner;
\* failure preserves it", include/program.h).
ReadersReplaceOrKeep ==
  point = "done" =>
    IF outcome.ok THEN held = {"ram"} ELSE held = {"old"} /\ given = OldProgram

\* Both together: a failure says where, and leaves nothing else behind.
ReadersFailCleanly == ErrorNamesLine /\ ReadersReplaceOrKeep
=============================================================================
