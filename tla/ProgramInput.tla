---------------------------- MODULE ProgramInput ----------------------------
(***************************************************************************)
(* program_input_bytes (src/program_io.c): a file of unknown length is     *)
(* read into a buffer that doubles up to a limit.  A byte of the file is   *)
(* its position, so that a byte lost, repeated or out of place shows.      *)
(* Of stdio: fread is short only at the end of the file or on an error.    *)
(***************************************************************************)
EXTENDS Integers, Sequences

CONSTANTS Chunk,       \* 4096 in the code
          Limits,      \* the limits that the loaders give
          FileLengths  \* how long a file may be

VARIABLES file,    \* its length and the limit, fixed; the position of the stream
          buffer,  \* data, capacity, and whether the block is allocated
          step,    \* where the loop is
          answer   \* what the function returned

inputVars == <<file, buffer, step, answer>>

ASSUME ProgramInputAssumption ==
  /\ Chunk \in Nat \ {0} /\ Limits \subseteq Nat \ {0}
  /\ FileLengths \subseteq Nat

Results == {"running", "ok", "no memory", "read error", "too long"}
used == Len(buffer.data)
Contents(first, last) == [k \in 1 .. last - first + 1 |-> first + k - 1]

InputInit ==
  /\ file \in [length : FileLengths, limit : Limits, position : {0}]
  /\ buffer = [data |-> << >>, capacity |-> 0, allocated |-> FALSE]
  /\ step = "allocate" /\ answer = "running"

Answer(r) == step' = "done" /\ answer' = r
InputFail(reason) == Answer(reason) /\ buffer' = [buffer EXCEPT !.allocated = FALSE]

Allocate ==
  /\ step = "allocate" /\ UNCHANGED file
  /\ \/ Answer("no memory") /\ UNCHANGED buffer
     \/ /\ buffer' = [buffer EXCEPT !.allocated = TRUE,
                        !.capacity = IF file.limit < Chunk THEN file.limit ELSE Chunk]
        /\ step' = "fread" /\ UNCHANGED answer

\* Some bytes may have come before the error.
FreadError ==
  /\ step = "fread"
  /\ \E n \in 0 .. file.length - file.position :
       n <= buffer.capacity - used /\ file' = [file EXCEPT !.position = @ + n]
  /\ InputFail("read error")

\* The buffer is filled; the end of the file is noticed only beyond its last byte.
Fread ==
  LET room == buffer.capacity - used
      left == file.length - file.position
      n == IF left < room THEN left ELSE room
  IN /\ step = "fread"
     /\ file' = [file EXCEPT !.position = @ + n]
     /\ buffer' = [buffer EXCEPT !.data = @ \o Contents(file.position + 1, file.position + n)]
     /\ IF left < room THEN Answer("ok") ELSE step' = "fgetc" /\ UNCHANGED answer

FgetcError == step = "fgetc" /\ InputFail("read error") /\ UNCHANGED file

\* EOF only ends a read that filled less than the buffer.
FgetcEndRetries ==
  /\ step = "fgetc" /\ file.position = file.length
  /\ step' = "fread" /\ UNCHANGED <<file, buffer, answer>>

FgetcEnd ==
  /\ step = "fgetc" /\ file.position = file.length
  /\ Answer("ok") /\ UNCHANGED <<file, buffer>>

\* One byte more than the buffer holds has been read.
FgetcByte ==
  /\ step = "fgetc" /\ file.position < file.length
  /\ file' = [file EXCEPT !.position = @ + 1]
  /\ IF buffer.capacity = file.limit THEN InputFail("too long")
     ELSE step' = "grow" /\ UNCHANGED <<buffer, answer>>

Grown(capacity) == IF capacity > file.limit \div 2 THEN file.limit ELSE capacity * 2

\* The byte read ahead is dropped.
GrowDropsByte ==
  /\ step = "grow" /\ buffer' = [buffer EXCEPT !.capacity = Grown(@)]
  /\ step' = "fread" /\ UNCHANGED <<file, answer>>

Grow ==
  /\ step = "grow"
  /\ buffer' = [buffer EXCEPT !.capacity = Grown(@), !.data = Append(@, file.position)]
  /\ step' = "fread" /\ UNCHANGED <<file, answer>>
GrowFails == step = "grow" /\ InputFail("no memory") /\ UNCHANGED file

InputDone == step = "done" /\ UNCHANGED inputVars

InputNext == \/ Allocate \/ Fread \/ FreadError
        \/ FgetcByte \/ FgetcEnd \/ FgetcError \/ Grow \/ GrowFails \/ InputDone
InputSpec == InputInit /\ [][InputNext]_inputVars
-----------------------------------------------------------------------------

\* The bytes stored never pass the block, nor the block the limit: the doubling
\* stops at a limit that is no power of two (the growth of program_input_bytes).
BufferFits == used <= buffer.capacity /\ buffer.capacity <= file.limit

\* What is delivered is the whole file in order: the byte that fgetc reads ahead
\* to find the end of the file is neither lost nor stored twice.
DeliversFile == answer = "ok" => buffer.data = Contents(1, file.length)

\* A file is refused for its length if and only if it is longer than the limit: a
\* file of exactly the limit is read to its end and accepted.
RefusesOnlyLonger ==
  /\ answer = "too long" => file.length > file.limit
  /\ answer = "ok" => file.length <= file.limit

\* The block is the caller's after a success and freed after any failure, also one
\* after some growth.
BlockAccounted == step = "done" => (buffer.allocated <=> answer = "ok")

\* The four together: the file is read whole, or refused for a reason, and the block is
\* neither passed nor lost (program_input_bytes).
FileIsRead == BufferFits /\ DeliversFile /\ RefusesOnlyLonger /\ BlockAccounted

\* The loop ends for every file: each round that does not end it enlarges the buffer.
InputReturns == <>(step = "done")
=============================================================================
