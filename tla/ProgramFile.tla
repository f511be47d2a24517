----------------------------- MODULE ProgramFile -----------------------------
(***************************************************************************)
(* What the readers of program files have in common: the bytes of the      *)
(* file, and the program that the caller already had.                      *)
(***************************************************************************)
EXTENDS ProgramImage

CONSTANTS FileSize,   \* how long the file is
          Content(_)  \* the byte at a position of the file

\* in_range of program_elf.c: the subtraction follows the test that keeps it from
\* wrapping.
InRange(offset, length, size) == offset <= size /\ length <= size - offset

\* A program that the caller had before the call.
OldProgram == Program("old", WordSize, 0, 0, WordSize)
=============================================================================
