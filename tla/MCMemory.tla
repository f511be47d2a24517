------------------------------ MODULE MCMemory ------------------------------
(* Bytes of one bit, RAM of one or two words.  Either any calls of memory.c on *)
(* two owners and three blocks, or a machine and a program: two blocks for the *)
(* old images, two for the new ones, and one for the program.                  *)
EXTENDS MachineImages, TLC

CONSTANTS o1, o2, program, ram, pristine, nextRam, nextPristine, b1, b2, b3, b4, b5

VARIABLE active  \* "calls" or "machine"

memoryVars == <<imageVars, active>>

Few == {b1, b2, b3}
Lone == {o1, o2, Null}

InitAll == ImagesInit /\ active \in {"calls", "machine"}
Call ==
  /\ active = "calls" /\ CallWith(Lone) /\ \A b \in Blocks \ Few : heap'[b] = NotAllocated
  /\ UNCHANGED <<loaded, load, before, active>>
\* Images differ in their first word.
FirstWordOnly == \A b \in Blocks : \A i \in DOMAIN heap'[b] \ (0 .. 3) : heap'[b][i] = 0
UseMachine == active = "machine" /\ ImagesNext /\ FirstWordOnly /\ UNCHANGED active

NextAll == Call \/ UseMachine
SpecAll == InitAll /\ [][NextAll]_memoryVars
-----------------------------------------------------------------------------
MCOwners == {o1, o2, program, ram, pristine, nextRam, nextPristine}
MCPrograms == {program}
MCBlocks == Few \cup {b4, b5}
\* 0, 6 and 12 are refused: too small, unaligned, over the maximum of 8.
MCSizes == {0, 4, 6, 8, 12}
\* Aligned and unaligned for each width, the last word, and one past the end.
MCAddresses == {0, 1, 4, 6, 8}
MCValues == {13}

\* Blocks and owners are interchangeable where no definition singles one out.
Symmetric == Permutations({o1, o2}) \cup Permutations(Few)
=============================================================================
