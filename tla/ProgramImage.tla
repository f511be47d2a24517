---------------------------- MODULE ProgramImage ----------------------------
(***************************************************************************)
(* What passes from the loaders to the machine: struct Program             *)
(* (include/program.h), and the tests of machine_load (src/machine.c).     *)
(***************************************************************************)
EXTENDS MemoryAccess

CONSTANT Null  \* no RAM

NoImage == [bytes |-> Null, size |-> 0]
NoProgram == [memory |-> NoImage, load_address |-> 0, entry |-> 0, image_size |-> 0]

\* A program of the loaders, over a RAM of the given contents.
Program(ram, size, load_address, entry, image_size) ==
  [memory |-> [bytes |-> ram, size |-> size], load_address |-> load_address,
   entry |-> entry, image_size |-> image_size]

\* The entry is only compared with the end of the RAM.
LoadAcceptsLateEntry(p) ==
  /\ p.memory.bytes # Null /\ SizeValid(p.memory.size)
  /\ p.image_size >= WordSize
  /\ p.load_address <= p.memory.size - WordSize
  /\ p.image_size <= p.memory.size - p.load_address
  /\ p.entry % WordSize = 0 /\ p.entry >= p.load_address
  /\ p.entry - p.load_address <= p.image_size

\* The alignment of the entry is not tested.
LoadAcceptsUnaligned(p) ==
  /\ p.memory.bytes # Null /\ SizeValid(p.memory.size)
  /\ p.image_size >= WordSize
  /\ p.load_address <= p.memory.size - WordSize
  /\ p.image_size <= p.memory.size - p.load_address
  /\ p.entry >= p.load_address
  /\ p.entry - p.load_address <= p.image_size - WordSize

\* Every unsigned subtraction is guarded by the test before it.
LoadAccepts(p) ==
  /\ p.memory.bytes # Null /\ SizeValid(p.memory.size)
  /\ p.image_size >= WordSize
  /\ p.load_address <= p.memory.size - WordSize
  /\ p.image_size <= p.memory.size - p.load_address
  /\ p.entry % WordSize = 0 /\ p.entry >= p.load_address
  /\ p.entry - p.load_address <= p.image_size - WordSize
=============================================================================
