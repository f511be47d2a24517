---------------------------- MODULE MemoryAccess ----------------------------
(***************************************************************************)
(* The address arithmetic of src/memory.c: which sizes a RAM may have,     *)
(* which accesses it accepts, and how a halfword or a word is laid out in  *)
(* bytes.  An array of bytes is a function from 0 .. size-1; nothing here  *)
(* has state.  ByteBase is the number of values of a byte (256 in the      *)
(* code), so a word has ByteBase^4 values; MaxSize is MEMORY_MAX_SIZE.     *)
(***************************************************************************)
EXTENDS Integers

CONSTANTS ByteBase, MaxSize

ASSUME ByteBaseAssumption == ByteBase \in Nat /\ ByteBase >= 2
ASSUME MaxSizeAssumption == MaxSize \in Nat

ByteSize == 1
HalfwordSize == 2
WordSize == 4
Widths == {ByteSize, HalfwordSize, WordSize}

\* The weight of the k-th byte of a word; Place(k) is 2^(8k) in the code.
Place(k) ==
  IF k = 0 THEN 1
  ELSE IF k = 1 THEN ByteBase
  ELSE IF k = 2 THEN ByteBase * ByteBase
  ELSE IF k = 3 THEN ByteBase * ByteBase * ByteBase
  ELSE ByteBase * ByteBase * ByteBase * ByteBase

Byte == 0 .. ByteBase - 1
Word == 0 .. Place(WordSize) - 1

\* memory_size_valid
SizeValid(size) == size >= WordSize /\ size <= MaxSize /\ size % WordSize = 0

\* memory_access_valid, for a RAM whose bytes are allocated: the range test
\* subtracts on the side of the size, so that address + width cannot wrap.
AccessValid(size, address, width) ==
  /\ SizeValid(size)
  /\ width > 0 /\ width <= size
  /\ address <= size - width
  /\ address % width = 0

Arrays(size) == [0 .. size - 1 -> Byte]
Zeros(size) == [i \in 0 .. size - 1 |-> 0]

\* memory_read_u8, memory_read_u16, memory_read_u32: least significant byte first.
ReadBytes(bytes, address, width) ==
  IF width = ByteSize THEN bytes[address]
  ELSE IF width = HalfwordSize THEN bytes[address] + Place(1) * bytes[address + 1]
  ELSE bytes[address] + Place(1) * bytes[address + 1]
         + Place(2) * bytes[address + 2] + Place(3) * bytes[address + 3]

\* The k-th byte of a value, counted from the least significant: a shift and a cast.
ByteOf(value, k) == (value \div Place(k)) % ByteBase

\* memory_write_u8, memory_write_u16, memory_write_u32
WriteBytes(bytes, address, width, value) ==
  [i \in DOMAIN bytes |-> IF i \in address .. address + width - 1
                            THEN ByteOf(value, i - address) ELSE bytes[i]]
=============================================================================
