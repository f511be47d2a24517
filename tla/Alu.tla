--------------------------------- MODULE Alu ---------------------------------
(***************************************************************************)
(* The arithmetic of execute() in src/cpu.c: the value of each register    *)
(* and immediate operation, computed with the shifts, masks and casts of   *)
(* the code.  XLEN is the width of a word in bits, 32 in the code.         *)
(***************************************************************************)
EXTENDS Bits

CONSTANT XLEN

ASSUME XLENAssumption == XLEN \in {2, 4, 8, 16, 32}

Modulus == 2 ^ XLEN
Word == 0 .. Modulus - 1
SignBit == 2 ^ (XLEN - 1)

x & y == NumberOf(BitsOf(x, XLEN) \cap BitsOf(y, XLEN), XLEN)
x | y == NumberOf(BitsOf(x, XLEN) \cup BitsOf(y, XLEN), XLEN)
x ^^ y ==
  NumberOf((BitsOf(x, XLEN) \ BitsOf(y, XLEN)) \cup (BitsOf(y, XLEN) \ BitsOf(x, XLEN)), XLEN)

ShiftAmount(y) == y & (XLEN - 1)
ShiftLeft(x, amount) == (x * 2 ^ amount) % Modulus
ShiftRight(x, amount) == x \div 2 ^ amount

\* The comparison of the bit patterns.
UnsignedLess(x, y) == x < y

SignedLess(x, y) == (x ^^ SignBit) < (y ^^ SignBit)

\* arithmetic_right: the shift fills with zeros, the mask then sets the sign.
ArithmeticRight(x, amount) ==
  LET shift == ShiftAmount(amount)
  IN IF shift = 0 THEN x
     ELSE IF x & SignBit # 0
       THEN ShiftRight(x, shift) | ShiftLeft(Modulus - 1, XLEN - shift)
       ELSE ShiftRight(x, shift)

Flag(b) == IF b THEN 1 ELSE 0

\* The right operand is a register or an immediate; the decoder delivers shift
\* immediates below XLEN, which the code does not mask again.
Result(kind, x, y) ==
  CASE kind \in {"ADD", "ADDI"} -> (x + y) % Modulus
    [] kind = "SUB" -> (x - y) % Modulus
    [] kind = "SLL" -> ShiftLeft(x, ShiftAmount(y))
    [] kind = "SLLI" -> ShiftLeft(x, y)
    [] kind = "SRL" -> ShiftRight(x, ShiftAmount(y))
    [] kind = "SRLI" -> ShiftRight(x, y)
    [] kind \in {"SRA", "SRAI"} -> ArithmeticRight(x, y)
    [] kind \in {"SLT", "SLTI"} -> Flag(SignedLess(x, y))
    [] kind \in {"SLTU", "SLTIU"} -> Flag(x < y)
    [] kind \in {"XOR", "XORI"} -> x ^^ y
    [] kind \in {"OR", "ORI"} -> x | y
    [] kind \in {"AND", "ANDI"} -> x & y
=============================================================================
