------------------------------ MODULE Operands ------------------------------
(***************************************************************************)
(* Every pair of operands of the ALU, and what its operations mean for the *)
(* integers that words stand for.                                          *)
(***************************************************************************)
EXTENDS Alu

VARIABLES left, right

OperandsInit == left \in Word /\ right = 0
Count == right' = (right + 1) % Modulus /\ UNCHANGED left
OperandsSpec == OperandsInit /\ [][Count]_<<left, right>>

\* Reference: the integer that a word stands for.
Signed(x) == IF x >= SignBit THEN x - Modulus ELSE x

\* Signed comparison and subtraction agree with the integers the words stand
\* for, at the sign boundary too: flipping the sign bit orders the words, and
\* the difference wraps (SLT, SLTI, BLT, BGE and SUB of execute()).
ComparesSigned ==
  /\ Result("SLT", left, right) = Flag(Signed(left) < Signed(right))
  /\ Signed(Result("SUB", left, right)) - (Signed(left) - Signed(right)) \in {-Modulus, 0, Modulus}

\* Shifts multiply and divide: only the low bits of the amount count, a right
\* shift rounds towards minus infinity for a negative word, and the amounts 0
\* and XLEN - 1 are no exception (SLL, SRL, SRA of execute()).
ShiftsScale ==
  LET power == 2 ^ (right % XLEN)
  IN /\ Result("SLL", left, right) = (left * power) % Modulus
     /\ Result("SRL", left, right) = left \div power
     /\ Result("SRA", left, right) = (Signed(left) \div power) % Modulus

\* Both together: the bit operations of the code are arithmetic on integers.
BitsAreArithmetic == ComparesSigned /\ ShiftsScale
=============================================================================
