-------------------------------- MODULE Bits --------------------------------
(***************************************************************************)
(* The bits of a number and the number that bits stand for: what C says of *)
(* the operands and of the results of &, | and ^, and of printing a word   *)
(* as a number.                                                            *)
(***************************************************************************)
EXTENDS Integers

\* The positions of the n lowest bits of x that are one.
BitsOf(x, n) == {k \in 0 .. n - 1 : (x \div 2 ^ k) % 2 = 1}

Weight(bits, k) == IF k \in bits THEN 2 ^ k ELSE 0

\* The sum of the weights of the bits below n.
NumberOf(bits, n) ==
  LET below[k \in 0 .. n] == IF k = 0 THEN 0 ELSE below[k - 1] + Weight(bits, k - 1)
  IN below[n]
=============================================================================
