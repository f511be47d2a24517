-------------------------------- MODULE MCAlu --------------------------------
(* Every pair of operands of an 8-bit ALU, compared with two's complement;   *)
(* and every kind of instruction with registers and immediates at the        *)
(* boundaries of their fields, with every word one bit away from those.      *)
EXTENDS Operands, Disassembly

\* The operands are counted through while the first instruction stays encoded, and
\* the words while the operands are zero.
First == CHOOSE s \in Samples : TRUE
Init ==
  \/ OperandsInit /\ sample = First /\ word = Encode(First)
  \/ left = 0 /\ right = 0 /\ EncodingInit
CountFirst ==
  sample = First /\ word = Encode(First) /\ Count /\ UNCHANGED <<sample, word>>
Corrupt == left = 0 /\ right = 0 /\ EncodingNext /\ UNCHANGED <<left, right>>

Next == CountFirst \/ Corrupt
Spec == Init /\ [][Next]_<<left, right, sample, word>>
-----------------------------------------------------------------------------
Regs == {{}, {0, 3}, 0 .. 4}
\* The words of n bits with the given low bits, sign-extended.
Extended(n, lows) == {SignExtend(low, n) : low \in lows}
Twelve == Extended(12, {{}, {0}, 0 .. 4, {5}, {10}, {0, 10, 11}, 0 .. 10, {11}, 0 .. 11})
Thirteen == Extended(13, {{}, {1}, 1 .. 4, {5}, {10}, {11}, 1 .. 11, {12}, 1 .. 12, {11, 12}})
TwentyOne ==
  Extended(21, {{}, {1}, {10}, {11}, {12}, {19}, 1 .. 10, 1 .. 19, {20}, 1 .. 20, {11, 20}})
Twenty == {{}, {12}, {31}, 12 .. 31, {13, 30}}

MCSamples ==
  {Instruction(k, rd, rs1, rs2, {}) : k \in RKinds, rd \in Regs, rs1 \in Regs, rs2 \in Regs}
  \cup {Instruction(k, rd, rs1, {}, v) : k \in ShiftKinds, rd \in Regs, rs1 \in Regs, v \in Regs}
  \cup {Instruction(k, rd, rs1, {}, v) : k \in IKinds, rd \in Regs, rs1 \in Regs, v \in Twelve}
  \cup {Instruction(k, {}, rs1, rs2, v) : k \in SKinds, rs1 \in Regs, rs2 \in Regs, v \in Twelve}
  \cup {Instruction(k, {}, rs1, rs2, v) : k \in BKinds, rs1 \in Regs, rs2 \in Regs, v \in Thirteen}
  \cup {Instruction(k, rd, {}, {}, v) : k \in {"LUI", "AUIPC"}, rd \in Regs, v \in Twenty}
  \cup {Instruction("JAL", rd, {}, {}, v) : rd \in Regs, v \in TwentyOne}
  \cup {Instruction(k, {}, {}, {}, {}) : k \in {"ECALL", "EBREAK"}}
=============================================================================
