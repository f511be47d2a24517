------------------------------ MODULE Encoding ------------------------------
(***************************************************************************)
(* The encoder of the tests (tests/support/encoding.h, with the codes of   *)
(* the vectors in tests/test_rv32_decode.c) as the reference of the        *)
(* decoder: words made by it, and words with a bit of those flipped.       *)
(***************************************************************************)
EXTENDS Instruction

CONSTANT Samples  \* the instructions that are encoded

VARIABLES sample, word

Register == SUBSET (0 .. 4)
\* The bits of a funct3, in numerical order.
ThreeBits == <<{}, {0}, {1}, {0, 1}, {2}, {0, 2}, {1, 2}, {0, 1, 2}>>

Code(opcode, third, seventh) == [opcode |-> opcode, funct3 |-> third, funct7 |-> seventh]
Codes ==
  [ADD |-> Code(OP, 0, BASE), SUB |-> Code(OP, 0, ALTERNATE), SLL |-> Code(OP, 1, BASE),
   SLT |-> Code(OP, 2, BASE), SLTU |-> Code(OP, 3, BASE), XOR |-> Code(OP, 4, BASE),
   SRL |-> Code(OP, 5, BASE), SRA |-> Code(OP, 5, ALTERNATE), OR |-> Code(OP, 6, BASE),
   AND |-> Code(OP, 7, BASE), ADDI |-> Code(OP_IMM, 0, BASE), SLTI |-> Code(OP_IMM, 2, BASE),
   SLTIU |-> Code(OP_IMM, 3, BASE), XORI |-> Code(OP_IMM, 4, BASE), ORI |-> Code(OP_IMM, 6, BASE),
   ANDI |-> Code(OP_IMM, 7, BASE), SLLI |-> Code(OP_IMM, 1, BASE), SRLI |-> Code(OP_IMM, 5, BASE),
   SRAI |-> Code(OP_IMM, 5, ALTERNATE), LUI |-> Code(LUI, 0, BASE), AUIPC |-> Code(AUIPC, 0, BASE),
   JAL |-> Code(JAL, 0, BASE), JALR |-> Code(JALR, 0, BASE), BEQ |-> Code(BRANCH, 0, BASE),
   BNE |-> Code(BRANCH, 1, BASE), BLT |-> Code(BRANCH, 4, BASE), BGE |-> Code(BRANCH, 5, BASE),
   BLTU |-> Code(BRANCH, 6, BASE), BGEU |-> Code(BRANCH, 7, BASE), LB |-> Code(LOAD, 0, BASE),
   LH |-> Code(LOAD, 1, BASE), LW |-> Code(LOAD, 2, BASE), LBU |-> Code(LOAD, 4, BASE),
   LHU |-> Code(LOAD, 5, BASE), SB |-> Code(STORE, 0, BASE), SH |-> Code(STORE, 1, BASE),
   SW |-> Code(STORE, 2, BASE), ECALL |-> Code(SYSTEM, 0, BASE), EBREAK |-> Code(SYSTEM, 0, BASE)]

RKinds == {"ADD", "SUB", "SLL", "SLT", "SLTU", "XOR", "SRL", "SRA", "OR", "AND"}
ShiftKinds == {"SLLI", "SRLI", "SRAI"}
IKinds == {"ADDI", "SLTI", "SLTIU", "XORI", "ORI", "ANDI", "JALR", "LB", "LH", "LW", "LBU", "LHU"}
SKinds == {"SB", "SH", "SW"}
BKinds == {"BEQ", "BNE", "BLT", "BGE", "BLTU", "BGEU"}

\* The immediates of n bits, of which the lowest are zero, as 32-bit words.
Immediates(zeros, n) ==
  {v \in WordBits : /\ v \cap 0 .. zeros - 1 = {}
                /\ \A k \in n .. 31 : k \in v <=> n - 1 \in v}

\* An instruction; operands that its format lacks are empty.
Instruction(kind, rd, rs1, rs2, immediate) ==
  [kind |-> kind, rd |-> rd, rs1 |-> rs1, rs2 |-> rs2, immediate |-> immediate]

EncodeR(c, rd, rs1, rs2) ==
  ShiftedLeft(c.funct7, 25) \cup ShiftedLeft(rs2, 20) \cup ShiftedLeft(rs1, 15)
  \cup ShiftedLeft(ThreeBits[c.funct3 + 1], 12) \cup ShiftedLeft(rd, 7) \cup c.opcode
EncodeI(c, rd, rs1, immediate) ==
  ShiftedLeft(immediate \cap 0 .. 11, 20) \cup ShiftedLeft(rs1, 15)
  \cup ShiftedLeft(ThreeBits[c.funct3 + 1], 12) \cup ShiftedLeft(rd, 7) \cup c.opcode
EncodeS(c, rs1, rs2, immediate) ==
  ShiftedLeft(ShiftedRight(immediate \cap 0 .. 11, 5), 25) \cup ShiftedLeft(rs2, 20)
  \cup ShiftedLeft(rs1, 15) \cup ShiftedLeft(ThreeBits[c.funct3 + 1], 12)
  \cup ShiftedLeft(immediate \cap 0 .. 4, 7) \cup c.opcode
EncodeB(c, rs1, rs2, immediate) ==
  ShiftedLeft(ShiftedRight(immediate \cap 0 .. 12, 12), 31)
  \cup ShiftedLeft(ShiftedRight(immediate, 5) \cap 0 .. 5, 25) \cup ShiftedLeft(rs2, 20)
  \cup ShiftedLeft(rs1, 15) \cup ShiftedLeft(ThreeBits[c.funct3 + 1], 12)
  \cup ShiftedLeft(ShiftedRight(immediate, 1) \cap 0 .. 3, 8)
  \cup ShiftedLeft(ShiftedRight(immediate, 11) \cap {0}, 7) \cup c.opcode
EncodeU(c, rd, immediate) == immediate \cup ShiftedLeft(rd, 7) \cup c.opcode
EncodeJ(c, rd, immediate) ==
  ShiftedLeft(ShiftedRight(immediate \cap 0 .. 20, 20), 31)
  \cup ShiftedLeft(ShiftedRight(immediate, 1) \cap 0 .. 9, 21)
  \cup ShiftedLeft(ShiftedRight(immediate, 11) \cap {0}, 20) \cup (immediate \cap 12 .. 19)
  \cup ShiftedLeft(rd, 7) \cup c.opcode

Encode(i) ==
  LET c == Codes[i.kind]
  IN IF i.kind \in RKinds THEN EncodeR(c, i.rd, i.rs1, i.rs2)
     ELSE IF i.kind \in ShiftKinds THEN EncodeR(c, i.rd, i.rs1, i.immediate)
     ELSE IF i.kind \in IKinds THEN EncodeI(c, i.rd, i.rs1, i.immediate)
     ELSE IF i.kind \in SKinds THEN EncodeS(c, i.rs1, i.rs2, i.immediate)
     ELSE IF i.kind \in BKinds THEN EncodeB(c, i.rs1, i.rs2, i.immediate)
     ELSE IF i.kind \in {"LUI", "AUIPC"} THEN EncodeU(c, i.rd, i.immediate)
     ELSE IF i.kind = "JAL" THEN EncodeJ(c, i.rd, i.immediate)
     ELSE IF i.kind = "EBREAK" THEN {20} \cup c.opcode ELSE c.opcode

\* The instructions that can be written: an operand is a register or an
\* immediate in the range of the format.
Assembly ==
  {i \in [kind : DOMAIN Codes, rd : Register, rs1 : Register, rs2 : Register, immediate : WordBits] :
     /\ i.kind \in SKinds \cup BKinds \cup {"ECALL", "EBREAK"} => i.rd = {}
     /\ i.kind \in {"LUI", "AUIPC", "JAL", "ECALL", "EBREAK"} => i.rs1 = {}
     /\ i.kind \notin RKinds \cup SKinds \cup BKinds => i.rs2 = {}
     /\ i.kind \in RKinds \cup {"ECALL", "EBREAK"} => i.immediate = {}
     /\ i.kind \in ShiftKinds => i.immediate \in Register
     /\ i.kind \in IKinds \cup SKinds => i.immediate \in Immediates(0, 12)
     /\ i.kind \in BKinds => i.immediate \in Immediates(1, 13)
     /\ i.kind \in {"LUI", "AUIPC"} => i.immediate \subseteq 12 .. 31
     /\ i.kind = "JAL" => i.immediate \in Immediates(1, 21)}

\* The operands that the format of a decoded word gives a meaning to.
Operands(d) ==
  LET is(kinds) == d.kind \in kinds
      none == {"ECALL", "EBREAK"}
  IN Instruction(d.kind, IF is(SKinds \cup BKinds \cup none) THEN {} ELSE d.rd,
                 IF is({"LUI", "AUIPC", "JAL"} \cup none) THEN {} ELSE d.rs1,
                 IF is(RKinds \cup SKinds \cup BKinds) THEN d.rs2 ELSE {}, d.immediate)

\* Only what can be written is encoded.
ASSUME EncodingAssumption == Samples \subseteq Assembly

EncodingInit == sample \in Samples /\ word = Encode(sample)

\* One bit of an encoded word is wrong.
Flip(bit) ==
  /\ word = Encode(sample)
  /\ word' = IF bit \in word THEN word \ {bit} ELSE word \cup {bit}
  /\ UNCHANGED sample

Restore == word # Encode(sample) /\ word' = Encode(sample) /\ UNCHANGED sample

EncodingNext == Restore \/ \E bit \in Positions : Flip(bit)
EncodingSpec == EncodingInit /\ [][EncodingNext]_<<sample, word>>

\* Decoding gives back what was encoded: the kind, the registers and the
\* immediate, whose sign and groups of bits are spread over the word
\* (instruction_decode against encode_r, encode_i, encode_s, encode_b, encode_j).
EncodedIsDecoded == word = Encode(sample) => Operands(Decode(word)) = sample

\* A word the decoder accepts is the encoding of what it says: no two words
\* decode to one instruction, and a word that encodes none is UNKNOWN.  FENCE
\* alone ignores bits of the word, by the comment in instruction_decode.
AcceptedIsEncoded ==
  LET i == Operands(Decode(word))
  IN i.kind \notin {"UNKNOWN", "FENCE"} => i \in Assembly /\ Encode(i) = word

\* Both together: the decoder is the inverse of the encoder.
DecoderInvertsEncoder == EncodedIsDecoded /\ AcceptedIsEncoded
=============================================================================
