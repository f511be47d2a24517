----------------------------- MODULE Instruction -----------------------------
(***************************************************************************)
(* The decoder (src/instruction.c).  A word is the set of the positions of *)
(* its one bits, so that the shifts and masks of the code are set          *)
(* operations on all 32 bits.                                              *)
(***************************************************************************)
EXTENDS Integers, Sequences

Positions == 0 .. 31
WordBits == SUBSET Positions

ShiftedRight(w, n) == {k \in Positions : k + n \in w}
ShiftedLeft(w, n) == {k \in Positions : k - n \in w}
\* (value ^ sign) - sign, for a value of that many bits.
SignExtend(value, bits) ==
  IF bits - 1 \in value THEN value \cup (bits .. 31) ELSE value

LOAD == {0, 1}
MISC_MEM == 0 .. 3
OP_IMM == {0, 1, 4}
AUIPC == {0, 1, 2, 4}
STORE == {0, 1, 5}
OP == {0, 1, 4, 5}
LUI == {0, 1, 2, 4, 5}
BRANCH == {0, 1, 5, 6}
JALR == {0, 1, 2, 5, 6}
JAL == {0, 1, 2, 3, 5, 6}
SYSTEM == {0, 1, 4, 5, 6}
BASE == {}
ALTERNATE == {5}

Opcode(w) == w \cap 0 .. 6
Rd(w) == ShiftedRight(w, 7) \cap 0 .. 4
Rs1(w) == ShiftedRight(w, 15) \cap 0 .. 4
Rs2(w) == ShiftedRight(w, 20) \cap 0 .. 4
Funct7(w) == ShiftedRight(w, 25) \cap 0 .. 6
\* A number: it indexes the tables.
Funct3(w) == (IF 12 \in w THEN 1 ELSE 0) + (IF 13 \in w THEN 2 ELSE 0)
             + (IF 14 \in w THEN 4 ELSE 0)

RegisterOps == <<"ADD", "SLL", "SLT", "SLTU", "XOR", "SRL", "OR", "AND">>
ImmediateOps == <<"ADDI", "UNKNOWN", "SLTI", "SLTIU", "XORI", "UNKNOWN", "ORI", "ANDI">>
BranchOps == <<"BEQ", "BNE", "UNKNOWN", "UNKNOWN", "BLT", "BGE", "BLTU", "BGEU">>
LoadOps == <<"LB", "LH", "LW", "UNKNOWN", "LBU", "LHU", "UNKNOWN", "UNKNOWN">>
StoreOps == <<"SB", "SH", "SW", "UNKNOWN", "UNKNOWN", "UNKNOWN", "UNKNOWN", "UNKNOWN">>

RegisterKind(w) ==
  IF Funct7(w) = BASE THEN RegisterOps[Funct3(w) + 1]
  ELSE IF Funct7(w) = ALTERNATE /\ Funct3(w) = 0 THEN "SUB"
  ELSE IF Funct7(w) = ALTERNATE /\ Funct3(w) = 5 THEN "SRA" ELSE "UNKNOWN"

\* funct7 of OP_IMM matters to the shifts only.
ImmediateKind(w) ==
  IF Funct3(w) \in {1, 5} /\ Funct7(w) = BASE
    THEN IF Funct3(w) = 1 THEN "SLLI" ELSE "SRLI"
  ELSE IF Funct3(w) = 5 /\ Funct7(w) = ALTERNATE THEN "SRAI"
  ELSE ImmediateOps[Funct3(w) + 1]

SystemKind(w) ==
  IF w = SYSTEM THEN "ECALL" ELSE IF w = SYSTEM \cup {20} THEN "EBREAK" ELSE "UNKNOWN"

Kind(w) ==
  LET opcode == Opcode(w)
      third == Funct3(w)
  IN IF opcode = OP THEN RegisterKind(w)
     ELSE IF opcode = OP_IMM THEN ImmediateKind(w)
     ELSE IF opcode = LUI THEN "LUI"
     ELSE IF opcode = AUIPC THEN "AUIPC"
     ELSE IF opcode = JAL THEN "JAL"
     ELSE IF opcode = JALR THEN IF third = 0 THEN "JALR" ELSE "UNKNOWN"
     ELSE IF opcode = BRANCH THEN BranchOps[third + 1]
     ELSE IF opcode = LOAD THEN LoadOps[third + 1]
     ELSE IF opcode = STORE THEN StoreOps[third + 1]
     ELSE IF opcode = MISC_MEM THEN IF third = 0 THEN "FENCE" ELSE "UNKNOWN"
     ELSE IF opcode = SYSTEM THEN SystemKind(w) ELSE "UNKNOWN"

Format(w) ==
  LET opcode == Opcode(w)
  IN IF opcode = OP THEN "R"
     ELSE IF opcode \in {OP_IMM, JALR, LOAD, MISC_MEM, SYSTEM} THEN "I"
     ELSE IF opcode \in {LUI, AUIPC} THEN "U"
     ELSE IF opcode = JAL THEN "J"
     ELSE IF opcode = BRANCH THEN "B"
     ELSE IF opcode = STORE THEN "S" ELSE "unknown"

ImmediateI(w) == SignExtend(ShiftedRight(w, 20), 12)
ImmediateS(w) ==
  SignExtend((ShiftedRight(w, 20) \cap 5 .. 11) \cup (ShiftedRight(w, 7) \cap 0 .. 4), 12)
\* Bit 7 of the word is taken for the sign, bit 31 for bit 11.
ImmediateBSwapped(w) ==
  SignExtend((ShiftedLeft(w, 5) \cap {12}) \cup (ShiftedRight(w, 20) \cap {11})
             \cup (ShiftedRight(w, 20) \cap 5 .. 10) \cup (ShiftedRight(w, 7) \cap 1 .. 4), 13)
ImmediateB(w) ==
  SignExtend(ShiftedLeft(ShiftedRight(w, 31), 12) \cup (ShiftedLeft(w, 4) \cap {11})
             \cup (ShiftedRight(w, 20) \cap 5 .. 10) \cup (ShiftedRight(w, 7) \cap 1 .. 4), 13)
ImmediateU(w) == w \cap 12 .. 31
ImmediateJ(w) ==
  SignExtend(ShiftedLeft(ShiftedRight(w, 31), 20) \cup (w \cap 12 .. 19)
             \cup (ShiftedRight(w, 9) \cap {11}) \cup (ShiftedRight(w, 20) \cap 1 .. 10), 21)

Immediate(w) ==
  LET opcode == Opcode(w)
  IN IF opcode = OP_IMM /\ Funct3(w) \in {1, 5} THEN Rs2(w)
     ELSE IF opcode \in {OP_IMM, JALR, LOAD} THEN ImmediateI(w)
     ELSE IF opcode = STORE THEN ImmediateS(w)
     ELSE IF opcode = BRANCH THEN ImmediateB(w)
     ELSE IF opcode \in {LUI, AUIPC} THEN ImmediateU(w)
     ELSE IF opcode = JAL THEN ImmediateJ(w) ELSE {}

Decode(w) == [kind |-> Kind(w), format |-> Format(w), rd |-> Rd(w), rs1 |-> Rs1(w),
              rs2 |-> Rs2(w), immediate |-> Immediate(w)]
=============================================================================
