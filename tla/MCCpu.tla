-------------------------------- MODULE MCCpu --------------------------------
(* Cpu with bytes of two bits: words of 8 bits, a RAM of two words and three *)
(* registers.  A word is decoded by a table: its kind is its remainder       *)
(* modulo 42, its operands are one of six rows.                              *)
EXTENDS Cpu, Sequences

A == INSTANCE Alu WITH XLEN <- 8

KindAt ==
  << "UNKNOWN", "ADD", "SUB", "SLL", "SLT", "SLTU", "XOR", "SRL", "SRA", "OR", "AND",
     "ADDI", "SLTI", "SLTIU", "XORI", "ORI", "ANDI", "SLLI", "SRLI", "SRAI",
     "LUI", "AUIPC", "JAL", "JALR", "BEQ", "BNE", "BLT", "BGE", "BLTU", "BGEU",
     "LB", "LH", "LW", "LBU", "LHU", "SB", "SH", "SW", "FENCE", "ECALL", "EBREAK", "UNKNOWN" >>

Row(rd, rs1, rs2, immediate) ==
  [rd |-> rd, rs1 |-> rs1, rs2 |-> rs2, immediate |-> immediate]
Rows == << Row(1, 0, 2, 4), Row(2, 1, 2, 2), Row(0, 1, 1, 255),
           Row(1, 1, 2, 8), Row(1, 2, 1, 5), Row(2, 2, 2, 252) >>

\* As in the code: shift amounts are below the width, offsets of branches and
\* of JAL are even, and a register operation has no immediate.
Shaped(kind, immediate) ==
  IF kind \in RegisterAlu THEN 0
  ELSE IF kind \in {"SLLI", "SRLI", "SRAI"} THEN immediate % 8
  ELSE IF kind \in Branches \cup {"JAL"} THEN immediate - (immediate % 2)
  ELSE immediate

Table ==
  [w \in 0 .. 255 |->
    LET kind == IF w < 252 THEN KindAt[(w % 42) + 1] ELSE "UNKNOWN"
        row == IF w < 252 THEN Rows[(w \div 42) + 1] ELSE Rows[1]
    IN [kind |-> kind, rd |-> row.rd, rs1 |-> row.rs1, rs2 |-> row.rs2,
        immediate |-> Shaped(kind, row.immediate)]]

MCDecode(w) == Table[w]
MCAluResult(kind, x, y) == A!Result(kind, x, y)
MCWriteValues == {7}

\* Any instruction at address 0, data or an instruction at address 4; an
\* aligned, a misaligned and an out-of-range program counter; registers at the
\* boundaries of the RAM, of the sign and of the word; a counter that wraps.
RegisterPairs == {<<0, 0>>, <<3, 254>>, <<4, 5>>, <<129, 4>>, <<252, 131>>}
Starts == {<<w, 0>> : w \in 0 .. 255} \cup {<<0, 2>>, <<0, 8>>}
MCSetups ==
  {[cpu |-> [regs |-> [i \in 0 .. 2 |-> IF i = 0 THEN 0 ELSE p[i]],
             pc |-> s[2], count |-> CountModulus - 1, halted |-> FALSE],
    memory |-> [i \in 0 .. 7 |-> IF i < 4 THEN ByteOf(s[1], i) ELSE ByteOf(w, i - 4)]]
      : p \in RegisterPairs, s \in Starts, w \in {0, 147}}

\* Bound: two retirements, so that the counter wraps and one more follows.
RetirementBound == cpu.count # 1
=============================================================================
