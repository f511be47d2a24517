----------------------------- MODULE Disassembly -----------------------------
(***************************************************************************)
(* The disassembler (src/disassembly.c): which operands it shows and in    *)
(* which order.  A text is its name and the numbers in it, registers as    *)
(* bits; separators and field widths are left out.                         *)
(***************************************************************************)
EXTENDS Encoding, Bits

\* The operands by the syntax column of instructions[].
Syntax(kind) ==
  IF kind \in RKinds THEN <<"rd", "rs1", "rs2">>
  ELSE IF kind = "JALR" \/ kind \in {"LB", "LH", "LW", "LBU", "LHU"} THEN <<"rd", "offset", "rs1">>
  ELSE IF kind \in IKinds THEN <<"rd", "rs1", "imm">>
  ELSE IF kind \in ShiftKinds THEN <<"rd", "rs1", "shamt">>
  ELSE IF kind \in SKinds THEN <<"rs2", "offset", "rs1">>
  ELSE IF kind \in BKinds THEN <<"rs1", "rs2", "offset">>
  ELSE IF kind \in {"LUI", "AUIPC"} THEN <<"rd", "imm20">>
  ELSE IF kind = "JAL" THEN <<"rd", "offset">> ELSE << >>

Magnitude(bits) == NumberOf(bits, 32)

\* instruction_signed_value: value - 2^32 is -(~value + 1).
SignedValue(value) ==
  IF 31 \in value THEN -(Magnitude(Positions \ value) + 1) ELSE Magnitude(value)

LoadForm(d) == d.kind \in {"JALR", "LB", "LH", "LW", "LBU", "LHU"}

\* The base register and the stored one are exchanged.
StoreOperandsExchanged(d) == <<d.rs1, SignedValue(d.immediate), d.rs2>>
StoreOperands(d) == <<d.rs2, SignedValue(d.immediate), d.rs1>>

OperandsShown(w) ==
  LET d == Decode(w)
      signed == SignedValue(d.immediate)
  IN IF d.kind = "UNKNOWN" THEN <<w>>
     ELSE IF d.kind = "FENCE"
       THEN <<ShiftedRight(w, 24) \cap 0 .. 3, ShiftedRight(w, 20) \cap 0 .. 3, ShiftedRight(w, 28)>>
     ELSE IF d.kind \in {"ECALL", "EBREAK"} THEN << >>
     ELSE IF d.format = "R" THEN <<d.rd, d.rs1, d.rs2>>
     ELSE IF d.format = "U" THEN <<d.rd, ShiftedRight(d.immediate, 12)>>
     ELSE IF d.format = "J" THEN <<d.rd, signed>>
     ELSE IF d.format = "B" THEN <<d.rs1, d.rs2, signed>>
     ELSE IF d.format = "S" THEN StoreOperands(d)
     ELSE IF LoadForm(d) THEN <<d.rd, signed, d.rs1>>
     ELSE <<d.rd, d.rs1, signed>>

Disassemble(w) == [name |-> Kind(w), operands |-> OperandsShown(w)]

\* An assembler: the operands read by the syntax of the name.
WordOf(n) == BitsOf(n, 31) \cup {k \in {31} : n < 0}
Reassemble(text) ==
  LET syntax == Syntax(text.name)
      Operand(name, absent) ==
        IF \E k \in DOMAIN syntax : syntax[k] = name
          THEN text.operands[CHOOSE k \in DOMAIN syntax : syntax[k] = name] ELSE absent
  IN Instruction(text.name, Operand("rd", {}), Operand("rs1", {}), Operand("rs2", {}),
                 WordOf(Operand("imm", 0)) \cup WordOf(Operand("offset", 0))
                 \cup WordOf(Operand("shamt", 0)) \cup ShiftedLeft(Operand("imm20", {}), 12))

\* The text of a legal word, assembled by the syntax the program documents for
\* it, is that word: no operand is swapped, and no immediate loses its sign
\* (instruction_disassemble against its table instructions[]).  Except FENCE, whose
\* displayed ordering fields are descriptive (docs/HELP.md:346).
TextReassembles ==
  Kind(word) \notin {"UNKNOWN", "FENCE"} => Encode(Reassemble(Disassemble(word))) = word
=============================================================================
