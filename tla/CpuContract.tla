----------------------------- MODULE CpuContract -----------------------------
(***************************************************************************)
(* What cpu_step promises the machine controller: one attempt either       *)
(* retires one instruction or leaves the CPU and the RAM as they were.     *)
(* Cpu is shown to keep this promise; Machine relies on nothing else.      *)
(***************************************************************************)
EXTENDS Integers

CONSTANTS Registers,     \* the register indices in view
          Values,        \* what a register can hold
          Pcs,           \* the addresses a program counter can hold
          Rams,          \* the contents a RAM can have
          CountModulus   \* instruction_count counts modulo this (2^64)

\* CpuStepResult, by the part a caller can tell apart.
Traps == {"MISALIGNED_PC", "FETCH_FAILED", "UNKNOWN_INSTRUCTION",
          "LOAD_MISALIGNED", "LOAD_FAILED", "STORE_MISALIGNED", "STORE_FAILED",
          "ECALL", "BREAKPOINT"}
Results == Traps \cup {"OK", "HALTED"}

CpuStates == [regs : [Registers -> Values], pc : Pcs,
              count : 0 .. CountModulus - 1, halted : BOOLEAN]

\* At most one register changes.
Written(regs) ==
  {r \in [Registers -> Values] :
     \E i \in Registers : \A j \in Registers \ {i} : r[j] = regs[j]}

\* One register may change; the counter advances by one and may wrap.
Retires(c, m, c2, m2) ==
  /\ ~c.halted /\ ~c2.halted
  /\ c2.count = (c.count + 1) % CountModulus
  /\ c2.pc \in Pcs
  /\ c2.regs \in Written(c.regs)
  /\ m2 \in Rams

Attempt(c, m, result, c2, m2) ==
  \/ result = "OK" /\ Retires(c, m, c2, m2)
  \/ result \in Traps /\ ~c.halted /\ c2 = c /\ m2 = m
  \/ result = "HALTED" /\ c.halted /\ c2 = c /\ m2 = m

\* The same promise as a set to choose from: all that an attempt can do.
Outcome(result, c, m) == [result |-> result, cpu |-> c, memory |-> m]
Retirements(c) ==
  [result : {"OK"},
   cpu : [regs : Written(c.regs), pc : Pcs, count : {(c.count + 1) % CountModulus},
          halted : {FALSE}],
   memory : Rams]
Outcomes(c, m) ==
  IF c.halted THEN {Outcome("HALTED", c, m)}
  ELSE {Outcome(t, c, m) : t \in Traps} \cup Retirements(c)
=============================================================================
