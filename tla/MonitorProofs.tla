---------------------------- MODULE MonitorProofs ----------------------------
(***************************************************************************)
(* The safety of the machine controller for every CPU that keeps its       *)
(* contract, every program, every limit and every width of the instruction *)
(* counter; then that of the monitor that drives it, for every number of   *)
(* Ctrl-C signals, wherever they fall.                                     *)
(***************************************************************************)
EXTENDS Monitor, MemoryAccessProofs

LEMMA ModSteps ==
  ASSUME NEW m \in Nat \ {0}, NEW n \in Nat
  PROVE  (n % m) % m = n % m /\ ((n % m) + 1) % m = (n + 1) % m
<1> DEFINE q == n \div m
           r == n % m
<1>1. q \in Nat /\ r \in 0 .. m - 1 /\ n = m * q + r
  OBVIOUS
<1> HIDE DEF q, r
<1>2. r % m = r
  BY <1>1, DivModOf, m * 0 + r = r
<1>3. CASE r + 1 < m
  <2>1. (r + 1) % m = r + 1
    BY <1>1, <1>3, DivModOf, m * 0 + (r + 1) = r + 1
  <2>2. n + 1 = m * q + (r + 1)
    BY <1>1
  <2>3. (m * q + (r + 1)) % m = r + 1
    BY <1>1, <1>3, DivModOf
  <2> QED  BY <1>2, <2>1, <2>2, <2>3 DEF r
<1>4. CASE r + 1 >= m
  <2>1. r + 1 = m
    BY <1>1, <1>4
  <2>2. m % m = 0
    BY DivModOf, m * 1 + 0 = m
  <2>3. n + 1 = m * (q + 1) + 0
    <3>1. m * (q + 1) = m * q + m
      BY <1>1
    <3> QED  BY <1>1, <2>1, <3>1
  <2>4. (m * (q + 1) + 0) % m = 0
    BY <1>1, DivModOf
  <2> QED  BY <1>2, <2>1, <2>2, <2>3, <2>4 DEF r
<1> QED  BY <1>1, <1>3, <1>4
-----------------------------------------------------------------------------
(* The promise of the CPU. *)

\* The set of outcomes from which TLC chooses is the contract, no less and no
\* more, of cpu_step_recorded as the machine controller uses it.
THEOREM OutcomesAreTheContract ==
  ASSUME NEW c \in CpuStates, NEW m \in Rams, NEW result,
         NEW c2 \in CpuStates, NEW m2 \in Rams
  PROVE  Outcome(result, c2, m2) \in Outcomes(c, m) <=> Attempt(c, m, result, c2, m2)
<1> DEFINE o == Outcome(result, c2, m2)
<1>1. o.result = result /\ o.cpu = c2 /\ o.memory = m2
  BY DEF Outcome
<1>2. o \in {Outcome(t, c, m) : t \in Traps} <=> result \in Traps /\ c2 = c /\ m2 = m
  BY <1>1 DEF Outcome
<1>3. o = Outcome("HALTED", c, m) <=> result = "HALTED" /\ c2 = c /\ m2 = m
  BY <1>1 DEF Outcome
<1>4. o \in Retirements(c) <=>
        result = "OK" /\ c2.regs \in Written(c.regs) /\ ~c2.halted
        /\ c2.count = (c.count + 1) % CountModulus
  BY DEF Outcome, Retirements, CpuStates
<1>8. c2.pc \in Pcs /\ c.halted \in BOOLEAN
  BY DEF CpuStates
<1>9. CASE c.halted
  BY <1>3, <1>9 DEF Outcomes, Attempt, Retires
<1>10. CASE ~c.halted
  BY <1>2, <1>4, <1>8, <1>10 DEF Outcomes, Attempt, Retires
<1> QED  BY <1>8, <1>9, <1>10

LEMMA OutcomeType ==
  ASSUME NEW c \in CpuStates, NEW m \in Rams, NEW o \in Outcomes(c, m)
  PROVE  /\ o.result \in Results /\ o.cpu \in CpuStates /\ o.memory \in Rams
         /\ o.result # "OK" => o.cpu = c
         /\ o.result = "OK" => o.cpu.count = (c.count + 1) % CountModulus
<1>1. c.regs \in [Registers -> Values] /\ c.count \in Nat /\ CountModulus \in Nat \ {0}
  BY MachineAssumption DEF CpuStates
<1>2. (c.count + 1) % CountModulus \in 0 .. CountModulus - 1
  BY <1>1
<1>3. CASE o \in Retirements(c)
  <2>1. Written(c.regs) \subseteq [Registers -> Values]
    BY <1>1 DEF Written
  <2> QED  BY <1>2, <1>3, <2>1 DEF Retirements, CpuStates, Results
<1>4. CASE o = Outcome("HALTED", c, m)
  BY <1>4 DEF Outcome, Results
<1>5. ASSUME NEW t \in Traps, o = Outcome(t, c, m)
      PROVE  o.result \in Traps /\ o.cpu = c /\ o.memory = m
  BY <1>5 DEF Outcome
<1>6. "OK" \notin Traps /\ Traps \subseteq Results
  BY DEF Traps, Results
<1> QED  BY <1>3, <1>4, <1>5, <1>6 DEF Outcomes
-----------------------------------------------------------------------------
(* The inductive invariant adds to the properties that a run is active only on *)
(* a loaded machine that has not exited, which keeps exit_code at 0 until the  *)
(* attempt that exits, that the pristine image is the one last loaded, and     *)
(* that its entry is an address of the program counter.                        *)
RunnableWhileActive == run.active => machine.loaded /\ ~machine.exited
ImageKept == hist.image = machine.initial /\ (machine.loaded => machine.initial.entry \in Pcs)

IInv == /\ TypeOK /\ LoadedIsRunnable /\ ExitConsistent /\ RunBudget /\ CountsRetirements
        /\ RunnableWhileActive /\ ImageKept

LEMMA Constants ==
  /\ CountModulus \in Nat \ {0} /\ 0 \in 0 .. CountModulus - 1
  /\ A0 \in Registers /\ A7 \in Registers /\ 0 \in Values /\ 0 \in Pcs
  /\ FreshCpu(0) \in CpuStates
  /\ \A pc \in Pcs : FreshCpu(pc) \in CpuStates
<1>1. CountModulus \in Nat \ {0} /\ 0 \in Values /\ 0 \in Pcs /\ A0 \in Registers
      /\ A7 \in Registers
  BY MachineAssumption
<1>2. 0 \in 0 .. CountModulus - 1
  BY <1>1
<1> QED  BY <1>1, <1>2 DEF FreshCpu, CpuStates

LEMMA NoRunType ==
  /\ NoTotal \in TotalType /\ NoRecord \in RecordType
  /\ NoRun \in [active : BOOLEAN, limit : Limits \cup {0}, polled : BOOLEAN,
                total : TotalType]
  BY Constants DEF NoTotal, NoRecord, NoRun, TotalType, RecordType, Reasons

LEMMA NoRunBudget == (run = NoRun => RunBudget) /\ (run' = NoRun => RunBudget')
  BY DEF NoRun, NoTotal, NoRecord, RunBudget, Results, Traps

LEMMA AnswerType ==
  ASSUME NEW call \in Calls, NEW ok \in BOOLEAN, Answer(call, ok)
  PROVE  ret' \in [call : Calls, ok : BOOLEAN] /\ ret'.call = call /\ ret'.ok = ok
  BY DEF Answer

LEMMA LoadedMachine ==
  ASSUME NEW p \in Programs, LoadAccepts(p)
  PROVE  /\ p \in ProgramType /\ p.entry \in Pcs /\ p.memory.bytes \in Rams
         /\ p.memory.size \in Nat /\ SizeValid(p.memory.size)
         /\ Loaded(p) \in MachineType
         /\ AccessValid(p.memory.size, p.entry, WordSize)
         /\ p.load_address + p.image_size <= p.memory.size
         /\ p.entry + WordSize <= p.load_address + p.image_size
<1>1. /\ p \in ProgramType /\ p.entry \in Pcs
      /\ p.memory.bytes \in Rams
  BY MachineAssumption DEF LoadAccepts, ProgramType, Image
<1>2. /\ p.memory.size \in Nat /\ p.load_address \in Nat /\ p.entry \in Nat
      /\ p.image_size \in Nat
  BY <1>1 DEF ProgramType, Image
<1>3. Loaded(p) \in MachineType
  BY <1>1, Constants DEF Loaded, MachineType, ProgramType, Image
<1>4. SizeValid(p.memory.size) /\ p.memory.size >= WordSize
  BY DEF LoadAccepts, SizeValid
<1>5. /\ p.load_address + p.image_size <= p.memory.size
      /\ p.entry + WordSize <= p.load_address + p.image_size
      /\ p.entry % WordSize = 0
  BY <1>2 DEF LoadAccepts, WordSize
<1>6. AccessValid(p.memory.size, p.entry, WordSize)
  BY <1>2, <1>4, <1>5 DEF AccessValid, WordSize
<1> QED  BY <1>1, <1>2, <1>3, <1>4, <1>5, <1>6

LEMMA InitIInv == ASSUME Init PROVE IInv
<1>1. TypeOK
  <2>1. NoProgram \in ProgramType /\ NoImage \in Image
    BY DEF NoProgram, NoImage, ProgramType, Image
  <2>2. machine \in MachineType
    BY <2>1, Constants DEF Init, NoMachine, MachineType
  <2> QED  BY <2>1, <2>2, Constants, NoRunType DEF Init, TypeOK, Calls
<1>2. RunBudget
  BY NoRunBudget DEF Init
<1>3. CountsRetirements
  BY Constants DEF Init, CountsRetirements, NoMachine, FreshCpu, NoRun
<1> QED  BY <1>1, <1>2, <1>3 DEF Init, IInv, LoadedIsRunnable, ExitConsistent,
             RunnableWhileActive, ImageKept, NoMachine, NoRun

LEMMA LoadKeepsIInv ==
  ASSUME IInv, NEW p \in Programs, MachineLoad(p)
  PROVE  IInv'
<1>1. run' = NoRun /\ RunBudget' /\ ret' \in [call : Calls, ok : BOOLEAN]
      /\ ret'.call = "load"
  <2>1. run' = NoRun
    BY DEF MachineLoad
  <2>2. Answer("load", FALSE) \/ Answer("load", TRUE)
    BY DEF MachineLoad
  <2>3. RunBudget'
    BY <2>1, NoRunBudget
  <2>4. ret' \in [call : Calls, ok : BOOLEAN] /\ ret'.call = "load"
    BY <2>2, AnswerType DEF Calls
  <2> QED  BY <2>1, <2>3, <2>4
<1>2. CASE UNCHANGED <<machine, hist>>
  <2>1. run.active => run'.active
    BY DEF MachineLoad, Idle
  <2>2. CountsRetirements'
    BY <1>1, <1>2 DEF IInv, CountsRetirements, MachineLoad, Idle, NoRun
  <2>3. LoadedIsRunnable'
    BY <1>1, <1>2 DEF IInv, LoadedIsRunnable, ResetAccepts
  <2> QED  BY <1>1, <1>2, <2>2, <2>3, NoRunType
       DEF IInv, TypeOK, ExitConsistent, RunnableWhileActive, ImageKept, NoRun
<1>3. CASE LoadAccepts(p) /\ machine' = Loaded(p) /\ hist' = [image |-> p, reported |-> 0]
  <2>1. TypeOK'
    BY <1>1, <1>3, LoadedMachine, NoRunType, Constants DEF TypeOK
  <2>2. LoadedIsRunnable'
    BY <1>1, <1>3, LoadedMachine, MachineAssumption
    DEF LoadedIsRunnable, ResetAccepts, Loaded
  <2>3. CountsRetirements'
    BY <1>1, <1>3, Constants DEF CountsRetirements, Loaded, FreshCpu, NoRun
  <2> QED  BY <1>1, <1>3, <2>1, <2>2, <2>3, LoadedMachine
       DEF IInv, ExitConsistent, RunnableWhileActive, ImageKept, Loaded, NoRun
<1> QED  BY <1>2, <1>3 DEF MachineLoad

LEMMA DestroyKeepsIInv ==
  ASSUME IInv, MachineDestroy
  PROVE  IInv'
<1>1. run' = NoRun /\ RunBudget' /\ ret' \in [call : Calls, ok : BOOLEAN]
      /\ ret'.call = "destroy" /\ machine' = NoMachine
      /\ hist' = [image |-> NoProgram, reported |-> 0]
  BY NoRunBudget DEF MachineDestroy, Answer, Calls
<1>2. TypeOK'
  <2>1. NoProgram \in ProgramType /\ NoImage \in Image
    BY DEF NoProgram, NoImage, ProgramType, Image
  <2>2. NoMachine \in MachineType
    BY <2>1, Constants DEF NoMachine, MachineType
  <2> QED  BY <1>1, <2>1, <2>2, Constants, NoRunType DEF TypeOK
<1>3. CountsRetirements'
  BY <1>1, Constants DEF CountsRetirements, NoMachine, FreshCpu, NoRun
<1> QED  BY <1>1, <1>2, <1>3 DEF IInv, LoadedIsRunnable, ExitConsistent,
             RunnableWhileActive, ImageKept, NoMachine, NoRun

LEMMA ResetKeepsIInv ==
  ASSUME IInv, MachineReset
  PROVE  IInv'
<1>1. run' = NoRun /\ RunBudget' /\ ret' \in [call : Calls, ok : BOOLEAN]
      /\ ret'.call = "reset"
  <2>1. run' = NoRun
    BY DEF MachineReset
  <2>2. Answer("reset", FALSE) \/ Answer("reset", TRUE)
    BY DEF MachineReset
  <2>3. RunBudget'
    BY <2>1, NoRunBudget
  <2>4. ret' \in [call : Calls, ok : BOOLEAN] /\ ret'.call = "reset"
    BY <2>2, AnswerType DEF Calls
  <2> QED  BY <2>1, <2>3, <2>4
<1>2. CASE ~ResetAccepts /\ UNCHANGED <<machine, hist>> /\ ~ret'.ok
  <2>1. ~machine.loaded
    BY <1>2 DEF IInv, LoadedIsRunnable
  <2>2. CountsRetirements'
    BY <1>1, <1>2 DEF IInv, CountsRetirements, MachineReset, Idle, NoRun
  <2> QED  BY <1>1, <1>2, <2>1, <2>2, NoRunType
       DEF IInv, TypeOK, LoadedIsRunnable, ExitConsistent, RunnableWhileActive, ImageKept, NoRun
<1>3. CASE ResetAccepts /\ machine' = Restored(machine)
           /\ hist' = [hist EXCEPT !.reported = 0] /\ ret'.ok
  <2>1. machine \in MachineType /\ hist \in [image : ProgramType, reported : 0 .. CountModulus - 1]
    BY DEF IInv, TypeOK
  <2>2. /\ machine.loaded /\ machine.initial \in ProgramType
        /\ machine.initial.memory.bytes \in Rams /\ machine.memory.size \in Nat
        /\ machine.initial.entry \in Pcs
    BY <2>1, <1>3 DEF MachineType, IInv, ImageKept, ResetAccepts, ProgramType, Image
  <2>3. machine' \in MachineType
    BY <2>1, <2>2, <1>3, Constants DEF MachineType, Restored, Image
  <2>4. hist' \in [image : ProgramType, reported : 0 .. CountModulus - 1]
    BY <2>1, <1>3, Constants
  <2>5. /\ machine'.initial = machine.initial /\ machine'.loaded = machine.loaded
        /\ machine'.memory = [bytes |-> machine.initial.memory.bytes, size |-> machine.memory.size]
        /\ machine'.exited = FALSE /\ machine'.exit_code = 0
        /\ machine'.cpu = FreshCpu(machine.initial.entry) /\ hist'.image = hist.image
        /\ hist'.reported = 0
    BY <2>1, <1>3 DEF Restored, MachineType, Image
  <2>6. LoadedIsRunnable'
    BY <1>1, <1>3, <2>2, <2>5, MachineAssumption DEF IInv, LoadedIsRunnable, ResetAccepts
  <2>7. CountsRetirements'
    BY <1>1, <2>5, Constants DEF CountsRetirements, FreshCpu, NoRun
  <2> QED  BY <1>1, <1>3, <2>2, <2>3, <2>4, <2>5, <2>6, <2>7, NoRunType
       DEF IInv, TypeOK, ExitConsistent, RunnableWhileActive, ImageKept, NoRun
<1> QED  BY <1>2, <1>3 DEF MachineReset, Answer

LEMMA StopKeepsIInv ==
  ASSUME IInv, MachineStop
  PROVE  IInv'
<1>1. run' = NoRun /\ ~run.active /\ hist' = hist /\ machine' = Stopped(machine)
      /\ Answer("stop", TRUE)
  BY DEF MachineStop, Idle
<1>2. RunBudget' /\ ret' \in [call : Calls, ok : BOOLEAN] /\ ret'.call = "stop"
  BY <1>1, NoRunBudget, AnswerType DEF Calls
<1>3. machine \in MachineType /\ machine.cpu \in CpuStates
  BY DEF IInv, TypeOK, MachineType
<1>4. /\ machine' \in MachineType
      /\ machine' = [machine EXCEPT !.cpu = machine'.cpu]
      /\ machine'.cpu.count = machine.cpu.count /\ machine'.cpu.regs = machine.cpu.regs
  BY <1>1, <1>3 DEF Stopped, MachineType, CpuStates
<1>5. /\ machine'.memory = machine.memory /\ machine'.initial = machine.initial
      /\ machine'.loaded = machine.loaded /\ machine'.exited = machine.exited
      /\ machine'.exit_code = machine.exit_code
  BY <1>3, <1>4 DEF MachineType
<1>6. TypeOK' /\ CountsRetirements'
  BY <1>1, <1>2, <1>4, NoRunType DEF IInv, TypeOK, CountsRetirements, NoRun
<1>7. LoadedIsRunnable' /\ ExitConsistent' /\ RunnableWhileActive' /\ ImageKept'
  BY <1>1, <1>2, <1>4, <1>5
  DEF IInv, LoadedIsRunnable, ResetAccepts, ExitConsistent, RunnableWhileActive, ImageKept, NoRun
<1> QED  BY <1>2, <1>6, <1>7 DEF IInv

\* A call that ends without an attempt hands out the totals it has and touches
\* neither the machine, other than to halt the CPU, nor the counter.
LEMMA ReturnKeepsIInv ==
  ASSUME IInv, NEW total \in TotalType, Return(total), UNCHANGED ret,
         machine' = machine \/ machine' = Stopped(machine),
         total.retired = (IF run.active THEN run.total.retired ELSE 0),
         total.attempts = total.retired,
         total.last.result \notin Results \ {"OK"}, total.reason # "TRAP",
         total.reason \in {"NO_PROGRAM", "INVALID_ARGUMENT"} => total.attempts = 0
  PROVE  IInv'
<1>1. machine \in MachineType /\ machine.cpu \in CpuStates /\ total.retired \in Nat
      /\ total.attempts \in Nat
  BY DEF IInv, TypeOK, MachineType, TotalType
<1>2. /\ machine' \in MachineType
      /\ machine'.cpu.count = machine.cpu.count /\ machine'.cpu.regs = machine.cpu.regs
      /\ machine'.memory = machine.memory /\ machine'.initial = machine.initial
      /\ machine'.loaded = machine.loaded /\ machine'.exited = machine.exited
      /\ machine'.exit_code = machine.exit_code
  <2>1. CASE machine' = machine
    BY <1>1, <2>1
  <2>2. CASE machine' = Stopped(machine)
    BY <1>1, <2>2 DEF Stopped, MachineType, CpuStates
  <2> QED  BY <2>1, <2>2
<1>3. run' = [active |-> FALSE, limit |-> 0, polled |-> FALSE, total |-> total]
  BY DEF Return, NoRun
<1>4. hist \in [image : ProgramType, reported : 0 .. CountModulus - 1]
      /\ hist.reported \in Nat /\ CountModulus \in Nat \ {0}
  BY Constants DEF IInv, TypeOK
<1>5. /\ hist'.image = hist.image
      /\ hist'.reported = (hist.reported + total.retired) % CountModulus
      /\ hist' \in [image : ProgramType, reported : 0 .. CountModulus - 1]
  BY <1>1, <1>4 DEF Return
<1>6. TypeOK'
  BY <1>2, <1>3, <1>5 DEF IInv, TypeOK
<1>7. CountsRetirements'
  <2>1. machine.cpu.count = (hist.reported + total.retired) % CountModulus
    BY DEF IInv, CountsRetirements
  <2>2. hist'.reported + 0 = hist'.reported /\ hist.reported + total.retired \in Nat
    BY <1>1, <1>4, <1>5
  <2>3. hist'.reported % CountModulus = hist'.reported
    BY <2>2, <1>4, <1>5, ModSteps
  <2> QED  BY <1>2, <1>3, <1>5, <2>1, <2>2, <2>3 DEF CountsRetirements
<1>8. RunBudget'
  <2>1. total.attempts - total.retired = 0 /\ run'.total = total /\ ~run'.active
    BY <1>1, <1>3
  <2> QED  BY <2>1 DEF RunBudget
<1>9. LoadedIsRunnable' /\ ExitConsistent' /\ RunnableWhileActive' /\ ImageKept'
  BY <1>2, <1>3, <1>5
  DEF IInv, LoadedIsRunnable, ResetAccepts, ExitConsistent, RunnableWhileActive, ImageKept
<1> QED  BY <1>6, <1>7, <1>8, <1>9 DEF IInv

LEMMA RefusalTotal ==
  ASSUME NEW limit \in Nat
  PROVE  LET total == [NoTotal EXCEPT !.reason = RefusalReason(limit)]
         IN /\ total \in TotalType /\ total.retired = 0 /\ total.attempts = 0
            /\ total.last.result \notin Results \ {"OK"} /\ total.reason # "TRAP"
<1>1. RefusalReason(limit) \in Reasons \ {"TRAP"}
  BY DEF RefusalReason, Reasons
<1>2. NoTotal \in TotalType /\ NoTotal.retired = 0 /\ NoTotal.attempts = 0
      /\ NoTotal.last.result = "NONE"
  BY NoRunType DEF NoTotal, NoRecord
<1>3. "NONE" \notin Results
  BY DEF Results, Traps
<1> QED  BY <1>1, <1>2, <1>3 DEF TotalType

LEMMA AttemptKeepsMachine ==
  ASSUME IInv, machine.loaded, ~machine.exited,
         NEW o \in Outcomes(Resumed, machine.memory.bytes),
         machine' = Attempted(machine, o)
  PROVE  /\ machine' \in MachineType
         /\ machine'.memory.bytes \in Rams /\ machine'.memory.size = machine.memory.size
         /\ machine'.initial = machine.initial /\ machine'.loaded
         /\ machine'.exited = Exits(o) /\ ExitConsistent'
         /\ o.result \in Results /\ (Exits(o) => o.result = "ECALL")
         /\ Record(Resumed, o) \in RecordType /\ Record(Resumed, o).result = o.result
         /\ machine'.cpu.count = IF o.result = "OK"
              THEN (machine.cpu.count + 1) % CountModulus ELSE machine.cpu.count
<1>1. /\ machine \in MachineType /\ machine.cpu \in CpuStates
      /\ machine.memory.bytes \in Rams /\ machine.exit_code = 0
  BY DEF IInv, TypeOK, MachineType, LoadedIsRunnable, ResetAccepts, ExitConsistent, Image
<1>2. Resumed \in CpuStates /\ Resumed.count = machine.cpu.count
  BY <1>1 DEF Resumed, CpuStates
<1>3. /\ o.result \in Results /\ o.cpu \in CpuStates /\ o.memory \in Rams
      /\ o.result # "OK" => o.cpu = Resumed
      /\ o.result = "OK" => o.cpu.count = (machine.cpu.count + 1) % CountModulus
  BY <1>1, <1>2, OutcomeType
<1>4. o.cpu.regs[A0] \in Values /\ Exits(o) \in BOOLEAN
  BY <1>3, Constants DEF CpuStates, Exits
<1>5. /\ machine'.cpu = o.cpu /\ machine'.memory.bytes = o.memory
      /\ machine'.memory.size = machine.memory.size
      /\ machine'.initial = machine.initial /\ machine'.loaded = machine.loaded
      /\ machine'.exited = Exits(o)
      /\ machine'.exit_code = IF Exits(o) THEN o.cpu.regs[A0] ELSE 0
  BY <1>1 DEF Attempted, MachineType, Image
<1>6. machine' \in MachineType
  <2>1. [machine.memory EXCEPT !.bytes = o.memory] \in Image
    BY <1>1, <1>3 DEF MachineType, Image
  <2>2. (IF Exits(o) THEN o.cpu.regs[A0] ELSE machine.exit_code) \in Values
    BY <1>1, <1>4, Constants
  <2> QED  BY <1>1, <1>3, <1>4, <2>1, <2>2 DEF Attempted, MachineType
<1>7. ExitConsistent'
  BY <1>5 DEF ExitConsistent, Exits
<1>8. Record(Resumed, o) \in RecordType /\ Record(Resumed, o).result = o.result
  BY <1>2, <1>3 DEF Record, RecordType, CpuStates
<1> QED  BY <1>1, <1>2, <1>3, <1>5, <1>6, <1>7, <1>8 DEF Exits

LEMMA TotalAfterType ==
  ASSUME NEW total \in TotalType, NEW o, o.result \in Results,
         Record(Resumed, o) \in RecordType, Record(Resumed, o).result = o.result,
         Exits(o) => o.result = "ECALL"
  PROVE  LET t == TotalAfter(total, o)
         IN /\ t \in TotalType
            /\ t.attempts = total.attempts + 1
            /\ t.retired = total.retired + (IF o.result = "OK" THEN 1 ELSE 0)
            /\ t.last.result = o.result
            /\ t.reason = "READY" <=> o.result = "OK"
            /\ t.reason \in {"READY", "EXITED", "TRAP"}
            /\ t.reason = "EXITED" <=> Exits(o)
<1>1. total.attempts \in Nat /\ total.retired \in Nat
  BY DEF TotalType
<1>2. "ECALL" # "OK"
  OBVIOUS
<1> QED  BY <1>1, <1>2 DEF TotalAfter, TotalType, Reasons

\* The totals of the run under way, or of a step.
SoFar == IF run.active THEN run.total ELSE NoTotal

\* The counter follows the totals across an attempt.
LEMMA AttemptCounts ==
  ASSUME IInv, machine.loaded, ~machine.exited,
         NEW o \in Outcomes(Resumed, machine.memory.bytes),
         machine' = Attempted(machine, o)
  PROVE  /\ SoFar \in TotalType /\ SoFar.attempts = SoFar.retired
         /\ hist.reported \in Nat /\ hist.reported < CountModulus
         /\ TotalAfter(SoFar, o).retired \in Nat
         /\ machine'.cpu.count = (hist.reported + TotalAfter(SoFar, o).retired) % CountModulus
<1>1. /\ hist.reported \in Nat /\ hist.reported < CountModulus
      /\ hist.reported + 0 = hist.reported
  BY Constants DEF IInv, TypeOK
<1>2. SoFar \in TotalType /\ SoFar.attempts = SoFar.retired /\ SoFar.retired \in Nat
  <2>1. CASE run.active
    BY <2>1 DEF SoFar, IInv, TypeOK, RunBudget, TotalType
  <2>2. CASE ~run.active
    BY <2>2, NoRunType DEF SoFar, NoTotal
  <2> QED  BY <2>1, <2>2
<1>3. machine.cpu.count = (hist.reported + SoFar.retired) % CountModulus
  BY DEF IInv, CountsRetirements, SoFar, NoTotal
<1>4. machine'.cpu.count = IF o.result = "OK"
        THEN (machine.cpu.count + 1) % CountModulus ELSE machine.cpu.count
  BY AttemptKeepsMachine
<1>5. TotalAfter(SoFar, o).retired = SoFar.retired + (IF o.result = "OK" THEN 1 ELSE 0)
  BY DEF TotalAfter
<1>6. (((hist.reported + SoFar.retired) % CountModulus) + 1) % CountModulus
        = ((hist.reported + SoFar.retired) + 1) % CountModulus
  <2>1. hist.reported + SoFar.retired \in Nat /\ CountModulus \in Nat \ {0}
    BY <1>1, <1>2, Constants
  <2> QED  BY <2>1, ModSteps
<1>7. CASE o.result = "OK"
  BY <1>1, <1>2, <1>3, <1>4, <1>5, <1>6, <1>7
<1>8. CASE o.result # "OK"
  BY <1>1, <1>2, <1>3, <1>4, <1>5, <1>8
<1> QED  BY <1>1, <1>2, <1>5, <1>7, <1>8

\* An attempt whose totals are handed to the caller: machine_step, or the last
\* attempt of machine_run.
LEMMA LastAttemptKeepsIInv ==
  ASSUME IInv, machine.loaded, ~machine.exited, UNCHANGED ret,
         NEW o \in Outcomes(Resumed, machine.memory.bytes),
         machine' = Attempted(machine, o), Return(TotalAfter(SoFar, o))
  PROVE  IInv'
<1> DEFINE t == TotalAfter(SoFar, o)
<1>1. /\ t \in TotalType /\ t.retired \in Nat
      /\ t.attempts = t.retired + (IF o.result = "OK" THEN 0 ELSE 1)
      /\ t.last.result = o.result /\ o.result \in Results
      /\ t.reason = "READY" <=> o.result = "OK"
      /\ t.reason \in {"READY", "EXITED", "TRAP"}
  <2>1. SoFar \in TotalType /\ SoFar.attempts = SoFar.retired /\ SoFar.retired \in Nat
    BY AttemptCounts DEF TotalType
  <2>2. /\ t \in TotalType
        /\ t.attempts = SoFar.attempts + 1
        /\ t.retired = SoFar.retired + (IF o.result = "OK" THEN 1 ELSE 0)
        /\ t.last.result = o.result /\ o.result \in Results
        /\ t.reason = "READY" <=> o.result = "OK"
        /\ t.reason \in {"READY", "EXITED", "TRAP"}
    BY <2>1, AttemptKeepsMachine, TotalAfterType
  <2> QED  BY <2>1, <2>2
<1>2. machine'.cpu.count = (hist.reported + t.retired) % CountModulus
      /\ hist.reported \in Nat
  BY AttemptCounts
<1>3. Return(t)
  OBVIOUS
<1> HIDE DEF t
<1>4. run' = [active |-> FALSE, limit |-> 0, polled |-> FALSE, total |-> t]
  BY <1>3 DEF Return, NoRun
<1>5. /\ hist'.image = hist.image
      /\ hist'.reported = (hist.reported + t.retired) % CountModulus
      /\ hist' \in [image : ProgramType, reported : 0 .. CountModulus - 1]
  <2>1. hist \in [image : ProgramType, reported : 0 .. CountModulus - 1]
    BY DEF IInv, TypeOK
  <2>2. (hist.reported + t.retired) % CountModulus \in 0 .. CountModulus - 1
    BY <1>1, <1>2, Constants
  <2> QED  BY <1>3, <2>1, <2>2 DEF Return
<1>6. CountsRetirements'
  <2>1. ((hist.reported + t.retired) % CountModulus) % CountModulus
          = (hist.reported + t.retired) % CountModulus
    BY <1>1, <1>2, ModSteps, Constants
  <2>2. hist'.reported + 0 = hist'.reported
    BY <1>5, Constants
  <2> QED  BY <1>2, <1>4, <1>5, <2>1, <2>2 DEF CountsRetirements
<1>7. RunBudget'
  <2>1. ~run'.active /\ run'.total = t
    BY <1>4
  <2>2. t.attempts - t.retired = (IF o.result = "OK" THEN 0 ELSE 1)
    BY <1>1
  <2> QED  BY <1>1, <2>1, <2>2 DEF RunBudget
<1>8. TypeOK'
  BY <1>1, <1>4, <1>5, AttemptKeepsMachine DEF IInv, TypeOK
<1>9. LoadedIsRunnable'
  BY AttemptKeepsMachine, MachineAssumption DEF IInv, LoadedIsRunnable, ResetAccepts
<1>10. ExitConsistent' /\ RunnableWhileActive' /\ ImageKept'
  BY <1>4, <1>5, AttemptKeepsMachine DEF IInv, RunnableWhileActive, ImageKept
<1> QED  BY <1>6, <1>7, <1>8, <1>9, <1>10 DEF IInv

LEMMA StepKeepsIInv ==
  ASSUME IInv, MachineStep
  PROVE  IInv'
<1>1. ~run.active /\ UNCHANGED ret /\ SoFar = NoTotal
  BY DEF MachineStep, Idle, SoFar
<1>2. CASE Refused(1) /\ Return([NoTotal EXCEPT !.reason = RefusalReason(1)])
           /\ UNCHANGED machine
  BY <1>1, <1>2, RefusalTotal, ReturnKeepsIInv DEF Refused
<1>3. ASSUME ~Refused(1), NEW o \in Outcomes(Resumed, machine.memory.bytes),
             machine' = Attempted(machine, o), Return(TotalAfter(NoTotal, o))
      PROVE  IInv'
  BY <1>1, <1>3, LastAttemptKeepsIInv DEF Refused
<1> QED  BY <1>2, <1>3 DEF MachineStep

LEMMA RunStartKeepsIInv ==
  ASSUME IInv, NEW limit \in Limits, RunStart(limit)
  PROVE  IInv'
<1>1. ~run.active /\ UNCHANGED <<machine, ret>> /\ limit \in Nat
  BY MachineAssumption DEF RunStart, Idle
<1>2. CASE Refused(limit) /\ Return([NoTotal EXCEPT !.reason = RefusalReason(limit)])
  BY <1>1, <1>2, RefusalTotal, ReturnKeepsIInv
<1>3. CASE /\ ~Refused(limit) /\ UNCHANGED hist
           /\ run' = [active |-> TRUE, limit |-> limit, polled |-> FALSE, total |-> NoTotal]
  <2>1. machine.loaded /\ ~machine.exited
    BY <1>3 DEF Refused
  <2>2. NoTotal \in TotalType /\ NoTotal.attempts = 0 /\ NoTotal.retired = 0
        /\ NoTotal.reason = "READY" /\ NoTotal.last.result = "NONE"
    BY NoRunType DEF NoTotal, NoRecord
  <2>3. TypeOK'
    BY <1>1, <1>3, <2>2 DEF IInv, TypeOK
  <2>4. RunBudget'
    BY <1>1, <1>3, <2>2 DEF RunBudget, Results, Traps
  <2>5. CountsRetirements'
    BY <1>1, <1>3, <2>2 DEF IInv, CountsRetirements
  <2> QED  BY <1>1, <1>3, <2>1, <2>3, <2>4, <2>5
       DEF IInv, LoadedIsRunnable, ResetAccepts, ExitConsistent, RunnableWhileActive, ImageKept
<1> QED  BY <1>2, <1>3 DEF RunStart

\* What is known of the totals of a run under way.
LEMMA ActiveTotal ==
  ASSUME IInv, run.active
  PROVE  /\ run.total \in TotalType /\ run.total.attempts = run.total.retired
         /\ run.total.attempts \in Nat /\ run.limit \in Nat
         /\ run.total.attempts <= run.limit
         /\ run.polled => run.total.attempts < run.limit
         /\ run.total.last.result \notin Results \ {"OK"} /\ run.total.reason # "TRAP"
         /\ machine.loaded /\ ~machine.exited /\ SoFar = run.total
         /\ run = [active |-> TRUE, limit |-> run.limit, polled |-> run.polled,
                   total |-> run.total]
<1>1. run \in [active : BOOLEAN, limit : Limits \cup {0}, polled : BOOLEAN, total : TotalType]
  BY DEF IInv, TypeOK
<1>2. run.total \in TotalType /\ run.total.attempts \in Nat /\ run.total.retired \in Nat
      /\ run.limit \in Nat
  BY <1>1, MachineAssumption DEF TotalType
<1>3. run.total.attempts = run.total.retired /\ run.total.attempts - run.total.retired # 1
      /\ run.total.attempts <= run.limit
      /\ (run.polled => run.total.attempts < run.limit)
  BY <1>2 DEF IInv, RunBudget
<1> QED  BY <1>1, <1>2, <1>3 DEF IInv, RunBudget, RunnableWhileActive, SoFar

\* A run that stops without a further attempt.
LEMMA RunEndsKeepsIInv ==
  ASSUME IInv, run.active, UNCHANGED ret, NEW reason \in {"STOPPED", "LIMIT"},
         machine' = machine \/ machine' = Stopped(machine),
         Return([run.total EXCEPT !.reason = reason])
  PROVE  IInv'
<1> DEFINE total == [run.total EXCEPT !.reason = reason]
<1>1. /\ total \in TotalType /\ total.retired = run.total.retired
      /\ total.attempts = total.retired /\ total.reason = reason
      /\ total.last = run.total.last
  BY ActiveTotal DEF TotalType, Reasons
<1>2. total.last.result \notin Results \ {"OK"}
  BY <1>1, ActiveTotal
<1>3. Return(total)
  OBVIOUS
<1> HIDE DEF total
<1> QED  BY <1>1, <1>2, <1>3, ReturnKeepsIInv

LEMMA RunPollKeepsIInv ==
  ASSUME IInv, NEW stop \in BOOLEAN, RunPoll(stop)
  PROVE  IInv'
<1>1. run.active /\ ~run.polled /\ run.total.attempts < run.limit /\ UNCHANGED ret
  BY DEF RunPoll, MayPoll
<1>2. CASE machine' = Stopped(machine) /\ Return([run.total EXCEPT !.reason = "STOPPED"])
  BY <1>1, <1>2, RunEndsKeepsIInv
<1>3. CASE run' = [run EXCEPT !.polled = TRUE] /\ UNCHANGED <<machine, hist>>
  <2>1. run' = [active |-> TRUE, limit |-> run.limit, polled |-> TRUE, total |-> run.total]
    BY <1>1, <1>3, ActiveTotal
  <2>2. TypeOK' /\ RunnableWhileActive'
    BY <1>1, <1>3, <2>1 DEF IInv, TypeOK, RunnableWhileActive
  <2>3. RunBudget' /\ CountsRetirements'
    BY <1>1, <1>3, <2>1 DEF IInv, RunBudget, CountsRetirements
  <2> QED  BY <1>1, <1>3, <2>2, <2>3
       DEF IInv, LoadedIsRunnable, ResetAccepts, ExitConsistent, ImageKept
<1> QED  BY <1>2, <1>3 DEF RunPoll

LEMMA RunAttemptKeepsIInv ==
  ASSUME IInv, RunAttempt
  PROVE  IInv'
<1>1. run.active /\ run.polled /\ UNCHANGED ret
  BY DEF RunAttempt
<1>2. PICK o \in Outcomes(Resumed, machine.memory.bytes) :
        /\ machine' = Attempted(machine, o)
        /\ LET total == TotalAfter(run.total, o)
           IN \/ /\ total.reason = "READY"
                 /\ run' = [run EXCEPT !.polled = FALSE, !.total = total]
                 /\ UNCHANGED hist
              \/ total.reason # "READY" /\ Return(total)
  BY DEF RunAttempt
<1>3. machine.loaded /\ ~machine.exited /\ SoFar = run.total
  BY <1>1, ActiveTotal
<1>4. CASE Return(TotalAfter(run.total, o))
  BY <1>1, <1>2, <1>3, <1>4, LastAttemptKeepsIInv
<1>5. CASE /\ TotalAfter(run.total, o).reason = "READY" /\ UNCHANGED hist
           /\ run' = [run EXCEPT !.polled = FALSE, !.total = TotalAfter(run.total, o)]
  <2> DEFINE t == TotalAfter(run.total, o)
  <2>1. /\ t \in TotalType /\ o.result = "OK" /\ t.last.result = "OK"
        /\ t.attempts = run.total.attempts + 1 /\ t.retired = run.total.retired + 1
        /\ t.reason = "READY"
    BY <1>1, <1>2, <1>3, <1>5, ActiveTotal, AttemptKeepsMachine, TotalAfterType
  <2>2. machine'.cpu.count = (hist.reported + t.retired) % CountModulus
    BY <1>2, <1>3, AttemptCounts
  <2> HIDE DEF t
  <2>3. run' = [active |-> TRUE, limit |-> run.limit, polled |-> FALSE, total |-> t]
    BY <1>1, <1>5, ActiveTotal DEF t
  <2>4. machine'.exited = FALSE /\ hist' = hist
    BY <1>5, <1>2, <1>3, <2>1, AttemptKeepsMachine DEF Exits
  <2>5. TypeOK'
    <3>1. run.limit \in Limits \cup {0}
      BY DEF IInv, TypeOK
    <3>2. machine' \in MachineType
      BY <1>2, <1>3, AttemptKeepsMachine
    <3> QED  BY <1>1, <2>1, <2>3, <2>4, <3>1, <3>2 DEF IInv, TypeOK
  <2>6. RunBudget'
    <3>1. t.attempts - t.retired = 0 /\ t.attempts = t.retired /\ t.attempts <= run.limit
      BY <1>1, <2>1, ActiveTotal
    <3> QED  BY <2>1, <2>3, <3>1 DEF RunBudget
  <2>7. CountsRetirements'
    <3>1. run'.active /\ run'.total = t
      BY <2>3
    <3> QED  BY <2>2, <2>4, <3>1 DEF CountsRetirements
  <2>8. LoadedIsRunnable'
    BY <1>1, <1>2, <1>3, AttemptKeepsMachine, MachineAssumption
    DEF IInv, LoadedIsRunnable, ResetAccepts
  <2>9. ExitConsistent' /\ RunnableWhileActive' /\ ImageKept'
    BY <1>2, <1>3, <2>4, AttemptKeepsMachine DEF IInv, RunnableWhileActive, ImageKept
  <2> QED  BY <2>5, <2>6, <2>7, <2>8, <2>9 DEF IInv
<1> QED  BY <1>2, <1>4, <1>5

LEMMA RunLimitKeepsIInv ==
  ASSUME IInv, RunLimit
  PROVE  IInv'
  BY RunEndsKeepsIInv DEF RunLimit

LEMMA NextKeepsIInv ==
  ASSUME IInv, [Next]_vars
  PROVE  IInv'
<1>1. CASE Next
  BY <1>1, LoadKeepsIInv, DestroyKeepsIInv, ResetKeepsIInv, StopKeepsIInv, StepKeepsIInv,
     RunStartKeepsIInv, RunPollKeepsIInv, RunAttemptKeepsIInv, RunLimitKeepsIInv DEF Next
<1>2. CASE UNCHANGED vars
  BY <1>2 DEF vars, IInv, TypeOK, LoadedIsRunnable, ResetAccepts, ExitConsistent, RunBudget,
              CountsRetirements, RunnableWhileActive, ImageKept
<1> QED  BY <1>1, <1>2
-----------------------------------------------------------------------------
\* The inductive invariant holds of every reachable state of machine.c.
THEOREM MachineInvariant == Spec => []IInv
  BY InitIInv, NextKeepsIInv, PTL DEF Spec

\* Struct Machine and struct MachineRun keep their types: the counter wraps.
THEOREM MachineTypes == Spec => []TypeOK
  BY MachineInvariant, PTL DEF IInv

\* Whatever program machine_load accepts, its entry can be fetched, its image
\* lies in the RAM and machine_reset of a loaded machine succeeds.
THEOREM MachineLoadedIsRunnable == Spec => []LoadedIsRunnable
  BY MachineInvariant, PTL DEF IInv

\* The exit status is the a0 of the ECALL that ended the guest.
THEOREM MachineExitConsistent == Spec => []ExitConsistent
  BY MachineInvariant, PTL DEF IInv

\* machine_run accounts for its attempts, for every limit.
THEOREM MachineRunBudget == Spec => []RunBudget
  BY MachineInvariant, PTL DEF IInv

\* instruction_count is the number of retirements reported to callers since the
\* last load or reset, modulo its width.
THEOREM MachineCountsRetirements == Spec => []CountsRetirements
  BY MachineInvariant, PTL DEF IInv

\* The accounts of the run and of the CPU agree, for every program and limit.
THEOREM MachineRunsAccounted == Spec => []RunsAccounted
<1>1. IInv => RunsAccounted
  BY DEF IInv, RunsAccounted
<1> QED
  BY <1>1, MachineInvariant, PTL
-----------------------------------------------------------------------------
(* Action properties, from the same invariant. *)

LEMMA ResetStep ==
  ASSUME IInv, MachineReset, ret'.ok
  PROVE  machine' = Loaded(hist.image)
<1>1. ResetAccepts /\ machine' = Restored(machine)
  <2>1. ASSUME Answer("reset", FALSE) PROVE FALSE
    BY <2>1, AnswerType DEF Calls
  <2> QED  BY <2>1 DEF MachineReset
<1>2. machine \in MachineType /\ machine.loaded
      /\ machine.initial.memory.size = machine.memory.size
      /\ machine.initial = hist.image
  BY <1>1 DEF IInv, TypeOK, ResetAccepts, ImageKept
<1>3. [machine.memory EXCEPT !.bytes = machine.initial.memory.bytes] = machine.initial.memory
  BY <1>2 DEF MachineType, Image, ProgramType
<1>4. /\ machine'.cpu = FreshCpu(machine.initial.entry)
      /\ machine'.memory = [machine.memory EXCEPT !.bytes = machine.initial.memory.bytes]
      /\ machine'.initial = machine.initial /\ machine'.loaded = machine.loaded
      /\ machine'.exited = FALSE /\ machine'.exit_code = 0
  BY <1>1, <1>2 DEF Restored, MachineType
<1>5. machine' \in MachineType
  BY ResetKeepsIInv DEF IInv, TypeOK
<1>6. machine' = [cpu |-> machine'.cpu, memory |-> machine'.memory,
                  initial |-> machine'.initial, loaded |-> machine'.loaded,
                  exited |-> machine'.exited, exit_code |-> machine'.exit_code]
  BY <1>5 DEF MachineType
<1>7. machine.loaded = TRUE
  BY <1>2 DEF MachineType
<1> QED  BY <1>2, <1>3, <1>4, <1>6, <1>7 DEF Loaded

LEMMA RunEndStep ==
  ASSUME IInv, [Next]_vars, run.active, ~run'.active
  PROVE  /\ run'.total.attempts <= run.limit
         /\ run'.total.reason = "LIMIT" => run'.total.retired = run.limit
<1>1. Next
  BY DEF vars
<1>2. (\E stop \in BOOLEAN : RunPoll(stop)) \/ RunAttempt \/ RunLimit
  BY <1>1 DEF Next, MachineLoad, MachineDestroy, MachineReset, MachineStop, MachineStep,
              RunStart, Idle
<1>3. ASSUME NEW total, Return(total) PROVE run'.total = total
  BY <1>3 DEF Return, NoRun
<1>4. run \in [active : BOOLEAN, limit : Limits \cup {0}, polled : BOOLEAN, total : TotalType]
  BY DEF IInv, TypeOK
<1>5. ASSUME NEW stop \in BOOLEAN, RunPoll(stop)
      PROVE  run'.total.attempts <= run.limit /\ run'.total.reason # "LIMIT"
  <2>1. Return([run.total EXCEPT !.reason = "STOPPED"])
    BY <1>4, <1>5 DEF RunPoll
  <2>2. run'.total = [run.total EXCEPT !.reason = "STOPPED"]
    BY <2>1, <1>3
  <2> QED  BY <2>2, ActiveTotal DEF TotalType
<1>6. ASSUME RunAttempt
      PROVE  run'.total.attempts <= run.limit /\ run'.total.reason # "LIMIT"
  <2>1. PICK o : Return(TotalAfter(run.total, o))
    BY <1>4, <1>6 DEF RunAttempt
  <2>2. run'.total.attempts = run.total.attempts + 1 /\ run'.total.reason # "LIMIT"
    BY <2>1, <1>3 DEF TotalAfter
  <2>3. run.total.attempts < run.limit /\ run.total.attempts \in Nat /\ run.limit \in Nat
    BY <1>6, ActiveTotal DEF RunAttempt
  <2> QED  BY <2>2, <2>3
<1>7. ASSUME RunLimit
      PROVE  run'.total.attempts = run.limit /\ run'.total.retired = run.limit
  <2>1. run'.total = [run.total EXCEPT !.reason = "LIMIT"]
    BY <1>3, <1>7 DEF RunLimit
  <2>2. run.total.attempts = run.limit
    BY <1>7, ActiveTotal DEF RunLimit, MayPoll
  <2> QED  BY <2>1, <2>2, ActiveTotal DEF TotalType
<1>8. run.limit <= run.limit
  BY ActiveTotal
<1> QED  BY <1>2, <1>5, <1>6, <1>7, <1>8

\* machine_reset, when it succeeds, is a reload of the image last loaded.
THEOREM MachineResetIsReload == Spec => ResetIsReload
<1>1. IInv /\ [Next]_vars => [MachineReset /\ ret'.ok => machine' = Loaded(hist.image)]_vars
  BY ResetStep
<1> QED  BY <1>1, MachineInvariant, PTL DEF Spec, ResetIsReload

\* A run that ends for its limit has retired exactly that many instructions, and
\* no run performs more attempts, for every limit.
THEOREM MachineLimitIsExact == Spec => LimitIsExact
<1>1. IInv /\ [Next]_vars =>
        [run.active /\ ~run'.active =>
           /\ run'.total.attempts <= run.limit
           /\ run'.total.reason = "LIMIT" => run'.total.retired = run.limit]_vars
  BY RunEndStep
<1> QED  BY <1>1, MachineInvariant, PTL DEF Spec, LimitIsExact
-----------------------------------------------------------------------------
(* The monitor. *)

Prepared == {"loaded", "installed", "ready"}

\* machine_run is active in one phase only, unless it was killed there; a batch
\* run has no prompt, and nothing has run before the first run.
PhaseInv ==
  /\ At("running") => run.active
  /\ ctl.phase \notin {"running", "killed"} => ~run.active
  /\ ctl.batch => ctl.phase \notin {"prompt", "reading"}
  /\ ctl.phase \in Prepared => machine.loaded /\ ~machine.exited /\ hist.reported = 0

\* What the one run of a batch invocation has ended with.
BatchOutcome ==
  /\ run.total.reason \in {"EXITED", "LIMIT", "STOPPED", "TRAP"}
  /\ run.total.reason = "EXITED" <=> machine.exited
  /\ run.total.reason = "STOPPED" => sig.interrupted /\ machine.cpu.halted
  /\ run.total.reason = "LIMIT" => machine.cpu.count = monitor.limit % CountModulus
  /\ run.total.reason = "TRAP" => run.total.last.result \in Traps

BatchInv ==
  ctl.batch =>
    /\ At("running") => run.limit = monitor.limit /\ hist.reported = 0
    /\ ctl.phase \in {"report", "leaving"} => BatchOutcome
    /\ At("leaving") => ctl.status = BatchStatus(run.total.reason, machine.exit_code)

\* An attempt that has been polled for is the only one that may come late.
LateInv ==
  At("running") =>
    /\ seen.late <= 1
    /\ run.polled \/ ~sig.interrupted => seen.late = 0

\* The trace knows the label that stands above the next instruction.
LabelInv == monitor.source_seen => seen.label = monitor.last_source

RecordInv ==
  /\ ctl.phase \in {"start"} \cup Prepared => ~monitor.has_record
  /\ ctl.phase # "exited" /\ monitor.has_record =>
       /\ monitor.last.pc_after = machine.cpu.pc
       /\ monitor.last.count_after = machine.cpu.count

TraceInv == ctl.phase \notin {"running", "report", "leaving", "exited", "killed"}
              => monitor.trace = ctl.option

MonitorInv == /\ IInv /\ MonitorTypeOK /\ PhaseInv /\ BatchInv /\ LateInv /\ LabelInv
              /\ RecordInv /\ TraceInv
-----------------------------------------------------------------------------
(* Every step of the monitor is a step of its machine or leaves it alone. *)

MonitorRecord == [limit : Limits \ {0}, trace : BOOLEAN, has_record : BOOLEAN,
                  last : [pc_after : Pcs, count_after : 0 .. CountModulus - 1],
                  source_seen : BOOLEAN, last_source : Labels]

LEMMA MonitorFields ==
  ASSUME MonitorTypeOK
  PROVE  /\ ctl \in [phase : Phases, batch : BOOLEAN, option : BOOLEAN, status : 0 .. 255]
         /\ monitor \in MonitorRecord /\ monitor.limit \in Limits /\ monitor.limit # 0
         /\ sig \in [interrupted : BOOLEAN, disposition : {"default", "handler"},
                     sent : 0 .. MaxSignals]
         /\ seen \in [label : Labels \cup {"nothing", "listing"}, late : Nat,
                      early : BOOLEAN, installed : BOOLEAN]
BY DEF MonitorTypeOK, MonitorRecord

LEMMA CommandLimit ==
  ASSUME MonitorTypeOK, StepOrRun
  PROVE  \E stepping \in BOOLEAN, limit \in Limits : RunCommand(stepping, limit)
<1>1. 1 \in Limits /\ monitor.limit \in Limits
  BY MonitorAssumption, MonitorFields
<1> QED
  BY <1>1, Zenon DEF StepOrRun

LEMMA StepOfMachine ==
  ASSUME MonitorTypeOK, [MonitorNext]_monitorVars
  PROVE  [Next]_vars
<1>1. CASE UNCHANGED Machinery
  BY <1>1 DEF Machinery, vars
<1>2. ASSUME UNCHANGED monitorVars PROVE UNCHANGED Machinery
  BY <1>2 DEF monitorVars, Machinery
<1>3. ASSUME MachineDestroy \/ MachineReset \/ MachineStop \/ RunAttempt \/ RunLimit
      PROVE  Next
  BY <1>3 DEF Next
<1>4. ASSUME NEW limit \in Limits, EnterRun(limit) PROVE Next
  BY <1>4 DEF EnterRun, Next
<1>5. CASE ProgramStep
  <2>1. CASE Load
    BY <2>1 DEF Load, Next
  <2>2. CASE Install
    BY <1>1, <1>3, <2>2 DEF Install
  <2>3. CASE Begin \/ Report \/ Prompt
    BY <1>1, <2>3 DEF Begin, Report, Prompt
  <2>4. CASE StartBatch
    BY <1>4, <2>4, MonitorFields DEF StartBatch
  <2>5. CASE Poll
    <3>1. sig.interrupted \in BOOLEAN
      BY MonitorFields
    <3> QED
      BY <2>5, <3>1 DEF Poll, Next
  <2>6. CASE Step \/ ReachLimit \/ Leave
    BY <1>3, <2>6 DEF Step, ReachLimit, Leave
  <2> QED
    BY <1>5, <2>1, <2>2, <2>3, <2>4, <2>5, <2>6 DEF ProgramStep
<1>6. CASE User
  <2>1. CASE ReadInterrupted \/ ReadEnds \/ Quit \/ PlaceCommand \/ OtherCommand
    BY <1>1, <2>1 DEF ReadInterrupted, ReadEnds, Quit, PlaceCommand, OtherCommand
  <2>2. CASE StepOrRun
    BY <1>1, <1>4, <2>2, CommandLimit DEF RunCommand
  <2>3. CASE StopCommand \/ ResetCommand
    BY <1>3, <2>3 DEF StopCommand, ResetCommand
  <2> QED
    BY <1>6, <2>1, <2>2, <2>3 DEF User
<1>7. CASE Signal
  BY <1>1, <1>7 DEF Signal
<1>8. CASE Rest
  BY <1>1, <1>2, <1>8 DEF Rest
<1> QED
  BY <1>1, <1>2, <1>5, <1>6, <1>7, <1>8 DEF MonitorNext
-----------------------------------------------------------------------------
(* What the calls of the machine do, as far as the monitor looks at it. *)

LEMMA RunFields ==
  ASSUME IInv
  PROVE  /\ run \in [active : BOOLEAN, limit : Limits \cup {0}, polled : BOOLEAN,
                     total : TotalType]
         /\ machine \in MachineType
         /\ hist \in [image : ProgramType, reported : 0 .. CountModulus - 1]
BY DEF IInv, TypeOK

\* machine_load: a machine that has just been loaded has run nothing.
LEMMA LoadEffect ==
  ASSUME IInv, IInv', NEW p \in Programs, MachineLoad(p), ret'.ok
  PROVE  ~run'.active /\ machine'.loaded /\ ~machine'.exited /\ hist'.reported = 0
<1>1. ~(ret'.ok = FALSE)
  OBVIOUS
<1>2. machine' = Loaded(p) /\ hist' = [image |-> p, reported |-> 0]
  <2>1. ASSUME Answer("load", FALSE) PROVE FALSE
    BY <1>1, <2>1 DEF Answer
  <2> QED
    BY <2>1 DEF MachineLoad
<1> QED
  BY <1>2 DEF MachineLoad, NoRun, Loaded

LEMMA IdleCalls ==
  /\ MachineDestroy => ~run'.active
  /\ MachineReset => ~run'.active
  /\ MachineStop => ~run'.active
  /\ \A p \in Programs : MachineLoad(p) => ~run'.active
<1>1. run' = NoRun => ~run'.active
  BY DEF NoRun
<1>2. MachineDestroy \/ MachineReset \/ MachineStop => run' = NoRun
  BY DEF MachineDestroy, MachineReset, MachineStop
<1>3. \A p \in Programs : MachineLoad(p) => run' = NoRun
  BY DEF MachineLoad
<1> QED
  BY <1>1, <1>2, <1>3, Zenon

LEMMA StopEffect ==
  ASSUME IInv, machine' = Stopped(machine)
  PROVE  /\ machine'.cpu.pc = machine.cpu.pc /\ machine'.cpu.count = machine.cpu.count
         /\ machine'.cpu.halted /\ machine'.exited = machine.exited
         /\ machine'.exit_code = machine.exit_code
BY RunFields DEF Stopped, MachineType, CpuStates

\* Entering machine_run.
LEMMA EnterEffect ==
  ASSUME IInv, NEW limit \in Limits, EnterRun(limit)
  PROVE  /\ UNCHANGED <<machine, sig>> /\ seen' = [seen EXCEPT !.late = 0]
         /\ ctl' = [ctl EXCEPT !.phase = IF run'.active THEN "running" ELSE "report"]
         /\ run'.active <=> ~Refused(limit)
         /\ run'.active => run'.limit = limit /\ ~run'.polled /\ hist' = hist
<1>1. UNCHANGED <<machine, sig>> /\ seen' = [seen EXCEPT !.late = 0]
      /\ ctl' = [ctl EXCEPT !.phase = IF run'.active THEN "running" ELSE "report"]
  BY DEF EnterRun, RunStart, Goto
<1>2. CASE Refused(limit)
  <2>1. ~run'.active
    BY <1>2 DEF EnterRun, RunStart, Return, NoRun
  <2> QED
    BY <1>1, <1>2, <2>1
<1>3. CASE ~Refused(limit)
  BY <1>1, <1>3 DEF EnterRun, RunStart
<1> QED
  BY <1>2, <1>3

\* should_stop has answered.
LEMMA PollEffect ==
  ASSUME IInv, NEW stop \in BOOLEAN, RunPoll(stop)
  PROVE  /\ run.active /\ ~run.polled
         /\ stop => ~run'.active /\ machine' = Stopped(machine)
                    /\ run'.total.reason = "STOPPED"
         /\ ~stop => run'.active /\ run'.polled /\ run'.limit = run.limit
                     /\ UNCHANGED <<machine, hist>>
<1>1. run.active /\ ~run.polled
  BY DEF RunPoll
<1>2. CASE stop
  <2>1. machine' = Stopped(machine) /\ Return([run.total EXCEPT !.reason = "STOPPED"])
    BY <1>2 DEF RunPoll
  <2>2. run.total \in TotalType
    BY <1>1, ActiveTotal
  <2> QED
    BY <1>1, <1>2, <2>1, <2>2 DEF Return, NoRun, TotalType
<1>3. CASE ~stop
  BY <1>1, <1>3, RunFields DEF RunPoll
<1> QED
  BY <1>2, <1>3

LEMMA LimitEffect ==
  ASSUME IInv, IInv', RunLimit
  PROVE  /\ run.active /\ ~run'.active /\ machine' = machine
         /\ run'.total.reason = "LIMIT" /\ run'.total.retired = run.limit
         /\ hist'.reported = (hist.reported + run.limit) % CountModulus
<1>1. run.active /\ machine' = machine /\ Return([run.total EXCEPT !.reason = "LIMIT"])
  BY DEF RunLimit
<1>2. /\ run.total \in TotalType /\ run.total.retired = run.total.attempts
      /\ run.total.attempts \in Nat /\ run.limit \in Nat /\ run.total.attempts <= run.limit
  BY <1>1, ActiveTotal
<1>3. run.total.retired = run.limit
  BY <1>2 DEF RunLimit, MayPoll
<1>4. run'.total = [run.total EXCEPT !.reason = "LIMIT"] /\ ~run'.active
      /\ hist'.reported = (hist.reported + [run.total EXCEPT !.reason = "LIMIT"].retired) % CountModulus
  BY <1>1, RunFields DEF Return, NoRun
<1> QED
  BY <1>1, <1>2, <1>3, <1>4 DEF TotalType

\* One attempt: the record is that of the machine it leaves, and the run goes on
\* exactly when an instruction has retired.
LEMMA AttemptEffect ==
  ASSUME IInv, RunAttempt
  PROVE  /\ run.active /\ run.polled
         /\ run'.total.last.pc_before \in Pcs
         /\ run'.total.last.pc_after = machine'.cpu.pc
         /\ run'.total.last.count_after = machine'.cpu.count
         /\ run'.active => ~run'.polled /\ run'.limit = run.limit /\ hist' = hist
         /\ ~run'.active => /\ run'.total.reason \in {"EXITED", "TRAP"}
                            /\ run'.total.reason = "EXITED" <=> machine'.exited
                            /\ run'.total.reason = "TRAP" => run'.total.last.result \in Traps
<1>1. run.active /\ run.polled /\ machine.loaded /\ ~machine.exited
  BY ActiveTotal DEF RunAttempt
<1>2. PICK o \in Outcomes(Resumed, machine.memory.bytes) :
        /\ machine' = Attempted(machine, o)
        /\ LET total == TotalAfter(run.total, o)
           IN \/ /\ total.reason = "READY"
                 /\ run' = [run EXCEPT !.polled = FALSE, !.total = total]
                 /\ UNCHANGED hist
              \/ total.reason # "READY" /\ Return(total)
  BY DEF RunAttempt
<1>3. /\ machine'.exited = Exits(o) /\ o.result \in Results /\ (Exits(o) => o.result = "ECALL")
      /\ Record(Resumed, o) \in RecordType
  BY <1>1, <1>2, AttemptKeepsMachine
<1>4. machine'.cpu = o.cpu
  BY <1>2, RunFields DEF Attempted, MachineType
<1>5. o.result # "HALTED"
  <2>1. machine.cpu \in CpuStates
    BY RunFields DEF MachineType
  <2>2. ~Resumed.halted
    BY <2>1 DEF Resumed, CpuStates
  <2>3. o \in {Outcome(t, Resumed, machine.memory.bytes) : t \in Traps} \cup Retirements(Resumed)
    BY <2>2 DEF Outcomes
  <2>4. ASSUME NEW t \in Traps, o = Outcome(t, Resumed, machine.memory.bytes)
        PROVE  o.result # "HALTED"
    BY <2>4 DEF Outcome, Traps
  <2>5. ASSUME o \in Retirements(Resumed) PROVE o.result # "HALTED"
    BY <2>5 DEF Retirements
  <2> QED
    BY <2>3, <2>4, <2>5
<1> DEFINE total == TotalAfter(run.total, o)
<1>6. run'.total = total /\ (run'.active <=> total.reason = "READY")
  BY <1>1, <1>2, RunFields DEF Return, NoRun
<1>7. total.last = Record(Resumed, o)
      /\ total.reason = IF o.result = "OK" THEN "READY" ELSE IF Exits(o) THEN "EXITED" ELSE "TRAP"
  BY DEF TotalAfter
<1>8. run'.total.last.pc_before \in Pcs /\ run'.total.last.pc_after = o.cpu.pc
      /\ run'.total.last.count_after = o.cpu.count /\ run'.total.last.result = o.result
  BY <1>3, <1>6, <1>7 DEF Record, RecordType
<1>9. run'.active => ~run'.polled /\ run'.limit = run.limit /\ hist' = hist
  BY <1>2, <1>6, RunFields DEF Return
<1>10. ~run'.active => /\ run'.total.reason \in {"EXITED", "TRAP"}
                       /\ run'.total.reason = "EXITED" <=> Exits(o)
                       /\ run'.total.reason = "TRAP" => o.result \in Traps
  BY <1>3, <1>5, <1>6, <1>7 DEF Results
<1> QED
  BY <1>1, <1>3, <1>4, <1>8, <1>9, <1>10
-----------------------------------------------------------------------------
(* Types. *)

LEMMA StatusType ==
  ASSUME NEW reason, NEW code \in Nat
  PROVE  BatchStatus(reason, code) \in 0 .. 255
<1>1. code % 256 \in 0 .. 255
  OBVIOUS
<1> QED
  BY <1>1 DEF BatchStatus

LEMMA ClearFlagType ==
  ASSUME MonitorTypeOK, ClearFlag
  PROVE  sig' \in [interrupted : BOOLEAN, disposition : {"default", "handler"},
                   sent : 0 .. MaxSignals]
BY MonitorFields DEF ClearFlag

\* trace_step.
LEMMA TraceEffect ==
  ASSUME MonitorTypeOK, NEW record \in RecordType, record.pc_before \in Pcs, TraceStep(record)
  PROVE  /\ monitor' \in MonitorRecord
         /\ seen' \in [label : Labels \cup {"nothing", "listing"}, late : Nat,
                       early : BOOLEAN, installed : BOOLEAN]
         /\ monitor'.limit = monitor.limit /\ monitor'.trace = monitor.trace
         /\ monitor'.has_record /\ monitor'.last = Kept(record)
         /\ seen'.late = IF sig.interrupted THEN seen.late + 1 ELSE 0
         /\ monitor'.source_seen = (monitor.source_seen \/ monitor.trace)
         /\ monitor'.last_source = IF monitor.trace THEN Location(record.pc_before)
                                   ELSE monitor.last_source
         /\ seen'.label = IF monitor.trace /\ (~monitor.source_seen
                                \/ Location(record.pc_before) # monitor.last_source)
                            THEN Location(record.pc_before) ELSE seen.label
<1> DEFINE location == Location(record.pc_before)
<1>1. location \in Labels
  BY DEF Labels
<1>2. Kept(record) \in [pc_after : Pcs, count_after : 0 .. CountModulus - 1]
  BY DEF Kept, RecordType
<1>3. /\ monitor' = [monitor EXCEPT !.last = Kept(record), !.has_record = TRUE,
                       !.last_source = IF monitor.trace THEN location ELSE monitor.last_source,
                       !.source_seen = monitor.source_seen \/ monitor.trace]
      /\ seen' = [seen EXCEPT !.label = IF monitor.trace /\ (~monitor.source_seen
                                              \/ location # monitor.last_source)
                                          THEN location ELSE seen.label,
                              !.late = IF sig.interrupted THEN seen.late + 1 ELSE 0]
  BY DEF TraceStep
<1>4. monitor \in MonitorRecord
      /\ seen \in [label : Labels \cup {"nothing", "listing"}, late : Nat,
                   early : BOOLEAN, installed : BOOLEAN]
  BY MonitorFields
<1> HIDE DEF location
<1>5. /\ monitor' \in MonitorRecord
      /\ monitor'.limit = monitor.limit /\ monitor'.trace = monitor.trace
      /\ monitor'.has_record /\ monitor'.last = Kept(record)
      /\ monitor'.source_seen = (monitor.source_seen \/ monitor.trace)
      /\ monitor'.last_source = IF monitor.trace THEN location ELSE monitor.last_source
  <2> DEFINE place == IF monitor.trace THEN location ELSE monitor.last_source
             known == monitor.source_seen \/ monitor.trace
  <2>1. place \in Labels /\ known \in BOOLEAN
    BY <1>1, <1>4 DEF MonitorRecord
  <2>2. monitor' = [monitor EXCEPT !.last = Kept(record), !.has_record = TRUE,
                                   !.last_source = place, !.source_seen = known]
    BY <1>3
  <2> HIDE DEF place, known
  <2>3. /\ monitor' \in MonitorRecord
        /\ monitor'.limit = monitor.limit /\ monitor'.trace = monitor.trace
        /\ monitor'.has_record /\ monitor'.last = Kept(record)
        /\ monitor'.source_seen = known /\ monitor'.last_source = place
    BY <1>2, <1>4, <2>1, <2>2 DEF MonitorRecord
  <2> QED
    BY <2>3 DEF place, known
<1>6. /\ seen' \in [label : Labels \cup {"nothing", "listing"}, late : Nat,
                    early : BOOLEAN, installed : BOOLEAN]
      /\ seen'.late = IF sig.interrupted THEN seen.late + 1 ELSE 0
      /\ seen'.label = IF monitor.trace /\ (~monitor.source_seen \/ location # monitor.last_source)
                         THEN location ELSE seen.label
  <2> DEFINE label == IF monitor.trace /\ (~monitor.source_seen \/ location # monitor.last_source)
                        THEN location ELSE seen.label
             late == IF sig.interrupted THEN seen.late + 1 ELSE 0
  <2>1. label \in Labels \cup {"nothing", "listing"} /\ late \in Nat
    BY <1>1, <1>4
  <2>2. seen' = [seen EXCEPT !.label = label, !.late = late]
    BY <1>3
  <2> HIDE DEF label, late
  <2>3. /\ seen' \in [label : Labels \cup {"nothing", "listing"}, late : Nat,
                      early : BOOLEAN, installed : BOOLEAN]
        /\ seen'.late = late /\ seen'.label = label
    BY <1>4, <2>1, <2>2
  <2> QED
    BY <2>3 DEF label, late
<1> QED
  BY <1>5, <1>6 DEF location
-----------------------------------------------------------------------------
(* Every action keeps the invariant. *)

CtlType == [phase : Phases, batch : BOOLEAN, option : BOOLEAN, status : 0 .. 255]
SigType == [interrupted : BOOLEAN, disposition : {"default", "handler"},
            sent : 0 .. MaxSignals]
SeenType == [label : Labels \cup {"nothing", "listing"}, late : Nat, early : BOOLEAN,
             installed : BOOLEAN]

LEMMA TypesTogether ==
  ASSUME IInv', ctl' \in CtlType, monitor' \in MonitorRecord, sig' \in SigType, seen' \in SeenType
  PROVE  MonitorTypeOK'
BY DEF IInv, MonitorTypeOK, CtlType, MonitorRecord, SigType, SeenType

LEMMA TypesApart ==
  ASSUME MonitorInv
  PROVE  /\ IInv /\ MonitorTypeOK /\ ctl \in CtlType /\ monitor \in MonitorRecord
         /\ sig \in SigType /\ seen \in SeenType
BY MonitorFields DEF MonitorInv, CtlType, SigType, SeenType

LEMMA PhaseNames ==
  /\ "loaded" \in Phases /\ "installed" \in Phases /\ "ready" \in Phases
  /\ "prompt" \in Phases /\ "reading" \in Phases /\ "running" \in Phases
  /\ "report" \in Phases /\ "leaving" \in Phases /\ "exited" \in Phases
  /\ "killed" \in Phases
  /\ 0 \in 0 .. 255 /\ 2 \in 0 .. 255
BY DEF Phases

LEMMA CtlMoves ==
  ASSUME MonitorInv, NEW p \in Phases, Goto(p)
  PROVE  /\ ctl' \in CtlType /\ ctl'.phase = p
         /\ ctl'.batch = ctl.batch /\ ctl'.option = ctl.option
<1>1. ctl \in CtlType
  BY TypesApart
<1> QED
  BY <1>1 DEF Goto, CtlType

LEMMA CtlEnds ==
  ASSUME MonitorInv, NEW p \in Phases, NEW status \in 0 .. 255,
         ctl' = [ctl EXCEPT !.phase = p, !.status = status]
  PROVE  /\ ctl' \in CtlType /\ ctl'.phase = p /\ ctl'.status = status
         /\ ctl'.batch = ctl.batch /\ ctl'.option = ctl.option
<1>1. ctl \in CtlType
  BY TypesApart
<1> QED
  BY <1>1 DEF CtlType

LEMMA MonitorInitInv == MonitorInit => MonitorInv
<1> SUFFICES ASSUME MonitorInit PROVE MonitorInv
  OBVIOUS
<1>1. IInv /\ TypeOK /\ Init
  BY InitIInv DEF MonitorInit, IInv
<1>2. PICK batch \in Modes, trace \in BOOLEAN, limit \in Limits \ {0} :
        /\ ctl = [phase |-> "start", batch |-> batch, option |-> trace, status |-> 0]
        /\ monitor = [limit |-> limit, trace |-> trace, has_record |-> FALSE,
                      last |-> NoneKept, source_seen |-> FALSE, last_source |-> NoLine]
  BY DEF MonitorInit
<1>3. NoneKept \in [pc_after : Pcs, count_after : 0 .. CountModulus - 1]
  BY Constants DEF NoneKept, Kept, NoRecord
<1>4. MonitorTypeOK
  <2>1. ctl \in [phase : Phases, batch : BOOLEAN, option : BOOLEAN, status : 0 .. 255]
    BY <1>2, MonitorAssumption DEF Phases
  <2>2. monitor \in [limit : Limits \ {0}, trace : BOOLEAN, has_record : BOOLEAN,
                     last : [pc_after : Pcs, count_after : 0 .. CountModulus - 1],
                     source_seen : BOOLEAN, last_source : Labels]
    BY <1>2, <1>3 DEF Labels
  <2>3. /\ sig = [interrupted |-> FALSE, disposition |-> "default", sent |-> 0]
        /\ seen = [label |-> "nothing", late |-> 0, early |-> FALSE, installed |-> FALSE]
    BY DEF MonitorInit
  <2> QED
    BY <1>1, <2>1, <2>2, <2>3, MonitorAssumption DEF MonitorTypeOK
<1>5. ~run.active
  BY <1>1 DEF Init, NoRun
<1> QED
  BY <1>1, <1>2, <1>4, <1>5
  DEF MonitorInv, PhaseInv, BatchInv, LateInv, LabelInv, RecordInv, TraceInv, At, Prepared

LEMMA LoadKeeps == MonitorInv /\ IInv' /\ Load => MonitorInv'
<1> SUFFICES ASSUME MonitorInv, IInv', Load PROVE MonitorInv'
  OBVIOUS
<1>1. PICK p \in Programs : MachineLoad(p)
  BY DEF Load
<1>2. /\ ctl.phase = "start" /\ UNCHANGED <<monitor, sig, seen>> /\ ~run'.active
  BY <1>1, IdleCalls DEF Load, At
<1>3. /\ ctl' \in CtlType /\ ctl'.batch = ctl.batch /\ ctl'.option = ctl.option
      /\ ctl'.phase = IF ret'.ok THEN "loaded" ELSE "exited"
  <2>1. CASE ret'.ok /\ Goto("loaded")
    BY <2>1, PhaseNames, CtlMoves
  <2>2. CASE ~ret'.ok /\ ctl' = [ctl EXCEPT !.phase = "exited", !.status = 2]
    <3>1. /\ ctl' \in CtlType /\ ctl'.phase = "exited" /\ ctl'.batch = ctl.batch
          /\ ctl'.option = ctl.option
      BY <2>2, PhaseNames, CtlEnds
    <3> QED
      BY <2>2, <3>1
  <2> QED
    BY <2>1, <2>2 DEF Load
<1>4. ret'.ok => machine'.loaded /\ ~machine'.exited /\ hist'.reported = 0
  BY <1>1, LoadEffect, TypesApart
<1>5. MonitorTypeOK'
  BY <1>2, <1>3, TypesApart, TypesTogether
<1>6. PhaseInv' /\ BatchInv' /\ LateInv'
  BY <1>2, <1>3, <1>4 DEF MonitorInv, PhaseInv, BatchInv, LateInv, At, Prepared
<1>7. LabelInv' /\ RecordInv' /\ TraceInv'
  BY <1>2, <1>3 DEF MonitorInv, LabelInv, RecordInv, TraceInv, Prepared
<1> QED
  BY <1>5, <1>6, <1>7 DEF MonitorInv

LEMMA InstallKeeps == MonitorInv /\ IInv' /\ Install => MonitorInv'
<1> SUFFICES ASSUME MonitorInv, IInv', Install PROVE MonitorInv'
  OBVIOUS
<1>1. ctl.phase = "loaded" /\ ~run.active /\ monitor' = monitor
  BY DEF Install, At, MonitorInv, PhaseInv
<1>2. CASE /\ Goto("installed") /\ sig' = [sig EXCEPT !.disposition = "handler"]
           /\ seen' = [seen EXCEPT !.installed = TRUE] /\ UNCHANGED Machinery
  <2>1. /\ ctl' \in CtlType /\ ctl'.phase = "installed" /\ ctl'.batch = ctl.batch
        /\ ctl'.option = ctl.option
    BY <1>2, PhaseNames, CtlMoves
  <2>2. /\ sig' \in SigType /\ seen' \in SeenType /\ seen'.label = seen.label
    BY <1>2, TypesApart DEF SigType, SeenType
  <2>3. MonitorTypeOK'
    BY <1>1, <2>1, <2>2, TypesApart, TypesTogether
  <2>4. PhaseInv' /\ BatchInv' /\ LateInv'
    BY <1>1, <1>2, <2>1 DEF MonitorInv, PhaseInv, BatchInv, LateInv, At, Prepared, Machinery
  <2>5. LabelInv' /\ RecordInv' /\ TraceInv'
    BY <1>1, <1>2, <2>1, <2>2
    DEF MonitorInv, LabelInv, RecordInv, TraceInv, Prepared, Machinery
  <2> QED
    BY <2>3, <2>4, <2>5 DEF MonitorInv
<1>3. CASE /\ ctl' = [ctl EXCEPT !.phase = "exited", !.status = 2] /\ MachineDestroy
           /\ UNCHANGED <<sig, seen>>
  <2>1. /\ ctl' \in CtlType /\ ctl'.phase = "exited" /\ ctl'.batch = ctl.batch
    BY <1>3, PhaseNames, CtlEnds
  <2>2. ~run'.active
    BY <1>3, IdleCalls
  <2>3. MonitorTypeOK'
    BY <1>1, <1>3, <2>1, TypesApart, TypesTogether
  <2> QED
    BY <1>1, <1>3, <2>1, <2>2, <2>3
    DEF MonitorInv, PhaseInv, BatchInv, LateInv, LabelInv, RecordInv, TraceInv, At, Prepared
<1> QED
  BY <1>2, <1>3 DEF Install

LEMMA BeginKeeps == MonitorInv /\ IInv' /\ Begin => MonitorInv'
<1> SUFFICES ASSUME MonitorInv, IInv', Begin PROVE MonitorInv'
  OBVIOUS
<1>1. /\ ctl.phase = "installed" /\ ~run.active /\ UNCHANGED <<Machinery, monitor, seen>>
      /\ sig' \in SigType
  BY TypesApart, ClearFlagType DEF Begin, At, MonitorInv, PhaseInv, SigType
<1>2. /\ ctl' \in CtlType /\ ctl'.batch = ctl.batch /\ ctl'.option = ctl.option
      /\ ctl'.phase = IF ctl.batch THEN "ready" ELSE "prompt"
  <2>1. CASE ctl.batch
    <3>1. Goto("ready")
      BY <2>1 DEF Begin
    <3> QED
      BY <2>1, <3>1, PhaseNames, CtlMoves
  <2>2. CASE ~ctl.batch
    <3>1. Goto("prompt")
      BY <2>2 DEF Begin
    <3> QED
      BY <2>2, <3>1, PhaseNames, CtlMoves
  <2> QED
    BY <2>1, <2>2
<1>3. MonitorTypeOK'
  BY <1>1, <1>2, TypesApart, TypesTogether
<1>4. PhaseInv' /\ BatchInv' /\ LateInv'
  BY <1>1, <1>2 DEF MonitorInv, PhaseInv, BatchInv, LateInv, At, Prepared, Machinery
<1>5. LabelInv' /\ RecordInv' /\ TraceInv'
  BY <1>1, <1>2 DEF MonitorInv, LabelInv, RecordInv, TraceInv, Prepared, Machinery
<1> QED
  BY <1>3, <1>4, <1>5 DEF MonitorInv

LEMMA RunningGoto ==
  ASSUME MonitorInv, Running
  PROVE  /\ ctl' \in CtlType /\ ctl'.phase = (IF run'.active THEN "running" ELSE "report")
         /\ ctl'.batch = ctl.batch
<1>1. CASE run'.active
  <2>1. Goto("running")
    BY <1>1 DEF Running
  <2>2. ctl' \in CtlType /\ ctl'.phase = "running" /\ ctl'.batch = ctl.batch
    BY <2>1, PhaseNames, CtlMoves
  <2> QED
    BY <1>1, <2>2
<1>2. CASE ~run'.active
  <2>1. Goto("report")
    BY <1>2 DEF Running
  <2>2. ctl' \in CtlType /\ ctl'.phase = "report" /\ ctl'.batch = ctl.batch
    BY <2>1, PhaseNames, CtlMoves
  <2> QED
    BY <1>2, <2>2
<1> QED
  BY <1>1, <1>2

\* machine_run is entered from the batch invocation and from the prompt.
LEMMA EnterRunKeeps ==
  ASSUME MonitorInv, IInv', NEW limit \in Limits, EnterRun(limit),
         ctl.batch => ctl.phase = "ready" /\ limit = monitor.limit,
         ctl.phase \in {"ready", "reading"},
         monitor' \in MonitorRecord, monitor'.limit = monitor.limit,
         monitor'.has_record = monitor.has_record, monitor'.last = monitor.last,
         monitor'.source_seen = monitor.source_seen,
         monitor'.last_source = monitor.last_source
  PROVE  MonitorInv'
<1>1. /\ UNCHANGED <<machine, sig>> /\ seen' = [seen EXCEPT !.late = 0]
      /\ run'.active <=> ~Refused(limit)
      /\ run'.active => run'.limit = limit /\ ~run'.polled /\ hist' = hist
  BY TypesApart, EnterEffect
<1>2. /\ ctl' \in CtlType /\ ctl'.phase = (IF run'.active THEN "running" ELSE "report")
      /\ ctl'.batch = ctl.batch
  <2>1. Running
    BY TypesApart, EnterEffect DEF Running, Goto
  <2> QED
    BY <2>1, RunningGoto
<1>3. seen' \in SeenType /\ seen'.late = 0 /\ seen'.label = seen.label
  BY <1>1, TypesApart DEF SeenType
<1>4. MonitorTypeOK'
  BY <1>1, <1>2, <1>3, TypesApart, TypesTogether
<1>5. ctl.batch => run'.active /\ hist.reported = 0
  <2>1. ASSUME ctl.batch PROVE machine.loaded /\ ~machine.exited /\ hist.reported = 0
    BY <2>1 DEF MonitorInv, PhaseInv, Prepared
  <2>2. ASSUME ctl.batch PROVE limit # 0
    BY <2>2, TypesApart DEF MonitorRecord
  <2> QED
    BY <1>1, <2>1, <2>2 DEF Refused
<1>6. PhaseInv'
  BY <1>2 DEF PhaseInv, At, Prepared
<1>7. BatchInv'
  BY <1>1, <1>2, <1>5 DEF BatchInv, At
<1>8. LateInv' /\ LabelInv' /\ RecordInv' /\ TraceInv'
  BY <1>1, <1>2, <1>3 DEF MonitorInv, LateInv, LabelInv, RecordInv, TraceInv, At, Prepared
<1> QED
  BY <1>4, <1>6, <1>7, <1>8 DEF MonitorInv

LEMMA StartBatchKeeps == MonitorInv /\ IInv' /\ StartBatch => MonitorInv'
<1> SUFFICES ASSUME MonitorInv, IInv', StartBatch PROVE MonitorInv'
  OBVIOUS
<1>1. ctl.phase = "ready" /\ EnterRun(monitor.limit) /\ monitor' = monitor
  BY DEF StartBatch, At
<1>2. monitor.limit \in Limits /\ monitor' \in MonitorRecord
  BY <1>1, TypesApart DEF MonitorRecord
<1> QED
  BY <1>1, <1>2, EnterRunKeeps

LEMMA RunCommandKeeps ==
  ASSUME MonitorInv, IInv', NEW stepping \in BOOLEAN, NEW limit \in Limits,
         RunCommand(stepping, limit)
  PROVE  MonitorInv'
<1>1. ctl.phase = "reading" /\ ~ctl.batch /\ ~run.active
  BY TypesApart DEF RunCommand, At, MonitorInv, PhaseInv, CtlType
<1>2. CASE Goto("prompt") /\ UNCHANGED <<Machinery, monitor, sig, seen>>
  <2>1. ctl' \in CtlType /\ ctl'.phase = "prompt" /\ ctl'.batch = ctl.batch
        /\ ctl'.option = ctl.option
    BY <1>2, PhaseNames, CtlMoves
  <2>2. MonitorTypeOK'
    BY <1>2, <2>1, TypesApart, TypesTogether
  <2> QED
    BY <1>1, <1>2, <2>1, <2>2
    DEF MonitorInv, PhaseInv, BatchInv, LateInv, LabelInv, RecordInv, TraceInv, At, Prepared,
        Machinery
<1>3. CASE /\ monitor' = [monitor EXCEPT !.trace = stepping \/ monitor.trace]
           /\ EnterRun(limit)
  <2>1. (stepping \/ monitor.trace) \in BOOLEAN /\ monitor \in MonitorRecord
    BY TypesApart DEF MonitorRecord
  <2>2. /\ monitor' \in MonitorRecord /\ monitor'.limit = monitor.limit
        /\ monitor'.has_record = monitor.has_record /\ monitor'.last = monitor.last
        /\ monitor'.source_seen = monitor.source_seen
        /\ monitor'.last_source = monitor.last_source
    BY <1>3, <2>1 DEF MonitorRecord
  <2> QED
    BY <1>1, <1>3, <2>2, EnterRunKeeps
<1> QED
  BY <1>2, <1>3 DEF RunCommand

LEMMA PollKeeps == MonitorInv /\ IInv' /\ Poll => MonitorInv'
<1> SUFFICES ASSUME MonitorInv, IInv', Poll PROVE MonitorInv'
  OBVIOUS
<1>1. /\ ctl.phase = "running" /\ RunPoll(sig.interrupted) /\ UNCHANGED <<monitor, sig, seen>>
      /\ sig.interrupted \in BOOLEAN
  BY TypesApart DEF Poll, At, SigType
<1>2. /\ ctl' \in CtlType /\ ctl'.phase = (IF run'.active THEN "running" ELSE "report")
      /\ ctl'.batch = ctl.batch
  BY RunningGoto DEF Poll
<1>3. MonitorTypeOK'
  BY <1>1, <1>2, TypesApart, TypesTogether
<1>4. /\ sig.interrupted => ~run'.active /\ machine' = Stopped(machine)
                            /\ run'.total.reason = "STOPPED"
      /\ ~sig.interrupted => run'.active /\ run'.polled /\ run'.limit = run.limit
                             /\ UNCHANGED <<machine, hist>>
  BY <1>1, TypesApart, PollEffect
<1>5. CASE sig.interrupted
  <2>1. /\ machine'.cpu.pc = machine.cpu.pc /\ machine'.cpu.count = machine.cpu.count
        /\ machine'.cpu.halted /\ ~machine'.exited
    <3>1. ~machine.exited
      BY <1>1, TypesApart, PollEffect, ActiveTotal
    <3> QED
      BY <1>4, <1>5, <3>1, TypesApart, StopEffect
  <2>2. PhaseInv' /\ LateInv'
    BY <1>2, <1>4, <1>5 DEF PhaseInv, LateInv, At, Prepared
  <2>3. BatchInv'
    BY <1>1, <1>2, <1>4, <1>5, <2>1 DEF BatchInv, BatchOutcome, At
  <2>4. LabelInv' /\ RecordInv' /\ TraceInv'
    BY <1>1, <1>2, <1>4, <1>5, <2>1 DEF MonitorInv, LabelInv, RecordInv, TraceInv, Prepared
  <2> QED
    BY <1>3, <2>2, <2>3, <2>4 DEF MonitorInv
<1>6. CASE ~sig.interrupted
  <2>1. PhaseInv' /\ BatchInv' /\ LateInv'
    BY <1>1, <1>2, <1>4, <1>6 DEF MonitorInv, PhaseInv, BatchInv, LateInv, At, Prepared
  <2>2. LabelInv' /\ RecordInv' /\ TraceInv'
    BY <1>1, <1>2, <1>4, <1>6 DEF MonitorInv, LabelInv, RecordInv, TraceInv, Prepared
  <2> QED
    BY <1>3, <2>1, <2>2 DEF MonitorInv
<1> QED
  BY <1>5, <1>6

LEMMA StepKeeps == MonitorInv /\ IInv' /\ Step => MonitorInv'
<1> SUFFICES ASSUME MonitorInv, IInv', Step PROVE MonitorInv'
  OBVIOUS
<1>1. ctl.phase = "running" /\ RunAttempt /\ TraceStep(run'.total.last) /\ sig' = sig
  BY DEF Step, At
<1>2. /\ ctl' \in CtlType /\ ctl'.phase = (IF run'.active THEN "running" ELSE "report")
      /\ ctl'.batch = ctl.batch
  BY RunningGoto DEF Step
<1>3. /\ run.polled
      /\ run'.total.last.pc_before \in Pcs
      /\ run'.total.last.pc_after = machine'.cpu.pc
      /\ run'.total.last.count_after = machine'.cpu.count
      /\ run'.active => ~run'.polled /\ run'.limit = run.limit /\ hist' = hist
      /\ ~run'.active => /\ run'.total.reason \in {"EXITED", "TRAP"}
                         /\ run'.total.reason = "EXITED" <=> machine'.exited
                         /\ run'.total.reason = "TRAP" => run'.total.last.result \in Traps
  BY <1>1, TypesApart, AttemptEffect
<1>4. run'.total.last \in RecordType
  BY DEF IInv, TypeOK, TotalType
<1> DEFINE place == Location(run'.total.last.pc_before)
<1>5. /\ monitor' \in MonitorRecord /\ seen' \in SeenType
      /\ monitor'.limit = monitor.limit /\ monitor'.last = Kept(run'.total.last)
      /\ seen'.late = (IF sig.interrupted THEN seen.late + 1 ELSE 0)
      /\ monitor'.source_seen = (monitor.source_seen \/ monitor.trace)
      /\ monitor'.last_source = (IF monitor.trace THEN place ELSE monitor.last_source)
      /\ seen'.label = IF monitor.trace /\ (~monitor.source_seen \/ place # monitor.last_source)
                         THEN place ELSE seen.label
  BY <1>1, <1>3, <1>4, TypesApart, TraceEffect DEF SeenType
<1> HIDE DEF place
<1>6. MonitorTypeOK'
  BY <1>1, <1>2, <1>5, TypesApart, TypesTogether
<1>7. PhaseInv'
  BY <1>2 DEF PhaseInv, At, Prepared
<1>8. BatchInv'
  BY <1>1, <1>2, <1>3, <1>5 DEF MonitorInv, BatchInv, BatchOutcome, At
<1>9. LateInv'
  <2>1. seen.late = 0
    BY <1>1, <1>3 DEF MonitorInv, LateInv, At
  <2> QED
    BY <1>1, <1>2, <1>3, <1>5, <2>1 DEF LateInv, At
<1>10. LabelInv'
  BY <1>5 DEF MonitorInv, LabelInv
<1>11. RecordInv' /\ TraceInv'
  BY <1>2, <1>3, <1>5 DEF RecordInv, TraceInv, Prepared, Kept
<1> QED
  BY <1>6, <1>7, <1>8, <1>9, <1>10, <1>11 DEF MonitorInv

LEMMA ReachLimitKeeps == MonitorInv /\ IInv' /\ ReachLimit => MonitorInv'
<1> SUFFICES ASSUME MonitorInv, IInv', ReachLimit PROVE MonitorInv'
  OBVIOUS
<1>1. ctl.phase = "running" /\ RunLimit /\ UNCHANGED <<monitor, sig, seen>>
  BY DEF ReachLimit, At
<1>2. /\ ctl' \in CtlType /\ ctl'.phase = (IF run'.active THEN "running" ELSE "report")
      /\ ctl'.batch = ctl.batch
  BY RunningGoto DEF ReachLimit
<1>3. /\ ~run'.active /\ machine' = machine /\ run'.total.reason = "LIMIT"
      /\ hist'.reported = (hist.reported + run.limit) % CountModulus /\ ~machine.exited
      /\ run.limit \in Nat /\ hist.reported \in Nat
  BY <1>1, TypesApart, LimitEffect, ActiveTotal DEF IInv, TypeOK
<1>4. MonitorTypeOK'
  BY <1>1, <1>2, TypesApart, TypesTogether
<1>5. ctl.batch => machine'.cpu.count = monitor'.limit % CountModulus
  <2> SUFFICES ASSUME ctl.batch PROVE machine'.cpu.count = monitor'.limit % CountModulus
    OBVIOUS
  <2>1. run.limit = monitor.limit /\ hist.reported = 0 /\ monitor' = monitor
    BY <1>1 DEF MonitorInv, BatchInv, At
  <2>2. hist'.reported = monitor.limit % CountModulus /\ monitor.limit \in Nat
    BY <1>3, <2>1
  <2>3. machine'.cpu.count = (hist'.reported + 0) % CountModulus
    BY <1>3 DEF IInv, CountsRetirements
  <2>4. (monitor.limit % CountModulus) % CountModulus = monitor.limit % CountModulus
    BY <2>2, ModSteps, Constants
  <2>5. hist'.reported \in Nat /\ hist'.reported + 0 = hist'.reported
    BY Constants DEF IInv, TypeOK
  <2> QED
    BY <2>1, <2>2, <2>3, <2>4, <2>5
<1>6. PhaseInv' /\ LateInv'
  BY <1>2, <1>3 DEF PhaseInv, LateInv, At, Prepared
<1>7. BatchInv'
  BY <1>2, <1>3, <1>5 DEF BatchInv, BatchOutcome, At
<1>8. LabelInv' /\ RecordInv' /\ TraceInv'
  BY <1>1, <1>2, <1>3 DEF MonitorInv, LabelInv, RecordInv, TraceInv, Prepared
<1> QED
  BY <1>4, <1>6, <1>7, <1>8 DEF MonitorInv

LEMMA ReportKeeps == MonitorInv /\ IInv' /\ Report => MonitorInv'
<1> SUFFICES ASSUME MonitorInv, IInv', Report PROVE MonitorInv'
  OBVIOUS
<1>1. ctl.phase = "report" /\ UNCHANGED <<Machinery, sig, seen>> /\ ~run.active
  BY DEF Report, At, MonitorInv, PhaseInv
<1>2. UNCHANGED <<machine, run, ret, hist>>
  BY <1>1 DEF Machinery
<1> DEFINE status == BatchStatus(run.total.reason, machine.exit_code)
<1>3. CASE ctl.batch
  <2>1. Exit(status) /\ monitor' = monitor
    BY <1>3 DEF Report
  <2>2. status \in 0 .. 255
    <3>1. machine.exit_code \in Nat
      BY TypesApart, RunFields, MachineAssumption DEF MachineType
    <3> QED
      BY <3>1, StatusType
  <2> HIDE DEF status
  <2>3. /\ ctl' \in CtlType /\ ctl'.phase = "leaving" /\ ctl'.batch = ctl.batch
        /\ ctl'.status = status
    BY <2>1, <2>2, PhaseNames, CtlEnds DEF Exit
  <2>4. MonitorTypeOK'
    BY <1>1, <2>1, <2>3, TypesApart, TypesTogether
  <2>5. PhaseInv' /\ LateInv' /\ LabelInv' /\ RecordInv' /\ TraceInv'
    BY <1>1, <1>2, <2>1, <2>3
    DEF MonitorInv, PhaseInv, LateInv, LabelInv, RecordInv, TraceInv, At, Prepared
  <2>6. BatchInv'
    <3>1. BatchOutcome
      BY <1>1, <1>3 DEF MonitorInv, BatchInv
    <3>2. BatchOutcome'
      BY <1>1, <1>2, <2>1, <3>1 DEF BatchOutcome
    <3>3. BatchStatus(run'.total.reason, machine'.exit_code) = status
      BY <1>2 DEF status
    <3> QED
      BY <2>3, <3>2, <3>3 DEF BatchInv, At
  <2> QED
    BY <2>4, <2>5, <2>6 DEF MonitorInv
<1>4. CASE ~ctl.batch
  <2>1. Goto("prompt") /\ monitor' = [monitor EXCEPT !.trace = ctl.option]
    BY <1>4 DEF Report
  <2>2. ctl' \in CtlType /\ ctl'.phase = "prompt" /\ ctl'.batch = ctl.batch
        /\ ctl'.option = ctl.option
    BY <2>1, PhaseNames, CtlMoves
  <2>3. /\ monitor' \in MonitorRecord /\ monitor'.trace = ctl.option
        /\ monitor'.has_record = monitor.has_record /\ monitor'.last = monitor.last
        /\ monitor'.source_seen = monitor.source_seen
        /\ monitor'.last_source = monitor.last_source
    <3>1. monitor \in MonitorRecord /\ ctl.option \in BOOLEAN
      BY TypesApart DEF CtlType
    <3> QED
      BY <2>1, <3>1 DEF MonitorRecord
  <2>4. MonitorTypeOK'
    BY <1>1, <2>2, <2>3, TypesApart, TypesTogether
  <2> QED
    BY <1>1, <1>2, <1>4, <2>2, <2>3, <2>4
    DEF MonitorInv, PhaseInv, BatchInv, LateInv, LabelInv, RecordInv, TraceInv, At, Prepared
<1> QED
  BY <1>3, <1>4

LEMMA PromptKeeps == MonitorInv /\ IInv' /\ Prompt => MonitorInv'
<1> SUFFICES ASSUME MonitorInv, IInv', Prompt PROVE MonitorInv'
  OBVIOUS
<1>1. /\ ctl.phase = "prompt" /\ UNCHANGED <<machine, run, ret, hist, monitor, seen>>
      /\ sig' \in SigType
  BY TypesApart, ClearFlagType DEF Prompt, At, Machinery, SigType
<1>2. ctl' \in CtlType /\ ctl'.phase = "reading" /\ ctl'.batch = ctl.batch
      /\ ctl'.option = ctl.option
  BY PhaseNames, CtlMoves DEF Prompt
<1>3. MonitorTypeOK'
  BY <1>1, <1>2, TypesApart, TypesTogether
<1> QED
  BY <1>1, <1>2, <1>3
  DEF MonitorInv, PhaseInv, BatchInv, LateInv, LabelInv, RecordInv, TraceInv, At, Prepared

LEMMA LeaveKeeps == MonitorInv /\ IInv' /\ Leave => MonitorInv'
<1> SUFFICES ASSUME MonitorInv, IInv', Leave PROVE MonitorInv'
  OBVIOUS
<1>1. /\ MachineDestroy /\ UNCHANGED <<monitor, seen>> /\ sig' \in SigType
  BY TypesApart DEF Leave, SigType
<1>2. ctl' \in CtlType /\ ctl'.phase = "exited"
  BY PhaseNames, CtlMoves DEF Leave
<1>3. ~run'.active
  BY <1>1, IdleCalls
<1>4. MonitorTypeOK'
  BY <1>1, <1>2, TypesApart, TypesTogether
<1> QED
  BY <1>1, <1>2, <1>3, <1>4
  DEF MonitorInv, PhaseInv, BatchInv, LateInv, LabelInv, RecordInv, TraceInv, At, Prepared

\* The commands that leave the machine alone.
LEMMA QuietKeeps ==
  ASSUME MonitorInv, IInv',
         ReadInterrupted \/ ReadEnds \/ Quit \/ PlaceCommand \/ OtherCommand
  PROVE  MonitorInv'
<1>1. /\ ctl.phase = "reading" /\ UNCHANGED <<machine, run, ret, hist, sig>>
      /\ ~ctl.batch /\ ~run.active
  BY TypesApart DEF ReadInterrupted, ReadEnds, Quit, PlaceCommand, OtherCommand, At, Machinery,
                    MonitorInv, PhaseInv, CtlType
<1>2. Goto("prompt") \/ Exit(0) \/ Exit(2)
  BY DEF ReadInterrupted, ReadEnds, Quit, PlaceCommand, OtherCommand
<1>3. /\ ctl' \in CtlType /\ ctl'.phase \in {"prompt", "leaving"} /\ ctl'.batch = ctl.batch
      /\ ctl'.option = ctl.option
  <2>1. CASE Goto("prompt")
    BY <2>1, PhaseNames, CtlMoves
  <2>2. CASE Exit(0)
    BY <2>2, PhaseNames, CtlEnds DEF Exit
  <2>3. CASE Exit(2)
    BY <2>3, PhaseNames, CtlEnds DEF Exit
  <2> QED
    BY <1>2, <2>1, <2>2, <2>3
<1>4. CASE UNCHANGED <<monitor, seen>>
  <2>1. MonitorTypeOK'
    BY <1>1, <1>3, <1>4, TypesApart, TypesTogether
  <2> QED
    BY <1>1, <1>3, <1>4, <2>1
    DEF MonitorInv, PhaseInv, BatchInv, LateInv, LabelInv, RecordInv, TraceInv, At, Prepared
<1>5. CASE PlaceCommand
  <2>1. PICK label \in {Location(pc) : pc \in Pcs} \cup {"listing"} :
          seen' = [seen EXCEPT !.label = label]
    BY <1>5 DEF PlaceCommand
  <2>2. seen' \in SeenType
    BY <2>1, TypesApart DEF SeenType, Labels
  <2>3. /\ monitor' \in MonitorRecord /\ ~monitor'.source_seen
        /\ monitor'.trace = monitor.trace
        /\ monitor'.has_record = monitor.has_record /\ monitor'.last = monitor.last
    BY <1>5, TypesApart DEF PlaceCommand, MonitorRecord
  <2>4. MonitorTypeOK'
    BY <1>1, <1>3, <2>2, <2>3, TypesApart, TypesTogether
  <2> QED
    BY <1>1, <1>3, <2>3, <2>4
    DEF MonitorInv, PhaseInv, BatchInv, LateInv, LabelInv, RecordInv, TraceInv, At, Prepared
<1> QED
  BY <1>4, <1>5 DEF ReadInterrupted, ReadEnds, Quit, OtherCommand

LEMMA StopCommandKeeps == MonitorInv /\ IInv' /\ StopCommand => MonitorInv'
<1> SUFFICES ASSUME MonitorInv, IInv', StopCommand PROVE MonitorInv'
  OBVIOUS
<1>1. /\ ctl.phase = "reading" /\ MachineStop /\ UNCHANGED <<monitor, sig, seen>>
      /\ machine' = Stopped(machine)
  BY DEF StopCommand, At, MachineStop
<1>2. ctl' \in CtlType /\ ctl'.phase = "prompt" /\ ctl'.batch = ctl.batch
      /\ ctl'.option = ctl.option
  BY PhaseNames, CtlMoves DEF StopCommand
<1>3. ~run'.active /\ machine'.cpu.pc = machine.cpu.pc /\ machine'.cpu.count = machine.cpu.count
  BY <1>1, TypesApart, IdleCalls, StopEffect
<1>4. MonitorTypeOK'
  BY <1>1, <1>2, TypesApart, TypesTogether
<1> QED
  BY <1>1, <1>2, <1>3, <1>4
  DEF MonitorInv, PhaseInv, BatchInv, LateInv, LabelInv, RecordInv, TraceInv, At, Prepared

LEMMA ResetCommandKeeps == MonitorInv /\ IInv' /\ ResetCommand => MonitorInv'
<1> SUFFICES ASSUME MonitorInv, IInv', ResetCommand PROVE MonitorInv'
  OBVIOUS
<1>1. /\ ctl.phase = "reading" /\ MachineReset /\ UNCHANGED <<sig, seen>> /\ ~run'.active
  BY IdleCalls DEF ResetCommand, At
<1>2. ctl' \in CtlType /\ ctl'.phase = "prompt" /\ ctl'.batch = ctl.batch
      /\ ctl'.option = ctl.option
  BY PhaseNames, CtlMoves DEF ResetCommand
<1>3. /\ monitor' \in MonitorRecord /\ ~monitor'.source_seen /\ ~monitor'.has_record
      /\ monitor'.trace = monitor.trace
  <2>1. monitor \in MonitorRecord /\ NoLine \in Labels
    BY TypesApart DEF Labels
  <2> QED
    BY <2>1 DEF ResetCommand, MonitorRecord
<1>4. MonitorTypeOK'
  BY <1>1, <1>2, <1>3, TypesApart, TypesTogether
<1> QED
  BY <1>1, <1>2, <1>3, <1>4
  DEF MonitorInv, PhaseInv, BatchInv, LateInv, LabelInv, RecordInv, TraceInv, At, Prepared

LEMMA SignalKeeps == MonitorInv /\ IInv' /\ Signal => MonitorInv'
<1> SUFFICES ASSUME MonitorInv, IInv', Signal PROVE MonitorInv'
  OBVIOUS
<1>1. UNCHANGED <<machine, run, ret, hist, monitor>> /\ sig.sent < MaxSignals
      /\ ctl.phase # "exited"
  BY DEF Signal, Machinery, Terminated
<1>2. CASE sig.disposition = "handler"
  <2>1. /\ sig' = [interrupted |-> TRUE, disposition |-> "default", sent |-> sig.sent + 1]
        /\ seen' = [seen EXCEPT !.early = (seen.early \/ BeforeBatch)] /\ ctl' = ctl
    BY <1>2 DEF Signal
  <2>2. sig' \in SigType /\ sig'.interrupted
    BY <1>1, <2>1, TypesApart, MonitorAssumption DEF SigType
  <2>3. seen' \in SeenType /\ seen'.label = seen.label /\ seen'.late = seen.late
    <3>1. seen \in SeenType /\ (seen.early \/ BeforeBatch) \in BOOLEAN
      BY TypesApart DEF SeenType
    <3> QED
      BY <2>1, <3>1 DEF SeenType
  <2>4. MonitorTypeOK'
    BY <1>1, <2>1, <2>2, <2>3, TypesApart, TypesTogether
  <2>5. PhaseInv' /\ BatchInv'
    BY <1>1, <2>1, <2>2 DEF MonitorInv, PhaseInv, BatchInv, BatchOutcome, At, Prepared
  <2>6. LateInv' /\ LabelInv' /\ RecordInv' /\ TraceInv'
    BY <1>1, <2>1, <2>2, <2>3
    DEF MonitorInv, LateInv, LabelInv, RecordInv, TraceInv, At, Prepared
  <2> QED
    BY <2>4, <2>5, <2>6 DEF MonitorInv
<1>3. CASE sig.disposition # "handler"
  <2>1. sig' = [sig EXCEPT !.sent = sig.sent + 1] /\ Goto("killed") /\ seen' = seen
    BY <1>3 DEF Signal
  <2>2. sig' \in SigType
    BY <1>1, <2>1, TypesApart, MonitorAssumption DEF SigType
  <2>3. ctl' \in CtlType /\ ctl'.phase = "killed" /\ ctl'.batch = ctl.batch
    BY <2>1, PhaseNames, CtlMoves
  <2>4. MonitorTypeOK'
    BY <1>1, <2>1, <2>2, <2>3, TypesApart, TypesTogether
  <2> QED
    BY <1>1, <2>1, <2>3, <2>4
    DEF MonitorInv, PhaseInv, BatchInv, LateInv, LabelInv, RecordInv, TraceInv, At, Prepared
<1> QED
  BY <1>2, <1>3

LEMMA RestKeeps == MonitorInv /\ UNCHANGED monitorVars => MonitorInv'
<1> SUFFICES ASSUME MonitorInv, UNCHANGED monitorVars PROVE MonitorInv'
  OBVIOUS
<1>1. UNCHANGED <<machine, run, ret, hist, ctl, monitor, sig, seen>>
  BY DEF monitorVars
<1>2. UNCHANGED vars
  BY <1>1 DEF vars
<1>3. IInv'
  BY <1>2, TypesApart, NextKeepsIInv
<1>4. MonitorTypeOK'
  BY <1>1, <1>3, TypesApart, TypesTogether
<1> QED
  BY <1>1, <1>3, <1>4
  DEF MonitorInv, PhaseInv, BatchInv, BatchOutcome, LateInv, LabelInv, RecordInv, TraceInv, At,
      Prepared

LEMMA MonitorNextInv == MonitorInv /\ [MonitorNext]_monitorVars => MonitorInv'
<1> SUFFICES ASSUME MonitorInv, [MonitorNext]_monitorVars PROVE MonitorInv'
  OBVIOUS
<1>1. IInv'
  BY TypesApart, StepOfMachine, NextKeepsIInv
<1>2. CASE ProgramStep
  BY <1>1, <1>2, LoadKeeps, InstallKeeps, BeginKeeps, StartBatchKeeps, PollKeeps, StepKeeps,
     ReachLimitKeeps, ReportKeeps, PromptKeeps, LeaveKeeps DEF ProgramStep
<1>3. CASE User
  <2>1. CASE StepOrRun
    BY <1>1, <2>1, TypesApart, CommandLimit, RunCommandKeeps
  <2> QED
    BY <1>1, <1>3, <2>1, QuietKeeps, StopCommandKeeps, ResetCommandKeeps DEF User
<1>4. CASE Signal
  BY <1>1, <1>4, SignalKeeps
<1>5. CASE Rest \/ UNCHANGED monitorVars
  BY <1>5, RestKeeps DEF Rest
<1> QED
  BY <1>2, <1>3, <1>4, <1>5 DEF MonitorNext
-----------------------------------------------------------------------------
\* The monitor drives one machine: whatever it does, and wherever signals fall, the
\* machine goes through a behaviour of machine.c, so that what is proved of Machine
\* holds under the monitor.
THEOREM MonitorDrivesMachine == MonitorSpec => Spec
<1>1. MonitorInit => Init
  BY DEF MonitorInit
<1>2. MonitorInv /\ [MonitorNext]_monitorVars => [Next]_vars
  BY TypesApart, StepOfMachine
<1>3. MonitorSpec => []MonitorInv
  BY MonitorInitInv, MonitorNextInv, PTL DEF MonitorSpec
<1> QED
  BY <1>1, <1>2, <1>3, PTL DEF MonitorSpec, Spec

\* The inductive invariant holds of every reachable state of monitor_main.
THEOREM MonitorInvariant == MonitorSpec => []MonitorInv
BY MonitorInitInv, MonitorNextInv, PTL DEF MonitorSpec

\* Struct Monitor, the locals of monitor_main and the machine underneath keep their types.
THEOREM MonitorTypes == MonitorSpec => []MonitorTypeOK
<1>1. MonitorInv => MonitorTypeOK
  BY DEF MonitorInv
<1> QED
  BY <1>1, MonitorInvariant, PTL

\* The exit status of a batch run tells what happened, for every program and limit and
\* whenever Ctrl-C is pressed.
THEOREM MonitorBatchStatus == MonitorSpec => []BatchStatusTruthful
<1>1. MonitorInv => BatchStatusTruthful
  <2> SUFFICES ASSUME MonitorInv, ctl.phase = "leaving", ctl.batch
               PROVE  IF machine.exited THEN ctl.status = machine.exit_code % 256
                      ELSE \/ ctl.status = 130 /\ sig.interrupted /\ machine.cpu.halted
                           \/ ctl.status = 124 /\ machine.cpu.count = monitor.limit % CountModulus
                           \/ ctl.status = 1 /\ run.total.last.result \in Traps
    BY DEF BatchStatusTruthful, At
  <2>1. BatchOutcome /\ ctl.status = BatchStatus(run.total.reason, machine.exit_code)
    BY DEF MonitorInv, BatchInv, At
  <2> QED
    BY <2>1 DEF BatchOutcome, BatchStatus
<1> QED
  BY <1>1, MonitorInvariant, PTL

\* After Ctrl-C machine_run makes at most one more attempt.
THEOREM MonitorStopsInTime == MonitorSpec => []StopsAtNextBoundary
<1>1. MonitorInv => StopsAtNextBoundary
  BY DEF MonitorInv, LateInv, StopsAtNextBoundary
<1> QED
  BY <1>1, MonitorInvariant, PTL

\* What the prompt shows of the last attempt is of the present machine.
THEOREM MonitorPromptIsCurrent == MonitorSpec => []PromptIsCurrent
<1>1. MonitorInv => PromptIsCurrent
  BY DEF MonitorInv, RecordInv, TraceInv, PromptIsCurrent, At
<1> QED
  BY <1>1, MonitorInvariant, PTL

LEMMA TracedStep ==
  ASSUME MonitorInv, MonitorInv', [MonitorNext]_monitorVars, At("running"), RunAttempt,
         monitor.trace
  PROVE  seen'.label = Location(run'.total.last.pc_before)
<1>1. /\ run.polled /\ ctl.phase = "running"
      /\ run' # run
  <2>1. run'.active => ~run'.polled
    BY TypesApart, AttemptEffect
  <2>2. run.active /\ run.polled
    BY TypesApart, AttemptEffect
  <2> QED
    BY <2>1, <2>2 DEF At
<1>2. Step
  <2>1. ~UNCHANGED run
    BY <1>1
  <2>2. ~Poll /\ ~ReachLimit
    BY <1>1 DEF Poll, ReachLimit, RunPoll, RunLimit
  <2>3. ~(Load \/ Install \/ Begin \/ StartBatch \/ Report \/ Prompt \/ Leave)
    BY <1>1 DEF Load, Install, Begin, StartBatch, Report, Prompt, Leave, At
  <2>4. ~User
    BY <1>1 DEF User, ReadInterrupted, ReadEnds, Quit, StepOrRun, RunCommand, StopCommand,
                ResetCommand, PlaceCommand, OtherCommand, At
  <2>5. ~(Signal \/ Rest \/ UNCHANGED monitorVars)
    BY <2>1 DEF Signal, Rest, monitorVars, Machinery
  <2> QED
    BY <2>2, <2>3, <2>4, <2>5 DEF MonitorNext, ProgramStep
<1>3. run'.total.last \in RecordType /\ run'.total.last.pc_before \in Pcs
  BY TypesApart, AttemptEffect DEF MonitorInv, IInv, TypeOK, TotalType
<1>4. seen'.label = IF monitor.trace /\ (~monitor.source_seen
                          \/ Location(run'.total.last.pc_before) # monitor.last_source)
                      THEN Location(run'.total.last.pc_before) ELSE seen.label
  BY <1>2, <1>3, TypesApart, TraceEffect DEF Step
<1> QED
  BY <1>4 DEF MonitorInv, LabelInv

\* A traced instruction stands under its own source label.
THEOREM MonitorLabelIsTruthful == MonitorSpec => LabelIsTruthful
<1>1. MonitorInv /\ MonitorInv' /\ [MonitorNext]_monitorVars =>
        [At("running") /\ RunAttempt /\ monitor.trace =>
           seen'.label = Location(run'.total.last.pc_before)]_monitorVars
  BY TracedStep
<1> QED
  BY <1>1, MonitorInvariant, PTL DEF MonitorSpec, LabelIsTruthful
=============================================================================
