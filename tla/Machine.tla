------------------------------- MODULE Machine -------------------------------
(***************************************************************************)
(* The machine controller (src/machine.c): it loads a program image, keeps *)
(* a pristine copy of it, steps the CPU one attempt at a time and runs it  *)
(* under a limit of attempts.  Of the CPU it relies on CpuContract only.   *)
(* machine_run is split where its caller can be heard: before each attempt *)
(* it asks should_stop.  An allocation may fail at each load.              *)
(***************************************************************************)
EXTENDS ProgramImage, CpuContract

CONSTANTS Programs,  \* the programs that callers load, valid or not
          Limits     \* the limits that callers give machine_run, 0 included

A0 == 10
A7 == 17
ExitService == 93

VARIABLES machine,  \* struct Machine
          run,      \* machine_run: whether it is active, its locals and result
          ret,      \* what the last other call returned
          hist      \* history: the image last loaded, the retirements reported

vars == <<machine, run, ret, hist>>

Image == [bytes : Rams \cup {Null}, size : Nat]
ProgramType == [memory : Image, load_address : Nat, entry : Nat, image_size : Nat]

ASSUME MachineAssumption ==
  /\ Null \notin Rams
  /\ {A0, A7} \subseteq Registers
  /\ 0 \in Values /\ Values \subseteq Nat
  /\ 0 \in Pcs /\ Pcs \subseteq Nat
  /\ CountModulus \in Nat \ {0}
  /\ Limits \subseteq Nat
  /\ Programs \subseteq ProgramType
  /\ \A p \in Programs : p.entry % WordSize = 0 => p.entry \in Pcs

FreshCpu(pc) ==
  [regs |-> [i \in Registers |-> 0], pc |-> pc, count |-> 0, halted |-> FALSE]
NoMachine == [cpu |-> FreshCpu(0), memory |-> NoImage, initial |-> NoProgram,
              loaded |-> FALSE, exited |-> FALSE, exit_code |-> 0]

\* What the step record says of an attempt, from the CPU before and after it.
NoRecord == [result |-> "NONE", pc_before |-> 0, pc_after |-> 0, count_after |-> 0]
Record(c, o) == [result |-> o.result, pc_before |-> c.pc, pc_after |-> o.cpu.pc,
                 count_after |-> o.cpu.count]

\* struct MachineRun
NoTotal == [reason |-> "READY", attempts |-> 0, retired |-> 0, last |-> NoRecord]
NoRun == [active |-> FALSE, limit |-> 0, polled |-> FALSE, total |-> NoTotal]

Init ==
  /\ machine = NoMachine
  /\ run = NoRun
  /\ ret = [call |-> "init", ok |-> TRUE]
  /\ hist = [image |-> NoProgram, reported |-> 0]

Answer(call, ok) == ret' = [call |-> call, ok |-> ok]
\* The program is single-threaded: no other call while machine_run is active.
Idle == ~run.active
-----------------------------------------------------------------------------
Loaded(p) == [cpu |-> FreshCpu(p.entry), memory |-> p.memory, initial |-> p,
              loaded |-> TRUE, exited |-> FALSE, exit_code |-> 0]

\* Refused, or one of the two clones has failed, and *machine is as it was; or loaded.
\* MachineImages takes the load apart and shows that these are the two outcomes.
MachineLoad(p) ==
  /\ Idle /\ run' = NoRun
  /\ \/ Answer("load", FALSE) /\ UNCHANGED <<machine, hist>>
     \/ /\ LoadAccepts(p)
        /\ machine' = Loaded(p)
        /\ hist' = [image |-> p, reported |-> 0]
        /\ Answer("load", TRUE)

MachineDestroy ==
  /\ Idle /\ run' = NoRun
  /\ machine' = NoMachine
  /\ hist' = [image |-> NoProgram, reported |-> 0]
  /\ Answer("destroy", TRUE)

\* memory_copy refuses images that are not allocated or differ in size.
ResetAccepts ==
  /\ machine.loaded
  /\ machine.initial.memory.bytes # Null /\ machine.memory.bytes # Null
  /\ SizeValid(machine.initial.memory.size)
  /\ machine.initial.memory.size = machine.memory.size

\* The exit flag survives.
RestoredStillExited(m) ==
  [m EXCEPT !.cpu = FreshCpu(m.initial.entry), !.memory.bytes = m.initial.memory.bytes]

Restored(m) ==
  [m EXCEPT !.cpu = FreshCpu(m.initial.entry), !.memory.bytes = m.initial.memory.bytes,
            !.exited = FALSE, !.exit_code = 0]

MachineReset ==
  /\ Idle /\ run' = NoRun
  /\ \/ ~ResetAccepts /\ Answer("reset", FALSE) /\ UNCHANGED <<machine, hist>>
     \/ /\ ResetAccepts
        /\ machine' = Restored(machine)
        /\ hist' = [hist EXCEPT !.reported = 0]
        /\ Answer("reset", TRUE)

Stopped(m) == [m EXCEPT !.cpu.halted = TRUE]

MachineStop ==
  /\ Idle /\ run' = NoRun
  /\ machine' = Stopped(machine)
  /\ Answer("stop", TRUE)
  /\ UNCHANGED hist
-----------------------------------------------------------------------------
Refused(limit) == limit = 0 \/ ~machine.loaded \/ machine.exited
RefusalReason(limit) ==
  IF limit = 0 THEN "INVALID_ARGUMENT" ELSE IF ~machine.loaded THEN "NO_PROGRAM" ELSE "EXITED"

\* machine_step resumes a CPU that was stopped.
Resumed == [machine.cpu EXCEPT !.halted = FALSE]

\* Any environment call ends the program.
ExitsOnAnyCall(o) == o.result = "ECALL"

Exits(o) == o.result = "ECALL" /\ o.cpu.regs[A7] = ExitService

Attempted(m, o) ==
  [m EXCEPT !.cpu = o.cpu, !.memory.bytes = o.memory, !.exited = Exits(o),
            !.exit_code = IF Exits(o) THEN o.cpu.regs[A0] ELSE m.exit_code]

\* An attempt that trapped is counted as retired.
TotalAfterCountingTraps(total, o) ==
  [reason |-> IF o.result = "OK" THEN "READY" ELSE IF Exits(o) THEN "EXITED" ELSE "TRAP",
   attempts |-> total.attempts + 1, retired |-> total.retired + 1,
   last |-> Record(Resumed, o)]

\* A trap neither ends the run nor counts against its limit.
TotalAfterIgnoringTraps(total, o) ==
  [reason |-> IF Exits(o) THEN "EXITED" ELSE "READY",
   attempts |-> total.attempts + (IF o.result = "OK" THEN 1 ELSE 0),
   retired |-> total.retired + (IF o.result = "OK" THEN 1 ELSE 0),
   last |-> Record(Resumed, o)]

TotalAfter(total, o) ==
  [reason |-> IF o.result = "OK" THEN "READY" ELSE IF Exits(o) THEN "EXITED" ELSE "TRAP",
   attempts |-> total.attempts + 1,
   retired |-> total.retired + (IF o.result = "OK" THEN 1 ELSE 0),
   last |-> Record(Resumed, o)]

\* The MachineRun handed to the caller.
Return(total) ==
  /\ run' = [NoRun EXCEPT !.total = total]
  /\ hist' = [hist EXCEPT !.reported = (hist.reported + total.retired) % CountModulus]

MachineStep ==
  /\ Idle /\ UNCHANGED ret
  /\ \/ /\ Refused(1)
        /\ Return([NoTotal EXCEPT !.reason = RefusalReason(1)])
        /\ UNCHANGED machine
     \/ /\ ~Refused(1)
        /\ \E o \in Outcomes(Resumed, machine.memory.bytes) :
             /\ machine' = Attempted(machine, o)
             /\ Return(TotalAfter(NoTotal, o))

RunStart(limit) ==
  /\ Idle /\ UNCHANGED <<machine, ret>>
  /\ \/ /\ Refused(limit)
        /\ Return([NoTotal EXCEPT !.reason = RefusalReason(limit)])
     \/ /\ ~Refused(limit)
        /\ run' = [active |-> TRUE, limit |-> limit, polled |-> FALSE, total |-> NoTotal]
        /\ UNCHANGED hist

\* The limit is tested too late.
MayPollOnceMore == run.total.attempts <= run.limit

MayPoll == run.total.attempts < run.limit

\* The loop test precedes the poll: the last attempt is not followed by one.
RunPoll(stop) ==
  /\ run.active /\ ~run.polled /\ MayPoll
  /\ UNCHANGED ret
  /\ \/ /\ stop
        /\ machine' = Stopped(machine)
        /\ Return([run.total EXCEPT !.reason = "STOPPED"])
     \/ ~stop /\ run' = [run EXCEPT !.polled = TRUE] /\ UNCHANGED <<machine, hist>>

RunAttempt ==
  /\ run.active /\ run.polled
  /\ UNCHANGED ret
  /\ \E o \in Outcomes(Resumed, machine.memory.bytes) :
       /\ machine' = Attempted(machine, o)
       /\ LET total == TotalAfter(run.total, o)
          IN \/ /\ total.reason = "READY"
                /\ run' = [run EXCEPT !.polled = FALSE, !.total = total]
                /\ UNCHANGED hist
             \/ total.reason # "READY" /\ Return(total)

RunLimit ==
  /\ run.active /\ ~run.polled /\ ~MayPoll
  /\ Return([run.total EXCEPT !.reason = "LIMIT"])
  /\ UNCHANGED <<machine, ret>>

Next ==
  \/ \E p \in Programs : MachineLoad(p)
  \/ MachineDestroy \/ MachineReset \/ MachineStop \/ MachineStep
  \/ \E limit \in Limits : RunStart(limit)
  \/ \E stop \in BOOLEAN : RunPoll(stop)
  \/ RunAttempt \/ RunLimit

Spec == Init /\ [][Next]_vars
-----------------------------------------------------------------------------
Reasons == {"READY", "LIMIT", "STOPPED", "EXITED", "TRAP", "NO_PROGRAM", "INVALID_ARGUMENT"}
Calls == {"init", "load", "destroy", "reset", "stop"}

MachineType ==
  [cpu : CpuStates, memory : Image, initial : ProgramType, loaded : BOOLEAN,
   exited : BOOLEAN, exit_code : Values]
RecordType == [result : Results \cup {"NONE"}, pc_before : Pcs, pc_after : Pcs,
               count_after : 0 .. CountModulus - 1]
TotalType == [reason : Reasons, attempts : Nat, retired : Nat, last : RecordType]

\* Types of struct Machine and struct MachineRun; the counter of the CPU wraps.
TypeOK ==
  /\ machine \in MachineType
  /\ run \in [active : BOOLEAN, limit : Limits \cup {0}, polled : BOOLEAN, total : TotalType]
  /\ ret \in [call : Calls, ok : BOOLEAN]
  /\ hist \in [image : ProgramType, reported : 0 .. CountModulus - 1]

\* What machine_load lets through is fit to run and to be reset: the entry is
\* a word that the first fetch can read, the image lies inside the RAM, and
\* machine_reset, which copies between images of one size, never fails.
LoadedIsRunnable ==
  LET p == machine.initial
  IN /\ machine.loaded =>
          /\ AccessValid(machine.memory.size, p.entry, WordSize)
          /\ p.load_address + p.image_size <= machine.memory.size
          /\ p.entry + WordSize <= p.load_address + p.image_size
          /\ ResetAccepts
     /\ ret.call = "reset" => (ret.ok <=> machine.loaded)

\* The exit status is that of the guest: the machine has exited only at an
\* ECALL with a7 = 93, the status is the a0 of that moment, no later call
\* changes either register, and a machine that has not exited has none.
ExitConsistent ==
  IF machine.exited
    THEN /\ machine.loaded
         /\ machine.cpu.regs[A7] = ExitService
         /\ machine.exit_code = machine.cpu.regs[A0]
    ELSE machine.exit_code = 0

\* The accounting of a run: attempts never pass the limit, "limit reached"
\* means the whole limit was retired, and at most one attempt, the last, did
\* not retire: the one that exited or trapped.
RunBudget ==
  LET t == run.total
  IN /\ run.active => t.attempts <= run.limit /\ t.attempts = t.retired
                      /\ (run.polled => t.attempts < run.limit)
     /\ t.attempts - t.retired \in {0, 1}
     /\ t.attempts - t.retired = 1 <=> t.last.result \in Results \ {"OK"}
     /\ t.attempts - t.retired = 1 => t.reason \in {"EXITED", "TRAP"}
     /\ t.reason = "TRAP" => t.attempts - t.retired = 1
     /\ t.reason \in {"NO_PROGRAM", "INVALID_ARGUMENT"} => t.attempts = 0

\* The limit is exact: a run that stops for it has retired as many instructions
\* as its caller asked for, and no other run performed more attempts.
LimitIsExact ==
  [][run.active /\ ~run'.active =>
       /\ run'.total.attempts <= run.limit
       /\ run'.total.reason = "LIMIT" => run'.total.retired = run.limit]_vars

\* instruction_count agrees with the retirements reported to the callers since
\* the image was loaded or reset, through any mixture of steps, runs, stops and
\* traps, and while a run is under way.
CountsRetirements ==
  machine.cpu.count =
    (hist.reported + (IF run.active THEN run.total.retired ELSE 0)) % CountModulus

\* Both: what machine_run reports of a run and what the CPU has counted are accounts of
\* the same attempts.
RunsAccounted == RunBudget /\ CountsRetirements

\* Reset is a reload: it leaves the machine as the load of the same image left
\* it, whatever the guest did to its RAM, its registers or its exit status.
ResetIsReload ==
  [][MachineReset /\ ret'.ok => machine' = Loaded(hist.image)]_vars
=============================================================================
