------------------------------- MODULE Monitor -------------------------------
(***************************************************************************)
(* The monitor program (src/monitor.c) around one Machine: loading, the    *)
(* SIGINT handler, a batch run or the interactive prompt, and the trace.   *)
(* A signal may arrive between any two steps.  The phases name the places  *)
(* of the code where that makes a difference:                              *)
(*   start      505  before the image is loaded                            *)
(*   loaded     517  before signal()                                       *)
(*   installed  525  the handler is in place, the flag not yet cleared     *)
(*   ready      527  the flag is clear                                     *)
(*   prompt     340  about to clear the flag and to read a command         *)
(*   reading    343  in fgets()                                            *)
(*   running    413, 529  in machine_run                                   *)
(*   report     414, 530  machine_run has returned                         *)
(*   leaving    534  the status is known                                   *)
(*   exited, killed                                                        *)
(***************************************************************************)
EXTENDS Machine

CONSTANTS Location(_),  \* debug_info_lookup: the source line of an address
          NoLine,       \* no row of the line table covers the address
          Modes,        \* whether --run is given: a set of BOOLEAN values
          MaxSignals    \* bound: how many times the user presses Ctrl-C

\* A step command without a count gives 1.
ASSUME MonitorAssumption == MaxSignals \in Nat /\ Modes \subseteq BOOLEAN /\ 1 \in Limits

VARIABLES ctl,     \* where monitor_main is, its options, its exit status
          monitor, \* struct Monitor
          sig,     \* the flag, the disposition of SIGINT, the signals sent
          seen     \* history: what the user has seen and asked for

monitorVars == <<machine, run, ret, hist, ctl, monitor, sig, seen>>

At(p) == ctl.phase = p
Goto(p) == ctl' = [ctl EXCEPT !.phase = p]
Machinery == <<machine, run, ret, hist>>

\* The record of the last attempt, as far as the monitor shows it later.
Kept(record) == [pc_after |-> record.pc_after, count_after |-> record.count_after]
NoneKept == Kept(NoRecord)

MonitorInit ==
  /\ Init
  /\ \E batch \in Modes, trace \in BOOLEAN, limit \in Limits \ {0} :
       /\ ctl = [phase |-> "start", batch |-> batch, option |-> trace, status |-> 0]
       /\ monitor = [limit |-> limit, trace |-> trace, has_record |-> FALSE,
                     last |-> NoneKept, source_seen |-> FALSE, last_source |-> NoLine]
  /\ sig = [interrupted |-> FALSE, disposition |-> "default", sent |-> 0]
  /\ seen = [label |-> "nothing", late |-> 0, early |-> FALSE, installed |-> FALSE]

Exit(status) == ctl' = [ctl EXCEPT !.phase = "leaving", !.status = status]

Load ==
  /\ At("start")
  /\ \E p \in Programs : MachineLoad(p)
  /\ IF ret'.ok THEN Goto("loaded")
     ELSE ctl' = [ctl EXCEPT !.phase = "exited", !.status = 2]
  /\ UNCHANGED <<monitor, sig, seen>>

\* signal(SIGINT, interrupt_handler)
Install ==
  /\ At("loaded")
  /\ \/ /\ Goto("installed")
        /\ sig' = [sig EXCEPT !.disposition = "handler"]
        /\ seen' = [seen EXCEPT !.installed = TRUE]
        /\ UNCHANGED Machinery
     \/ /\ ctl' = [ctl EXCEPT !.phase = "exited", !.status = 2]  \* SIG_ERR
        /\ MachineDestroy
        /\ UNCHANGED <<sig, seen>>
  /\ UNCHANGED monitor

\* interrupted = 0
ClearFlag == sig' = [sig EXCEPT !.interrupted = FALSE]

Begin ==
  /\ At("installed")
  /\ ClearFlag
  /\ Goto(IF ctl.batch THEN "ready" ELSE "prompt")
  /\ UNCHANGED <<Machinery, monitor, seen>>

\* machine_run may return at once, when it refuses to run.
EnterRun(limit) ==
  /\ RunStart(limit)
  /\ Goto(IF run'.active THEN "running" ELSE "report")
  /\ seen' = [seen EXCEPT !.late = 0]
  /\ UNCHANGED sig

StartBatch ==
  /\ At("ready")
  /\ EnterRun(monitor.limit)
  /\ UNCHANGED monitor
-----------------------------------------------------------------------------
\* trace_step: the label of the source line is printed when it changes.
TraceStep(record) ==
  LET location == Location(record.pc_before)
      labelled == monitor.trace /\ (~monitor.source_seen \/ location # monitor.last_source)
  IN /\ monitor' = [monitor EXCEPT !.last = Kept(record), !.has_record = TRUE,
                      !.last_source = IF monitor.trace THEN location ELSE @,
                      !.source_seen = @ \/ monitor.trace]
     /\ seen' = [seen EXCEPT !.label = IF labelled THEN location ELSE seen.label,
                             !.late = IF sig.interrupted THEN seen.late + 1 ELSE 0]

Running == Goto(IF run'.active THEN "running" ELSE "report")

\* should_stop ignores the flag.
PollIgnored ==
  /\ At("running") /\ RunPoll(FALSE) /\ Running /\ UNCHANGED <<monitor, sig, seen>>

Poll ==
  /\ At("running") /\ RunPoll(sig.interrupted) /\ Running /\ UNCHANGED <<monitor, sig, seen>>

Step ==
  /\ At("running") /\ RunAttempt /\ Running
  /\ TraceStep(run'.total.last)
  /\ UNCHANGED sig

ReachLimit ==
  /\ At("running") /\ RunLimit /\ Running /\ UNCHANGED <<monitor, sig, seen>>

\* A guest that exits is treated as any other stop.
BatchStatusOfStop(reason, exit_code) ==
  IF reason = "LIMIT" THEN 124 ELSE IF reason = "STOPPED" THEN 130 ELSE 1

\* The status keeps all the bits of a0.
BatchStatusUnmasked(reason, exit_code) ==
  IF reason = "EXITED" THEN exit_code
  ELSE IF reason = "LIMIT" THEN 124 ELSE IF reason = "STOPPED" THEN 130 ELSE 1

BatchStatus(reason, exit_code) ==
  IF reason = "EXITED" THEN exit_code % 256
  ELSE IF reason = "LIMIT" THEN 124 ELSE IF reason = "STOPPED" THEN 130 ELSE 1

\* The trace flag is restored and the stop is reported.
Report ==
  /\ At("report")
  /\ IF ctl.batch
       THEN Exit(BatchStatus(run.total.reason, machine.exit_code)) /\ UNCHANGED monitor
       ELSE Goto("prompt") /\ monitor' = [monitor EXCEPT !.trace = ctl.option]
  /\ UNCHANGED <<Machinery, sig, seen>>
-----------------------------------------------------------------------------
Prompt ==
  /\ At("prompt")
  /\ ClearFlag
  /\ Goto("reading")
  /\ UNCHANGED <<Machinery, monitor, seen>>

\* fgets fails with EINTR: the flag tells that the user asked for a new prompt.
ReadInterrupted ==
  /\ At("reading") /\ sig.interrupted
  /\ Goto("prompt")
  /\ UNCHANGED <<Machinery, monitor, sig, seen>>

\* End of input or a read error, not taken for an interrupt.
ReadEnds ==
  /\ At("reading") /\ ~sig.interrupted
  /\ Exit(0) \/ Exit(2)
  /\ UNCHANGED <<Machinery, monitor, sig, seen>>

Quit ==
  /\ At("reading")
  /\ Exit(0)
  /\ UNCHANGED <<Machinery, monitor, sig, seen>>

\* step [N] and run [N]; 0 is refused, a step is always traced.
RunCommand(stepping, limit) ==
  /\ At("reading")
  /\ IF limit = 0
       THEN Goto("prompt") /\ UNCHANGED <<Machinery, monitor, sig, seen>>
       ELSE /\ monitor' = [monitor EXCEPT !.trace = stepping \/ monitor.trace]
            /\ EnterRun(limit)

StepOrRun ==
  \/ RunCommand(TRUE, 1) \/ RunCommand(FALSE, monitor.limit)
  \/ \E stepping \in BOOLEAN, limit \in Limits : RunCommand(stepping, limit)

StopCommand ==
  /\ At("reading") /\ MachineStop /\ Goto("prompt")
  /\ UNCHANGED <<monitor, sig, seen>>

\* The record of the last attempt survives.
ResetKeepsRecord ==
  /\ At("reading") /\ MachineReset /\ Goto("prompt")
  /\ monitor' = [monitor EXCEPT !.source_seen = FALSE, !.last_source = NoLine]
  /\ UNCHANGED <<sig, seen>>

ResetCommand ==
  /\ At("reading") /\ MachineReset /\ Goto("prompt")
  /\ monitor' = [monitor EXCEPT !.has_record = FALSE, !.source_seen = FALSE,
                                !.last_source = NoLine]
  /\ UNCHANGED <<sig, seen>>

\* The trace does not learn that another place has been printed.
PlaceCommandKeepsSeen ==
  /\ At("reading") /\ Goto("prompt")
  /\ \E label \in {Location(pc) : pc \in Pcs} \cup {"listing"} :
       seen' = [seen EXCEPT !.label = label]
  /\ UNCHANGED <<Machinery, monitor, sig>>

\* where and source print another place, so that the next label is printed.
PlaceCommand ==
  /\ At("reading") /\ Goto("prompt")
  /\ \E label \in {Location(pc) : pc \in Pcs} \cup {"listing"} :
       seen' = [seen EXCEPT !.label = label]
  /\ monitor' = [monitor EXCEPT !.source_seen = FALSE]
  /\ UNCHANGED <<Machinery, sig>>

\* Commands that only look, unknown commands, empty and overlong lines.
OtherCommand ==
  /\ At("reading") /\ Goto("prompt")
  /\ UNCHANGED <<Machinery, monitor, sig, seen>>

\* The old disposition is restored and everything is destroyed.
Leave ==
  /\ At("leaving")
  /\ MachineDestroy
  /\ sig' = [sig EXCEPT !.disposition = "default"]
  /\ Goto("exited")
  /\ UNCHANGED <<monitor, seen>>

Terminated == ctl.phase \in {"exited", "killed"}

BeforeBatch == ctl.batch /\ ctl.phase \in {"installed", "ready"}

\* SIGINT.  The Makefile compiles with -std=c17 and defines no feature macro:
\* signal() installs a handler that is good for one signal, and a system call
\* that it interrupts is not restarted.
Signal ==
  /\ ~Terminated /\ sig.sent < MaxSignals
  /\ IF sig.disposition = "handler"
       THEN /\ sig' = [interrupted |-> TRUE, disposition |-> "default", sent |-> sig.sent + 1]
            /\ seen' = [seen EXCEPT !.early = (seen.early \/ BeforeBatch)]
            /\ UNCHANGED ctl
       ELSE /\ sig' = [sig EXCEPT !.sent = sig.sent + 1]
            /\ Goto("killed")
            /\ UNCHANGED seen
  /\ UNCHANGED <<Machinery, monitor>>

Rest == Terminated /\ UNCHANGED monitorVars

ProgramStep == Load \/ Install \/ Begin \/ StartBatch \/ Poll \/ Step \/ ReachLimit
               \/ Report \/ Prompt \/ Leave
User == ReadInterrupted \/ ReadEnds \/ Quit \/ StepOrRun \/ StopCommand \/ ResetCommand
        \/ PlaceCommand \/ OtherCommand

MonitorNext == ProgramStep \/ User \/ Signal \/ Rest

\* The program runs: only the user may wait forever.
MonitorSpec == MonitorInit /\ [][MonitorNext]_monitorVars /\ WF_monitorVars(ProgramStep)
-----------------------------------------------------------------------------
Phases == {"start", "loaded", "installed", "ready", "prompt", "reading", "running",
           "report", "leaving", "exited", "killed"}

Labels == {Location(pc) : pc \in Pcs} \cup {NoLine}

\* Types of struct Monitor and of the locals of monitor_main, and of the
\* machine underneath.
MonitorTypeOK ==
  /\ TypeOK
  /\ ctl \in [phase : Phases, batch : BOOLEAN, option : BOOLEAN, status : 0 .. 255]
  /\ monitor \in [limit : Limits \ {0}, trace : BOOLEAN, has_record : BOOLEAN,
                  last : [pc_after : Pcs, count_after : 0 .. CountModulus - 1],
                  source_seen : BOOLEAN, last_source : Labels]
  /\ sig \in [interrupted : BOOLEAN, disposition : {"default", "handler"},
              sent : 0 .. MaxSignals]
  /\ seen \in [label : Labels \cup {"nothing", "listing"}, late : Nat, early : BOOLEAN,
               installed : BOOLEAN]

\* Ctrl-C stops a run at the next instruction boundary (docs/HELP.md): once the
\* handler has run, machine_run makes at most the one attempt it had polled for.
StopsAtNextBoundary == At("running") => seen.late <= 1

\* The status of a batch run tells what happened (docs/HELP.md, the table of
\* batch statuses): the low byte of the guest's status if it exited, 130 only
\* after a Ctrl-C, 124 only when the whole limit has been retired, 1 on a trap.
BatchStatusTruthful ==
  At("leaving") /\ ctl.batch =>
    IF machine.exited THEN ctl.status = machine.exit_code % 256
    ELSE \/ ctl.status = 130 /\ sig.interrupted /\ machine.cpu.halted
         \/ ctl.status = 124 /\ machine.cpu.count = monitor.limit % CountModulus
         \/ ctl.status = 1 /\ run.total.last.result \in Traps

\* What the prompt shows is of the present machine: the record of the last
\* attempt ends at the program counter and the count of the CPU, through steps,
\* runs, stops and resets, and a traced step leaves no trace switched on.
PromptIsCurrent ==
  At("prompt") \/ At("reading") =>
    /\ monitor.has_record => /\ monitor.last.pc_after = machine.cpu.pc
                             /\ monitor.last.count_after = machine.cpu.count
    /\ monitor.trace = ctl.option

\* A traced instruction stands under its own source label: the last label
\* printed is the location of the instruction, although labels are printed only
\* when they change, tracing goes on and off, and where and source print others.
LabelIsTruthful ==
  [][At("running") /\ RunAttempt /\ monitor.trace =>
       seen'.label = Location(run'.total.last.pc_before)]_monitorVars

\* machine_run always returns to the monitor, whatever the guest does, however
\* often it traps or loops: the limit of every run and step is finite.
EveryRunReturns == At("running") ~> ~At("running")

\* A batch invocation ends without help from the user.
BatchTerminates == ctl.batch ~> Terminated

\* Ctrl-C is a request, never the end of the session (docs/HELP.md: "Ctrl-C
\* requests a stop at the next instruction boundary"; usage of monitor.c).
InterruptIsARequest == At("killed") => ~seen.installed

\* A Ctrl-C that the handler has taken before a batch run began stops that run.
EarlyRequestStops ==
  At("leaving") /\ ctl.batch /\ seen.early => run.total.reason = "STOPPED"
=============================================================================
