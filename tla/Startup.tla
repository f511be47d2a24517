------------------------------- MODULE Startup -------------------------------
(***************************************************************************)
(* monitor_main (src/monitor.c) before and after the run: the arguments,   *)
(* one by one, then the steps that acquire what a run needs, each of which *)
(* may fail, and what is released on every way out.  The run itself is     *)
(* module Monitor.  An argument is an option with its value; a value is a  *)
(* number, Bad if number() refuses it, or Absent if argv ends before it.   *)
(***************************************************************************)
EXTENDS Integers, Sequences

CONSTANTS Options,   \* the arguments there may be: [name, value]
          MaxOptions,
          Bad, Absent,
          Unit(_),   \* the unit of a RAM size: 1, MEMORY_KIB or MEMORY_MIB, or Bad
          Amount(_), \* its amount, or Bad
          MaxRam,    \* MEMORY_MAX_SIZE
          SizeModulus, \* of a size_t
          DefaultLimit, DefaultRam

ASSUME StartupAssumption ==
  /\ Bad # Absent /\ MaxOptions \in Nat /\ MaxRam \in Nat /\ MaxRam < SizeModulus
  /\ SizeModulus \in Nat
  /\ \A o \in Options : o.name = "--ram" /\ o.value # Absent =>
       Unit(o.value) \in (Nat \ {0}) \cup {Bad} /\ Amount(o.value) \in Nat \cup {Bad}

Inputs == {"--program", "--elf", "--bin"}
Switches == {"--help", "--run"}
Valued == Inputs \cup {"--ram", "--max-steps", "--load-address", "--entry"}

VARIABLES argv,
          i,      \* how many arguments have been handled
          chosen, \* path, format, load_address and so on; -1 and "none" if not set
          setup, status,
          held    \* what has been acquired and not released

setupVars == <<argv, i, chosen, setup, status, held>>

SetupInit ==
  /\ argv \in UNION {[1 .. n -> Options] : n \in 0 .. MaxOptions}
  /\ \A k \in DOMAIN argv : argv[k].value = Absent => k = Len(argv) \/ argv[k].name \notin Valued
  /\ i = 0 /\ setup = "options" /\ status = 0 /\ held = {}
  /\ chosen = [input |-> "none", ram |-> DefaultRam, limit |-> DefaultLimit, run |-> FALSE,
               load_address |-> 0, entry |-> 0, address_set |-> FALSE, entry_set |-> FALSE]

Exit(code) == setup' = "exited" /\ status' = code
Refuse == Exit(2) /\ UNCHANGED chosen

\* parse_ram_size
RamSize(v) ==
  IF Unit(v) = Bad \/ Amount(v) = Bad \/ Amount(v) > MaxRam \div Unit(v) THEN Bad
  ELSE LET size == (Amount(v) * Unit(v)) % SizeModulus
       IN IF size >= 4 /\ size <= MaxRam /\ size % 4 = 0 THEN size ELSE Bad

Refused(option) ==
  \/ option.name \notin Switches \cup Valued
  \/ option.name \in Valued /\ option.value = Absent
  \/ option.name \in Inputs /\ chosen.input # "none"
  \/ option.name = "--ram" /\ RamSize(option.value) = Bad
  \/ option.name \in {"--max-steps", "--load-address", "--entry"} /\ option.value = Bad
  \/ option.name = "--max-steps" /\ option.value = 0

\* --trace and the colors only set a flag of the output and are left out.
Take(option) ==
  CASE option.name \in Inputs -> [chosen EXCEPT !.input = option.name]
    [] option.name = "--run" -> [chosen EXCEPT !.run = TRUE]
    [] option.name = "--ram" -> [chosen EXCEPT !.ram = RamSize(option.value)]
    [] option.name = "--max-steps" -> [chosen EXCEPT !.limit = option.value]
    [] option.name = "--load-address" ->
         [chosen EXCEPT !.load_address = option.value, !.address_set = TRUE]
    [] option.name = "--entry" -> [chosen EXCEPT !.entry = option.value, !.entry_set = TRUE]

Argument ==
  LET option == argv[i + 1]
  IN /\ setup = "options" /\ i < Len(argv) /\ i' = i + 1
     /\ \/ option.name = "--help" /\ Exit(0) /\ UNCHANGED chosen
        \/ option.name # "--help" /\ Refused(option) /\ Refuse
        \/ /\ option.name # "--help" /\ ~Refused(option)
           /\ chosen' = Take(option) /\ UNCHANGED <<setup, status>>
     /\ UNCHANGED <<argv, held>>

\* The addresses that the format wants, or does not want.
Incomplete ==
  \/ chosen.input = "none"
  \/ chosen.input = "--bin" /\ ~(chosen.address_set /\ chosen.entry_set)
  \/ chosen.input = "--elf" /\ (chosen.address_set \/ chosen.entry_set)

EntryGiven == chosen.entry_set

EndOfArguments ==
  /\ setup = "options" /\ i = Len(argv)
  /\ IF Incomplete THEN Refuse
     ELSE /\ chosen' = IF EntryGiven THEN chosen
                       ELSE [chosen EXCEPT !.entry = chosen.load_address]
          /\ setup' = "open" /\ UNCHANGED status
  /\ UNCHANGED <<argv, i, held>>
-----------------------------------------------------------------------------
Acquire(things) == held' = held \cup things
Release(things) == held' = held \ things

\* A step that may fail: it releases what is held and exits with 2, or goes on.
OpenProgram ==
  /\ setup = "open" /\ UNCHANGED <<argv, i, chosen>>
  /\ \/ Exit(2) /\ UNCHANGED held
     \/ setup' = "read" /\ Acquire({"file"}) /\ UNCHANGED status

\* A loader that fails leaves the program empty.
ReadImage ==
  /\ setup = "read" /\ UNCHANGED <<argv, i, chosen, status>>
  /\ setup' = "close"
  /\ Acquire({"program"}) \/ UNCHANGED held

\* fclose closes the file even if it fails.
CloseProgram ==
  /\ setup = "close" /\ UNCHANGED <<argv, i, chosen>>
  /\ \/ Exit(2) /\ Release({"file", "program"})
     \/ "program" \in held /\ setup' = "debug" /\ Release({"file"}) /\ UNCHANGED status

\* The program is kept when its debug information cannot be read.
ReadDebugKeeps ==
  /\ setup = "debug" /\ UNCHANGED <<argv, i, chosen>>
  /\ \/ Exit(2) /\ UNCHANGED held
     \/ setup' = "machine" /\ Acquire({"debug"}) /\ UNCHANGED status
ReadDebug ==
  /\ setup = "debug" /\ UNCHANGED <<argv, i, chosen>>
  /\ \/ Exit(2) /\ Release({"program"})
     \/ setup' = "machine" /\ Acquire({"debug"}) /\ UNCHANGED status

\* The program is destroyed whether the machine took a copy or not.
LoadMachine ==
  /\ setup = "machine" /\ UNCHANGED <<argv, i, chosen>>
  /\ \/ Exit(2) /\ held' = held \ {"program", "debug"}
     \/ setup' = "install" /\ held' = (held \ {"program"}) \cup {"machine"} /\ UNCHANGED status

Install ==
  /\ setup = "install" /\ UNCHANGED <<argv, i, chosen>>
  /\ \/ Exit(2) /\ Release({"machine", "debug"})
     \/ setup' = "run" /\ Acquire({"handler"}) /\ UNCHANGED status

\* What the run answers is told by Monitor: any status of a batch run, 0 or 2 of a session.
RunMachine ==
  /\ setup = "run" /\ UNCHANGED <<argv, i, chosen>>
  /\ status' \in (IF chosen.run THEN {0, 1, 2, 124, 130, 255} ELSE {0, 2})
  /\ setup' = "ran" /\ Release({"handler", "machine", "debug"})

SetupDone == setup \in {"exited", "ran"} /\ UNCHANGED setupVars

SetupNext == Argument \/ EndOfArguments \/ OpenProgram \/ ReadImage \/ CloseProgram \/ ReadDebug
             \/ LoadMachine \/ Install \/ RunMachine \/ SetupDone
SetupSpec == SetupInit /\ [][SetupNext]_setupVars
-----------------------------------------------------------------------------
Given(name) == {k \in DOMAIN argv : argv[k].name = name}
LastValue(name, default) ==
  IF Given(name) = {} THEN default
  ELSE argv[CHOOSE k \in Given(name) : \A j \in Given(name) : j <= k].value

\* What is run is what the whole command line says, in whatever order: the last value
\* of each option, the load address for an entry that is not given (usage), and
\* exactly one input, raw bytes with both addresses and ELF with neither.
ChosenAsGiven ==
  setup \notin {"options", "exited"} =>
    /\ chosen.load_address = LastValue("--load-address", 0)
    /\ chosen.entry = LastValue("--entry", LastValue("--load-address", 0))
    /\ chosen.limit = LastValue("--max-steps", DefaultLimit)
    /\ \E name \in Inputs : chosen.input = name /\ \E k \in DOMAIN argv :
         Given(name) = {k} /\ \A other \in Inputs \ {name} : Given(other) = {}
    /\ chosen.input = "--bin" => Given("--load-address") # {} /\ Given("--entry") # {}
    /\ chosen.input = "--elf" => Given("--load-address") = {} /\ Given("--entry") = {}

\* A RAM size is the product that was asked for, never one that has wrapped or lost
\* its unit.
RamAsGiven ==
  setup \notin {"options", "exited"} =>
    IF Given("--ram") = {} THEN chosen.ram = DefaultRam
    ELSE LET v == LastValue("--ram", Bad)
         IN chosen.ram = Amount(v) * Unit(v) /\ chosen.ram <= MaxRam

\* Whatever step fails, nothing is left behind: no file, program, debug information or
\* machine, and no handler.
NothingHeldAtEnd == setup \in {"exited", "ran"} => held = {}

\* Without a run the status is 2 ("input error=2"), but for --help, which nothing wrong
\* precedes.
StatusOfSetup ==
  setup = "exited" => status = 2 \/ (status = 0 /\ i \in Given("--help") /\ held = {})

\* The four together, of every way through monitor_main.
SetupSound == ChosenAsGiven /\ RamAsGiven /\ NothingHeldAtEnd /\ StatusOfSetup
=============================================================================
