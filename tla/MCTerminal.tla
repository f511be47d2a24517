----------------------------- MODULE MCTerminal -----------------------------
(* What the user meets: a command line of up to MaxOptions options; or an     *)
(* input of up to MaxLength characters with newlines and at most one NUL      *)
(* anywhere, read through a buffer of three characters; or a source file of   *)
(* up to Longest bytes, one beyond the limit of what is read, whose lines of  *)
(* two bytes are already truncated.  A RAM size is a record of its amount and *)
(* unit; one product wraps to a valid size in twelve bits.                    *)
EXTENDS CommandInput, Startup, SourceView

CONSTANTS MaxLength, Longest

VARIABLE active  \* which of them

terminalVars == <<commandVars, setupVars, viewVars, active>>

\* The others are as after a session that was left at once, --help, and where without
\* a location.
CommandIdle ==
  /\ input = [length |-> 0, newlines |-> {}, nuls |-> {}] /\ at = 0 /\ first = 1
  /\ stdin = [eof |-> TRUE, error |-> FALSE] /\ flag = FALSE
  /\ reading = "exited" /\ exit_status = 0
  /\ told = [commands |-> {}, cuts |-> {}, pressed |-> FALSE, failed |-> FALSE, drained |-> FALSE]
SetupIdle ==
  /\ argv = <<[name |-> "--help", value |-> "text"]>> /\ i = 1
  /\ setup = "exited" /\ status = 0 /\ held = {}
  /\ chosen = [input |-> "none", ram |-> DefaultRam, limit |-> DefaultLimit, run |-> FALSE,
               load_address |-> 0, entry |-> 0, address_set |-> FALSE, entry_set |-> FALSE]
ViewIdle ==
  /\ request = [command |-> "where", line |-> 0, index |-> 0] /\ location = NoLocation
  /\ file = Missing /\ window = [first |-> 1, last |-> 1]
  /\ bytes = 0 /\ line = 1 /\ text = NoText
  /\ viewing = "closed" /\ shown = << >> /\ message = {"nowhere"}

Init ==
  \/ active = "command" /\ CommandInit /\ SetupIdle /\ ViewIdle
  \/ active = "setup" /\ CommandIdle /\ SetupInit /\ ViewIdle
  \/ active = "view" /\ CommandIdle /\ SetupIdle /\ ViewInit

TypeCommands == active = "command" /\ CommandNext /\ UNCHANGED <<setupVars, viewVars, active>>
StartMonitor == active = "setup" /\ SetupNext /\ UNCHANGED <<commandVars, viewVars, active>>
ShowSource == active = "view" /\ ViewNext /\ UNCHANGED <<commandVars, setupVars, active>>

Next == TypeCommands \/ StartMonitor \/ ShowSource
\* The input comes to its end, and its characters are read when they are there.
Spec == Init /\ [][Next]_terminalVars /\ WF_terminalVars(TypeCommands /\ ReadCommand)
-----------------------------------------------------------------------------
MCTyped ==
  UNION {{t \in [length : {n}, newlines : SUBSET (1 .. n), nuls : SUBSET (1 .. n)] :
            Cardinality(t.nuls) <= 1 /\ t.newlines \cap t.nuls = {}} : n \in 0 .. MaxLength}

MCUnit(v) == IF v \in {Bad, Absent} THEN Bad ELSE v.unit
MCAmount(v) == IF v \in {Bad, Absent} THEN Bad ELSE v.amount
MCRamSizes == {[amount |-> 3, unit |-> 4], [amount |-> 6, unit |-> 1],
               [amount |-> 129, unit |-> 32], [amount |-> 8, unit |-> 32]}
MCOptions ==
  [name : {"--help", "--run", "--program", "--elf", "--bin", "--wat"}, value : {"text"}]
  \cup [name : {"--ram"}, value : MCRamSizes \cup {Bad}]
  \cup [name : {"--max-steps"}, value : {0, 7, Bad}]
  \cup [name : {"--load-address"}, value : {0, 8, Bad}]
  \cup [name : {"--entry"}, value : {0, 4, Bad}]
  \cup [name : {"--bin", "--ram", "--entry"}, value : {Absent}]

MCFiles == UNION {[length : {n}, newlines : SUBSET (1 .. n)] : n \in 0 .. Longest}
MCLineNumbers == {0, 1, 3, 6, 7, MaxUnsigned - 3, MaxUnsigned}
=============================================================================
