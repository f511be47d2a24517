----------------------------- MODULE GuestBuild -----------------------------
(***************************************************************************)
(* tools/build_guest.py: a guest program is built in a temporary directory *)
(* beside its output, and the five artifacts are moved over the previous   *)
(* ones at the end.  An artifact is the number of the command it was built *)
(* by.  What the toolchain makes of the sources is not modelled: each of   *)
(* its programs succeeds or fails.                                         *)
(***************************************************************************)
EXTENDS Integers, Sequences

CONSTANT MaxCommands  \* bound: how many commands build this output

ASSUME GuestBuildAssumption == MaxCommands \in Nat

VARIABLES command,  \* its number, the step it is at, its status
          work,     \* the files in the temporary directory
          outputs,  \* the command that each artifact comes from, 0: none
          previous,   \* history: outputs when the command began
          moved     \* how many artifacts the command has moved

buildVars == <<command, work, outputs, previous, moved>>

Destinations == <<".elf", ".bin", ".asm", ".map", ".ld">>
Suffixes == {Destinations[i] : i \in 1 .. Len(Destinations)}
At(s) == command.step = s
Goto(s) == command' = [command EXCEPT !.step = s]
End(status) == command' = [command EXCEPT !.step = "idle", !.status = status]

BuildInit ==
  /\ command = [number |-> 0, step |-> "idle", status |-> "none"]
  /\ work = {} /\ moved = 0
  /\ outputs = [s \in Suffixes |-> 0] /\ previous = outputs

BeginBuild ==
  /\ At("idle") /\ command.number < MaxCommands
  /\ command' = [number |-> command.number + 1, step |-> "check", status |-> "none"]
  /\ previous' = outputs /\ moved' = 0
  /\ UNCHANGED <<work, outputs>>

\* Arguments, tools, libgcc; the parent of the output is made.
RefuseBuild == At("check") /\ End("failed") /\ UNCHANGED <<work, outputs, previous, moved>>
MakeDirectory ==
  /\ At("check") /\ Goto("script")
  /\ UNCHANGED <<work, outputs, previous, moved>>

\* An exception leaves the with block, which removes the directory.
FailBuild ==
  /\ command.step \notin {"idle", "check"} /\ End("failed")
  /\ work' = {} /\ UNCHANGED <<outputs, previous, moved>>

Produce(step, files, then) ==
  /\ At(step) /\ Goto(then)
  /\ work' = work \cup files
  /\ UNCHANGED <<outputs, previous, moved>>

WriteScript == Produce("script", {".ld"}, "link")
\* The compiler writes to the destinations.
LinkInPlace ==
  /\ At("link") /\ Goto("header")
  /\ work' = work \cup {".elf", ".map"}
  /\ outputs' = [outputs EXCEPT ![".elf"] = command.number, ![".map"] = command.number]
  /\ UNCHANGED <<previous, moved>>
Link == Produce("link", {".elf", ".map"}, "header")
CheckHeader == Produce("header", {}, "objcopy")
Objcopy == Produce("objcopy", {".bin"}, "objdump")
Objdump == Produce("objdump", {".asm"}, "move")

\* os.replace is atomic, and refused if the file is not there.
Move ==
  LET suffix == Destinations[moved + 1]
  IN /\ At("move") /\ moved < Len(Destinations) /\ suffix \in work
     /\ outputs' = [outputs EXCEPT ![suffix] = command.number]
     /\ work' = work \ {suffix}
     /\ moved' = moved + 1 /\ UNCHANGED <<command, previous>>

Finish ==
  /\ At("move") /\ moved = Len(Destinations) /\ End("ok")
  /\ work' = {} /\ UNCHANGED <<outputs, previous, moved>>

\* The process may be killed anywhere; what it leaves behind in its directory is not used
\* again, for the next command makes another one.
Killed ==
  /\ ~At("idle") /\ End("killed")
  /\ work' = {} /\ UNCHANGED <<outputs, previous, moved>>

BuildDone == At("idle") /\ command.number = MaxCommands /\ UNCHANGED buildVars

BuildNext == \/ BeginBuild \/ RefuseBuild \/ MakeDirectory \/ FailBuild \/ WriteScript \/ Link \/ CheckHeader
             \/ Objcopy \/ Objdump \/ Move \/ Finish \/ Killed \/ BuildDone
BuildSpec == BuildInit /\ [][BuildNext]_buildVars
-----------------------------------------------------------------------------
\* A command that succeeds has replaced all five artifacts: the loop of build() never
\* ends early without an exception.
SuccessReplacesAll == command.status = "ok" => \A s \in Suffixes : outputs[s] = command.number

\* Until the first artifact is moved the previous ones are intact, however the command
\* ends: nothing that can fail before that writes to the destinations.
CompilationKeepsOutputs == moved = 0 => outputs = previous

\* After any sequence of successes, failures and kills no artifact is older than one that
\* is moved after it: when the linker script is new, all of them are.
NewestFirst ==
  \A i, j \in 1 .. Len(Destinations) : i < j => outputs[Destinations[i]] >= outputs[Destinations[j]]

\* The three together: through any sequence of successes, failures and kills the artifacts
\* beside an output are all replaced, all kept, or told apart by their order (build).
ArtifactsAccounted == SuccessReplacesAll /\ CompilationKeepsOutputs /\ NewestFirst
=============================================================================
