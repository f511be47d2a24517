---------------------------- MODULE CommandInput ----------------------------
(***************************************************************************)
(* How the prompt reads its commands (interactive, src/monitor.c): fgets   *)
(* into a buffer, the rest of an overlong line drained, a Ctrl-C in the    *)
(* middle of either.  The standard input is given in full; a character is  *)
(* its position, from one.  Of stdio and signal(): a read that a signal    *)
(* interrupts fails and sets the error indicator; the handler serves one   *)
(* signal (Monitor tells of the second).                                   *)
(***************************************************************************)
EXTENDS Integers

CONSTANTS Typed,    \* [length, newlines, nuls]
          LineSize   \* 512 in the code

ASSUME CommandInputAssumption ==
  /\ LineSize \in Nat /\ LineSize > 1
  /\ \A t \in Typed : t.length \in Nat /\ t.newlines \cap t.nuls = {}
                       /\ t.newlines \cup t.nuls \subseteq 1 .. t.length

VARIABLES input,
          at,      \* how many characters have been read
          first,   \* where the present line begins
          stdin,   \* its end-of-file and error indicators
          flag,    \* interrupted
          reading, exit_status,
          told     \* history: the commands dispatched, where a line was cut, and why

commandVars == <<input, at, first, stdin, flag, reading, exit_status, told>>

CommandInit ==
  /\ input \in Typed /\ at = 0 /\ first = 1
  /\ stdin = [eof |-> FALSE, error |-> FALSE]
  /\ flag = FALSE /\ reading = "prompt" /\ exit_status = 0
  /\ told = [commands |-> {}, cuts |-> {}, pressed |-> FALSE, failed |-> FALSE, drained |-> FALSE]

Prompt ==
  /\ reading = "prompt" /\ reading' = "fgets"
  /\ flag' = FALSE /\ first' = at + 1
  /\ UNCHANGED <<input, at, stdin, exit_status, told>>

\* fgets stops after a newline and when the buffer is full.
ReadCharacter ==
  /\ reading = "fgets" /\ at < input.length /\ at' = at + 1
  /\ reading' = IF at' \in input.newlines \/ at' - first + 1 = LineSize - 1 THEN "line" ELSE "fgets"
  /\ UNCHANGED <<input, first, stdin, flag, exit_status, told>>

\* The last line needs no newline.
ReadEnd ==
  /\ reading = "fgets" /\ at = input.length
  /\ stdin' = [stdin EXCEPT !.eof = TRUE]
  /\ reading' = IF at >= first THEN "line" ELSE "null"
  /\ UNCHANGED <<input, at, first, flag, exit_status, told>>

\* What was read of the line is lost.
CutHere == IF at >= first THEN told.cuts \cup {at} ELSE told.cuts

ReadFails ==
  /\ reading = "fgets" /\ reading' = "null"
  /\ stdin' = [stdin EXCEPT !.error = TRUE]
  /\ told' = [told EXCEPT !.cuts = CutHere, !.failed = TRUE]
  /\ UNCHANGED <<input, at, first, flag, exit_status>>

\* fgets returned NULL: Ctrl-C asks for a new prompt, anything else ends the monitor.
NoLine ==
  /\ reading = "null"
  /\ IF flag
       THEN reading' = "prompt" /\ stdin' = [eof |-> FALSE, error |-> FALSE] /\ UNCHANGED exit_status
       ELSE reading' = "exited" /\ exit_status' = (IF stdin.error THEN 2 ELSE 0) /\ UNCHANGED stdin
  /\ UNCHANGED <<input, at, first, flag, told>>

\* strchr sees the line up to a NUL.
Terminated == at \in input.newlines /\ first .. at \cap input.nuls = {}

\* Whatever fits the buffer is taken for a command.
TakenAlways == TRUE
Taken == Terminated \/ stdin.eof

TakeLine ==
  /\ reading = "line" /\ Taken
  /\ told' = [told EXCEPT !.commands = @ \cup {<<first, at>>}]
  /\ reading' \in {"prompt", "exited"}   \* quit
  /\ UNCHANGED <<input, at, first, stdin, flag, exit_status>>

Overlong ==
  /\ reading = "line" /\ ~Taken /\ reading' = "drain"
  /\ UNCHANGED <<input, at, first, stdin, flag, exit_status, told>>

\* getchar up to the newline.
DrainCharacter ==
  /\ reading = "drain" /\ at < input.length /\ at' = at + 1
  /\ reading' = IF at' \in input.newlines THEN "prompt" ELSE "drain"
  /\ UNCHANGED <<input, first, stdin, flag, exit_status, told>>

\* The loop only looks for the newline.
DrainEndIgnored ==
  /\ reading = "drain" /\ at = input.length
  /\ stdin' = [stdin EXCEPT !.eof = TRUE]
  /\ UNCHANGED <<input, at, first, flag, reading, exit_status, told>>
DrainEnd ==
  /\ reading = "drain" /\ at = input.length
  /\ stdin' = [stdin EXCEPT !.eof = TRUE] /\ reading' = "prompt"
  /\ UNCHANGED <<input, at, first, flag, exit_status, told>>

\* A failed getchar ends the loop too, and its indicator stays.
DrainStops ==
  /\ reading = "drain" /\ reading' = "prompt"
  /\ stdin' = [stdin EXCEPT !.error = TRUE]

DrainFails ==
  /\ DrainStops
  /\ told' = [told EXCEPT !.cuts = CutHere, !.failed = TRUE]
  /\ UNCHANGED <<input, at, first, flag, exit_status>>

\* Ctrl-C: a read that waits is interrupted.
Signal ==
  /\ reading \notin {"exited"} /\ ~told.pressed /\ flag' = TRUE
  /\ UNCHANGED <<input, at, first, exit_status>>
  /\ \/ told' = [told EXCEPT !.pressed = TRUE] /\ UNCHANGED <<stdin, reading>>
     \/ /\ reading = "fgets" /\ reading' = "null"
        /\ stdin' = [stdin EXCEPT !.error = TRUE]
        /\ told' = [told EXCEPT !.pressed = TRUE, !.cuts = CutHere]
     \/ /\ DrainStops
        /\ told' = [told EXCEPT !.pressed = TRUE, !.cuts = CutHere, !.drained = TRUE]

CommandDone == reading = "exited" /\ UNCHANGED commandVars

ReadCommand == Prompt \/ ReadCharacter \/ ReadEnd \/ NoLine \/ TakeLine \/ Overlong
           \/ DrainCharacter \/ DrainEnd
CommandNext == ReadCommand \/ ReadFails \/ DrainFails \/ Signal \/ CommandDone
CommandSpec == CommandInit /\ [][CommandNext]_commandVars
-----------------------------------------------------------------------------
\* The lines of the input, the last one without a newline perhaps.
Begins(p) == p = 1 \/ p - 1 \in input.newlines
Ends(p) == p \in input.newlines \/ p = input.length
Lines == {l \in (1 .. input.length) \X (1 .. input.length) :
            /\ l[1] <= l[2] /\ Begins(l[1]) /\ Ends(l[2])
            /\ l[1] .. l[2] - 1 \cap input.newlines = {}}

\* What is executed is a line of the input: never the middle or the tail of one that
\* is too long ("Command too long"), except where a Ctrl-C or an error cut a line.
CommandsAreLines ==
  \A c \in told.commands :
    /\ Begins(c[1]) \/ c[1] - 1 \in told.cuts
    /\ Ends(c[2]) /\ c[1] .. c[2] - 1 \cap input.newlines = {}

\* No line is passed over that the buffer holds, but for one that was cut, or that has
\* a NUL, or follows a line with one (the rest of which is not distinguished from it).
NoLineSkipped ==
  reading = "prompt" =>
    \A l \in Lines :
      \/ l[2] > at \/ l \in told.commands
      \/ l[1] .. l[2] \cap (told.cuts \cup input.nuls) # {}
      \/ l[2] - l[1] + (IF l[2] \in input.newlines THEN 1 ELSE 2) >= LineSize
      \/ \E m \in Lines : m[2] = l[1] - 1 /\ m[1] .. m[2] \cap input.nuls # {}

\* Ctrl-C at the prompt is no end of the session, and status 2 means that a read has
\* failed; one interrupted while an overlong line is drained counts as failed.
StatusTellsReading ==
  reading = "exited" /\ exit_status = 2 => told.failed \/ told.drained

\* The three together, of the loop of interactive().
InputIsObeyed == CommandsAreLines /\ NoLineSkipped /\ StatusTellsReading

\* The monitor leaves when its input ends, in whatever state the line is.
LeavesAtEnd == <>(reading = "exited")
=============================================================================
