--------------------------- MODULE TerminalProofs ---------------------------
(***************************************************************************)
(* What the user meets, for every input, command line and source file:     *)
(* that the prompt executes the lines that were typed, that the machine is *)
(* set up as the command line says and nothing is left behind, and that    *)
(* source and where show the lines of the file.                            *)
(***************************************************************************)
EXTENDS CommandInput, Startup, SourceView, FiniteSetTheorems, TLAPS

(* interactive: how far the input has been read, and what has become of its lines. *)

CommandTypes ==
  /\ input \in Typed /\ at \in 0 .. input.length /\ first \in 1 .. at + 1
  /\ stdin \in [eof : BOOLEAN, error : BOOLEAN] /\ flag \in BOOLEAN
  /\ told \in [commands : SUBSET (Nat \X Nat), cuts : SUBSET Nat,
               pressed : BOOLEAN, failed : BOOLEAN, drained : BOOLEAN]

\* No newline between two positions.
Unbroken(p, q) == p .. q \cap input.newlines = {}
\* Behind this position a line begins, or what is left of one that was cut, or nothing.
Behind(p) == Begins(p + 1) \/ p \in told.cuts \/ p = input.length
\* The line that this position ends or is in begins somewhere.
Opened(p) == \E b \in 1 .. p + 1 : Begins(b) /\ Unbroken(b, p)

\* Why a line is drained: it has filled the buffer, or its newline is behind a NUL.
Full == Unbroken(first, at) /\ at - first + 1 >= LineSize - 1
Hidden == \E q \in first .. at : /\ q \in input.newlines /\ first .. q \cap input.nuls # {}
                                 /\ Unbroken(first, q - 1) /\ Unbroken(q + 1, at)

\* What the buffer holds at each step.
BufferAt ==
  /\ Opened(at) /\ Opened(first - 1) /\ Behind(first - 1)
  /\ reading = "prompt" => Behind(at)
  /\ reading \in {"fgets", "null"} => Unbroken(first, at)
  /\ reading = "null" /\ first <= at => at \in told.cuts
  /\ reading = "line" => /\ first <= at /\ Unbroken(first, at - 1)
                         /\ at \in input.newlines \/ stdin.eof \/ at - first + 1 = LineSize - 1
  /\ reading = "drain" => first <= at /\ (Full \/ Hidden)
  /\ stdin.eof => at = input.length

\* A line that is behind is accounted for.
Accounted(l) ==
  \/ l \in told.commands
  \/ l[1] .. l[2] \cap (told.cuts \cup input.nuls) # {}
  \/ l[2] - l[1] + (IF l[2] \in input.newlines THEN 1 ELSE 2) >= LineSize
  \/ \E m \in Lines : m[2] = l[1] - 1 /\ m[1] .. m[2] \cap input.nuls # {}
LinesBehind ==
  \A l \in Lines : l[2] <= (IF reading = "prompt" THEN at ELSE first - 1) => Accounted(l)

\* An error indicator has a reason that the status tells, or is about to be cleared.
ErrorKnown ==
  /\ stdin.error => told.failed \/ told.drained \/ (reading = "null" /\ flag)
  /\ exit_status = 2 => told.failed \/ told.drained

CommandInv == CommandTypes /\ BufferAt /\ CommandsAreLines
              /\ (reading # "exited" => LinesBehind) /\ ErrorKnown

LEMMA InputFacts ==
  ASSUME CommandTypes
  PROVE  /\ input.length \in Nat /\ input.newlines \subseteq 1 .. input.length
         /\ input.nuls \subseteq 1 .. input.length
         /\ at \in Nat /\ at <= input.length /\ first \in Nat /\ 1 <= first /\ first <= at + 1
         /\ LineSize \in Nat /\ LineSize > 1
<1>1. /\ input.length \in Nat /\ input.newlines \cup input.nuls \subseteq 1 .. input.length
  BY CommandInputAssumption DEF CommandTypes
<1>2. at \in 0 .. input.length /\ first \in 1 .. at + 1  BY DEF CommandTypes
<1> QED  BY <1>1, <1>2, CommandInputAssumption

LEMMA CommandStarts == CommandInit => CommandInv
<1> SUFFICES ASSUME CommandInit PROVE CommandInv
  OBVIOUS
<1>1. CommandTypes
  <2>1. input \in Typed /\ at = 0 /\ first = 1  BY DEF CommandInit
  <2>2. input.length \in Nat  BY <2>1, CommandInputAssumption
  <2>3. at \in 0 .. input.length /\ first \in 1 .. at + 1  BY <2>1, <2>2
  <2>4. stdin \in [eof : BOOLEAN, error : BOOLEAN] /\ flag \in BOOLEAN  BY DEF CommandInit
  <2>5. told \in [commands : SUBSET (Nat \X Nat), cuts : SUBSET Nat,
                  pressed : BOOLEAN, failed : BOOLEAN, drained : BOOLEAN]
    BY DEF CommandInit
  <2> QED  BY <2>1, <2>3, <2>4, <2>5 DEF CommandTypes
<1>2. at = 0 /\ first = 1 /\ reading = "prompt" /\ stdin.eof = FALSE /\ stdin.error = FALSE
      /\ told.commands = {} /\ exit_status = 0
  BY DEF CommandInit
<1>3. Begins(1)  BY DEF Begins
<1>4. BufferAt
  <2>1. Opened(0)
    <3>1. 1 \in 1 .. 0 + 1 /\ Unbroken(1, 0)  BY DEF Unbroken
    <3> QED  BY <1>3, <3>1 DEF Opened
  <2>2. Behind(0)  BY <1>3 DEF Behind
  <2> QED  BY <1>2, <2>1, <2>2 DEF BufferAt
<1>5. LinesBehind
  BY <1>2 DEF LinesBehind, Lines
<1> QED  BY <1>1, <1>2, <1>4, <1>5 DEF CommandInv, CommandsAreLines, ErrorKnown

LEMMA AccountedStays ==
  ASSUME input' = input, told.commands \subseteq told'.commands, told.cuts \subseteq told'.cuts
  PROVE  Lines' = Lines /\ \A l \in Lines : Accounted(l) => Accounted(l)'
<1>1. Lines' = Lines  BY DEF Lines, Begins, Ends
<1> QED  BY <1>1 DEF Accounted

\* What has been dispatched stays a line, or what is left of one.
LEMMA CommandsStay ==
  ASSUME CommandsAreLines, input' = input, told'.commands = told.commands,
         told.cuts \subseteq told'.cuts
  PROVE  CommandsAreLines'
BY DEF CommandsAreLines, Begins, Ends

LEMMA OpenedNext ==
  ASSUME CommandTypes, NEW p \in Nat, Opened(p)
  PROVE  Opened(p + 1)
<1>0. input.newlines \subseteq Int  BY InputFacts
<1>1. CASE p + 1 \in input.newlines
  <2>1. p + 2 \in 1 .. (p + 1) + 1 /\ Begins(p + 2)
    <3>1. (p + 2) - 1 = p + 1  OBVIOUS
    <3> QED  BY <1>1, <3>1 DEF Begins
  <2>2. Unbroken(p + 2, p + 1)  BY DEF Unbroken
  <2> QED  BY <2>1, <2>2 DEF Opened
<1>2. CASE p + 1 \notin input.newlines
  <2>1. PICK b \in 1 .. p + 1 : Begins(b) /\ Unbroken(b, p)  BY DEF Opened
  <2>2. b \in 1 .. (p + 1) + 1  BY <2>1
  <2>3. Unbroken(b, p + 1)  BY <1>2, <2>1, <1>0 DEF Unbroken
  <2> QED  BY <2>1, <2>2, <2>3 DEF Opened
<1> QED  BY <1>1, <1>2

\* A step that only looks leaves the facts about positions as they are.
LEMMA PositionsStay ==
  ASSUME input' = input
  PROVE  /\ \A p, q : Unbroken(p, q)' <=> Unbroken(p, q)
         /\ \A p : Opened(p)' <=> Opened(p)
         /\ \A p : Begins(p)' <=> Begins(p)
         /\ \A p : told.cuts \subseteq told'.cuts => (Behind(p) => Behind(p)')
BY DEF Unbroken, Opened, Begins, Behind

LEMMA PromptKeeps == CommandInv /\ Prompt => CommandInv'
<1> SUFFICES ASSUME CommandInv, Prompt PROVE CommandInv'
  OBVIOUS
<1>1. /\ reading = "prompt" /\ reading' = "fgets" /\ flag' = FALSE /\ first' = at + 1
      /\ UNCHANGED <<input, at, stdin, exit_status, told>>
  BY DEF Prompt
<1>2. at \in Nat /\ (at + 1) - 1 = at  BY InputFacts DEF CommandInv
<1>3. CommandTypes'
  <2>1. at' \in 0 .. input'.length /\ first' \in 1 .. at' + 1
    BY <1>1, <1>2 DEF CommandInv, CommandTypes
  <2>2. flag' \in BOOLEAN  BY <1>1
  <2> QED  BY <1>1, <2>1, <2>2 DEF CommandInv, CommandTypes
<1>4. BufferAt'
  <2>1. Opened(at) /\ Behind(at) /\ (stdin.eof => at = input.length)
    BY <1>1 DEF CommandInv, BufferAt
  <2>2. Opened(at)' /\ Behind(at)'
    BY <1>1, <2>1 DEF Opened, Behind, Begins, Unbroken
  <2>3. (first' - 1) = at' /\ at' = at  BY <1>1, <1>2
  <2>4. Opened(first - 1)' /\ Behind(first - 1)' /\ Opened(at)'
    BY <2>2, <2>3
  <2>5. Unbroken(first, at)'  BY <1>1, <1>2 DEF Unbroken
  <2> QED  BY <1>1, <2>1, <2>4, <2>5 DEF BufferAt
<1>5. CommandsAreLines'
  BY <1>1, CommandsStay DEF CommandInv
<1>6. LinesBehind'
  BY <1>1, <1>2, AccountedStays DEF CommandInv, LinesBehind
<1>7. ErrorKnown'
  BY <1>1 DEF CommandInv, ErrorKnown
<1> QED  BY <1>3, <1>4, <1>5, <1>6, <1>7 DEF CommandInv

LEMMA ReadCharacterKeeps == CommandInv /\ ReadCharacter => CommandInv'
<1> SUFFICES ASSUME CommandInv, ReadCharacter PROVE CommandInv'
  OBVIOUS
<1>1. /\ reading = "fgets" /\ at < input.length /\ at' = at + 1
      /\ UNCHANGED <<input, first, stdin, flag, exit_status, told>>
      /\ reading' = IF at' \in input.newlines \/ at' - first + 1 = LineSize - 1 THEN "line" ELSE "fgets"
  BY DEF ReadCharacter
<1>2. /\ at \in Nat /\ first \in Nat /\ first <= at + 1 /\ 1 <= first
      /\ input.newlines \subseteq Int /\ input.length \in Nat
  BY InputFacts DEF CommandInv
<1>3. CommandTypes'
  <2>1. at' \in 0 .. input'.length /\ first' \in 1 .. at' + 1  BY <1>1, <1>2
  <2> QED  BY <1>1, <2>1 DEF CommandInv, CommandTypes
<1>4. BufferAt'
  <2>1. Opened(at) /\ Opened(first - 1) /\ Behind(first - 1) /\ Unbroken(first, at) /\ ~stdin.eof
    BY <1>1, <1>2 DEF CommandInv, BufferAt
  <2>2. Opened(at + 1)  BY <1>2, <2>1, OpenedNext DEF CommandInv
  <2>3. Opened(at)' /\ Opened(first - 1)' /\ Behind(first - 1)'
    BY <1>1, <2>1, <2>2, PositionsStay
  <2>4. CASE reading' = "line"
    <3>1. at' - 1 = at  BY <1>1, <1>2
    <3>2. Unbroken(first, at - 1)'  BY <1>1, <2>1, <3>1 DEF Unbroken
    <3>3. first' <= at'  BY <1>1, <1>2
    <3>4. at' \in input'.newlines \/ at' - first' + 1 = LineSize - 1  BY <1>1, <2>4
    <3> QED  BY <1>1, <2>1, <2>3, <2>4, <3>2, <3>3, <3>4 DEF BufferAt
  <2>5. CASE reading' = "fgets"
    <3>1. at + 1 \notin input.newlines  BY <1>1, <2>5
    <3>2. Unbroken(first, at)'  BY <1>1, <1>2, <2>1, <3>1 DEF Unbroken
    <3> QED  BY <1>1, <2>1, <2>3, <2>5, <3>2 DEF BufferAt
  <2> QED  BY <1>1, <2>4, <2>5
<1>5. CommandsAreLines'
  BY <1>1, CommandsStay DEF CommandInv
<1>6. LinesBehind'
  BY <1>1, AccountedStays DEF CommandInv, LinesBehind
<1> QED  BY <1>1, <1>3, <1>4, <1>5, <1>6 DEF CommandInv, ErrorKnown

LEMMA ReadEndKeeps == CommandInv /\ ReadEnd => CommandInv'
<1> SUFFICES ASSUME CommandInv, ReadEnd PROVE CommandInv'
  OBVIOUS
<1>1. /\ reading = "fgets" /\ at = input.length /\ UNCHANGED <<input, at, first, flag, exit_status, told>>
      /\ reading' = IF at >= first THEN "line" ELSE "null"
  BY DEF ReadEnd
<1>2. stdin' \in [eof : BOOLEAN, error : BOOLEAN] /\ stdin'.eof /\ stdin'.error = stdin.error
  BY DEF ReadEnd, CommandInv, CommandTypes
<1>3. at \in Nat /\ first \in Nat /\ first <= at + 1 /\ input.newlines \subseteq Int
  BY InputFacts DEF CommandInv
<1>4. CommandTypes'
  BY <1>1, <1>2 DEF CommandInv, CommandTypes
<1>5. BufferAt'
  <2>1. Opened(at) /\ Opened(first - 1) /\ Behind(first - 1) /\ Unbroken(first, at)
    BY <1>1 DEF CommandInv, BufferAt
  <2>2. Opened(at)' /\ Opened(first - 1)' /\ Behind(first - 1)' /\ Unbroken(first, at)'
    BY <1>1, <2>1, PositionsStay
  <2>3. Unbroken(first, at - 1)'
    BY <1>1, <1>3, <2>1 DEF Unbroken
  <2>4. first' <= at' => reading' = "line"  BY <1>1, <1>3
  <2>5. reading' = "line" => first' <= at'  BY <1>1, <1>3
  <2> QED  BY <1>1, <1>2, <2>2, <2>3, <2>4, <2>5 DEF BufferAt
<1>6. CommandsAreLines'
  BY <1>1, CommandsStay DEF CommandInv
<1>7. LinesBehind'
  BY <1>1, AccountedStays DEF CommandInv, LinesBehind
<1> QED  BY <1>1, <1>2, <1>4, <1>5, <1>6, <1>7 DEF CommandInv, ErrorKnown

\* CutHere at this position.
LEMMA CutFacts ==
  ASSUME CommandTypes
  PROVE  /\ CutHere \in SUBSET Nat /\ told.cuts \subseteq CutHere
         /\ first <= at => at \in CutHere
BY InputFacts DEF CommandTypes, CutHere

LEMMA ReadFailsKeeps == CommandInv /\ ReadFails => CommandInv'
<1> SUFFICES ASSUME CommandInv, ReadFails PROVE CommandInv'
  OBVIOUS
<1>1. reading = "fgets" /\ reading' = "null" /\ UNCHANGED <<input, at, first, flag, exit_status>>
  BY DEF ReadFails
<1>2. /\ stdin' \in [eof : BOOLEAN, error : BOOLEAN] /\ stdin'.eof = stdin.eof
      /\ told' \in [commands : SUBSET (Nat \X Nat), cuts : SUBSET Nat,
                    pressed : BOOLEAN, failed : BOOLEAN, drained : BOOLEAN]
      /\ told'.commands = told.commands /\ told'.cuts = CutHere /\ told'.failed
  BY CutFacts DEF ReadFails, CommandInv, CommandTypes
<1>3. told.cuts \subseteq told'.cuts /\ (first <= at => at \in told'.cuts)
  BY <1>2, CutFacts DEF CommandInv
<1>4. CommandTypes'
  BY <1>1, <1>2 DEF CommandInv, CommandTypes
<1>5. BufferAt'
  <2>1. Opened(at) /\ Opened(first - 1) /\ Behind(first - 1) /\ Unbroken(first, at)
        /\ (stdin.eof => at = input.length)
    BY <1>1 DEF CommandInv, BufferAt
  <2>2. Opened(at)' /\ Opened(first - 1)' /\ Behind(first - 1)' /\ Unbroken(first, at)'
    BY <1>1, <1>3, <2>1, PositionsStay
  <2> QED  BY <1>1, <1>2, <1>3, <2>1, <2>2 DEF BufferAt
<1>6. CommandsAreLines'
  BY <1>1, <1>2, <1>3, CommandsStay DEF CommandInv
<1>7. LinesBehind'
  BY <1>1, <1>2, <1>3, AccountedStays DEF CommandInv, LinesBehind
<1> QED  BY <1>1, <1>2, <1>4, <1>5, <1>6, <1>7 DEF CommandInv, ErrorKnown

LEMMA NoLineKeeps == CommandInv /\ NoLine => CommandInv'
<1> SUFFICES ASSUME CommandInv, NoLine PROVE CommandInv'
  OBVIOUS
<1>1. reading = "null" /\ UNCHANGED <<input, at, first, flag, told>>
  BY DEF NoLine
<1>2. \/ /\ reading' = "prompt" /\ stdin' = [eof |-> FALSE, error |-> FALSE]
         /\ exit_status' = exit_status
      \/ /\ reading' = "exited" /\ ~flag /\ stdin' = stdin
         /\ exit_status' = IF stdin.error THEN 2 ELSE 0
  BY DEF NoLine
<1>3. /\ at \in Nat /\ first \in Nat /\ first <= at + 1 /\ input.newlines \subseteq Int
      /\ input.nuls \subseteq Int /\ input.length \in Nat /\ 1 <= first
  BY InputFacts DEF CommandInv
<1>4. CommandTypes'
  <2>1. stdin' \in [eof : BOOLEAN, error : BOOLEAN]
    <3>1. stdin \in [eof : BOOLEAN, error : BOOLEAN]  BY DEF CommandInv, CommandTypes
    <3>2. [eof |-> FALSE, error |-> FALSE] \in [eof : BOOLEAN, error : BOOLEAN]  OBVIOUS
    <3> QED  BY <1>2, <3>1, <3>2
  <2> QED  BY <1>1, <2>1 DEF CommandInv, CommandTypes
<1>5. /\ Opened(at) /\ Opened(first - 1) /\ Behind(first - 1) /\ Unbroken(first, at)
      /\ (first <= at => at \in told.cuts) /\ (stdin.eof => at = input.length)
  BY <1>1 DEF CommandInv, BufferAt
<1>6. BufferAt'
  <2>1. Behind(at)
    <3>1. CASE first <= at  BY <1>5, <3>1 DEF Behind
    <3>2. CASE first > at
      <4>1. first - 1 = at  BY <1>3, <3>2
      <4> QED  BY <1>5, <4>1
    <3> QED  BY <1>3, <3>1, <3>2
  <2>2. Opened(at)' /\ Opened(first - 1)' /\ Behind(first - 1)' /\ Behind(at)'
    BY <1>1, <1>5, <2>1, PositionsStay
  <2>3. stdin'.eof => at' = input'.length
    BY <1>1, <1>2, <1>5
  <2> QED  BY <1>1, <1>2, <2>2, <2>3 DEF BufferAt
<1>7. CommandsAreLines'
  BY <1>1, CommandsStay DEF CommandInv
<1>8. reading' = "prompt" => LinesBehind'
  <2>1. SUFFICES ASSUME reading' = "prompt", NEW l \in Lines', l[2] <= at' PROVE Accounted(l)'
    BY DEF LinesBehind
  <2>2. l \in Lines /\ (Accounted(l) => Accounted(l)')
    BY <1>1, AccountedStays
  <2>3. /\ l[1] \in Nat /\ l[2] \in Nat /\ l[1] <= l[2]
        /\ l[2] \in input.newlines \/ l[2] = input.length
    BY <1>3, <2>2 DEF Lines, Ends
  <2>4. CASE l[2] <= first - 1
    BY <1>1, <2>2, <2>4 DEF CommandInv, LinesBehind
  <2>5. CASE l[2] > first - 1
    <3>1. l[2] \in first .. at  BY <1>1, <1>3, <2>1, <2>3, <2>5
    <3>2. l[2] = input.length /\ l[2] = at
      BY <1>3, <1>5, <2>3, <3>1, InputFacts DEF Unbroken, CommandInv
    <3>3. at \in told.cuts /\ at \in l[1] .. l[2]  BY <1>3, <1>5, <2>3, <3>1, <3>2
    <3> QED  BY <2>2, <3>3 DEF Accounted
  <2> QED  BY <1>3, <2>3, <2>4, <2>5
<1>9. ErrorKnown'
  BY <1>1, <1>2 DEF CommandInv, ErrorKnown
<1> QED  BY <1>2, <1>4, <1>6, <1>7, <1>8, <1>9 DEF CommandInv

\* A line that ends at q begins no later than p, if no newline is between.
LEMMA BeginsBy ==
  ASSUME CommandTypes, NEW l \in Lines, NEW p \in Nat, 1 <= p, p <= l[2], Unbroken(p, l[2] - 1)
  PROVE  l[1] <= p
<1>1. /\ l[1] \in 1 .. input.length /\ l[2] \in 1 .. input.length /\ l[1] <= l[2]
      /\ l[1] = 1 \/ l[1] - 1 \in input.newlines
  BY DEF Lines, Begins
<1>2. input.length \in Nat  BY InputFacts
<1>3. SUFFICES ASSUME l[1] > p PROVE FALSE
  BY <1>1, <1>2
<1>4. l[1] - 1 \in p .. l[2] - 1 /\ l[1] - 1 \in input.newlines
  BY <1>1, <1>2, <1>3
<1> QED  BY <1>4 DEF Unbroken

\* Whatever has been drained was too long, or behind a NUL.
LEMMA DrainedIsAccounted ==
  ASSUME CommandTypes, BufferAt, reading = "drain",
         NEW l \in Lines, first <= l[2], l[2] <= at + 1
  PROVE  Accounted(l)
<1>1. /\ at \in Nat /\ first \in Nat /\ first <= at + 1 /\ input.newlines \subseteq Int /\ 1 <= first
      /\ input.length \in Nat /\ LineSize \in Nat /\ at <= input.length
      /\ input.newlines \subseteq 1 .. input.length /\ input.nuls \subseteq 1 .. input.length
  BY InputFacts
<1>2. /\ l[1] \in Nat /\ l[2] \in Nat /\ l[1] <= l[2] /\ l[2] <= input.length /\ 1 <= l[1]
      /\ l[2] \in input.newlines \/ l[2] = input.length
      /\ Unbroken(l[1], l[2] - 1)
  BY <1>1 DEF Lines, Ends, Unbroken
<1>3. CASE Full
  <2>1. Unbroken(first, at) /\ at - first + 1 >= LineSize - 1  BY <1>3 DEF Full
  <2>2. l[1] <= first
    <3>1. Unbroken(first, l[2] - 1)  BY <1>1, <1>2, <2>1 DEF Unbroken
    <3> QED  BY <1>1, <3>1, BeginsBy
  <2>3. CASE l[2] = at + 1
    <3>1. l[2] - l[1] + 1 >= LineSize  BY <1>1, <1>2, <2>1, <2>2, <2>3
    <3> QED  BY <1>1, <1>2, <3>1 DEF Accounted
  <2>4. CASE l[2] <= at
    <3>1. l[2] \notin input.newlines  BY <1>1, <1>2, <2>1, <2>4 DEF Unbroken
    <3>2. l[2] = at  BY <1>1, <1>2, <2>4, <3>1
    <3>3. l[2] - l[1] + 2 >= LineSize  BY <1>1, <1>2, <2>1, <2>2, <3>2
    <3> QED  BY <3>1, <3>3 DEF Accounted
  <2> QED  BY <1>1, <1>2, <2>3, <2>4
<1>4. ASSUME NEW q \in first .. at, q \in input.newlines, first .. q \cap input.nuls # {},
             Unbroken(first, q - 1), Unbroken(q + 1, at)
      PROVE  Accounted(l)
  <2>0. q \in Nat /\ first <= q /\ q <= at  BY <1>1
  <2>1. CASE l[2] < q
    <3>1. l[2] \in first .. q - 1  BY <1>1, <1>2, <2>0, <2>1
    <3>2. l[2] \notin input.newlines  BY <1>4, <3>1 DEF Unbroken
    <3> QED  BY <1>1, <1>2, <2>0, <2>1, <3>2
  <2>2. CASE l[2] = q
    <3>1. l[1] <= first  BY <1>1, <1>4, <2>0, <2>2, BeginsBy
    <3>2. PICK z \in first .. q : z \in input.nuls  BY <1>4
    <3>3. z \in l[1] .. l[2]  BY <1>1, <1>2, <2>0, <2>2, <3>1
    <3> QED  BY <3>2, <3>3 DEF Accounted
  <2>3. CASE l[2] > q
    <3>1. Unbroken(q + 1, l[2] - 1)  BY <1>1, <1>2, <1>4, <2>0 DEF Unbroken
    <3>2. l[1] <= q + 1  BY <1>1, <1>2, <2>0, <2>3, <3>1, BeginsBy
    <3>3. l[1] > q
      <4>1. q \notin l[1] .. l[2] - 1  BY <1>2, <1>4 DEF Unbroken
      <4> QED  BY <1>2, <2>0, <2>3, <4>1
    <3>4. q = l[1] - 1  BY <1>2, <2>0, <3>2, <3>3
    <3>5. PICK b \in 1 .. (first - 1) + 1 : Begins(b) /\ Unbroken(b, first - 1)
      BY DEF BufferAt, Opened
    <3>6. b \in Nat /\ b <= first  BY <1>1
    <3>7. Unbroken(b, q - 1)
      <4>1. SUFFICES ASSUME NEW z \in b .. q - 1, z \in input.newlines PROVE FALSE
        BY DEF Unbroken
      <4>2. z \in b .. first - 1 \/ z \in first .. q - 1  BY <1>1, <2>0, <3>6
      <4> QED  BY <1>4, <3>5, <4>1, <4>2 DEF Unbroken
    <3>8. <<b, q>> \in Lines
      <4>1. b \in 1 .. input.length /\ q \in 1 .. input.length /\ b <= q
        BY <1>1, <2>0, <3>5, <3>6
      <4> QED  BY <1>4, <3>5, <3>7, <4>1 DEF Lines, Ends, Unbroken
    <3>9. b .. q \cap input.nuls # {}
      <4>1. PICK z \in first .. q : z \in input.nuls  BY <1>4
      <4>2. z \in b .. q  BY <1>1, <2>0, <3>6
      <4> QED  BY <4>1, <4>2
    <3> QED  BY <3>4, <3>8, <3>9 DEF Accounted
  <2> QED  BY <1>2, <2>0, <2>1, <2>2, <2>3
<1> QED  BY <1>3, <1>4 DEF BufferAt, Hidden

LEMMA TakeLineKeeps == CommandInv /\ TakeLine => CommandInv'
<1> SUFFICES ASSUME CommandInv, TakeLine PROVE CommandInv'
  OBVIOUS
<1>1. /\ reading = "line" /\ Taken /\ reading' \in {"prompt", "exited"}
      /\ UNCHANGED <<input, at, first, stdin, flag, exit_status>>
  BY DEF TakeLine
<1>2. /\ at \in Nat /\ first \in Nat /\ 1 <= first /\ input.newlines \subseteq Int
      /\ input.length \in Nat /\ at <= input.length
  BY InputFacts DEF CommandInv
<1>3. /\ told' \in [commands : SUBSET (Nat \X Nat), cuts : SUBSET Nat,
                    pressed : BOOLEAN, failed : BOOLEAN, drained : BOOLEAN]
      /\ told'.commands = told.commands \cup {<<first, at>>} /\ told'.cuts = told.cuts
      /\ told'.failed = told.failed /\ told'.drained = told.drained
  <2>1. told \in [commands : SUBSET (Nat \X Nat), cuts : SUBSET Nat,
                  pressed : BOOLEAN, failed : BOOLEAN, drained : BOOLEAN]
    BY DEF CommandInv, CommandTypes
  <2>2. told' = [told EXCEPT !.commands = told.commands \cup {<<first, at>>}]  BY DEF TakeLine
  <2>3. told.commands \cup {<<first, at>>} \in SUBSET (Nat \X Nat)  BY <1>2, <2>1
  <2> QED  BY <2>1, <2>2, <2>3
<1>4. /\ Opened(at) /\ Opened(first - 1) /\ Behind(first - 1) /\ Unbroken(first, at - 1)
      /\ first <= at /\ (stdin.eof => at = input.length)
  BY <1>1 DEF CommandInv, BufferAt
<1>5. at \in input.newlines \/ at = input.length
  BY <1>1, <1>4 DEF Taken, Terminated
<1>6. CommandTypes'
  BY <1>1, <1>3 DEF CommandInv, CommandTypes
<1>7. BufferAt'
  <2>1. Behind(at)
    <3>1. (at + 1) - 1 = at  BY <1>2
    <3> QED  BY <1>5, <3>1 DEF Behind, Begins
  <2>2. Opened(at)' /\ Opened(first - 1)' /\ Behind(first - 1)' /\ Behind(at)'
    BY <1>1, <1>3, <1>4, <2>1, PositionsStay
  <2> QED  BY <1>1, <1>4, <2>2 DEF BufferAt
<1>8. Begins(first) \/ first - 1 \in told.cuts
  <2>1. (first - 1) + 1 = first /\ first - 1 # input.length  BY <1>2, <1>4
  <2> QED  BY <1>4, <2>1 DEF Behind
<1>9. CommandsAreLines'
  <2>1. SUFFICES ASSUME NEW c \in told'.commands
                 PROVE  /\ Begins(c[1]) \/ c[1] - 1 \in told.cuts
                        /\ Ends(c[2]) /\ c[1] .. c[2] - 1 \cap input.newlines = {}
    BY <1>1, <1>3 DEF CommandsAreLines, Begins, Ends
  <2>2. CASE c \in told.commands
    BY <2>2 DEF CommandInv, CommandsAreLines
  <2>3. CASE c = <<first, at>>
    <3>1. c[1] = first /\ c[2] = at  BY <2>3
    <3> QED  BY <1>4, <1>5, <1>8, <3>1 DEF Ends, Unbroken
  <2> QED  BY <1>3, <2>2, <2>3
<1>10. reading' = "prompt" => LinesBehind'
  <2>1. SUFFICES ASSUME reading' = "prompt", NEW l \in Lines', l[2] <= at' PROVE Accounted(l)'
    BY DEF LinesBehind
  <2>2. l \in Lines /\ (Accounted(l) => Accounted(l)')
    BY <1>1, <1>3, AccountedStays
  <2>3. /\ l[1] \in Nat /\ l[2] \in Nat /\ l[1] <= l[2] /\ 1 <= l[1] /\ l = <<l[1], l[2]>>
        /\ l[2] \in input.newlines \/ l[2] = input.length
        /\ Unbroken(l[1], l[2] - 1)
    BY <1>2, <2>2 DEF Lines, Ends, Unbroken
  <2>4. CASE l[2] <= first - 1
    BY <1>1, <2>2, <2>4 DEF CommandInv, LinesBehind
  <2>5. CASE l[2] > first - 1
    <3>1. l[2] \in first .. at  BY <1>1, <1>2, <2>1, <2>3, <2>5
    <3>2. l[2] = at
      BY <1>2, <1>4, <2>3, <3>1 DEF Unbroken
    <3>3. l[1] <= first
      BY <1>2, <1>4, <2>2, <3>2, BeginsBy DEF CommandInv
    <3>4. CASE l[1] = first
      BY <1>3, <2>3, <3>2, <3>4 DEF Accounted
    <3>5. CASE l[1] < first
      <4>1. first - 1 \in l[1] .. l[2] - 1  BY <1>2, <1>4, <2>3, <3>2, <3>5
      <4>2. first - 1 \notin input.newlines  BY <2>3, <4>1 DEF Unbroken
      <4>3. first - 1 \in told.cuts
        BY <1>2, <1>8, <2>3, <3>5, <4>2 DEF Begins
      <4>4. first - 1 \in l[1] .. l[2] \cap (told.cuts \cup input.nuls)
        BY <1>2, <2>3, <4>1, <4>3
      <4> QED  BY <2>2, <4>4 DEF Accounted
    <3> QED  BY <1>2, <2>3, <3>3, <3>4, <3>5
  <2> QED  BY <1>2, <2>3, <2>4, <2>5
<1>11. ErrorKnown'
  BY <1>1, <1>3 DEF CommandInv, ErrorKnown
<1> QED  BY <1>1, <1>6, <1>7, <1>9, <1>10, <1>11 DEF CommandInv

LEMMA OverlongKeeps == CommandInv /\ Overlong => CommandInv'
<1> SUFFICES ASSUME CommandInv, Overlong PROVE CommandInv'
  OBVIOUS
<1>1. /\ reading = "line" /\ ~Taken /\ reading' = "drain"
      /\ UNCHANGED <<input, at, first, stdin, flag, exit_status, told>>
  BY DEF Overlong
<1>2. /\ at \in Nat /\ first \in Nat /\ 1 <= first /\ input.newlines \subseteq Int
      /\ LineSize \in Nat
  BY InputFacts DEF CommandInv
<1>3. /\ Opened(at) /\ Opened(first - 1) /\ Behind(first - 1) /\ Unbroken(first, at - 1)
      /\ first <= at /\ (stdin.eof => at = input.length)
      /\ at \in input.newlines \/ stdin.eof \/ at - first + 1 = LineSize - 1
  BY <1>1 DEF CommandInv, BufferAt
<1>4. Full \/ Hidden
  <2>1. ~stdin.eof /\ (at \in input.newlines => first .. at \cap input.nuls # {})
    BY <1>1 DEF Taken, Terminated
  <2>2. CASE at \in input.newlines
    <3>1. at \in first .. at /\ Unbroken(at + 1, at)  BY <1>2, <1>3 DEF Unbroken
    <3> QED  BY <1>3, <2>1, <2>2, <3>1 DEF Hidden
  <2>3. CASE at \notin input.newlines
    <3>1. Unbroken(first, at)  BY <1>2, <1>3, <2>3 DEF Unbroken
    <3>2. at - first + 1 >= LineSize - 1  BY <1>2, <1>3, <2>1, <2>3
    <3> QED  BY <3>1, <3>2 DEF Full
  <2> QED  BY <2>2, <2>3
<1>5. BufferAt'
  <2>1. Opened(at)' /\ Opened(first - 1)' /\ Behind(first - 1)' /\ (Full \/ Hidden)'
    BY <1>1, <1>3, <1>4 DEF Full, Hidden, Unbroken, Opened, Behind, Begins
  <2> QED  BY <1>1, <1>3, <2>1 DEF BufferAt
<1>6. CommandTypes'
  BY <1>1 DEF CommandInv, CommandTypes
<1>7. CommandsAreLines'
  BY <1>1, CommandsStay DEF CommandInv
<1>8. LinesBehind'
  BY <1>1, AccountedStays DEF CommandInv, LinesBehind
<1> QED  BY <1>1, <1>5, <1>6, <1>7, <1>8 DEF CommandInv, ErrorKnown

\* At the prompt again after a drain, wherever it has come to.
LEMMA DrainedLinesBehind ==
  ASSUME CommandInv, reading = "drain", reading' = "prompt", at' \in Nat, at' <= at + 1,
         input' = input, told'.commands = told.commands, told.cuts \subseteq told'.cuts
  PROVE  LinesBehind'
<1>1. SUFFICES ASSUME NEW l \in Lines', l[2] <= at' PROVE Accounted(l)'
  BY DEF LinesBehind
<1>2. l \in Lines /\ (Accounted(l) => Accounted(l)')
  BY AccountedStays
<1>3. at \in Nat /\ first \in Nat /\ input.length \in Nat  BY InputFacts DEF CommandInv
<1>4. l[2] \in Nat  BY <1>2, <1>3 DEF Lines
<1>5. CASE l[2] <= first - 1
  BY <1>2, <1>5 DEF CommandInv, LinesBehind
<1>6. CASE first <= l[2]
  <2>1. l[2] <= at + 1  BY <1>1, <1>3, <1>4
  <2> QED  BY <1>2, <1>6, <2>1, DrainedIsAccounted DEF CommandInv
<1> QED  BY <1>3, <1>4, <1>5, <1>6

LEMMA DrainCharacterKeeps == CommandInv /\ DrainCharacter => CommandInv'
<1> SUFFICES ASSUME CommandInv, DrainCharacter PROVE CommandInv'
  OBVIOUS
<1>1. /\ reading = "drain" /\ at < input.length /\ at' = at + 1
      /\ UNCHANGED <<input, first, stdin, flag, exit_status, told>>
      /\ reading' = IF at' \in input.newlines THEN "prompt" ELSE "drain"
  BY DEF DrainCharacter
<1>2. /\ at \in Nat /\ first \in Nat /\ first <= at + 1 /\ 1 <= first
      /\ input.newlines \subseteq Int /\ input.length \in Nat /\ LineSize \in Nat
  BY InputFacts DEF CommandInv
<1>3. CommandTypes'
  <2>1. at' \in 0 .. input'.length /\ first' \in 1 .. at' + 1  BY <1>1, <1>2
  <2> QED  BY <1>1, <2>1 DEF CommandInv, CommandTypes
<1>4. /\ Opened(at) /\ Opened(first - 1) /\ Behind(first - 1) /\ first <= at
      /\ (Full \/ Hidden) /\ (stdin.eof => at = input.length)
  BY <1>1 DEF CommandInv, BufferAt
<1>5. BufferAt'
  <2>1. Opened(at + 1)  BY <1>2, <1>4, OpenedNext DEF CommandInv
  <2>2. Opened(at)' /\ Opened(first - 1)' /\ Behind(first - 1)'
    BY <1>1, <1>4, <2>1, PositionsStay
  <2>3. ~stdin'.eof  BY <1>1, <1>2, <1>4
  <2>4. CASE reading' = "prompt"
    <3>1. at + 1 \in input.newlines /\ ((at + 1) + 1) - 1 = at + 1  BY <1>1, <1>2, <2>4
    <3>2. Behind(at + 1)  BY <3>1 DEF Behind, Begins
    <3>3. Behind(at)'  BY <1>1, <3>2, PositionsStay
    <3> QED  BY <2>2, <2>3, <2>4, <3>3 DEF BufferAt
  <2>5. CASE reading' = "drain"
    <3>1. at + 1 \notin input.newlines  BY <1>1, <2>5
    <3>2. ASSUME Full PROVE Full'
      <4>1. Unbroken(first, at + 1) /\ at + 1 - first + 1 >= LineSize - 1
        BY <1>2, <3>1, <3>2 DEF Full, Unbroken
      <4>2. Unbroken(first, at)'  BY <1>1, <4>1 DEF Unbroken
      <4>3. (at - first + 1 >= LineSize - 1)'  BY <1>1, <1>2, <4>1
      <4> QED  BY <4>2, <4>3 DEF Full
    <3>3. ASSUME NEW q \in first .. at, q \in input.newlines, first .. q \cap input.nuls # {},
                 Unbroken(first, q - 1), Unbroken(q + 1, at)
          PROVE  Hidden'
      <4>1. Unbroken(q + 1, at + 1)  BY <1>2, <3>1, <3>3 DEF Unbroken
      <4>2. q \in first' .. at'  BY <1>1, <1>2
      <4>3. Unbroken(first, q - 1)' /\ Unbroken(q + 1, at)'
        BY <1>1, <3>3, <4>1 DEF Unbroken
      <4>4. q \in input'.newlines /\ first' .. q \cap input'.nuls # {}  BY <1>1, <3>3
      <4> QED  BY <4>2, <4>3, <4>4 DEF Hidden
    <3>4. (Full \/ Hidden)'  BY <1>4, <3>2, <3>3 DEF Hidden
    <3>5. first' <= at'  BY <1>1, <1>2
    <3> QED  BY <2>2, <2>3, <2>5, <3>4, <3>5 DEF BufferAt
  <2> QED  BY <1>1, <2>4, <2>5
<1>6. CommandsAreLines'
  BY <1>1, CommandsStay DEF CommandInv
<1>7. LinesBehind'
  <2>1. CASE reading' = "prompt"
    BY <1>1, <1>2, <2>1, DrainedLinesBehind
  <2>2. CASE reading' = "drain"
    BY <1>1, <2>2, AccountedStays DEF CommandInv, LinesBehind
  <2> QED  BY <1>1, <2>1, <2>2
<1>8. ErrorKnown'
  BY <1>1 DEF CommandInv, ErrorKnown
<1> QED  BY <1>3, <1>5, <1>6, <1>7, <1>8 DEF CommandInv

LEMMA DrainEndKeeps == CommandInv /\ DrainEnd => CommandInv'
<1> SUFFICES ASSUME CommandInv, DrainEnd PROVE CommandInv'
  OBVIOUS
<1>1. /\ reading = "drain" /\ at = input.length /\ reading' = "prompt"
      /\ UNCHANGED <<input, at, first, flag, exit_status, told>>
  BY DEF DrainEnd
<1>2. stdin' \in [eof : BOOLEAN, error : BOOLEAN] /\ stdin'.eof /\ stdin'.error = stdin.error
  BY DEF DrainEnd, CommandInv, CommandTypes
<1>3. at \in Nat  BY InputFacts DEF CommandInv
<1>4. CommandTypes'
  BY <1>1, <1>2 DEF CommandInv, CommandTypes
<1>5. BufferAt'
  <2>1. Opened(at) /\ Opened(first - 1) /\ Behind(first - 1) /\ Behind(at)
    BY <1>1 DEF CommandInv, BufferAt, Behind
  <2>2. Opened(at)' /\ Opened(first - 1)' /\ Behind(first - 1)' /\ Behind(at)'
    BY <1>1, <2>1, PositionsStay
  <2> QED  BY <1>1, <2>2 DEF BufferAt
<1>6. CommandsAreLines'
  BY <1>1, CommandsStay DEF CommandInv
<1>7. LinesBehind'
  BY <1>1, <1>3, DrainedLinesBehind
<1>8. ErrorKnown'
  BY <1>1, <1>2 DEF CommandInv, ErrorKnown
<1> QED  BY <1>4, <1>5, <1>6, <1>7, <1>8 DEF CommandInv

\* A drain that an error or a signal ends.
LEMMA DrainCut ==
  ASSUME CommandInv, DrainStops, UNCHANGED <<input, at, first, exit_status>>, flag' \in BOOLEAN,
         told' \in [commands : SUBSET (Nat \X Nat), cuts : SUBSET Nat,
                    pressed : BOOLEAN, failed : BOOLEAN, drained : BOOLEAN],
         told'.commands = told.commands, told'.cuts = CutHere,
         told'.failed \/ told'.drained
  PROVE  CommandInv'
<1>1. reading = "drain" /\ reading' = "prompt"
  BY DEF DrainStops
<1>2. stdin' \in [eof : BOOLEAN, error : BOOLEAN] /\ stdin'.eof = stdin.eof
  BY DEF DrainStops, CommandInv, CommandTypes
<1>3. told.cuts \subseteq told'.cuts /\ (first <= at => at \in told'.cuts)
  BY CutFacts DEF CommandInv
<1>4. CommandTypes'
  BY <1>1, <1>2 DEF CommandInv, CommandTypes
<1>5. BufferAt'
  <2>1. Opened(at) /\ Opened(first - 1) /\ Behind(first - 1) /\ first <= at
        /\ (stdin.eof => at = input.length)
    BY <1>1 DEF CommandInv, BufferAt
  <2>2. Opened(at)' /\ Opened(first - 1)' /\ Behind(first - 1)'
    BY <1>3, <2>1, PositionsStay
  <2>3. Behind(at)'  BY <1>3, <2>1 DEF Behind
  <2> QED  BY <1>1, <1>2, <2>1, <2>2, <2>3 DEF BufferAt
<1>6. CommandsAreLines'
  BY <1>3, CommandsStay DEF CommandInv
<1>7. LinesBehind'
  <2>1. at' \in Nat /\ at' <= at + 1  BY InputFacts DEF CommandInv
  <2> QED  BY <1>1, <1>3, <2>1, DrainedLinesBehind
<1>8. ErrorKnown'
  BY DEF ErrorKnown
<1> QED  BY <1>4, <1>5, <1>6, <1>7, <1>8 DEF CommandInv

LEMMA DrainFailsKeeps == CommandInv /\ DrainFails => CommandInv'
<1> SUFFICES ASSUME CommandInv, DrainFails PROVE CommandInv'
  OBVIOUS
<1>1. flag' \in BOOLEAN /\ DrainStops /\ UNCHANGED <<input, at, first, exit_status>>
  BY DEF DrainFails, CommandInv, CommandTypes
<1>2. /\ told' \in [commands : SUBSET (Nat \X Nat), cuts : SUBSET Nat,
                    pressed : BOOLEAN, failed : BOOLEAN, drained : BOOLEAN]
      /\ told'.commands = told.commands /\ told'.cuts = CutHere /\ told'.failed
  BY CutFacts DEF DrainFails, CommandInv, CommandTypes
<1> QED  BY <1>1, <1>2, DrainCut

LEMMA SignalKeeps == CommandInv /\ Signal => CommandInv'
<1> SUFFICES ASSUME CommandInv, Signal PROVE CommandInv'
  OBVIOUS
<1>1. flag' = TRUE /\ UNCHANGED <<input, at, first, exit_status>>
  BY DEF Signal
<1>2. told \in [commands : SUBSET (Nat \X Nat), cuts : SUBSET Nat,
                pressed : BOOLEAN, failed : BOOLEAN, drained : BOOLEAN]
  BY DEF CommandInv, CommandTypes
<1>3. CASE told' = [told EXCEPT !.pressed = TRUE] /\ UNCHANGED <<stdin, reading>>
  <2>1. /\ told' \in [commands : SUBSET (Nat \X Nat), cuts : SUBSET Nat,
                      pressed : BOOLEAN, failed : BOOLEAN, drained : BOOLEAN]
        /\ told'.commands = told.commands /\ told'.cuts = told.cuts
        /\ told'.failed = told.failed /\ told'.drained = told.drained
    BY <1>2, <1>3
  <2>2. CommandTypes'
    BY <1>1, <1>3, <2>1 DEF CommandInv, CommandTypes
  <2>3. BufferAt'
    BY <1>1, <1>3, <2>1
       DEF CommandInv, BufferAt, Full, Hidden, Unbroken, Opened, Behind, Begins
  <2>4. CommandsAreLines'
    BY <1>1, <2>1, CommandsStay DEF CommandInv
  <2>5. reading' # "exited" => LinesBehind'
    BY <1>1, <1>3, <2>1, AccountedStays DEF CommandInv, LinesBehind
  <2>6. ErrorKnown'
    BY <1>1, <1>3, <2>1 DEF CommandInv, ErrorKnown
  <2> QED  BY <2>2, <2>3, <2>4, <2>5, <2>6 DEF CommandInv
<1>4. CASE /\ reading = "fgets" /\ reading' = "null"
           /\ stdin' = [stdin EXCEPT !.error = TRUE]
           /\ told' = [told EXCEPT !.pressed = TRUE, !.cuts = CutHere]
  <2>1. /\ stdin' \in [eof : BOOLEAN, error : BOOLEAN] /\ stdin'.eof = stdin.eof
    BY <1>4 DEF CommandInv, CommandTypes
  <2>2. /\ told' \in [commands : SUBSET (Nat \X Nat), cuts : SUBSET Nat,
                      pressed : BOOLEAN, failed : BOOLEAN, drained : BOOLEAN]
        /\ told'.commands = told.commands /\ told'.cuts = CutHere
        /\ told'.failed = told.failed /\ told'.drained = told.drained
    BY <1>2, <1>4, CutFacts DEF CommandInv
  <2>3. told.cuts \subseteq told'.cuts /\ (first <= at => at \in told'.cuts)
    BY <2>2, CutFacts DEF CommandInv
  <2>4. CommandTypes'
    BY <1>1, <1>4, <2>1, <2>2 DEF CommandInv, CommandTypes
  <2>5. BufferAt'
    <3>1. Opened(at) /\ Opened(first - 1) /\ Behind(first - 1) /\ Unbroken(first, at)
          /\ (stdin.eof => at = input.length)
      BY <1>4 DEF CommandInv, BufferAt
    <3>2. Opened(at)' /\ Opened(first - 1)' /\ Behind(first - 1)' /\ Unbroken(first, at)'
      BY <1>1, <2>3, <3>1, PositionsStay
    <3> QED  BY <1>1, <1>4, <2>1, <2>3, <3>1, <3>2 DEF BufferAt
  <2>6. CommandsAreLines'
    BY <1>1, <2>2, <2>3, CommandsStay DEF CommandInv
  <2>7. LinesBehind'
    BY <1>1, <1>4, <2>2, <2>3, AccountedStays DEF CommandInv, LinesBehind
  <2>8. ErrorKnown'
    BY <1>1, <1>4, <2>2 DEF CommandInv, ErrorKnown
  <2> QED  BY <2>4, <2>5, <2>6, <2>7, <2>8 DEF CommandInv
<1>5. CASE /\ DrainStops
           /\ told' = [told EXCEPT !.pressed = TRUE, !.cuts = CutHere, !.drained = TRUE]
  <2>1. /\ told' \in [commands : SUBSET (Nat \X Nat), cuts : SUBSET Nat,
                      pressed : BOOLEAN, failed : BOOLEAN, drained : BOOLEAN]
        /\ told'.commands = told.commands /\ told'.cuts = CutHere /\ told'.drained
    BY <1>2, <1>5, CutFacts DEF CommandInv
  <2> QED  BY <1>1, <1>5, <2>1, DrainCut
<1> QED  BY <1>3, <1>4, <1>5 DEF Signal

LEMMA CommandSteps == CommandInv /\ [CommandNext]_commandVars => CommandInv'
<1> SUFFICES ASSUME CommandInv, [CommandNext]_commandVars PROVE CommandInv'
  OBVIOUS
<1>1. CASE UNCHANGED commandVars
  BY <1>1 DEF CommandInv, CommandTypes, BufferAt, CommandsAreLines, LinesBehind, ErrorKnown, Lines,
              Accounted, Full, Hidden, Unbroken, Opened, Behind, Begins, Ends, commandVars
<1>2. CASE CommandNext
  BY <1>1, <1>2, PromptKeeps, ReadCharacterKeeps, ReadEndKeeps, NoLineKeeps, TakeLineKeeps,
     OverlongKeeps, DrainCharacterKeeps, DrainEndKeeps, ReadFailsKeeps, DrainFailsKeeps, SignalKeeps
     DEF CommandNext, ReadCommand, CommandDone
<1> QED  BY <1>1, <1>2

\* Wherever the Ctrl-C and errors come, interactive executes lines of its input, or what
\* follows where one was cut; it skips none that the buffer holds unless it was cut or a NUL
\* is in it or in the line before; and it exits with 2 only after a read that failed.
THEOREM CommandsAreObeyed == CommandSpec => []InputIsObeyed
<1>1. CommandSpec => []CommandInv
  BY CommandStarts, CommandSteps, PTL DEF CommandSpec
<1>2. CommandInv => InputIsObeyed
  <2>1. CommandInv /\ reading = "prompt" => NoLineSkipped
    <3> SUFFICES ASSUME CommandInv, reading = "prompt", NEW l \in Lines, ~(l[2] > at)
                 PROVE  Accounted(l)
      BY DEF NoLineSkipped, Accounted
    <3>1. at \in Nat /\ l[2] \in Nat  BY InputFacts DEF CommandInv, Lines
    <3>2. l[2] <= at  BY <3>1
    <3> QED  BY <3>2 DEF CommandInv, LinesBehind
  <2> QED  BY <2>1 DEF CommandInv, InputIsObeyed, NoLineSkipped, StatusTellsReading, ErrorKnown
<1> QED  BY <1>1, <1>2, PTL
-----------------------------------------------------------------------------
(* monitor_main: what has been handled of the command line, and what is held. *)

\* No argument of this name, or the last one, among the first n.
NoneOf(a, name, n) == \A k \in 1 .. n : a[k].name # name
LastOf(a, name, n, k) ==
  k \in 1 .. n /\ a[k].name = name /\ \A j \in 1 .. n : a[j].name = name => j <= k
LastIs(a, name, n, default, v) ==
  (NoneOf(a, name, n) /\ v = default) \/ (\E k \in 1 .. n : LastOf(a, name, n, k) /\ v = a[k].value)

RamIs(a, n, size) ==
  \/ NoneOf(a, "--ram", n) /\ size = DefaultRam
  \/ \E k \in 1 .. n : /\ LastOf(a, "--ram", n, k)
                       /\ size = RamSize(a[k].value) /\ RamSize(a[k].value) # Bad
                       /\ a[k].value # Absent
InputIs(a, n, name) ==
  \/ name = "none" /\ \A k \in 1 .. n : a[k].name \notin Inputs
  \/ name \in Inputs /\ \E k \in 1 .. n : a[k].name = name
                                          /\ \A j \in 1 .. n : a[j].name \in Inputs => j = k

Fields == {"input", "ram", "limit", "run", "load_address", "entry", "address_set", "entry_set"}

SetupTypes ==
  /\ argv \in Seq(Options) /\ i \in 0 .. Len(argv) /\ DOMAIN chosen = Fields
  /\ chosen.address_set \in BOOLEAN /\ chosen.entry_set \in BOOLEAN

\* The arguments that have been handled say what is chosen.
ChosenSoFar ==
  setup # "exited" =>
    /\ LastIs(argv, "--load-address", i, 0, chosen.load_address)
    /\ LastIs(argv, "--max-steps", i, DefaultLimit, chosen.limit)
    /\ chosen.address_set <=> ~NoneOf(argv, "--load-address", i)
    /\ chosen.entry_set <=> ~NoneOf(argv, "--entry", i)
    /\ InputIs(argv, i, chosen.input) /\ RamIs(argv, i, chosen.ram)
EntrySoFar ==
  /\ setup = "options" => LastIs(argv, "--entry", i, 0, chosen.entry)
  /\ setup \notin {"options", "exited"} =>
       /\ i = Len(argv)
       /\ LastIs(argv, "--entry", i, chosen.load_address, chosen.entry)
       /\ chosen.input # "none"
       /\ chosen.input = "--bin" => chosen.address_set /\ chosen.entry_set
       /\ chosen.input = "--elf" => ~chosen.address_set /\ ~chosen.entry_set

\* What is held at each step.
HeldAt ==
  \/ setup \in {"options", "open", "ran", "exited"} /\ held = {}
  \/ setup = "read" /\ held = {"file"}
  \/ setup = "close" /\ held \in {{"file"}, {"file", "program"}}
  \/ setup = "debug" /\ held = {"program"}
  \/ setup = "machine" /\ held = {"program", "debug"}
  \/ setup = "install" /\ held = {"debug", "machine"}
  \/ setup = "run" /\ held = {"debug", "machine", "handler"}

SetupInv == SetupTypes /\ ChosenSoFar /\ EntrySoFar /\ HeldAt /\ StatusOfSetup

LEMMA LastKept ==
  ASSUME NEW a, NEW name, NEW n \in Nat, NEW default, NEW v,
         a[n + 1].name # name, LastIs(a, name, n, default, v)
  PROVE  LastIs(a, name, n + 1, default, v)
<1>1. CASE NoneOf(a, name, n) /\ v = default
  <2>1. NoneOf(a, name, n + 1)  BY <1>1 DEF NoneOf
  <2> QED  BY <1>1, <2>1 DEF LastIs
<1>2. ASSUME NEW k \in 1 .. n, LastOf(a, name, n, k), v = a[k].value
      PROVE  LastIs(a, name, n + 1, default, v)
  <2>1. k \in 1 .. n + 1 /\ LastOf(a, name, n + 1, k)  BY <1>2 DEF LastOf
  <2> QED  BY <1>2, <2>1 DEF LastIs
<1> QED  BY <1>1, <1>2 DEF LastIs

LEMMA LastNew ==
  ASSUME NEW a, NEW name, NEW n \in Nat, NEW default, a[n + 1].name = name
  PROVE  LastIs(a, name, n + 1, default, a[n + 1].value)
<1>1. n + 1 \in 1 .. n + 1 /\ LastOf(a, name, n + 1, n + 1)  BY DEF LastOf
<1> QED  BY <1>1 DEF LastIs

LEMMA NoneGrows ==
  ASSUME NEW a, NEW name, NEW n \in Nat
  PROVE  NoneOf(a, name, n + 1) <=> NoneOf(a, name, n) /\ a[n + 1].name # name
BY DEF NoneOf

LEMMA RamKept ==
  ASSUME NEW a, NEW n \in Nat, NEW size, a[n + 1].name # "--ram", RamIs(a, n, size)
  PROVE  RamIs(a, n + 1, size)
<1>1. CASE NoneOf(a, "--ram", n) /\ size = DefaultRam
  BY <1>1, NoneGrows DEF RamIs
<1>2. ASSUME NEW k \in 1 .. n, LastOf(a, "--ram", n, k),
             size = RamSize(a[k].value), RamSize(a[k].value) # Bad, a[k].value # Absent
      PROVE  RamIs(a, n + 1, size)
  <2>1. k \in 1 .. n + 1 /\ LastOf(a, "--ram", n + 1, k)  BY <1>2 DEF LastOf
  <2> QED  BY <1>2, <2>1 DEF RamIs
<1> QED  BY <1>1, <1>2 DEF RamIs

LEMMA RamNew ==
  ASSUME NEW a, NEW n \in Nat, a[n + 1].name = "--ram", RamSize(a[n + 1].value) # Bad,
         a[n + 1].value # Absent
  PROVE  RamIs(a, n + 1, RamSize(a[n + 1].value))
<1>1. n + 1 \in 1 .. n + 1 /\ LastOf(a, "--ram", n + 1, n + 1)  BY DEF LastOf
<1> QED  BY <1>1 DEF RamIs

LEMMA InputKept ==
  ASSUME NEW a, NEW n \in Nat, NEW name, a[n + 1].name \notin Inputs, InputIs(a, n, name)
  PROVE  InputIs(a, n + 1, name)
BY DEF InputIs

LEMMA InputNew ==
  ASSUME NEW a, NEW n \in Nat, a[n + 1].name \in Inputs, InputIs(a, n, "none")
  PROVE  InputIs(a, n + 1, a[n + 1].name)
<1>1. \A k \in 1 .. n : a[k].name \notin Inputs  BY DEF InputIs, Inputs
<1>2. \A j \in 1 .. n + 1 : a[j].name \in Inputs => j = n + 1  BY <1>1
<1>3. n + 1 \in 1 .. n + 1  OBVIOUS
<1> QED  BY <1>2, <1>3 DEF InputIs

LEMMA TakeFields ==
  ASSUME NEW o, DOMAIN chosen = Fields, o.name \in (Switches \cup Valued) \ {"--help"}
  PROVE  /\ DOMAIN Take(o) = Fields
         /\ Take(o).input = IF o.name \in Inputs THEN o.name ELSE chosen.input
         /\ Take(o).run = IF o.name = "--run" THEN TRUE ELSE chosen.run
         /\ Take(o).ram = IF o.name = "--ram" THEN RamSize(o.value) ELSE chosen.ram
         /\ Take(o).limit = IF o.name = "--max-steps" THEN o.value ELSE chosen.limit
         /\ Take(o).load_address = IF o.name = "--load-address" THEN o.value ELSE chosen.load_address
         /\ Take(o).address_set = IF o.name = "--load-address" THEN TRUE ELSE chosen.address_set
         /\ Take(o).entry = IF o.name = "--entry" THEN o.value ELSE chosen.entry
         /\ Take(o).entry_set = IF o.name = "--entry" THEN TRUE ELSE chosen.entry_set
<1>1. CASE o.name \in Inputs
  BY <1>1 DEF Take, Fields, Inputs
<1>2. CASE o.name = "--run"
  BY <1>2 DEF Take, Fields, Inputs
<1>3. CASE o.name = "--ram"
  BY <1>3 DEF Take, Fields, Inputs
<1>4. CASE o.name = "--max-steps"
  BY <1>4 DEF Take, Fields, Inputs
<1>5. CASE o.name = "--load-address"
  BY <1>5 DEF Take, Fields, Inputs
<1>6. CASE o.name = "--entry"
  BY <1>6 DEF Take, Fields, Inputs
<1> QED  BY <1>1, <1>2, <1>3, <1>4, <1>5, <1>6 DEF Switches, Valued

LEMMA SetupStarts == SetupInit => SetupInv
<1> SUFFICES ASSUME SetupInit PROVE SetupInv
  OBVIOUS
<1>1. argv \in Seq(Options)
  <2>1. PICK n \in 0 .. MaxOptions : argv \in [1 .. n -> Options]  BY DEF SetupInit
  <2> QED  BY <2>1, StartupAssumption
<1>2. SetupTypes
  BY <1>1 DEF SetupInit, SetupTypes, Fields
<1>3. /\ NoneOf(argv, "--load-address", i) /\ NoneOf(argv, "--max-steps", i)
      /\ NoneOf(argv, "--entry", i) /\ NoneOf(argv, "--ram", i)
      /\ InputIs(argv, i, "none")
  BY DEF SetupInit, NoneOf, InputIs
<1>4. ChosenSoFar
  BY <1>3 DEF SetupInit, ChosenSoFar, LastIs, RamIs
<1>5. EntrySoFar
  BY <1>3 DEF SetupInit, EntrySoFar, LastIs
<1> QED  BY <1>2, <1>4, <1>5 DEF SetupInv, HeldAt, StatusOfSetup, SetupInit

LEMMA ArgumentKeeps == SetupInv /\ Argument => SetupInv'
<1> SUFFICES ASSUME SetupInv, Argument PROVE SetupInv'
  OBVIOUS
<1> DEFINE o == argv[i + 1]
<1>1. /\ setup = "options" /\ held = {} /\ i \in Nat /\ i' = i + 1 /\ i + 1 \in 1 .. Len(argv)
      /\ UNCHANGED <<argv, held>> /\ o \in Options
  BY DEF SetupInv, SetupTypes, HeldAt, Argument
<1>2. CASE setup' = "exited" /\ UNCHANGED chosen
  <2>1. status' = 2 \/ (status' = 0 /\ o.name = "--help")
    BY <1>1, <1>2 DEF Argument, Exit, Refuse
  <2>2. o.name = "--help" => i' \in Given("--help")'
    BY <1>1 DEF Given
  <2>3. SetupTypes'
    BY <1>1, <1>2 DEF SetupInv, SetupTypes
  <2> QED  BY <1>1, <1>2, <2>1, <2>2, <2>3
             DEF SetupInv, ChosenSoFar, EntrySoFar, HeldAt, StatusOfSetup
<1>3. CASE /\ o.name # "--help" /\ ~Refused(o)
           /\ chosen' = Take(o) /\ UNCHANGED <<setup, status>>
  <2>1. o.name \in (Switches \cup Valued) \ {"--help"}  BY <1>3 DEF Refused
  <2>2. DOMAIN chosen = Fields /\ chosen.address_set \in BOOLEAN /\ chosen.entry_set \in BOOLEAN
    BY DEF SetupInv, SetupTypes
  <2> HIDE DEF o
  <2>3. /\ DOMAIN chosen' = Fields
        /\ chosen'.input = IF o.name \in Inputs THEN o.name ELSE chosen.input
        /\ chosen'.ram = IF o.name = "--ram" THEN RamSize(o.value) ELSE chosen.ram
        /\ chosen'.limit = IF o.name = "--max-steps" THEN o.value ELSE chosen.limit
        /\ chosen'.load_address =
              IF o.name = "--load-address" THEN o.value ELSE chosen.load_address
        /\ chosen'.address_set =
              IF o.name = "--load-address" THEN TRUE ELSE chosen.address_set
        /\ chosen'.entry = IF o.name = "--entry" THEN o.value ELSE chosen.entry
        /\ chosen'.entry_set = IF o.name = "--entry" THEN TRUE ELSE chosen.entry_set
    BY <1>3, <2>1, <2>2, TakeFields
  <2>4. o = argv[i + 1]  BY DEF o
  <2>5. LastIs(argv, "--load-address", i + 1, 0, chosen'.load_address)
    <3>1. LastIs(argv, "--load-address", i, 0, chosen.load_address)
      BY <1>1 DEF SetupInv, ChosenSoFar
    <3>2. CASE o.name = "--load-address"  BY <1>1, <2>3, <2>4, <3>2, LastNew
    <3>3. CASE o.name # "--load-address"  BY <1>1, <2>3, <2>4, <3>1, <3>3, LastKept
    <3> QED  BY <3>2, <3>3
  <2>6. LastIs(argv, "--max-steps", i + 1, DefaultLimit, chosen'.limit)
    <3>1. LastIs(argv, "--max-steps", i, DefaultLimit, chosen.limit)
      BY <1>1 DEF SetupInv, ChosenSoFar
    <3>2. CASE o.name = "--max-steps"  BY <1>1, <2>3, <2>4, <3>2, LastNew
    <3>3. CASE o.name # "--max-steps"  BY <1>1, <2>3, <2>4, <3>1, <3>3, LastKept
    <3> QED  BY <3>2, <3>3
  <2>7. LastIs(argv, "--entry", i + 1, 0, chosen'.entry)
    <3>1. LastIs(argv, "--entry", i, 0, chosen.entry)
      BY <1>1 DEF SetupInv, EntrySoFar
    <3>2. CASE o.name = "--entry"  BY <1>1, <2>3, <2>4, <3>2, LastNew
    <3>3. CASE o.name # "--entry"  BY <1>1, <2>3, <2>4, <3>1, <3>3, LastKept
    <3> QED  BY <3>2, <3>3
  <2>8. /\ chosen'.address_set <=> ~NoneOf(argv, "--load-address", i + 1)
        /\ chosen'.entry_set <=> ~NoneOf(argv, "--entry", i + 1)
    <3>1. /\ chosen.address_set <=> ~NoneOf(argv, "--load-address", i)
          /\ chosen.entry_set <=> ~NoneOf(argv, "--entry", i)
      BY <1>1 DEF SetupInv, ChosenSoFar
    <3>2. /\ NoneOf(argv, "--load-address", i + 1)
                <=> NoneOf(argv, "--load-address", i) /\ o.name # "--load-address"
          /\ NoneOf(argv, "--entry", i + 1) <=> NoneOf(argv, "--entry", i) /\ o.name # "--entry"
      BY <1>1, <2>4, NoneGrows
    <3> QED  BY <2>2, <2>3, <3>1, <3>2
  <2>9. InputIs(argv, i + 1, chosen'.input)
    <3>1. InputIs(argv, i, chosen.input)  BY <1>1 DEF SetupInv, ChosenSoFar
    <3>2. CASE o.name \in Inputs
      <4>1. chosen.input = "none"  BY <1>3, <3>2 DEF Refused
      <4> QED  BY <1>1, <2>3, <2>4, <3>1, <3>2, <4>1, InputNew
    <3>3. CASE o.name \notin Inputs  BY <1>1, <2>3, <2>4, <3>1, <3>3, InputKept
    <3> QED  BY <3>2, <3>3
  <2>10. RamIs(argv, i + 1, chosen'.ram)
    <3>1. RamIs(argv, i, chosen.ram)  BY <1>1 DEF SetupInv, ChosenSoFar
    <3>2. CASE o.name = "--ram"
      <4>1. RamSize(o.value) # Bad /\ o.value # Absent  BY <1>3, <3>2 DEF Refused, Valued
      <4> QED  BY <1>1, <2>3, <2>4, <3>2, <4>1, RamNew
    <3>3. CASE o.name # "--ram"  BY <1>1, <2>3, <2>4, <3>1, <3>3, RamKept
    <3> QED  BY <3>2, <3>3
  <2>11. SetupTypes'
    <3>1. argv' \in Seq(Options) /\ i' \in 0 .. Len(argv')
      BY <1>1 DEF SetupInv, SetupTypes
    <3>2. chosen'.address_set \in BOOLEAN /\ chosen'.entry_set \in BOOLEAN
      BY <2>2, <2>3
    <3> QED  BY <2>3, <3>1, <3>2 DEF SetupTypes
  <2>12. ChosenSoFar' /\ EntrySoFar'
    BY <1>1, <1>3, <2>5, <2>6, <2>7, <2>8, <2>9, <2>10 DEF ChosenSoFar, EntrySoFar
  <2> QED  BY <1>1, <1>3, <2>11, <2>12 DEF SetupInv, HeldAt, StatusOfSetup
<1> QED  BY <1>2, <1>3 DEF Argument, Exit, Refuse

LEMMA EndKeeps == SetupInv /\ EndOfArguments => SetupInv'
<1> SUFFICES ASSUME SetupInv, EndOfArguments PROVE SetupInv'
  OBVIOUS
<1>1. setup = "options" /\ i = Len(argv) /\ held = {} /\ UNCHANGED <<argv, i, held>>
  BY DEF SetupInv, HeldAt, EndOfArguments
<1>2. CASE Incomplete
  <2>1. setup' = "exited" /\ status' = 2 /\ UNCHANGED chosen
    BY <1>2 DEF EndOfArguments, Refuse, Exit
  <2> QED  BY <1>1, <2>1
             DEF SetupInv, SetupTypes, ChosenSoFar, EntrySoFar, HeldAt, StatusOfSetup
<1>3. CASE ~Incomplete
  <2>1. /\ setup' = "open" /\ UNCHANGED status
        /\ chosen' = IF chosen.entry_set THEN chosen
                     ELSE [chosen EXCEPT !.entry = chosen.load_address]
    BY <1>3 DEF EndOfArguments, EntryGiven
  <2>2. DOMAIN chosen = Fields /\ chosen.entry_set \in BOOLEAN
    BY DEF SetupInv, SetupTypes
  <2>3. /\ DOMAIN chosen' = Fields
        /\ \A f \in Fields : f # "entry" => chosen'[f] = chosen[f]
        /\ chosen'.entry = IF chosen.entry_set THEN chosen.entry ELSE chosen.load_address
    BY <2>1, <2>2 DEF Fields
  <2>4. /\ chosen'.input = chosen.input /\ chosen'.ram = chosen.ram
        /\ chosen'.limit = chosen.limit /\ chosen'.load_address = chosen.load_address
        /\ chosen'.address_set = chosen.address_set /\ chosen'.entry_set = chosen.entry_set
    BY <2>3 DEF Fields
  <2>5. LastIs(argv, "--entry", i, chosen.load_address, chosen'.entry)
    <3>1. /\ LastIs(argv, "--entry", i, 0, chosen.entry)
          /\ chosen.entry_set <=> ~NoneOf(argv, "--entry", i)
      BY <1>1 DEF SetupInv, ChosenSoFar, EntrySoFar
    <3> QED  BY <2>2, <2>3, <3>1 DEF LastIs
  <2>6. SetupTypes'
    BY <1>1, <2>3, <2>4 DEF SetupInv, SetupTypes
  <2>7. ChosenSoFar'
    BY <1>1, <2>1, <2>4 DEF SetupInv, ChosenSoFar
  <2>8. EntrySoFar'
    BY <1>1, <1>3, <2>1, <2>4, <2>5 DEF SetupInv, SetupTypes, EntrySoFar, Incomplete
  <2> QED  BY <1>1, <2>1, <2>6, <2>7, <2>8 DEF SetupInv, HeldAt, StatusOfSetup
<1> QED  BY <1>2, <1>3

\* Behind the arguments only what is held changes.
LEMMA StepKeeps ==
  ASSUME SetupInv, UNCHANGED <<argv, i, chosen>>, HeldAt', StatusOfSetup',
         setup \notin {"options", "exited"}, setup' # "options"
  PROVE  SetupInv'
BY DEF SetupInv, SetupTypes, ChosenSoFar, EntrySoFar

LEMMA SetupSteps == SetupInv /\ [SetupNext]_setupVars => SetupInv'
<1> SUFFICES ASSUME SetupInv, [SetupNext]_setupVars PROVE SetupInv'
  OBVIOUS
<1> USE DEF HeldAt, StatusOfSetup, Exit, Acquire, Release
<1>h. HeldAt  BY DEF SetupInv
<1>1. CASE Argument  BY <1>1, ArgumentKeeps
<1>2. CASE EndOfArguments  BY <1>2, EndKeeps
<1>3. CASE OpenProgram  BY <1>3, <1>h, StepKeeps DEF OpenProgram
<1>4. CASE ReadImage  BY <1>4, <1>h, StepKeeps DEF ReadImage
<1>5. CASE CloseProgram  BY <1>5, <1>h, StepKeeps DEF CloseProgram
<1>6. CASE ReadDebug  BY <1>6, <1>h, StepKeeps DEF ReadDebug
<1>7. CASE LoadMachine  BY <1>7, <1>h, StepKeeps DEF LoadMachine
<1>8. CASE Install  BY <1>8, <1>h, StepKeeps DEF Install
<1>9. CASE RunMachine  BY <1>9, <1>h, StepKeeps DEF RunMachine
<1>10. CASE UNCHANGED setupVars
  BY <1>10 DEF SetupInv, SetupTypes, ChosenSoFar, EntrySoFar, setupVars, Given
<1> QED  BY <1>1, <1>2, <1>3, <1>4, <1>5, <1>6, <1>7, <1>8, <1>9, <1>10 DEF SetupNext, SetupDone

\* The value that is last among all the arguments is the one the property picks.
LEMMA LastOfAll ==
  ASSUME argv \in Seq(Options), NEW name, NEW default, NEW v,
         LastIs(argv, name, Len(argv), default, v)
  PROVE  v = LastValue(name, default)
<1>1. CASE NoneOf(argv, name, Len(argv)) /\ v = default
  <2>1. Given(name) = {}  BY <1>1 DEF NoneOf, Given
  <2> QED  BY <1>1, <2>1 DEF LastValue
<1>2. ASSUME NEW k \in 1 .. Len(argv), LastOf(argv, name, Len(argv), k), v = argv[k].value
      PROVE  v = LastValue(name, default)
  <2>1. k \in Given(name) /\ \A j \in Given(name) : j <= k  BY <1>2 DEF LastOf, Given
  <2>2. \A m \in Given(name) : (\A j \in Given(name) : j <= m) => m = k
    BY <2>1 DEF Given
  <2>3. (CHOOSE m \in Given(name) : \A j \in Given(name) : j <= m) = k
    BY <2>1, <2>2
  <2>4. LastValue(name, default) = argv[CHOOSE m \in Given(name) : \A j \in Given(name) : j <= m].value
    BY <2>1 DEF LastValue
  <2> QED  BY <1>2, <2>3, <2>4
<1> QED  BY <1>1, <1>2 DEF LastIs

LEMMA RamProduct ==
  ASSUME NEW o \in Options, o.name = "--ram", o.value # Absent, RamSize(o.value) # Bad
  PROVE  RamSize(o.value) = Amount(o.value) * Unit(o.value) /\ RamSize(o.value) <= MaxRam
<1> DEFINE a == Amount(o.value)
           u == Unit(o.value)
<1>1. a # Bad /\ u # Bad /\ ~(a > MaxRam \div u)
  BY DEF RamSize
<1>2. a \in Nat /\ u \in Nat \ {0} /\ MaxRam \in Nat /\ SizeModulus \in Nat /\ MaxRam < SizeModulus
  BY <1>1, StartupAssumption
<1>3. RamSize(o.value) = (a * u) % SizeModulus
  BY <1>1 DEF RamSize
<1> HIDE DEF a, u
<1>4. a * u \in Nat /\ a * u <= MaxRam
  <2>1. a <= MaxRam \div u /\ MaxRam \div u \in Nat  BY <1>1, <1>2
  <2>2. (MaxRam \div u) * u <= MaxRam  BY <1>2
  <2>3. a * u <= (MaxRam \div u) * u  BY <1>2, <2>1
  <2> QED  BY <1>2, <2>1, <2>2, <2>3
<1>5. (a * u) % SizeModulus = a * u
  BY <1>2, <1>4
<1> QED  BY <1>3, <1>4, <1>5 DEF a, u

LEMMA GivenUpTo ==
  ASSUME argv \in Seq(Options), NEW name
  PROVE  NoneOf(argv, name, Len(argv)) <=> Given(name) = {}
BY DEF NoneOf, Given

LEMMA SetupHoldsSound == SetupInv => SetupSound
<1> SUFFICES ASSUME SetupInv PROVE SetupSound
  OBVIOUS
<1>1. NothingHeldAtEnd
  BY DEF SetupInv, HeldAt, NothingHeldAtEnd
<1>2. StatusOfSetup
  BY DEF SetupInv
<1>3. CASE setup \in {"options", "exited"}
  BY <1>1, <1>2, <1>3 DEF SetupSound, ChosenAsGiven, RamAsGiven
<1>4. CASE setup \notin {"options", "exited"}
  <2>1. argv \in Seq(Options) /\ i = Len(argv)
    BY <1>4 DEF SetupInv, SetupTypes, EntrySoFar
  <2>2. chosen.load_address = LastValue("--load-address", 0)
    <3>1. LastIs(argv, "--load-address", Len(argv), 0, chosen.load_address)
      BY <1>4, <2>1 DEF SetupInv, ChosenSoFar
    <3> QED  BY <2>1, <3>1, LastOfAll
  <2>3. chosen.limit = LastValue("--max-steps", DefaultLimit)
    <3>1. LastIs(argv, "--max-steps", Len(argv), DefaultLimit, chosen.limit)
      BY <1>4, <2>1 DEF SetupInv, ChosenSoFar
    <3> QED  BY <2>1, <3>1, LastOfAll
  <2>4. chosen.entry = LastValue("--entry", chosen.load_address)
    <3>1. LastIs(argv, "--entry", Len(argv), chosen.load_address, chosen.entry)
      BY <1>4, <2>1 DEF SetupInv, EntrySoFar
    <3> QED  BY <2>1, <3>1, LastOfAll
  <2>5. chosen.input \in Inputs /\ \E k \in DOMAIN argv :
          Given(chosen.input) = {k} /\ \A other \in Inputs \ {chosen.input} : Given(other) = {}
    <3>1. InputIs(argv, Len(argv), chosen.input) /\ chosen.input # "none"
      BY <1>4, <2>1 DEF SetupInv, ChosenSoFar, EntrySoFar
    <3>2. chosen.input \in Inputs
      BY <3>1 DEF InputIs
    <3>3. PICK k \in 1 .. Len(argv) : argv[k].name = chosen.input
                                     /\ \A j \in 1 .. Len(argv) : argv[j].name \in Inputs => j = k
      BY <3>1 DEF InputIs
    <3>4. DOMAIN argv = 1 .. Len(argv)  BY <2>1
    <3>5. Given(chosen.input) = {k}  BY <3>2, <3>3, <3>4 DEF Given
    <3>6. ASSUME NEW other \in Inputs \ {chosen.input} PROVE Given(other) = {}
      BY <3>3, <3>4 DEF Given
    <3> QED  BY <3>2, <3>3, <3>4, <3>5, <3>6
  <2>6. /\ chosen.address_set <=> Given("--load-address") # {}
        /\ chosen.entry_set <=> Given("--entry") # {}
    <3>1. /\ chosen.address_set <=> ~NoneOf(argv, "--load-address", Len(argv))
          /\ chosen.entry_set <=> ~NoneOf(argv, "--entry", Len(argv))
      BY <1>4, <2>1 DEF SetupInv, ChosenSoFar
    <3> QED  BY <2>1, <3>1, GivenUpTo
  <2>7. /\ chosen.input = "--bin" => chosen.address_set /\ chosen.entry_set
        /\ chosen.input = "--elf" => ~chosen.address_set /\ ~chosen.entry_set
    BY <1>4 DEF SetupInv, EntrySoFar
  <2>8. ChosenAsGiven
    BY <2>2, <2>3, <2>4, <2>5, <2>6, <2>7 DEF ChosenAsGiven
  <2>9. RamAsGiven
    <3>1. RamIs(argv, Len(argv), chosen.ram)
      BY <1>4, <2>1 DEF SetupInv, ChosenSoFar
    <3>2. CASE NoneOf(argv, "--ram", Len(argv)) /\ chosen.ram = DefaultRam
      <4>1. Given("--ram") = {}  BY <2>1, <3>2, GivenUpTo
      <4> QED  BY <3>2, <4>1 DEF RamAsGiven
    <3>3. ASSUME NEW k \in 1 .. Len(argv), LastOf(argv, "--ram", Len(argv), k),
                 chosen.ram = RamSize(argv[k].value), RamSize(argv[k].value) # Bad,
                 argv[k].value # Absent
          PROVE  RamAsGiven
      <4> DEFINE v == argv[k].value
      <4>1. argv[k] \in Options /\ argv[k].name = "--ram"  BY <2>1, <3>3 DEF LastOf
      <4>2. chosen.ram = Amount(v) * Unit(v) /\ chosen.ram <= MaxRam
        BY <3>3, <4>1, RamProduct
      <4>3. LastIs(argv, "--ram", Len(argv), Bad, v)
        BY <3>3 DEF LastIs
      <4>4. v = LastValue("--ram", Bad)
        BY <2>1, <4>3, LastOfAll
      <4>5. k \in Given("--ram")
        BY <2>1, <4>1 DEF Given
      <4> HIDE DEF v
      <4> QED  BY <4>2, <4>4, <4>5 DEF RamAsGiven
    <3> QED  BY <3>1, <3>2, <3>3 DEF RamIs
  <2> QED  BY <1>1, <1>2, <2>8, <2>9 DEF SetupSound
<1> QED  BY <1>3, <1>4

\* monitor_main runs what the whole command line says, with the RAM that was asked for,
\* and releases all it has acquired, whichever of its steps fails.
THEOREM CommandLineIsObeyed == SetupSpec => []SetupSound
<1>1. SetupSpec => []SetupInv
  BY SetupStarts, SetupSteps, PTL DEF SetupSpec
<1>2. SetupInv => SetupSound
  BY SetupHoldsSound
<1> QED  BY <1>1, <1>2, PTL
-----------------------------------------------------------------------------
(* source and where: how far the file has been read, and what has been shown of it. *)

ViewTypes ==
  /\ request \in Requests /\ location \in Locations /\ file \in Files \cup {Missing}
  /\ window \in [first : Nat \ {0}, last : Nat] /\ bytes \in Nat /\ line \in Nat \ {0}
  /\ text \in [from : Nat \ {0}, used : Nat, truncated : BOOLEAN]
  /\ shown \in Seq([line : Nat, from : Nat, used : Nat, truncated : BOOLEAN, marked : BOOLEAN])

\* What the buffer holds of a line of this size.
Holds(t, size) == /\ t.used = IF size < LineLimit THEN size ELSE LineLimit - 1
                  /\ t.truncated <=> size >= LineLimit

\* The window has the line in the middle, and a file that is read is there.
WindowAt ==
  /\ viewing \in {"open", "line", "text", "closing"} => Chosen \in 1 .. FileCount
  /\ viewing # "call" /\ Chosen \in 1 .. FileCount =>
       window.first <= Center /\ Center <= window.last
  /\ viewing \in {"line", "text", "closing"} => file # Missing /\ bytes <= file.length

\* All lines of the window before line n are shown.
ShownUpTo(n) == Len(shown) = IF n > window.first THEN n - window.first ELSE 0

\* Where the loop is in the file.
LineAt ==
  /\ viewing \in {"call", "open"} => shown = << >> /\ message = {} /\ bytes = 0 /\ line = 1
  /\ viewing = "line" => /\ Starts(line, bytes + 1) /\ line <= window.last + 1
                         /\ message = {} /\ ShownUpTo(line)
  /\ viewing = "text" => /\ Starts(line, text.from) /\ text.from <= bytes + 1
                         /\ text.from .. bytes \cap file.newlines = {}
                         /\ Holds(text, bytes - text.from + 1) /\ line <= window.last
                         /\ message = {} /\ ShownUpTo(line)

\* The loop has left the window, or the file has no further line to show.
Complete ==
  \/ line = window.last + 1 /\ ShownUpTo(line)
  \/ ShownUpTo(line) /\ \A n \in Nat : HasLine(n) => n < line
  \/ ShownUpTo(line + 1) /\ \A n \in Nat : HasLine(n) => n <= line
EndAt ==
  /\ viewing = "closing" => \/ message \in {{"limited"}, {"error"}}
                            \/ message = {} /\ Complete
  /\ viewing = "closed" /\ file # Missing /\ Chosen \in 1 .. FileCount =>
       CutShort \/ (Complete /\ ("empty" \in message <=> shown = << >>))

\* Each line shown, as ShowsLinesOfFile says, is in the file.
ShownRight ==
  \A k \in DOMAIN shown :
    LET s == shown[k]
    IN /\ Starts(s.line, s.from) /\ s.from <= file.length /\ 1 <= s.from
       /\ s.line <= file.length + 1
       /\ "error" \notin message => Holds(s, FileEnd(s.from) - s.from + 1)
       /\ s.marked <=> Marked(s.line)
       /\ s.line = window.first + k - 1

LimitsAt ==
  /\ bytes <= ReadLimit /\ text.used < LineLimit /\ line <= bytes + 1
  /\ "limited" \in message => file # Missing /\ file.length >= ReadLimit

ViewInv == ViewTypes /\ WindowAt /\ LineAt /\ EndAt /\ ShownRight /\ LimitsAt

LEMMA FileFacts ==
  ASSUME file \in Files \cup {Missing}, file # Missing
  PROVE  /\ file.length \in Nat /\ file.newlines \subseteq 1 .. file.length
         /\ IsFiniteSet(file.newlines)
<1>1. file.length \in Nat /\ file.newlines \subseteq 1 .. file.length
  BY SourceViewAssumption
<1>2. IsFiniteSet(1 .. file.length)
  <2>1. 1 \in Int /\ file.length \in Int  BY <1>1
  <2> QED  BY <2>1, FS_Interval
<1>3. IsFiniteSet(file.newlines)  BY <1>1, <1>2, FS_Subset
<1> QED  BY <1>1, <1>3

LEMMA LimitFacts ==
  /\ ReadLimit \in Nat \ {0} /\ LineLimit \in Nat /\ LineLimit > 1 /\ MaxUnsigned \in Nat
  /\ MaxUnsigned > ReadLimit + 4
BY SourceViewAssumption

\* The newlines before a position, counted.
LEMMA CountGrows ==
  ASSUME file \in Files \cup {Missing}, file # Missing, NEW f \in Nat, NEW g \in Nat, f <= g
  PROVE  /\ Cardinality({p \in file.newlines : p < f}) \in Nat
         /\ Cardinality({p \in file.newlines : p < f}) <= Cardinality({p \in file.newlines : p < g})
<1>1. file.newlines \subseteq Int  BY FileFacts
<1>2. {p \in file.newlines : p < g} \subseteq file.newlines
      /\ {p \in file.newlines : p < f} \subseteq {p \in file.newlines : p < g}
  BY <1>1
<1>3. IsFiniteSet({p \in file.newlines : p < g})  BY <1>2, FileFacts, FS_Subset
<1> QED  BY <1>2, <1>3, FS_Subset, FS_CardinalityType

LEMMA CountNext ==
  ASSUME file \in Files \cup {Missing}, file # Missing, NEW f \in Nat, NEW b \in Nat, f <= b + 1,
         f .. b \cap file.newlines = {}, b + 1 \in file.newlines
  PROVE  Cardinality({p \in file.newlines : p < b + 2})
           = Cardinality({p \in file.newlines : p < f}) + 1
<1>1. file.newlines \subseteq Int  BY FileFacts
<1>2. {p \in file.newlines : p < b + 2} = {p \in file.newlines : p < f} \cup {b + 1}
  <2>1. ASSUME NEW p \in file.newlines, p < b + 2, ~(p < f) PROVE p = b + 1
    <3>1. p \in Int /\ p >= f /\ p <= b + 1  BY <1>1, <2>1
    <3>2. p \notin f .. b  OBVIOUS
    <3> QED  BY <3>1, <3>2
  <2>2. \A p \in file.newlines : p < f => p < b + 2  BY <1>1
  <2>3. b + 1 < b + 2  OBVIOUS
  <2> QED  BY <2>1, <2>2, <2>3
<1>3. b + 1 \notin {p \in file.newlines : p < f}  BY <1>1
<1>4. IsFiniteSet({p \in file.newlines : p < f})
  <2>1. {p \in file.newlines : p < f} \subseteq file.newlines  OBVIOUS
  <2> QED  BY <2>1, FileFacts, FS_Subset
<1> HIDE <1>2
<1>5. Cardinality({p \in file.newlines : p < f} \cup {b + 1})
        = Cardinality({p \in file.newlines : p < f}) + 1
  BY <1>3, <1>4, FS_AddElement
<1> QED  BY <1>2, <1>5

\* A line behind this one starts behind its newline.
LEMMA StartsNext ==
  ASSUME file \in Files \cup {Missing}, file # Missing, NEW n \in Nat, NEW f \in Nat, NEW b \in Nat,
         f <= b + 1, f .. b \cap file.newlines = {}, b + 1 \in file.newlines, Starts(n, f)
  PROVE  Starts(n + 1, b + 2)
<1>1. Cardinality({p \in file.newlines : p < b + 2})
           = Cardinality({p \in file.newlines : p < f}) + 1
  BY CountNext
<1>2. Cardinality({p \in file.newlines : p < f}) = n - 1  BY DEF Starts
<1>3. Cardinality({p \in file.newlines : p < b + 2}) = (n + 1) - 1  BY <1>1, <1>2
<1>4. (b + 2) - 1 = b + 1  OBVIOUS
<1> QED  BY <1>3, <1>4 DEF Starts

\* There is no line behind one with no newline up to the end of the file.
LEMMA LastLine ==
  ASSUME file \in Files \cup {Missing}, file # Missing, NEW n \in Nat, NEW f \in Nat, f <= file.length + 1,
         f .. file.length \cap file.newlines = {}, Starts(n, f),
         NEW m \in Nat, HasLine(m)
  PROVE  m <= n /\ (f = file.length + 1 => m < n)
<1>1. file.length \in Nat /\ file.newlines \subseteq 1 .. file.length  BY FileFacts
<1>2. PICK g \in 1 .. file.length : Starts(m, g)  BY DEF HasLine
<1>3. /\ Cardinality({p \in file.newlines : p < g}) = m - 1
      /\ Cardinality({p \in file.newlines : p < f}) = n - 1
      /\ (f = 1 \/ f - 1 \in file.newlines)
  BY <1>2 DEF Starts
<1>4. g \in Nat /\ g <= file.length  BY <1>1
<1>5. CASE g <= f /\ f # file.length + 1
  <2>1. m - 1 <= n - 1  BY <1>3, <1>4, <1>5, CountGrows
  <2> QED  BY <1>5, <2>1
<1>6. CASE g > f /\ f # file.length + 1
  <2>1. {p \in file.newlines : p < g} = {p \in file.newlines : p < f}
    <3>1. ASSUME NEW p \in file.newlines PROVE p < g <=> p < f
      <4>1. p \in Int /\ p <= file.length /\ p \notin f .. file.length  BY <1>1
      <4> QED  BY <1>1, <1>4, <1>6, <4>1
    <3> QED  BY <3>1
  <2>2. m - 1 = n - 1  BY <1>3, <2>1
  <2> QED  BY <1>6, <2>2
<1>7. CASE f = file.length + 1
  <2>1. file.length \in file.newlines /\ file.length >= 1
    <3>1. f # 1 /\ f - 1 = file.length  BY <1>1, <1>4, <1>7
    <3> QED  BY <1>1, <1>3, <3>1
  <2> DEFINE l == file.length - 1
  <2>2. l \in Nat /\ l + 1 = file.length /\ l + 2 = f  BY <1>1, <1>7, <2>1
  <2>3. Cardinality({p \in file.newlines : p < file.length}) + 1
          = Cardinality({p \in file.newlines : p < f})
    <3>1. file.length .. l \cap file.newlines = {} /\ file.length <= l + 1  BY <1>1, <2>2
    <3> HIDE DEF l
    <3>2. Cardinality({p \in file.newlines : p < l + 2})
            = Cardinality({p \in file.newlines : p < file.length}) + 1
      BY <1>1, <2>1, <2>2, <3>1, CountNext
    <3> QED  BY <2>2, <3>2
  <2>4. Cardinality({p \in file.newlines : p < g})
          <= Cardinality({p \in file.newlines : p < file.length})
    BY <1>1, <1>4, CountGrows
  <2>6. Cardinality({p \in file.newlines : p < file.length}) \in Nat
    <3>1. file.length <= file.length  BY <1>1
    <3> QED  BY <1>1, <3>1, CountGrows
  <2>5. m - 1 + 1 <= n - 1  BY <1>3, <2>3, <2>4, <2>6
  <2> QED  BY <1>7, <2>5
<1> QED  BY <1>1, <1>4, <1>5, <1>6, <1>7

\* The end of a line is before its newline, or the end of the file.
LEMMA LineEnd ==
  ASSUME file \in Files \cup {Missing}, file # Missing, NEW f \in Nat, NEW b \in Nat, f <= b + 1,
         f .. b \cap file.newlines = {}, b + 1 \in file.newlines \/ b = file.length
  PROVE  FileEnd(f) = b
<1> DEFINE Ending(p) == p >= f - 1 /\ \A q \in file.newlines : q >= f => p < q
           Places == {q - 1 : q \in file.newlines} \cup {file.length}
<1>1. file.length \in Nat /\ file.newlines \subseteq 1 .. file.length  BY FileFacts
<1>2. b \in Places
  <2>1. b = (b + 1) - 1  OBVIOUS
  <2> QED  BY <2>1
<1>3. Ending(b)
  <2>1. ASSUME NEW q \in file.newlines, q >= f PROVE b < q
    <3>1. q \in Int /\ q \notin f .. b  BY <1>1
    <3> QED  BY <2>1, <3>1
  <2> QED  BY <2>1
<1>4. ASSUME NEW p \in Places, Ending(p) PROVE p = b
  <2>1. p \in Int /\ p >= f - 1  BY <1>1, <1>4
  <2>2. p <= b
    <3>1. CASE b + 1 \in file.newlines
      <4>1. p < b + 1  BY <1>4, <3>1
      <4> QED  BY <2>1, <4>1
    <3>2. CASE b = file.length  BY <1>1, <3>2
    <3> QED  BY <3>1, <3>2
  <2>3. p >= b
    <3>1. CASE p = file.length
      <4>1. b <= file.length  BY <1>1
      <4> QED  BY <3>1, <4>1, <1>1
    <3>2. ASSUME NEW q \in file.newlines, p = q - 1 PROVE p >= b
      <4>1. q \in Int /\ q >= f  BY <1>1, <2>1, <3>2
      <4>2. b < q  BY <1>3, <4>1
      <4> QED  BY <3>2, <4>1, <4>2
    <3> QED  BY <3>1, <3>2
  <2> QED  BY <2>1, <2>2, <2>3
<1>5. FileEnd(f) = CHOOSE p \in Places : Ending(p)  BY DEF FileEnd
<1> HIDE DEF Places, Ending
<1> QED  BY <1>2, <1>3, <1>4, <1>5

Entry == [line : Nat, from : Nat, used : Nat, truncated : BOOLEAN, marked : BOOLEAN]

\* One entry, the k-th of what is shown.
EntryRight(s, k) ==
  /\ Starts(s.line, s.from) /\ s.from <= file.length /\ 1 <= s.from
  /\ s.line <= file.length + 1
  /\ "error" \notin message => Holds(s, FileEnd(s.from) - s.from + 1)
  /\ s.marked <=> Marked(s.line)
  /\ s.line = window.first + k - 1

\* Nothing about an entry depends on the position, and an error says less.
LEMMA EntryStays ==
  ASSUME UNCHANGED <<request, location, file, window>>, "error" \in message => "error" \in message',
         NEW s, NEW k, EntryRight(s, k)
  PROVE  EntryRight(s, k)'
BY DEF EntryRight, Starts, FileEnd, Holds, Marked, Chosen

LEMMA ShownStays ==
  ASSUME ShownRight, UNCHANGED <<request, location, file, window, shown>>,
         "error" \in message => "error" \in message'
  PROVE  ShownRight'
<1>1. SUFFICES ASSUME NEW k \in DOMAIN shown PROVE EntryRight(shown[k], k)'
  BY DEF ShownRight, EntryRight
<1>2. EntryRight(shown[k], k)  BY DEF ShownRight, EntryRight
<1> DEFINE s == shown[k]
<1>3. EntryRight(s, k)  BY <1>2
<1>4. s' = s  OBVIOUS
<1> QED  BY <1>3, <1>4 DEF EntryRight, Starts, FileEnd, Holds, Marked, Chosen

LEMMA AppendKeeps ==
  ASSUME ViewTypes, ShownRight, UNCHANGED <<request, location, file, window>>,
         "error" \in message => "error" \in message',
         NEW s, s \in Entry, shown' = Append(shown, s),
         NEW m, m = Len(shown) + 1, EntryRight(s, m)'
  PROVE  shown' \in Seq(Entry) /\ Len(shown') = Len(shown) + 1 /\ ShownRight'
<1>1. shown \in Seq(Entry)  BY DEF ViewTypes, Entry
<1>2. shown' \in Seq(Entry) /\ Len(shown') = Len(shown) + 1
  BY <1>1
<1>3. ASSUME NEW k \in DOMAIN shown' PROVE EntryRight(shown[k], k)'
  <2>1. k \in 1 .. Len(shown) + 1  BY <1>2, <1>3
  <2>2. CASE k \in 1 .. Len(shown)
    <3>1. shown'[k] = shown[k] /\ k \in DOMAIN shown  BY <1>1, <2>2
    <3>2. EntryRight(shown[k], k)  BY <3>1 DEF ShownRight, EntryRight
    <3> QED  BY <3>1, <3>2 DEF EntryRight, Starts, FileEnd, Holds, Marked, Chosen
  <2>3. CASE k = Len(shown) + 1
    <3>1. shown'[k] = s  BY <1>1, <2>3
    <3> QED  BY <2>3, <3>1 DEF EntryRight, Starts, FileEnd, Holds, Marked, Chosen
  <2> QED  BY <1>1, <2>1, <2>2, <2>3
<1> QED  BY <1>2, <1>3 DEF ShownRight, EntryRight

LEMMA ViewStarts == ViewInit => ViewInv
<1> SUFFICES ASSUME ViewInit PROVE ViewInv
  OBVIOUS
<1>1. /\ request \in Requests /\ location \in Locations /\ file \in Files \cup {Missing}
      /\ window = [first |-> 1, last |-> 1] /\ bytes = 0 /\ line = 1 /\ text = NoText
      /\ shown = << >> /\ message = {} /\ viewing = "call"
  BY DEF ViewInit
<1>2. ViewTypes
  <2>1. window \in [first : Nat \ {0}, last : Nat]  BY <1>1
  <2>2. text \in [from : Nat \ {0}, used : Nat, truncated : BOOLEAN]  BY <1>1 DEF NoText
  <2>3. shown \in Seq(Entry)  BY <1>1
  <2> QED  BY <1>1, <2>1, <2>2, <2>3 DEF ViewTypes, Entry
<1>3. ShownRight  BY <1>1 DEF ShownRight
<1>4. LimitsAt
  BY <1>1, LimitFacts DEF LimitsAt, NoText
<1> QED  BY <1>1, <1>2, <1>3, <1>4 DEF ViewInv, WindowAt, LineAt, EndAt

\* The line in the middle is a line number, in the window of either command.
LEMMA CenterInWindow ==
  ASSUME request \in Requests, location \in Locations, Chosen \in 1 .. FileCount
  PROVE  /\ Center \in Nat \ {0} /\ Center <= MaxUnsigned
         /\ request.command # "source" => location.line = Center
<1>1. LineNumbers \subseteq 0 .. MaxUnsigned /\ MaxUnsigned \in Nat /\ FileCount \in Nat
      /\ MaxUnsigned > 4
  BY SourceViewAssumption
<1>2. location.file # 0 => location.line \in LineNumbers \ {0}
  BY DEF Locations, NoLocation
<1>3. CASE request.line # 0
  <2>1. request.line \in LineNumbers /\ request.command = "source"
    BY <1>3 DEF Requests
  <2>2. Center = request.line /\ request.line \in 0 .. MaxUnsigned
    BY <1>1, <1>3, <2>1 DEF Center
  <2> QED  BY <1>1, <1>3, <2>1, <2>2
<1>4. CASE request.line = 0 /\ location.file = Chosen
  <2>1. location.line \in LineNumbers \ {0} /\ Center = location.line
    BY <1>1, <1>2, <1>4 DEF Center
  <2>2. location.line \in 0 .. MaxUnsigned /\ location.line # 0
    BY <1>1, <2>1
  <2> QED  BY <1>1, <2>1, <2>2
<1>5. CASE request.line = 0 /\ location.file # Chosen
  <2>1. request.command = "source"
    BY <1>5 DEF Requests, Chosen
  <2> QED  BY <1>1, <1>5, <2>1 DEF Center
<1> QED  BY <1>3, <1>4, <1>5

LEMMA ChooseKeeps == ViewInv /\ Choose => ViewInv'
<1> SUFFICES ASSUME ViewInv, Choose PROVE ViewInv'
  OBVIOUS
<1>1. viewing = "call" /\ UNCHANGED <<request, location, file, bytes, line, text, shown>>
      /\ shown = << >> /\ message = {} /\ bytes = 0 /\ line = 1
  BY DEF Choose, ViewInv, LineAt
<1>2. Chosen' = Chosen /\ Center' = Center  BY <1>1 DEF Chosen, Center
<1>3. ShownRight'  BY <1>1 DEF ShownRight
<1>4. CASE Chosen \notin 1 .. FileCount
  <2>1. viewing' = "closed" /\ UNCHANGED window /\ "limited" \notin message'
    BY <1>4 DEF Choose, Say
  <2> QED  BY <1>1, <1>2, <1>3, <1>4, <2>1
             DEF ViewInv, ViewTypes, WindowAt, LineAt, EndAt, LimitsAt
<1>5. CASE Chosen \in 1 .. FileCount
  <2>1. /\ viewing' = "open" /\ UNCHANGED message
        /\ window' = IF request.command = "where"
                       THEN [first |-> location.line, last |-> location.line]
                       ELSE [first |-> FirstShown(Center), last |-> LastShown(Center)]
    BY <1>5 DEF Choose
  <2>2. /\ Center \in Nat \ {0} /\ Center <= MaxUnsigned
        /\ request.command # "source" => location.line = Center
    BY <1>5, CenterInWindow DEF ViewInv, ViewTypes
  <2>3. request.command = "where" \/ request.command = "source"
    BY DEF ViewInv, ViewTypes, Requests
  <2>4. /\ window' \in [first : Nat \ {0}, last : Nat]
        /\ window'.first <= Center /\ Center <= window'.last
    <3>1. CASE request.command = "where"
      BY <2>1, <2>2, <3>1
    <3>2. CASE request.command = "source"
      <4>1. window' = [first |-> FirstShown(Center), last |-> LastShown(Center)]
        BY <2>1, <3>2
      <4>2. /\ FirstShown(Center) \in Nat \ {0} /\ LastShown(Center) \in Nat
            /\ FirstShown(Center) <= Center /\ Center <= LastShown(Center)
        BY <2>2, LimitFacts DEF FirstShown, LastShown
      <4> QED  BY <4>1, <4>2
    <3> QED  BY <2>3, <3>1, <3>2
  <2>5. ViewTypes'
    BY <1>1, <2>4 DEF ViewInv, ViewTypes
  <2>6. WindowAt'
    BY <1>2, <1>5, <2>1, <2>4 DEF WindowAt
  <2> QED  BY <1>1, <1>3, <2>1, <2>5, <2>6 DEF ViewInv, LineAt, EndAt, LimitsAt
<1> QED  BY <1>4, <1>5

\* The facts about lines are about the file alone.
LEMMA FileStays ==
  ASSUME UNCHANGED <<request, location, file, window>>
  PROVE  /\ \A n, f : Starts(n, f)' <=> Starts(n, f)
         /\ \A n : HasLine(n)' <=> HasLine(n)
         /\ \A f : FileEnd(f)' = FileEnd(f)
         /\ \A n : Marked(n)' <=> Marked(n)
         /\ Chosen' = Chosen /\ Center' = Center
BY DEF Starts, HasLine, FileEnd, Marked, Chosen, Center

LEMMA OpenKeeps == ViewInv /\ OpenSource => ViewInv'
<1> SUFFICES ASSUME ViewInv, OpenSource PROVE ViewInv'
  OBVIOUS
<1>1. viewing = "open" /\ UNCHANGED <<request, location, file, window, bytes, line, text, shown>>
      /\ shown = << >> /\ message = {} /\ bytes = 0 /\ line = 1
  BY DEF OpenSource, ViewInv, LineAt
<1>2. ViewTypes'  BY <1>1 DEF ViewInv, ViewTypes
<1>3. ShownRight'  BY <1>1 DEF ShownRight
<1>4. CASE file = Missing
  <2>1. viewing' = "closed" /\ message' = {"unavailable"}
    BY <1>4 DEF OpenSource, Say
  <2>2. WindowAt'
    BY <1>1, <2>1, FileStays DEF ViewInv, WindowAt
  <2>3. "limited" \notin message'  BY <2>1
  <2> QED  BY <1>1, <1>2, <1>3, <1>4, <2>1, <2>2, <2>3 DEF ViewInv, LineAt, EndAt, LimitsAt
<1>5. CASE file # Missing
  <2>1. viewing' = "line" /\ UNCHANGED message
    BY <1>5 DEF OpenSource
  <2>2. file.length \in Nat /\ file.newlines \subseteq 1 .. file.length
    BY <1>5, FileFacts DEF ViewInv, ViewTypes
  <2>3. WindowAt'
    BY <1>1, <1>5, <2>1, <2>2, FileStays DEF ViewInv, WindowAt
  <2>4. Starts(1, 1)
    <3>1. {p \in file.newlines : p < 1} = {}  BY <2>2
    <3>2. Cardinality({p \in file.newlines : p < 1}) = 0  BY <3>1, FS_EmptySet
    <3> QED  BY <3>2 DEF Starts
  <2>5. LineAt'
    <3>1. Starts(line, bytes + 1)'
      BY <1>1, <2>4 DEF Starts
    <3>2. window.first \in Nat \ {0} /\ window.last \in Nat  BY DEF ViewInv, ViewTypes
    <3>3. (line <= window.last + 1)' /\ ShownUpTo(line)'
      BY <1>1, <3>2 DEF ShownUpTo
    <3> QED  BY <1>1, <2>1, <3>1, <3>3 DEF LineAt
  <2> QED  BY <1>1, <1>2, <1>3, <1>5, <2>1, <2>3, <2>5 DEF ViewInv, EndAt, LimitsAt
<1> QED  BY <1>4, <1>5

LEMMA NextLineKeeps == ViewInv /\ NextLine => ViewInv'
<1> SUFFICES ASSUME ViewInv, NextLine PROVE ViewInv'
  OBVIOUS
<1>1. /\ viewing = "line" /\ text' = [from |-> bytes + 1, used |-> 0, truncated |-> FALSE]
      /\ UNCHANGED <<request, location, file, window, bytes, line, shown, message>>
      /\ viewing' = IF line <= window.last THEN "text" ELSE "closing"
  BY DEF NextLine, Stop
<1>2. /\ bytes \in Nat /\ line \in Nat \ {0} /\ window.last \in Nat /\ window.first \in Nat
      /\ file # Missing /\ bytes <= file.length
  BY <1>1 DEF ViewInv, ViewTypes, WindowAt
<1>3. text' \in [from : Nat \ {0}, used : Nat, truncated : BOOLEAN]
      /\ text'.from = bytes + 1 /\ text'.used = 0 /\ text'.truncated = FALSE
  BY <1>1, <1>2
<1>4. ViewTypes'
  BY <1>1, <1>3 DEF ViewInv, ViewTypes
<1>5. ShownRight'
  BY <1>1, ShownStays DEF ViewInv
<1>6. WindowAt'
  BY <1>1, FileStays DEF ViewInv, WindowAt
<1>7. Starts(line, bytes + 1) /\ line <= window.last + 1 /\ message = {} /\ ShownUpTo(line)
  BY <1>1 DEF ViewInv, LineAt
<1>8. LineAt'
  <2>1. CASE line <= window.last
    <3>1. Starts(line, text.from)'
      BY <1>1, <1>3, <1>7 DEF Starts
    <3>2. (text.from <= bytes + 1)' /\ (text.from .. bytes \cap file.newlines = {})'
      BY <1>1, <1>2, <1>3
    <3>3. Holds(text, bytes - text.from + 1)'
      <4>1. bytes' - text'.from + 1 = 0  BY <1>1, <1>2, <1>3
      <4>2. 0 < LineLimit /\ ~(0 >= LineLimit)  BY LimitFacts
      <4> QED  BY <1>3, <4>1, <4>2 DEF Holds
    <3>4. (line <= window.last)' /\ (message = {})' /\ ShownUpTo(line)'
      BY <1>1, <1>7, <2>1 DEF ShownUpTo
    <3> QED  BY <1>1, <2>1, <3>1, <3>2, <3>3, <3>4 DEF LineAt
  <2>2. CASE line > window.last
    BY <1>1, <1>2, <2>2 DEF LineAt
  <2> QED  BY <1>2, <2>1, <2>2
<1>9. EndAt'
  <2>1. CASE viewing' = "text"  BY <2>1 DEF EndAt
  <2>2. CASE viewing' = "closing"
    <3>1. line = window.last + 1  BY <1>1, <1>2, <1>7, <2>2
    <3>2. Complete'  BY <1>1, <1>7, <3>1 DEF Complete, ShownUpTo
    <3> QED  BY <1>1, <1>7, <2>2, <3>2 DEF EndAt
  <2> QED  BY <1>1, <2>1, <2>2
<1>10. LimitsAt'
  BY <1>1, <1>3, LimitFacts DEF ViewInv, LimitsAt
<1> QED  BY <1>4, <1>5, <1>6, <1>8, <1>9, <1>10 DEF ViewInv

\* What the states of the loop have in common inside a line.
LEMMA TextFacts ==
  ASSUME ViewInv, viewing = "text"
  PROVE  /\ bytes \in Nat /\ line \in Nat \ {0} /\ window.last \in Nat /\ window.first \in Nat \ {0}
         /\ file # Missing /\ file.length \in Nat /\ bytes <= file.length
         /\ file.newlines \subseteq 1 .. file.length
         /\ text.from \in Nat \ {0} /\ text.used \in Nat /\ text.truncated \in BOOLEAN
         /\ text.from <= bytes + 1 /\ text.from .. bytes \cap file.newlines = {}
         /\ Starts(line, text.from) /\ Holds(text, bytes - text.from + 1)
         /\ line <= window.last /\ message = {} /\ ShownUpTo(line)
         /\ Chosen \in 1 .. FileCount
<1>1. file \in Files \cup {Missing} /\ file # Missing
  BY DEF ViewInv, ViewTypes, WindowAt
<1>2. file.length \in Nat /\ file.newlines \subseteq 1 .. file.length
  BY <1>1, FileFacts
<1>3. /\ bytes \in Nat /\ line \in Nat \ {0} /\ window.last \in Nat /\ window.first \in Nat \ {0}
      /\ text.from \in Nat \ {0} /\ text.used \in Nat /\ text.truncated \in BOOLEAN
  BY DEF ViewInv, ViewTypes
<1> QED  BY <1>1, <1>2, <1>3 DEF ViewInv, LineAt, WindowAt

LEMMA ReadByteKeeps == ViewInv /\ ReadByte => ViewInv'
<1> SUFFICES ASSUME ViewInv, ReadByte PROVE ViewInv'
  OBVIOUS
<1>1. /\ viewing = "text" /\ bytes < ReadLimit /\ bytes # file.length
      /\ bytes + 1 \notin file.newlines /\ bytes' = bytes + 1
      /\ text' = IF Room THEN [text EXCEPT !.used = text.used + 1] ELSE [text EXCEPT !.truncated = TRUE]
      /\ UNCHANGED <<request, location, file, window, line, viewing, shown, message>>
  BY DEF ReadByte, AtEnd, AtNewline
<1>2. /\ bytes \in Nat /\ line \in Nat \ {0} /\ window.last \in Nat /\ window.first \in Nat \ {0}
      /\ file # Missing /\ file.length \in Nat /\ bytes <= file.length
      /\ file.newlines \subseteq 1 .. file.length
      /\ text.from \in Nat \ {0} /\ text.used \in Nat /\ text.truncated \in BOOLEAN
      /\ text.from <= bytes + 1 /\ text.from .. bytes \cap file.newlines = {}
      /\ Starts(line, text.from) /\ Holds(text, bytes - text.from + 1)
      /\ line <= window.last /\ message = {} /\ ShownUpTo(line)
  BY <1>1, TextFacts
<1>3. text \in [from : Nat \ {0}, used : Nat, truncated : BOOLEAN]
  BY DEF ViewInv, ViewTypes
<1>4. /\ text' \in [from : Nat \ {0}, used : Nat, truncated : BOOLEAN]
      /\ text'.from = text.from
      /\ text'.used = IF text.used + 1 < LineLimit THEN text.used + 1 ELSE text.used
      /\ text'.truncated = IF text.used + 1 < LineLimit THEN text.truncated ELSE TRUE
  <2>1. CASE Room  BY <1>1, <1>2, <1>3, <2>1 DEF Room
  <2>2. CASE ~Room  BY <1>1, <1>2, <1>3, <2>2 DEF Room
  <2> QED  BY <2>1, <2>2
<1>5. ViewTypes'
  BY <1>1, <1>2, <1>4 DEF ViewInv, ViewTypes
<1>6. ShownRight'  BY <1>1, ShownStays DEF ViewInv
<1>7. WindowAt'
  <2>1. bytes' <= file'.length  BY <1>1, <1>2
  <2> QED  BY <1>1, <2>1, FileStays DEF ViewInv, WindowAt
<1>8. LineAt'
  <2>1. Starts(line, text.from)'  BY <1>1, <1>2, <1>4 DEF Starts
  <2>2. (text.from <= bytes + 1)'  BY <1>1, <1>2, <1>4
  <2>3. (text.from .. bytes \cap file.newlines = {})'
    <3>1. text.from .. bytes + 1 \cap file.newlines = {}  BY <1>1, <1>2
    <3> QED  BY <1>1, <1>4, <3>1
  <2>4. Holds(text, bytes - text.from + 1)'
    <3> DEFINE m == bytes - text.from + 1
    <3>1. m \in Nat /\ bytes' - text'.from + 1 = m + 1  BY <1>1, <1>2, <1>4
    <3>2. /\ text.used = IF m < LineLimit THEN m ELSE LineLimit - 1
          /\ text.truncated <=> m >= LineLimit
      BY <1>2 DEF Holds
    <3> HIDE DEF m
    <3>3. text'.used = IF m + 1 < LineLimit THEN m + 1 ELSE LineLimit - 1
      BY <1>4, <3>1, <3>2, LimitFacts
    <3>4. text'.truncated <=> m + 1 >= LineLimit
      <4>1. text.used + 1 < LineLimit <=> m + 1 < LineLimit  BY <3>1, <3>2, LimitFacts
      <4>2. CASE m + 1 < LineLimit
        BY <1>4, <3>1, <3>2, <4>1, <4>2, LimitFacts
      <4>3. CASE m + 1 >= LineLimit
        <5>1. ~(text.used + 1 < LineLimit)  BY <3>1, <4>1, <4>3, LimitFacts
        <5> QED  BY <1>4, <4>3, <5>1
      <4> QED  BY <3>1, <4>2, <4>3, LimitFacts
    <3> QED  BY <3>1, <3>3, <3>4 DEF Holds
  <2>5. (line <= window.last)' /\ (message = {})' /\ ShownUpTo(line)'
    BY <1>1, <1>2 DEF ShownUpTo
  <2> QED  BY <1>1, <2>1, <2>2, <2>3, <2>4, <2>5 DEF LineAt
<1>9. EndAt'  BY <1>1 DEF EndAt
<1>10. LimitsAt'
  <2>1. /\ bytes <= ReadLimit /\ text.used < LineLimit /\ line <= bytes + 1
    BY DEF ViewInv, LimitsAt
  <2>2. bytes' <= ReadLimit  BY <1>1, <1>2, LimitFacts
  <2>3. text'.used < LineLimit  BY <1>2, <1>4, <2>1, LimitFacts
  <2>4. line' <= bytes' + 1  BY <1>1, <1>2, <2>1
  <2> QED  BY <1>1, <1>2, <2>2, <2>3, <2>4 DEF LimitsAt
<1> QED  BY <1>5, <1>6, <1>7, <1>8, <1>9, <1>10 DEF ViewInv

LEMMA LimitedKeeps == ViewInv /\ Limited => ViewInv'
<1> SUFFICES ASSUME ViewInv, Limited PROVE ViewInv'
  OBVIOUS
<1>1. /\ viewing = "text" /\ bytes = ReadLimit /\ viewing' = "closing" /\ message' = {"limited"}
      /\ UNCHANGED <<request, location, file, window, bytes, line, text, shown>>
  BY DEF Limited, Stop
<1>2. message = {} /\ file # Missing /\ bytes <= file.length /\ file.length \in Nat
  BY <1>1, TextFacts
<1>3. ShownRight'
  <2>1. "error" \notin message  BY <1>2
  <2> QED  BY <1>1, <2>1, ShownStays DEF ViewInv
<1>4. ViewTypes'  BY <1>1 DEF ViewInv, ViewTypes
<1>5. WindowAt'  BY <1>1, FileStays DEF ViewInv, WindowAt
<1>6. LimitsAt'  BY <1>1, <1>2 DEF ViewInv, LimitsAt
<1> QED  BY <1>1, <1>3, <1>4, <1>5, <1>6 DEF ViewInv, LineAt, EndAt

LEMMA PrintedKeeps ==
  ASSUME ViewInv, viewing = "text", shown' = Printed, UNCHANGED <<request, location, file, window>>,
         text.from <= file.length, "error" \notin message' => FileEnd(text.from) = bytes
  PROVE  /\ shown' \in Seq(Entry) /\ ShownRight'
         /\ Len(shown') = IF line + 1 > window.first THEN line + 1 - window.first ELSE 0
<1>1. /\ bytes \in Nat /\ line \in Nat \ {0} /\ window.first \in Nat \ {0}
      /\ file.length \in Nat /\ bytes <= file.length
      /\ text.from \in Nat \ {0} /\ text.used \in Nat /\ text.truncated \in BOOLEAN
      /\ Starts(line, text.from) /\ Holds(text, bytes - text.from + 1)
      /\ message = {} /\ ShownUpTo(line)
  BY TextFacts
<1>2. shown \in Seq(Entry) /\ Len(shown) \in Nat  BY DEF ViewInv, ViewTypes, Entry
<1>3. Len(shown) = IF line > window.first THEN line - window.first ELSE 0
  BY <1>1 DEF ShownUpTo
<1>4. CASE line < window.first
  <2>1. shown' = shown  BY <1>1, <1>4 DEF Printed
  <2>2. ShownRight'
    <3>1. "error" \in message => "error" \in message'  BY <1>1
    <3> QED  BY <2>1, <3>1, ShownStays DEF ViewInv
  <2> QED  BY <1>1, <1>2, <1>3, <1>4, <2>1, <2>2
<1>5. CASE line >= window.first
  <2> DEFINE s == [line |-> line, from |-> text.from, used |-> text.used,
                   truncated |-> text.truncated, marked |-> Marked(line)]
             m == Len(shown) + 1
  <2>1. PICK e : e = s  OBVIOUS
  <2>2. PICK k : k = m  OBVIOUS
  <2>3. shown' = Append(shown, e)  BY <1>5, <2>1 DEF Printed
  <2>4. Marked(line) \in BOOLEAN  BY DEF Marked
  <2>5. e \in Entry  BY <1>1, <2>1, <2>4 DEF Entry
  <2>6. /\ e.line = line /\ e.from = text.from /\ e.used = text.used
        /\ e.truncated = text.truncated /\ (e.marked <=> Marked(line))
    BY <2>1
  <2>7. k = Len(shown) + 1  BY <2>2
  <2> HIDE DEF s, m
  <2>8. line <= file.length + 1
    <3>1. line <= bytes + 1  BY DEF ViewInv, LimitsAt
    <3> QED  BY <1>1, <3>1
  <2>9. line = window.first + k - 1  BY <1>1, <1>3, <1>5, <2>7
  <2>10. Starts(e.line, e.from)' /\ (e.marked <=> Marked(e.line))'
    BY <1>1, <2>6 DEF Starts, Marked, Chosen
  <2>11. "error" \notin message' => Holds(e, FileEnd(e.from) - e.from + 1)'
    <3>1. SUFFICES ASSUME "error" \notin message'
                   PROVE  Holds(e, FileEnd(e.from) - e.from + 1)'
      OBVIOUS
    <3>2. FileEnd(e.from)' = bytes  BY <2>6, <3>1 DEF FileEnd
    <3> QED  BY <1>1, <2>6, <3>2 DEF Holds
  <2>12. EntryRight(e, k)'
    BY <1>1, <2>6, <2>8, <2>9, <2>10, <2>11 DEF EntryRight
  <2>13. "error" \in message => "error" \in message'  BY <1>1
  <2>14. shown' \in Seq(Entry) /\ Len(shown') = Len(shown) + 1 /\ ShownRight'
    BY <2>3, <2>5, <2>7, <2>12, <2>13, AppendKeeps DEF ViewInv
  <2> QED  BY <1>1, <1>3, <1>5, <2>14
<1> QED  BY <1>1, <1>4, <1>5

LEMMA EndOfLineKeeps == ViewInv /\ EndOfLine => ViewInv'
<1> SUFFICES ASSUME ViewInv, EndOfLine PROVE ViewInv'
  OBVIOUS
<1>1. /\ viewing = "text" /\ bytes < ReadLimit /\ bytes + 1 \in file.newlines
      /\ viewing' = "line" /\ shown' = Printed /\ bytes' = bytes + 1 /\ line' = line + 1
      /\ UNCHANGED <<request, location, file, window, text, message>>
  BY DEF EndOfLine, LineBroken, AtNewline, LineEnds
<1>2. /\ bytes \in Nat /\ line \in Nat \ {0} /\ window.last \in Nat /\ window.first \in Nat \ {0}
      /\ file # Missing /\ file.length \in Nat /\ bytes <= file.length
      /\ file.newlines \subseteq 1 .. file.length
      /\ text.from \in Nat \ {0}
      /\ text.from <= bytes + 1 /\ text.from .. bytes \cap file.newlines = {}
      /\ Starts(line, text.from)
      /\ line <= window.last /\ message = {}
  BY <1>1, TextFacts
<1>3. file \in Files \cup {Missing}  BY DEF ViewInv, ViewTypes
<1>4. bytes + 1 <= file.length  BY <1>1, <1>2
<1>5. FileEnd(text.from) = bytes
  BY <1>1, <1>2, <1>3, LineEnd
<1>6. text.from <= file.length  BY <1>2, <1>4
<1>7. /\ shown' \in Seq(Entry) /\ ShownRight'
      /\ Len(shown') = IF line + 1 > window.first THEN line + 1 - window.first ELSE 0
  BY <1>1, <1>5, <1>6, PrintedKeeps
<1>8. ViewTypes'
  <2>1. bytes' \in Nat /\ line' \in Nat \ {0}  BY <1>1, <1>2
  <2> QED  BY <1>1, <1>7, <2>1 DEF ViewInv, ViewTypes, Entry
<1>9. WindowAt'
  BY <1>1, <1>2, <1>4, FileStays DEF ViewInv, WindowAt
<1>10. LineAt'
  <2>1. Starts(line + 1, bytes + 2)
    BY <1>1, <1>2, <1>3, StartsNext
  <2>2. Starts(line, bytes + 1)'
    <3>1. bytes' + 1 = bytes + 2 /\ line' = line + 1  BY <1>1, <1>2
    <3> QED  BY <1>1, <2>1, <3>1 DEF Starts
  <2>3. line' <= window'.last + 1  BY <1>1, <1>2
  <2>4. ShownUpTo(line)'  BY <1>1, <1>2, <1>7 DEF ShownUpTo
  <2> QED  BY <1>1, <1>2, <2>2, <2>3, <2>4 DEF LineAt
<1>11. EndAt'  BY <1>1 DEF EndAt
<1>12. LimitsAt'
  <2>1. text.used < LineLimit /\ line <= bytes + 1  BY DEF ViewInv, LimitsAt
  <2>2. bytes' <= ReadLimit /\ line' <= bytes' + 1  BY <1>1, <1>2, <2>1, LimitFacts
  <2> QED  BY <1>1, <1>2, <2>1, <2>2 DEF LimitsAt
<1> QED  BY <1>7, <1>8, <1>9, <1>10, <1>11, <1>12 DEF ViewInv

\* Something of the line has been read when something is shown of it.
LEMMA SomeText ==
  ASSUME ViewInv, viewing = "text"
  PROVE  text.used = 0 /\ ~text.truncated <=> text.from = bytes + 1
<1>1. /\ bytes \in Nat /\ text.from \in Nat \ {0} /\ text.from <= bytes + 1
      /\ text.truncated \in BOOLEAN /\ Holds(text, bytes - text.from + 1)
  BY TextFacts
<1> DEFINE m == bytes - text.from + 1
<1>2. m \in Nat /\ (m = 0 <=> text.from = bytes + 1)  BY <1>1
<1>3. text.used = (IF m < LineLimit THEN m ELSE LineLimit - 1) /\ (text.truncated <=> m >= LineLimit)
  BY <1>1 DEF Holds
<1> HIDE DEF m
<1>4. CASE m = 0
  <2>1. text.used = 0 /\ ~text.truncated  BY <1>3, <1>4, LimitFacts
  <2> QED  BY <1>2, <1>4, <2>1
<1>5. CASE m # 0
  <2>1. text.used # 0  BY <1>2, <1>3, <1>5, LimitFacts
  <2> QED  BY <1>2, <1>5, <2>1
<1> QED  BY <1>4, <1>5

LEMMA EndOfFileKeeps == ViewInv /\ EndOfFile => ViewInv'
<1> SUFFICES ASSUME ViewInv, EndOfFile PROVE ViewInv'
  OBVIOUS
<1>1. /\ viewing = "text" /\ bytes = file.length /\ viewing' = "closing"
      /\ shown' = IF text.used = 0 /\ ~text.truncated THEN shown ELSE Printed
      /\ UNCHANGED <<request, location, file, window, bytes, line, text, message>>
  BY DEF EndOfFile, LineBroken, AtEnd, LineEnds, Stop
<1>2. /\ bytes \in Nat /\ line \in Nat \ {0} /\ window.last \in Nat /\ window.first \in Nat \ {0}
      /\ file # Missing /\ file.length \in Nat
      /\ text.from \in Nat \ {0}
      /\ text.from <= bytes + 1 /\ text.from .. bytes \cap file.newlines = {}
      /\ Starts(line, text.from)
      /\ line <= window.last /\ message = {} /\ ShownUpTo(line)
  BY <1>1, TextFacts
<1>3. file \in Files \cup {Missing}  BY DEF ViewInv, ViewTypes
<1>4. \A n \in Nat : HasLine(n) => n <= line /\ (text.from = bytes + 1 => n < line)
  <2>1. line \in Nat /\ text.from \in Nat /\ text.from <= file.length + 1
        /\ text.from .. file.length \cap file.newlines = {}
    BY <1>1, <1>2
  <2> QED  BY <1>1, <1>2, <1>3, <2>1, LastLine
<1>5. shown' \in Seq(Entry) /\ ShownRight' /\ Complete'
  <2>1. CASE text.from = bytes + 1
    <3>1. shown' = shown  BY <1>1, <2>1, SomeText
    <3>2. ShownRight'  BY <1>1, <3>1, ShownStays DEF ViewInv
    <3>3. \A n \in Nat : HasLine(n) => n < line  BY <1>4, <2>1
    <3>4. \A n \in Nat : HasLine(n)' => n < line'  BY <1>1, <3>3, FileStays
    <3>5. ShownUpTo(line)'  BY <1>1, <1>2, <3>1 DEF ShownUpTo
    <3>6. Complete'  BY <3>4, <3>5 DEF Complete
    <3> QED  BY <3>1, <3>2, <3>6 DEF ViewInv, ViewTypes, Entry
  <2>2. CASE text.from # bytes + 1
    <3>1. shown' = Printed  BY <1>1, <2>2, SomeText
    <3>2. FileEnd(text.from) = bytes
      BY <1>1, <1>2, <1>3, LineEnd
    <3>3. text.from <= file.length  BY <1>1, <1>2, <2>2
    <3>4. /\ shown' \in Seq(Entry) /\ ShownRight'
          /\ Len(shown') = IF line + 1 > window.first THEN line + 1 - window.first ELSE 0
      BY <1>1, <3>1, <3>2, <3>3, PrintedKeeps
    <3>5. \A n \in Nat : HasLine(n) => n <= line  BY <1>4
    <3>6. \A n \in Nat : HasLine(n)' => n <= line'  BY <1>1, <3>5, FileStays
    <3>7. ShownUpTo(line + 1)'  BY <1>1, <1>2, <3>4 DEF ShownUpTo
    <3>8. Complete'  BY <3>6, <3>7 DEF Complete
    <3> QED  BY <3>4, <3>8
  <2> QED  BY <2>1, <2>2
<1>6. ViewTypes'
  BY <1>1, <1>5 DEF ViewInv, ViewTypes, Entry
<1>7. WindowAt'
  BY <1>1, FileStays DEF ViewInv, WindowAt
<1>8. EndAt'  BY <1>1, <1>2, <1>5 DEF EndAt
<1>9. LimitsAt'  BY <1>1 DEF ViewInv, LimitsAt
<1> QED  BY <1>1, <1>5, <1>6, <1>7, <1>8, <1>9 DEF ViewInv, LineAt

LEMMA ReadErrorKeeps == ViewInv /\ ReadError => ViewInv'
<1> SUFFICES ASSUME ViewInv, ReadError PROVE ViewInv'
  OBVIOUS
<1>1. /\ viewing = "text" /\ viewing' = "closing" /\ message' = {"error"}
      /\ shown' = IF text.used = 0 /\ ~text.truncated THEN shown ELSE Printed
      /\ UNCHANGED <<request, location, file, window, bytes, line, text>>
  BY DEF ReadError, LineBroken, LineEnds, Stop
<1>2. /\ bytes \in Nat /\ file.length \in Nat /\ bytes <= file.length
      /\ text.from \in Nat \ {0} /\ text.from <= bytes + 1
  BY <1>1, TextFacts
<1>3. shown' \in Seq(Entry) /\ ShownRight'
  <2>1. CASE text.from = bytes + 1
    <3>1. shown' = shown  BY <1>1, <2>1, SomeText
    <3>2. ShownRight'  BY <1>1, <3>1, ShownStays DEF ViewInv
    <3> QED  BY <3>1, <3>2 DEF ViewInv, ViewTypes, Entry
  <2>2. CASE text.from # bytes + 1
    <3>1. shown' = Printed  BY <1>1, <2>2, SomeText
    <3>2. text.from <= file.length  BY <1>2, <2>2
    <3> QED  BY <1>1, <3>1, <3>2, PrintedKeeps
  <2> QED  BY <2>1, <2>2
<1>4. ViewTypes'
  BY <1>1, <1>3 DEF ViewInv, ViewTypes, Entry
<1>5. WindowAt'
  BY <1>1, FileStays DEF ViewInv, WindowAt
<1>6. "limited" \notin message'  BY <1>1
<1> QED  BY <1>1, <1>3, <1>4, <1>5, <1>6 DEF ViewInv, LineAt, EndAt, LimitsAt

LEMMA CloseKeeps == ViewInv /\ CloseSource => ViewInv'
<1> SUFFICES ASSUME ViewInv, CloseSource PROVE ViewInv'
  OBVIOUS
<1>1. /\ viewing = "closing" /\ viewing' = "closed"
      /\ message' = IF shown = << >> /\ "limited" \notin message THEN message \cup {"empty"} ELSE message
      /\ UNCHANGED <<request, location, file, window, bytes, line, text, shown>>
  BY DEF CloseSource
<1>2. message \in {{"limited"}, {"error"}} \/ (message = {} /\ Complete)
  BY <1>1 DEF ViewInv, EndAt
<1>3. /\ "error" \in message => "error" \in message'
      /\ "limited" \in message' => "limited" \in message
  BY <1>1, <1>2
<1>4. EndAt'
  <2>1. CASE message \in {{"limited"}, {"error"}}
    <3>1. CutShort'  BY <1>1, <2>1 DEF CutShort
    <3> QED  BY <1>1, <3>1 DEF EndAt
  <2>2. CASE message = {} /\ Complete
    <3>1. Complete'
      <4>2. CASE line = window.last + 1 /\ ShownUpTo(line)
        <5>1. (line = window.last + 1)' /\ ShownUpTo(line)'  BY <1>1, <4>2 DEF ShownUpTo
        <5> QED  BY <5>1 DEF Complete
      <4>3. CASE ShownUpTo(line) /\ \A n \in Nat : HasLine(n) => n < line
        <5>1. ShownUpTo(line)'  BY <1>1, <4>3 DEF ShownUpTo
        <5>2. \A n \in Nat : HasLine(n)' => n < line'  BY <1>1, <4>3, FileStays
        <5> QED  BY <5>1, <5>2 DEF Complete
      <4>4. CASE ShownUpTo(line + 1) /\ \A n \in Nat : HasLine(n) => n <= line
        <5>1. ShownUpTo(line + 1)'  BY <1>1, <4>4 DEF ShownUpTo
        <5>2. \A n \in Nat : HasLine(n)' => n <= line'  BY <1>1, <4>4, FileStays
        <5> QED  BY <5>1, <5>2 DEF Complete
      <4> QED  BY <2>2, <4>2, <4>3, <4>4 DEF Complete
    <3>2. "empty" \in message' <=> shown' = << >>  BY <1>1, <2>2
    <3> QED  BY <1>1, <3>1, <3>2 DEF EndAt
  <2> QED  BY <1>2, <2>1, <2>2
<1>5. ShownRight'  BY <1>1, <1>3, ShownStays DEF ViewInv
<1>6. ViewTypes'  BY <1>1 DEF ViewInv, ViewTypes
<1>7. WindowAt'
  BY <1>1, FileStays DEF ViewInv, WindowAt
<1>8. LimitsAt'  BY <1>1, <1>3 DEF ViewInv, LimitsAt
<1> QED  BY <1>1, <1>4, <1>5, <1>6, <1>7, <1>8 DEF ViewInv, LineAt

LEMMA ViewSteps == ViewInv /\ [ViewNext]_viewVars => ViewInv'
<1> SUFFICES ASSUME ViewInv, [ViewNext]_viewVars PROVE ViewInv'
  OBVIOUS
<1>1. CASE UNCHANGED viewVars
  <2>1. UNCHANGED <<request, location, file, window, bytes, line, text, viewing, shown, message>>
    BY <1>1 DEF viewVars
  <2>2. ShownRight'  BY <2>1, ShownStays DEF ViewInv
  <2>3. ViewTypes' /\ LimitsAt'  BY <2>1 DEF ViewInv, ViewTypes, LimitsAt
  <2>4. WindowAt'  BY <2>1, FileStays DEF ViewInv, WindowAt
  <2>5. LineAt'
    BY <2>1 DEF ViewInv, LineAt, Starts, Holds, ShownUpTo
  <2>6. EndAt'
    BY <2>1 DEF ViewInv, EndAt, Complete, CutShort, ShownUpTo, HasLine, Starts, Chosen
  <2> QED  BY <2>2, <2>3, <2>4, <2>5, <2>6 DEF ViewInv
<1>2. CASE ViewNext
  BY <1>1, <1>2, ChooseKeeps, OpenKeeps, NextLineKeeps, ReadByteKeeps, LimitedKeeps, EndOfLineKeeps,
     EndOfFileKeeps, ReadErrorKeeps, CloseKeeps DEF ViewNext, ViewDone
<1> QED  BY <1>1, <1>2

\* When the view is closed, what is shown is the window as far as the file has it.
LEMMA ClosedShows ==
  ASSUME ViewInv, viewing = "closed", file # Missing, Chosen \in 1 .. FileCount, ~CutShort
  PROVE  /\ HasLine(Center) => \E k \in DOMAIN shown : shown[k].line = Center
         /\ "empty" \in message <=>
              \A n \in window.first .. file.length + 1 : HasLine(n) => n > window.last
<1>1. Complete /\ ("empty" \in message <=> shown = << >>)
  BY DEF ViewInv, EndAt
<1>2. /\ window.first \in Nat \ {0} /\ window.last \in Nat /\ line \in Nat \ {0}
      /\ shown \in Seq(Entry) /\ Len(shown) \in Nat /\ DOMAIN shown = 1 .. Len(shown)
  BY DEF ViewInv, ViewTypes, Entry
<1>3. file.length \in Nat
  BY FileFacts DEF ViewInv, ViewTypes
<1>4. Center \in Nat /\ window.first <= Center /\ Center <= window.last
  BY CenterInWindow DEF ViewInv, ViewTypes, WindowAt
<1>5. \A k \in 1 .. Len(shown) : shown[k].line = window.first + k - 1
  BY <1>2 DEF ViewInv, ShownRight
\* Of the lines of the window, those that the file has are shown.
<1>6. ASSUME NEW n \in Nat, window.first <= n, n <= window.last, HasLine(n)
      PROVE  n - window.first + 1 \in 1 .. Len(shown)
  <2>1. CASE line = window.last + 1 /\ ShownUpTo(line)
    BY <1>2, <1>6, <2>1 DEF ShownUpTo
  <2>2. CASE ShownUpTo(line) /\ \A j \in Nat : HasLine(j) => j < line
    <3>1. n < line  BY <1>6, <2>2
    <3> QED  BY <1>2, <1>6, <2>2, <3>1 DEF ShownUpTo
  <2>3. CASE ShownUpTo(line + 1) /\ \A j \in Nat : HasLine(j) => j <= line
    <3>1. n <= line  BY <1>6, <2>3
    <3> QED  BY <1>2, <1>6, <2>3, <3>1 DEF ShownUpTo
  <2> QED  BY <1>1, <2>1, <2>2, <2>3 DEF Complete
<1>7. HasLine(Center) => \E k \in DOMAIN shown : shown[k].line = Center
  <2> SUFFICES ASSUME HasLine(Center) PROVE \E k \in DOMAIN shown : shown[k].line = Center
    OBVIOUS
  <2> DEFINE k == Center - window.first + 1
  <2>1. k \in 1 .. Len(shown)  BY <1>4, <1>6
  <2>2. shown[k].line = window.first + k - 1  BY <1>5, <2>1
  <2>3. window.first + k - 1 = Center  BY <1>2, <1>4
  <2> QED  BY <1>2, <2>1, <2>2, <2>3
<1>8. ASSUME shown = << >>, NEW n \in window.first .. file.length + 1, HasLine(n)
      PROVE  n > window.last
  <2>1. SUFFICES ASSUME n <= window.last PROVE FALSE
    BY <1>2, <1>3
  <2>2. n \in Nat /\ window.first <= n  BY <1>2, <1>3
  <2>3. n - window.first + 1 \in 1 .. Len(shown)  BY <1>6, <1>8, <2>1, <2>2
  <2>4. Len(shown) = 0  BY <1>8
  <2> QED  BY <1>2, <2>2, <2>3, <2>4
<1>9. ASSUME shown # << >>
      PROVE  \E n \in window.first .. file.length + 1 : HasLine(n) /\ n <= window.last
  <2>1. Len(shown) # 0  BY <1>2, <1>9
  <2>2. 1 \in 1 .. Len(shown)  BY <1>2, <2>1
  <2>3. /\ Starts(shown[1].line, shown[1].from)
        /\ shown[1].from <= file.length /\ 1 <= shown[1].from
        /\ shown[1].line <= file.length + 1
    BY <1>2, <2>2 DEF ViewInv, ShownRight
  <2>4. shown[1].line = window.first
    <3>1. window.first + 1 - 1 = window.first  BY <1>2
    <3> QED  BY <1>5, <2>2, <3>1
  <2>5. shown[1].from \in Nat
    <3>1. shown[1] \in Entry  BY <1>2, <2>2
    <3> QED  BY <3>1 DEF Entry
  <2>6. shown[1].from \in 1 .. file.length  BY <1>3, <2>3, <2>5
  <2>7. HasLine(window.first)  BY <2>3, <2>4, <2>6 DEF HasLine
  <2>8. window.first \in window.first .. file.length + 1 /\ window.first <= window.last
    BY <1>2, <1>3, <1>4, <2>3, <2>4
  <2> QED  BY <2>7, <2>8
<1>10. ASSUME NEW n \in window.first .. file.length + 1, n <= window.last PROVE ~(n > window.last)
  BY <1>2, <1>3, <1>10
<1> QED  BY <1>1, <1>7, <1>8, <1>9, <1>10

\* source_view shows the lines of the file under their own numbers, the one in the
\* middle among them, and reads and stores no more than its limits.
THEOREM SourceIsShown == ViewSpec => []ShowsSource
<1>1. ViewSpec => []ViewInv
  BY ViewStarts, ViewSteps, PTL DEF ViewSpec
<1>2. ViewInv => ShowsSource
  <2> SUFFICES ASSUME ViewInv PROVE ShowsSource
    OBVIOUS
  <2>1. ShowsLinesOfFile
    <3>1. SUFFICES ASSUME NEW k \in DOMAIN shown
                   PROVE  /\ Starts(shown[k].line, shown[k].from)
                          /\ "error" \notin message =>
                               Holds(shown[k], FileEnd(shown[k].from) - shown[k].from + 1)
                          /\ shown[k].marked <=>
                               request.command = "source"
                               /\ location = [file |-> Chosen, line |-> shown[k].line]
                          /\ shown[k].line = window.first + k - 1
      BY DEF ShowsLinesOfFile, Holds
    <3>2. location = [file |-> location.file, line |-> location.line]
      <4>1. location \in Locations  BY DEF ViewInv, ViewTypes
      <4> QED  BY <4>1 DEF Locations, NoLocation
    <3>3. \A n : location = [file |-> Chosen, line |-> n] <=> location.file = Chosen /\ location.line = n
      BY <3>2
    <3> QED  BY <3>3 DEF ViewInv, ShownRight, Marked
  <2>2. CenterShown
    <3>1. SUFFICES ASSUME viewing = "closed", file # Missing, Chosen \in 1 .. FileCount
                   PROVE  /\ window.first <= Center /\ Center <= window.last
                          /\ ~CutShort /\ HasLine(Center) => \E k \in DOMAIN shown : shown[k].line = Center
                          /\ ~CutShort => ("empty" \in message <=>
                               \A n \in window.first .. file.length + 1 : HasLine(n) => n > window.last)
      BY DEF CenterShown
    <3>2. window.first <= Center /\ Center <= window.last
      BY <3>1 DEF ViewInv, WindowAt
    <3> QED  BY <3>1, <3>2, ClosedShows
  <2>3. StaysInLimits
    <3>1. bytes \in Nat /\ line \in Nat  BY DEF ViewInv, ViewTypes
    <3> QED  BY <3>1, LimitFacts DEF ViewInv, LimitsAt, StaysInLimits
  <2> QED  BY <2>1, <2>2, <2>3 DEF ShowsSource
<1> QED  BY <1>1, <1>2, PTL
=============================================================================
