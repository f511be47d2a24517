------------------------------ MODULE MCLoaders ------------------------------
(* The readers of program files, one of them at a time.  Files around three   *)
(* doublings of the buffer; RAMs of up to three words and invalid ones; up to  *)
(* three program headers that overlap, touch, are empty, end in BSS or hold    *)
(* the entry, and one for each other test; two sections of a file of twenty    *)
(* bytes, either of which may be the attributes.                               *)
EXTENDS ProgramInput, ProgramReaders, ProgramElf, ElfSections

VARIABLE active  \* which of them is called

loaderVars == <<inputVars, readerVars, elfVars, sectionVars, active>>

\* Those that are not called are as after a call that failed at once.
InputIdle ==
  /\ file = [length |-> 0, limit |-> 1, position |-> 0]
  /\ buffer = [data |-> << >>, capacity |-> 0, allocated |-> FALSE]
  /\ step = "done" /\ answer = "no memory"
ReadersIdle ==
  /\ asked = [size |-> 0, load_address |-> 0, entry |-> 0]
  /\ text = << >> /\ building = NoProgram /\ given = OldProgram /\ held = {"old"}
  /\ point = "done" /\ outcome = [ok |-> FALSE, line |-> 0, message |-> "address"]
ElfIdle ==
  /\ request = [size |-> 0, entry |-> 0] /\ segments = << >> /\ copied = 0
  /\ scan = [lowest |-> 0, highest |-> 0, executable |-> FALSE]
  /\ next = NoProgram /\ output = OldProgram /\ owned = {"old"}
  /\ stage = "done" /\ result = [ok |-> FALSE, message |-> "size"]
SectionsIdle ==
  /\ left = 0 /\ section = [start |-> 0, length |-> 0]
  /\ offset = 0 /\ end = 0 /\ p = 0 /\ subend = 0 /\ read = NoRead
  /\ place = "done" /\ verdict = "ok"

Init ==
  \/ active = "input" /\ InputInit /\ ReadersIdle /\ ElfIdle /\ SectionsIdle
  \/ active = "readers" /\ InputIdle /\ ReadersInit /\ ElfIdle /\ SectionsIdle
  \/ active = "elf" /\ InputIdle /\ ReadersIdle /\ ElfInit /\ SectionsIdle
  \/ active = "sections" /\ InputIdle /\ ReadersIdle /\ ElfIdle /\ SectionsInit

ReadInput == active = "input" /\ InputNext /\ UNCHANGED <<readerVars, elfVars, sectionVars, active>>
ReadProgram == active = "readers" /\ ReadersNext /\ UNCHANGED <<inputVars, elfVars, sectionVars, active>>
ReadElf == active = "elf" /\ ElfNext /\ UNCHANGED <<inputVars, readerVars, sectionVars, active>>
ReadSections == active = "sections" /\ SectionsNext /\ UNCHANGED <<inputVars, readerVars, elfVars, active>>

Next == ReadInput \/ ReadProgram \/ ReadElf \/ ReadSections
\* The loops call nothing that waits.
Spec == Init /\ [][Next]_loaderVars /\ WF_loaderVars(ReadInput) /\ WF_loaderVars(ReadSections)

\* The loops over the file end whatever it holds: each round of program_input_bytes
\* enlarges the buffer, and each record of the attribute parser moves its cursor.
Returns == InputReturns /\ SectionsReturn
-----------------------------------------------------------------------------
MCLimits == 4 .. 17
MCFileLengths == 0 .. 19

MCRequests ==
  [size : {0, 4, 6, 8, 12}, load_address : {0, 2, 4, 8, 12}, entry : {0, 2, 4, 8, 12}]
MCWords == {4660, 43981}
MCFileSizes == 0 .. 13
MCContent(position) == position + 1

MCRamSizes == {6, 12}
MCEntries == {0, 2, 4}
Header(type, start, address, physical, filesz, memsz, executable, align) ==
  [type |-> type, offset |-> start, address |-> address, physical |-> physical,
   filesz |-> filesz, memsz |-> memsz, executable |-> executable, align |-> align]
MCHeaders ==
  {Header(1, 3, a, a, 4, m, x, 1) : a \in {0, 2, 4, 8}, m \in {4, 6}, x \in BOOLEAN}
  \cup {Header(1, 0, a, a, f, m, TRUE, 1) : a \in {0, 2, 4, 8}, f \in {0, 2}, m \in {0, 2, 4}}
  \cup {Header(2, 0, 0, 0, 0, 0, FALSE, 0), Header(4, 0, 0, 0, 4, 4, FALSE, 0),
        Header(1, 18, 0, 0, 4, 4, TRUE, 1), Header(1, 21, 0, 0, 0, 4, TRUE, 1),
        Header(1, 0, 0, 4, 4, 4, TRUE, 1), Header(1, 0, 0, 0, 4, 4, TRUE, 3),
        Header(1, 2, 4, 4, 4, 4, TRUE, 4), Header(1, 0, 4, 4, 4, 4, TRUE, 4)}

MCNumbers == {0, 1, 4, 5, 6, 9, 10, 12, 15, 19, 20, 21}
=============================================================================
