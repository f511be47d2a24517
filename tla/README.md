# A TLA+ model of the RV32I teaching simulator

The repository is a C program that loads a RISC-V (RV32I) program, executes it
one instruction at a time and lets a user watch it, in batch mode or at a
prompt; beside it stand a small runtime for guests and a tool that builds them.
This directory holds TLA+ modules translated from the source, the TLC
configurations that check them on small instances, and TLAPS proofs that hold
for every value of the constants.

Paths below are relative to the repository, e.g. `src/cpu.c:179`. Run the tools
in this directory:

    tlc -workers 2 -config MCMachine.cfg MCMachine.tla
    tlapm MonitorProofs.tla

## 1. The system

| Component | State | Operations | Interacts with |
| --- | --- | --- | --- |
| Guest RAM (`src/memory.c`) | per owner a pointer and a size; the host heap | init, destroy, reset, copy, clone, read and write of 8, 16, 32 bits | `calloc` may fail; owned by programs and machines |
| Instruction decoder (`src/instruction.c`) | none | fields, immediates, kind of a word | called by the CPU and the disassembler |
| Disassembler (`src/disassembly.c`) | none | text of an instruction | called by the trace and `disasm` |
| CPU step (`src/cpu.c`) | 32 registers, program counter, retired count, halted flag | reset, read and write a register, one attempt with its record | reads and writes RAM, decodes |
| Machine controller (`src/machine.c`) | CPU, RAM, a pristine image, loaded/exited/exit code | init, destroy, load, reset, stop, step, run | calls `should_stop` before and `trace` after each attempt |
| Program loaders (`src/program.c`, `program_io.c`, `program_elf.c`) | the program being built, the file buffer, cursors into the file | read a file within a limit; text words, raw binary, ELF | hand a `Program` to `machine_load`; stdio and `calloc` may fail |
| Debug information (`src/debug_info.c`) | line ranges sorted by address with a running maximum end, symbols, files | read (libdw, libelf), look up an address, look up a line | asked by the trace and by `where`, `source` |
| Source view (`src/source_view.c`) | an open file, a line buffer | a window of lines around a location or a line | called by the monitor |
| Monitor (`src/monitor.c`) | options; limit, trace option, last record, last source label; a flag set by a signal handler | start, batch run; reading commands; step, run, stop, reset, where, source and others | acquires and releases all of the above; SIGINT arrives at any time |
| Guest runtime (`runtime/`) | none | memcpy, memmove, memset, memcmp, startup | runs inside the guest |
| Guest build tool (`tools/build_guest.py`) | a temporary directory, five artifacts | builds a guest ELF and what goes with it | drives a cross compiler, may fail or be killed |

The simulator is single-threaded. What makes it hard is not parallelism but

* **partial failure**: an attempt can be refused at nine places; an allocation, a
  read or a close can fail between two others; a text may turn out wrong in its
  last line. Nothing may be half done, and nothing lost;
* **one asynchronous actor**: the user's Ctrl-C, handled between any two steps and
  in the middle of a read;
* **numbers that a file controls**: lengths of segments, of attribute records, of
  lines, line-program rows in any order of addresses;
* **accounting**: attempts, retirements, limits and the exit status over any
  sequence of steps, runs, stops, resets and loads;
* **stale state**: the record, the source label and the exit status outlive the
  call that made them;
* **numeric edges**: unsigned subtractions that guard each other, sign bits,
  immediates in four pieces, buffers that double up to a limit;
* **a kill between two moves**, in the build tool, which is the one part that
  persists anything.

What makes each part correct:

* *RAM*: no dangling, shared or lost block; failed calls change nothing; a word
  reads back as written, and no other byte moves.
* *Decoder and disassembler*: the decoder inverts the encoding and accepts no other
  word; the text of an instruction assembles to its word again.
* *CPU*: an attempt retires one instruction or leaves everything as it was; the
  record and the trap describe exactly what happened.
* *Machine*: what it loads it can run and reset; its counts add up; the limit is
  exact; an exit is final and truthful; reset equals reload.
* *Loaders*: what they accept is the whole file, in its place, and `machine_load`
  accepts it; they refuse exactly what they should; a failure keeps the old program.
* *Debug information*: the table is the line program, and a lookup names a row in force.
* *Monitor*: commands are lines; a start is what was asked for or is undone; runs
  end; Ctrl-C stops the program and not the monitor; the batch status and the
  prompt tell the truth; source lines shown are those of the file.
* *Runtime and build tool*: the memory functions do what their names promise; a
  failed compilation touches no previous artifact.

## 2. Modules

| Module | Models | Role |
| --- | --- | --- |
| `MemoryAccess` | sizes, access validity, byte layout | operators, used by `Memory`, `Cpu`, `Machine`, the loaders |
| `Memory` | owners, heap, every call of `memory.c` | detailed specification |
| `MachineImages` | `machine_load`, `machine_destroy`, `machine_reset` as calls of `memory.c` | extends `Memory`; takes apart what is one step in `Machine` |
| `MemoryValue` | the promise of `memory.c`: independent arrays | abstract specification |
| `Instruction` | `instruction.c`: fields, kinds, formats, immediates | operators on sets of bits |
| `Encoding` | the encoder of the tests; all words one bit away | reference of `Instruction` |
| `Bits` | the bits of a number, the number of bits: what C says of unsigned integers | operators, used by `Alu` and `Disassembly` |
| `Disassembly` | `disassembly.c`: which operands, in which order | operators, over `Encoding` |
| `Alu` | shifts, comparisons, arithmetic of `execute()` | operators on words of `XLEN` bits |
| `Operands` | every pair of operands; what the operations mean for integers | reference of `Alu` |
| `Cpu` | one attempt, stage by stage | detailed specification |
| `CpuContract` | the promise of `cpu_step`: all or nothing | abstract specification of one attempt |
| `ProgramImage` | `Program`, the tests of `machine_load` | shared by loaders and `Machine` |
| `Machine` | the controller, over `CpuContract` | composed by `Monitor` |
| `ProgramFile` | the file and its ranges | shared by the loaders |
| `ProgramInput` | `program_input_bytes`, call by call of stdio | used by `ProgramReaders`, `ProgramElf` through what it delivers |
| `ProgramReaders` | `program_read_words`, `program_read_binary` | detailed specification |
| `ProgramElf` | `load_elf` segment by segment | detailed specification |
| `ElfSections` | section table, attribute records, `uleb` | detailed specification |
| `DebugLines` | line rows to the table of ranges | detailed specification |
| `DebugLookup` | `debug_info_lookup`, its two loops | detailed specification |
| `DebugInfo` | the lookup in the table that was read | composes `DebugLines` and `DebugLookup` |
| `Monitor` | the prompt's commands, the batch run, SIGINT | extends `Machine` |
| `CommandInput` | how `interactive()` reads lines | detailed specification |
| `Startup` | `monitor_main` before and after the run | detailed specification |
| `SourceView` | `source_view_lines` and the choice of its arguments | detailed specification |
| `GuestMemory` | `runtime/memory.c`, BSS loop of `start.S` | detailed specification |
| `GuestBuild` | `build()` of `build_guest.py` | detailed specification |
| `*Proofs` | eight modules: `MemoryAccess`, `Memory`, `Cpu`, `Monitor`, `Program`, `Debug`, `Terminal`, `Guest` | theorems (section 4) |
| `MC*` | | instances for TLC (section 3) |

### How the state corresponds to the code

*Memory.* `owner[o]` is a `Memory` structure, `heap[b]` the contents of the block
that `calloc` returned, an empty function once it is freed. Each call is one
action, since no callback interrupts it. A call that the code refuses for its
arguments and one whose `calloc` fails return the same, so `Refuse("init")` and
the failing disjunct of `MemoryClone` are always possible. Arguments include
`NULL`, also where a read is to put its value. `ret` is the value returned, and the
value read. `MemoryMove` is the structure assignment from a local to a destroyed owner.

*MachineImages.* A machine owns two memories, `Ram` and `Pristine`, and the structure
`next` on the stack of `machine_load` owns two more. `load` is the call in progress: each
`memory_clone`, each `memory_destroy` and each member of `*machine = next` is an action,
and either clone may fail. `before` is history: the images when the call began. Programs
are built and destroyed between the calls, the guest stores and `machine_reset` restores.

*Instruction, Encoding, Disassembly.* A word is the set of its bits that are one, so
that a mask is an intersection and a shift moves the members. `Encoding` translates
`tests/support/encoding.h` and keeps a `sample` and a `word` that is its encoding
or differs from it in one bit. `Disassembly` gives the operands as values; an
assembler's view of them is the reference.

*Bits, Alu, Operands.* A word is here a number, and `&`, `|` and `^` combine the sets
of bits of two numbers (`BitsOf`, `NumberOf`). `Alu` writes each operation as the code
does, with its masks and flipped sign bits. `Operands` holds a pair of words and states
the same operations on the integers that words stand for.

*Cpu.* `execute()` is cut into the stages of its code: `fetch`, `decode`,
`execute`, `target`, `address`, `access`, `write`, `retire`, `return`. `cpu` and
`memory` change at the stage that changes them in C, so the order of checks and
effects is part of the model; `record` is the `CpuStepRecord`, `local` holds
`value`, `next_pc` and `transfer`. `entry` is a history variable: the state when
the attempt began. `reg.value` (what was discarded by a write to x0) and
`trap.cause` (a function of the result) are left out. `Decode` and `AluResult`
are parameters; the instance for TLC gives them a table of instructions and the
operators of `Alu`.

*Machine.* `machine` is `struct Machine`, `run` the activation of `machine_run` (its
limit, whether the loop has polled `should_stop`, its `MachineRun`) and, once it is
inactive, the result it returned. `machine_run` is three actions, `RunPoll`,
`RunAttempt`, `RunLimit`, because its caller and a signal can act at the polls;
everything else is one action. A load that is refused and one whose clones fail look
the same here; `MachineImages` has the steps in between. A RAM's contents are a model
value: the controller only copies and compares RAMs. An attempt is any element of
`Outcomes`, i.e. any behaviour the contract of the CPU allows. `hist` holds the image
last loaded and the retirements reported since, which the properties relate to
`initial` and `instruction_count`.

*ProgramInput.* `buffer` is the block, its capacity and what was stored; `file`
holds the length, the limit and the position of the stream. `fread`, the `fgetc`
that reads one byte ahead and the `realloc` are steps of their own, each of which
may fail. The byte at a position is given by `Content`.

*ProgramReaders, ProgramElf.* `building`, `next` are the `Program` on the stack;
`given`, `output` the caller's; `held`, `owned` the allocations and the file not yet
released. A text is read line by line, a line being what the scanner makes of it
(blank, a word, or one of the ways to be broken). An ELF file is the sequence of
program headers that `scan` meets, in `segments`; `Objection` is the first test that
refuses one, in the order of the code. What the properties ask of a refusal is said of
addresses instead (`FileIsWrong`): ranges that meet, bytes outside the file. The
copies come after all tests, one action per segment. Where these call
`program_input_bytes` they use what `ProgramInput` proves of it: exactly the files
within the limit.

*ElfSections.* What the bytes say is left open: a length field is any of
`Numbers`. Modelled are the cursors `offset`, `end`, `p`, `subend`, and the tests that
keep them inside; `read` is the range that was examined last.

*DebugLines, DebugLookup.* `rows` are the rows libdw delivers, with their unit;
`previous` and `pending` the open range; `lines` the growing array; `output` the
caller's table. `qsort` may leave equal ranges in any order. The lookup's variables
are those of the function, `left`, `right`, and `phase` tells the loop.

*Monitor.* `ctl.phase` is the program point (the header of the module lists the
lines), `monitor` is `struct Monitor`, `sig` the flag `interrupted`, the
disposition of SIGINT and the number of signals sent. `Signal` may happen between
any two other actions. `seen` is history: the label the user saw last, how many
attempts followed the request, whether a request came before the run. `last`
keeps of the record what the prompt relates to the machine. `Location` stands
for `debug_info_lookup`.

*CommandInput.* The standard input is given whole, a character being its position;
`first .. at` is the content of the buffer; `stdin` holds the two indicators of
stdio. `told` is history: the commands dispatched, and where a Ctrl-C or an error
cut a line. There is one Ctrl-C: the next one kills the monitor.

*Startup.* `argv` is a sequence of options with their values, `chosen` the local
variables of `monitor_main`, `held` what is acquired and not yet released. After
the options each step succeeds or fails.

*SourceView.* A file is its length and the positions of its newlines; `text` is the
buffer of `fgets`, `line` the counter, `shown` what was printed with its number.

*GuestMemory.* `call` is the function that runs, with its arguments, `i` its index;
each round of a loop is an action. `before` is history: the RAM at the call.

*GuestBuild.* An artifact is the number of the command it was built by; `work` is
the temporary directory, `outputs` the destinations. `os.replace` is one step.
`Killed` may come at any of them.

`signal()` is modelled as the build has it. The `Makefile` (line 42) compiles with
`-std=c17` and no feature macro; with glibc that selects the System V
semantics: the handler is reset to the default when the signal is delivered, and
an interrupted read is not restarted. `monitor.c` relies on the second (the
`EINTR` path at line 345) and suffers from the first (section 5).

### Composition

`Monitor` extends `Machine`, whose attempts are those of `CpuContract`, which `Cpu`
is proved to keep. The loaders and `Machine` share `ProgramImage`: that the one's
output passes the other's test is a property of each loader. `DebugInfo` composes
`DebugLines` and `DebugLookup`: a lookup is made in the table that was read, besides
those in any other sorted table.

`MachineImages` extends `Memory`: its steps are calls of `memory.c`, so that what
`Memory` promises, `HeapSound` and `ImplementsValue`, holds of them as well.

Other instances put together components that do not interact: `MCMemory`, `MCLoaders`,
`MCGuest` and `MCTerminal` have a variable `active` that names the component that
runs. The others rest in a state that a failed or empty call leaves, in which their
properties hold, so that every property speaks of the active one. This saves
instances, nothing more: no component's states are restricted by it.

## 3. Runs

| Run | States | Shows |
| --- | --- | --- |
| `memory` | 72 thousand | `TypeOK`, `HeapSound`, `LoadIsAllOrNothing` and the refinement `ImplementsValue` |
| `alu` | 137 thousand | `BitsAreArithmetic`, `DecoderInvertsEncoder`, `TextReassembles` |
| `cpu` | 570 thousand | `KeepsContract`, `JumpsStayAligned`, `AttemptExplained` |
| `machine` | 48 thousand | `LoadedIsRunnable`, `ExitConsistent`, `RunsAccounted`, `LimitIsExact`, `ResetIsReload` |
| `batch` | 16 thousand | `BatchStatusTruthful`, `StopsAtNextBoundary`, `BatchTerminates` |
| `interactive` | 1.1 million | `PromptIsCurrent`, `LabelIsTruthful`, `EveryRunReturns` |
| `loaders` | 235 thousand | `FileIsRead`, `ReadersDeliver`, `ReadersFailCleanly`, `ElfImageInPlace`, `ElfRefusesExactly`, `ParserStaysInside`, `Returns` |
| `debug` | 1.9 million | `TableOfRows`, `FindsLastCovering`, `LookupNamesRow` |
| `guest` | 98 thousand | `CallsAsPromised`, `ArtifactsAccounted` |
| `terminal` | 1.8 million | `InputIsObeyed`, `SetupSound`, `ShowsSource`, `LeavesAtEnd` |
| `second_interrupt` | violation | `InterruptIsARequest` |
| `early_interrupt` | violation | `EarlyRequestStops` |

A property named here is often a conjunction of parts that are defined beside it,
each with its own comment: `HeapSound` is that nothing dangles, is shared or lost;
`SetupSound` that the options are obeyed, sizes do not wrap, all is released and
the status is right.

Bounds, and why they are enough:

* `memory`: two owners (a source and a destination, or one in both roles), three
  blocks (both owners hold one while `memory_clone` allocates), RAM of one or two
  words, bytes of one bit. Sizes and addresses include one that each test
  refuses. Owners and blocks are symmetric. The machine has a program and five blocks,
  as many as a load needs that replaces a machine: two old images, two new ones and the
  program. Images differ in their first word only.
* `alu`: words of 8 bits, every pair of operands. Words of 32 bits for the decoder:
  every kind, registers and immediates with the bits at the edges of their fields
  and of their pieces, and every word one bit away from each.
* `cpu`: bytes of two bits, so words of 8 bits; a RAM of two words; three
  registers. The word at address 0 ranges over all 256 words, which decode to all
  instructions with six operand rows; registers hold values at the boundaries of
  the RAM, the sign and the word. `RetirementBound` stops after two retirements,
  so that the counter wraps and one more follows; Begin, Halt, Resume, Reset and
  register writes come between.
* `machine`: the two registers `machine.c` reads, values 0 and 93, two program
  counters, two RAM contents, a count modulo 3, limits 0, 1 and 3. Eight
  programs are refused, one by each test of `machine_load`; four are accepted.
* `batch`, `interactive`: one program that loads and one that does not, two
  addresses of which one has a source line, exit codes 0, 93 and 349. At most
  two signals (batch) or one (interactive): a second signal kills, so more add
  nothing.
* `loaders`: a first block of two bytes and limits of 4 to 17, so that the buffer
  doubles three times and meets the limit exactly, one short and one beyond; files
  up to two longer than that. RAMs of up to three words, load addresses and entries
  that are aligned or not and inside or not, texts of up to five lines and binaries
  one byte longer than the RAM. Up to three program headers that overlap, touch, are
  empty, end in BSS or hold the entry, and one for each other test; copied bytes and
  gaps differ. Two sections in a file of twenty bytes with lengths from 0 to one
  past its end.
* `debug`: four rows make two sequences or a line, a line zero and two ends;
  addresses reach one beyond the RAM; at most two ranges of capacity one, so that
  the array grows once and is refused once. Besides, every sorted table of up to
  four ranges over addresses 0 to 4, nested, equal, touching or apart: four are
  enough for a range that covers the address behind two that do not.
* `guest`: a RAM of six bytes; distinct bytes show every misplaced one, and bytes
  on either side of the sign bit every order of `memcmp`; all regions and counts,
  and values that `memset` must cut. Four builds, each ending at any step.
* `terminal`: a buffer of three characters and inputs of seven, so that a line fits
  exactly, is one too long, is too long twice over, and another follows; up to one
  NUL. Four options, so that each may be repeated, out of order, or lack its value.
  Files of six bytes with a read limit of five and lines of two bytes; line numbers
  at the start, past the end and at the largest number.

Fairness. `MonitorSpec` assumes weak fairness of the program's own steps
(`ProgramStep`): a process that can run does. Nothing is assumed of the user or of
signals, who may stay silent for ever. `BatchTerminates` and `EveryRunReturns`
hold under it for any guest, because each attempt either counts against the
limit or ends the run. In `loaders` weak fairness of `ReadInput` and `ReadSections`
says that loops which wait for nothing but a regular file go on: `Returns`. In
`terminal` it is assumed of `TypeCommands /\ ReadCommand` only: the characters of
a finite input, and its end, are delivered; errors and Ctrl-C are not. The safety
specifications have no fairness. Deadlock is checked in every run: after the end
an explicit action stutters.

Each property of a passing run has a mutant, a plausible bug written beside the
definition it replaces (`RefuseTargetAfterLink`, `ClonePristineUntested`, ...),
under which TLC finds the property violated.

## 4. Proofs

Every safety invariant and action property of the passing runs is proved for all
values of the constants; section 4.3 names what is left to TLC.

### 4.1 Assumptions

Each is stated in the module that declares the constants, and TLC evaluates it in
the runs.

* Of the machine: a byte has at least two values, sizes are natural numbers, `Null`
  is no owner and no block, and the decoder and the ALU yield instructions and words
  (`ByteBaseAssumption`, `MaxSizeAssumption`, `NullAssumption`, `DecodeAssumption`,
  `AluAssumption`, `CpuAssumption`, `MachineAssumption`). For the operators of
  `Instruction` and `Alu` what `DecodeAssumption` and `AluAssumption` say is proved
  (`DecodeYieldsInstructions`, `AluYieldsWords`). The width of a word is 2,
  4, 8, 16 or 32 bits (`XLENAssumption`): the shift amount is masked with `XLEN - 1`,
  which is a remainder only for a power of two. `MonitorAssumption` has
  `1 \in Limits`, because `step` runs with the limit 1.
* Of buffers: a line buffer holds a character and its terminator
  (`CommandInputAssumption`, `SourceViewAssumption`), a first block is not empty
  (`ProgramInputAssumption`, `LinesAssumption`). The read limit of a source file lies
  below the largest `unsigned`, so that counting its lines does not wrap
  (`SourceViewAssumption`).
* Of inputs: positions and lengths are natural numbers and newlines lie in their file;
  nothing is assumed of what a program header, a section, a row of the line
  program or an option says beyond its type (`ElfAssumption`, `SectionsAssumption`,
  `ReadersAssumption`, `LinesAssumption`, `StartupAssumption`). The instructions that
  are encoded are some of those that can be written (`EncodingAssumption`).

### 4.2 Arguments

* `MemoryAccessProofs`: `WriteThenRead` and `ReadIsLittleEndian`, byte arithmetic in
  an arbitrary base. The argument is the division theorem, unrolled for the four
  bytes of a word (`ModPlace`, `ByteAt`).
* `MemoryProofs`: the invariant `IInv` (types, no dangling, sole ownership, no leak)
  is inductive. The four need each other: a write keeps the other owners' arrays
  only because ownership is sole; a release leaks nothing only because every live
  block had an owner. Every action is one of three heap updates, store, release,
  replace, each with its lemma. `MemoryImplementsValue` then maps every step to a
  step of `MemoryValue` or to a stutter.
* `MemoryProofs`, the load of a machine: for any number of blocks and programs. `IImages`
  adds to `IInv` what each point of `machine_load` knows: that the old images are
  paired or gone (`OldImages`), which parts of `next` exist and that they equal the
  program (`NextImages`). It speaks of the abstract memories; what a call of `memory.c`
  does to them is one lemma for each call (`StoreEffect`, `CopyEffect`, ...), the same
  that the refinement uses. `MachineLoadIsAllOrNothing` follows.
* `CpuProofs`: for every decoder that yields instructions and every ALU that yields
  words, any RAM size, number of registers and counter width. `KeepsContract` speaks
  of the end of an attempt; its `IInv` adds what holds at each stage: nothing has
  changed before the access (`AllOrNothing`), and what the stage knows of its
  instruction (`Decoded`: the word fetched exists, the width of the access is that
  of its kind). One lemma per action, and one (`FaultKeepsIInv`) for the way all
  faults return. `CpuStaysAligned` needs bytes with an even number of values, so
  that a word count is a multiple of four: its invariant `Targets` follows the next
  program counter from the stage that computes it to retirement.
  `CpuAttemptExplained` adds `Told`: what the record says after each stage is true of
  what has happened since the attempt began, and each part of it is still blank
  before its stage. Register 0 is part of it, since a discarded write is recorded
  as what the register holds. So the CPU keeps the contract that `Machine` assumes
  of it.
* `MonitorProofs`, the machine: `IInv` joins types, `LoadedIsRunnable`,
  `ExitConsistent`, the two parts of `RunsAccounted` and the link between the machine
  and the image last loaded; one lemma per action. `ResetIsReload` and
  `LimitIsExact` are action properties that follow from it.
  `OutcomesAreTheContract` shows that the set TLC chooses from is the relation
  `Attempt`.
* `MonitorProofs`, the monitor: `MonitorDrivesMachine` is the refinement
  `MonitorSpec => Spec`, every step of the prompt, the batch run and the signal being
  a step of the machine or none, so that all that is proved of the machine holds
  under it. `MonitorInv` adds to `IInv` what each program point knows: whether a
  run is active and a program loaded (`PhaseInv`), how the end of a batch run and
  the machine agree (`BatchInv`), that only an attempt already polled for follows a
  request (`LateInv`), which label and record are those of the machine (`LabelInv`,
  `RecordInv`), and that the trace of a `step` is switched off again (`TraceInv`). It
  holds for any number of signals.
* `ProgramProofs`, the file buffer: for every file, limit and first block. `InputInv`
  says that the bytes stored are the prefix of the file up to its position
  (`Stored`), one byte ahead of it or not according to the step, that the capacity
  stays between them and the limit, and what each answer means (`Answered`). Without
  the byte read ahead "too long" would not follow from a full block.
* `ProgramProofs`, the readers: for every text and binary. `ReadersInv` says after each
  line that the words so far are in place one after the other and all else is zero
  (`TextSoFar`), that no earlier line is wrong, and what is held (`FileTaken`). That
  the program can be loaded follows from the tests before the first line, of the
  addresses, and the one after the last, that the entry lies in what was read.
* `ProgramProofs`, ELF: for every sequence of program headers and every file. `ElfInv`
  carries through the scan that accepted segments fit (`SegmentsFit`), are pairwise
  apart (`Disjoint`), and that some of them holds the entry between the bounds
  (`Bounds`); through the copying, which bytes are in place and that all others are
  zero (`Building`): a copy disturbs no earlier one only because of `Disjoint`. Three
  further invariants rest on it: `Span` (the bounds are attained by segments),
  `ReasonInv` (every header behind the scan is free of faults, a segment that holds
  the entry has been noticed, and each answer so far is justified) and `Owns` (what is
  held at each stage). A refusal is justified by the header that met it
  (`ScanReason`), or by all of them when none holds the entry (`NotRunnableIsWrong`).
  `ParserInv` is that of the attribute section: the cursors are nested, `p <= subend
  <= end <= Size`, for all lengths that the records claim.
* `DebugProofs`: `LinesInv` says of the rows read so far which ranges they have closed
  and which is open (`OpenRange`, `ItemsAreRows`), and of the table that it is these,
  sorted, with the running maximum of their ends (`TableBuilt`). The search, for every
  sorted table: all ranges left of `left` begin at or before the address and all
  from `right` on behind it (`Searching`); in the walk no range from the present
  one to the end of the search covers it (`Walking`); `NoneFurther` is the step that
  stops the walk early: a maximum end at or below the address excludes all earlier
  ranges. `AddressToLine` joins the two: the table that was read is one of those the
  search relies on.
* `TerminalProofs`: three inductive invariants. `CommandInv`, for every input: where the
  buffer begins and ends (`BufferAt`) and that each line behind it is accounted for,
  as a command, as too long, by a NUL or by a cut (`LinesBehind`); that a long line
  yields no command needs the invariant to know that what is buffered is unbroken.
  `SetupInv`, for every command line: the variables chosen are those of the last
  option of each name (`ChosenSoFar`, `EntrySoFar`), and what is held depends only on
  the step reached (`HeldAt`), so that each exit releases it. `ViewInv`, for every
  file: where the line being read starts (`LineAt`), that the window was computed
  without wrapping (`WindowAt`), and that what was shown is each line of it from its
  start (`Complete`, `ShownRight`).
* `GuestProofs`, the runtime: for every RAM, regions and values. `MemoryInv` says what
  has been written after `i` rounds (`Progress`), for the downward copy counted from
  the other end, and that the source not yet read is as before: where regions
  overlap, only because of the direction. `Compared` is that of `memcmp`.
* `GuestProofs`, the build tool: through any number of commands. `BuildInv` says which
  destinations the present command has replaced (`Replaced`) and that the previous
  ones were in order of age (`PreviousOrdered`), which is what a kill leaves behind.
* `GuestProofs`, the decoder: on all words of 32 bits, where TLC tries the edges of the
  fields. A word is determined by its pieces (`CutOnce`); each encoder puts the pieces
  of its format together (`EncodedR`, ...) and the decoder finds them again (`Fields`,
  `DecodedI`, ..., `ImmediateFound`); the tables of kinds agree one by one
  (`MatchedKind`, `KindMatches`). One case per format in both directions. Words it
  refuses decode to registers and words all the same (`DecodeYieldsInstructions`).

* `GuestProofs`, numbers and bits: up to 32 of them. What the recursive sum `NumberOf`
  computes is shown by induction on the width (`WidthInduction`), which is that a set of
  widths without its first member is empty (`WFMin` of the library, applied to the set
  of the widths where the claim fails). `SumExists` and `SumsAgree` show that the
  recursive function exists and is unique, `NumberStep` that each bit adds its weight.
  From it follow that bits and numbers determine each other (`NumberOfBits`,
  `NumberInjective`, `BitsOfNumber`), that bits above a width add nothing (`NumberCut`)
  and that disjoint bits add up (`NumberSum`).
* `GuestProofs`, the ALU: at every width, where TLC compares the pairs of 8-bit words.
  Masking with `XLEN - 1` is the remainder (`MaskIsRemainder`), flipping the sign bit
  adds or subtracts it (`SignFlip`), or-ing the mask of `arithmetic_right` onto the
  shifted word adds it (`SignMask`, `MaskAdds`), hence the shift divides and rounds
  towards minus infinity (`ArithmeticShift`). With these, `BitsAreArithmetic` is
  arithmetic on integers (`AluIsArithmetic`).
* `GuestProofs`, the text: on all words of 32 bits. An immediate printed as a number
  reads back as its bits, by the complement where it is negative (`SignedValueRead`).
  What is shown of a word stands where the syntax of its name has it (`ShownOfKind`,
  `SyntaxOfKind`, `ReadAt`), so that reading gives the decoded operands (`TextRead`),
  and the decoder's theorem makes the word of them (`TextIsReassembled`).

### 4.3 Only model-checked

* Liveness (`BatchTerminates`, `EveryRunReturns`, `Returns`, `LeavesAtEnd`): beyond the
  prover. Every safety invariant and action property is proved.

## 5. Findings

* **The second Ctrl-C kills the monitor** (`second_interrupt`). `docs/HELP.md:320`:
  "Ctrl-C requests a stop at the next instruction boundary." The handler is
  installed once (`src/monitor.c:517`) and, under the flags of the `Makefile`, is
  gone after the first signal. Counterexample: one Ctrl-C at the prompt or in a
  run, another one later.
* **An early Ctrl-C is lost** (`early_interrupt`). The flag is cleared
  (`src/monitor.c:525`) after the handler is installed (line 517): a request between
  the two is erased and the batch run goes on.

Observations that the properties state as exceptions, or that no document decides:

* A failure or a kill while the five artifacts are moved (`tools/build_guest.py:83`)
  leaves those of two builds side by side, although `docs/C_WORKFLOW.md:111` says
  "A failed compilation leaves the previous outputs intact." Whatever fails before
  the first move does leave them (`CompilationKeepsOutputs`), and the order of the
  moves tells a mixture (`NewestFirst`).
* A Ctrl-C while the rest of an overlong command is thrown away ends the draining: the
  tail of the line becomes a command, and the error indicator stays set, so that the
  end of the input is later reported as an input error (status 2).
* A command line with a NUL is taken for one without a newline: the next line is
  thrown away with it.
* A Ctrl-C between the clearing of the flag at the prompt (`src/monitor.c:342`) and
  the read stops the *next* run before its first attempt.
* A Ctrl-C during the last attempt that the limit allows is reported as a limit
  (`src/machine.c:106`).

## 6. Not modelled

* NULL arguments of the CPU, the machine and the loaders: no caller passes one.
  Those of `memory.c` are modelled, the pointer for the value of a read included.
* The wrap of unsigned numbers in the range tests of `memory.c:25` and `machine.c:24`. The
  tests are written so that no difference wraps, and the model has their order, but
  its integers do not wrap: a changed test that would wrap in C only refuses here.
* The ordering fields of FENCE: `TextReassembles` leaves that instruction out, because
  `docs/HELP.md:346` calls what is displayed of it descriptive.
* The syntax of numbers, `--trace` and `--color` as options, help, colours, the
  wording and layout of all output. `mem` and `disasm`: their ranges and their
  output read the machine and change nothing.
* Listings of symbols and files, which only cut off at 256 entries; the symbol
  table and the comparison of file names.
* The fields of the ELF file header and the section table: one test each, that
  passes or fails.
* libdw, libelf, the cross compiler, the C library: external. What the code relies
  on of stdio, `qsort`, `signal` and `os.replace` is in the modules that use it.
* The layout in the linker script, except as the bounds of BSS; the calls of main
  and of exit in `start.S`.
* The tests, data and documents of the repository, beyond the encoder of the tests.

## 7. Plan

What would come next, in this order:

1. The layout of a guest (linker script, build tool) composed with the ELF loader: what
   the tool builds the loader accepts.
2. The ranges of `mem` and `disasm`, and the listings.
