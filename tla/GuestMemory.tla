----------------------------- MODULE GuestMemory -----------------------------
(***************************************************************************)
(* The runtime of guest programs: memcpy, memmove, memset and memcmp       *)
(* (runtime/memory.c), one byte at a time, and the loop of runtime/start.S *)
(* that clears the BSS word by word before main.  The memory is flat, as   *)
(* the guest sees it; addresses are those of its RAM.                      *)
(***************************************************************************)
EXTENDS Integers

CONSTANTS RamSize,
          ByteModulus, \* 256 in the code
          WordSize,    \* 4 in the code
          Contents,    \* the contents the RAM may have when a call begins
          Values       \* the int arguments of memset

Addresses == 0 .. RamSize - 1
Bytes == 0 .. ByteModulus - 1

ASSUME GuestMemoryAssumption ==
  /\ RamSize \in Nat /\ ByteModulus \in Nat \ {0} /\ WordSize \in Nat \ {0}
  /\ Contents \subseteq [Addresses -> Bytes] /\ Values \subseteq Int

VARIABLES ram,
          before,  \* history: the RAM when the call began
          call,    \* the function and its arguments
          i,       \* its loop counter; t0 in start.S
          result   \* "running", "done", or what memcmp returns

callVars == <<ram, before, call, i, result>>

Call(f, out, in, count, value) ==
  [f |-> f, out |-> out, in |-> in, count |-> count, value |-> value]

\* The regions that a caller may pass lie in the RAM.
Fits(address, count) == address \in 0 .. RamSize /\ count \in 0 .. RamSize - address

\* The arguments of memcpy are restrict pointers.
Apart(a, b, count) == a + count <= b \/ b + count <= a

Moves == {c \in {Call("memmove", out, in, count, 0) :
                   out \in 0 .. RamSize, in \in 0 .. RamSize, count \in 0 .. RamSize} :
            Fits(c.out, c.count) /\ Fits(c.in, c.count)}
Calls ==
  Moves
  \cup {Call("memcpy", c.out, c.in, c.count, 0) : c \in {m \in Moves : Apart(m.out, m.in, m.count)}}
  \cup {Call("memcmp", c.out, c.in, c.count, 0) : c \in Moves}
  \cup {Call("memset", c.out, c.out, c.count, value) : c \in {m \in Moves : m.in = m.out}, value \in Values}

\* link.ld.in aligns __bss_start and __bss_end to words.
Bss == {c \in Moves : c.in = c.out /\ c.out % WordSize = 0 /\ c.count % WordSize = 0}

\* The direction of memmove.
UpwardsAlways(c) == TRUE
Upwards(c) == c.f # "memmove" \/ c.out <= c.in

Enter(c) ==
  /\ call = c
  /\ i = IF Upwards(c) THEN 0 ELSE c.count
  /\ result = "running"

CallInit ==
  /\ before \in Contents /\ ram = before
  /\ \/ \E c \in Calls : Enter(c)
     \/ \E c \in Bss : Enter(Call("_start", c.out, c.out, c.count, 0))

Copies == call.f \in {"memcpy", "memmove"}

CopyUp ==
  /\ result = "running" /\ Copies /\ Upwards(call) /\ i < call.count
  /\ ram' = [ram EXCEPT ![call.out + i] = ram[call.in + i]]
  /\ i' = i + 1 /\ UNCHANGED <<before, call, result>>

CopyDown ==
  /\ result = "running" /\ Copies /\ ~Upwards(call) /\ i # 0
  /\ ram' = [ram EXCEPT ![call.out + i - 1] = ram[call.in + i - 1]]
  /\ i' = i - 1 /\ UNCHANGED <<before, call, result>>

\* (unsigned char)value
SetByte ==
  /\ result = "running" /\ call.f = "memset" /\ i < call.count
  /\ ram' = [ram EXCEPT ![call.out + i] = call.value % ByteModulus]
  /\ i' = i + 1 /\ UNCHANGED <<before, call, result>>

Less(a, b) == a < b

CompareByte ==
  LET a == ram[call.out + i]
      b == ram[call.in + i]
  IN /\ result = "running" /\ call.f = "memcmp" /\ i < call.count
     /\ result' = IF a = b THEN "running" ELSE IF Less(a, b) THEN "less" ELSE "greater"
     /\ i' = IF a = b THEN i + 1 ELSE i
     /\ UNCHANGED <<ram, before, call>>

\* sw zero, 0(t0); addi t0, t0, 4
ClearWord ==
  /\ result = "running" /\ call.f = "_start" /\ i < call.count
  /\ ram' = [a \in Addresses |->
               IF a \in call.out + i .. call.out + i + WordSize - 1 THEN 0 ELSE ram[a]]
  /\ i' = i + WordSize /\ UNCHANGED <<before, call, result>>

Return ==
  /\ result = "running"
  /\ IF Upwards(call) THEN i >= call.count ELSE i = 0
  /\ result' = IF call.f = "memcmp" THEN "equal" ELSE "done"
  /\ UNCHANGED <<ram, before, call, i>>

CallDone == result # "running" /\ UNCHANGED callVars

CallNext == CopyUp \/ CopyDown \/ SetByte \/ CompareByte \/ ClearWord \/ Return \/ CallDone
CallSpec == CallInit /\ [][CallNext]_callVars
-----------------------------------------------------------------------------
InDestination(a) == call.out <= a /\ a < call.out + call.count

\* What a call promises of a byte of the RAM once it has returned.
Promised(a) ==
  IF InDestination(a)
    THEN IF Copies THEN before[call.in + (a - call.out)]
         ELSE IF call.f = "memcmp" THEN before[a] ELSE call.value % ByteModulus
    ELSE before[a]

\* A call writes what it promises and nothing else: memmove copies the old contents
\* of its source although the regions overlap in either order and the loop overwrites
\* its own source, and the startup loop clears the BSS to its last byte and stops there.
WritesAsPromised ==
  result # "running" => \A a \in Addresses : ram[a] = Promised(a)

\* The order of memcmp is that of the first bytes that differ, as unsigned numbers.
OrdersByFirstDifference ==
  result \in {"less", "greater", "equal"} =>
    LET left(k) == before[call.out + k]
        right(k) == before[call.in + k]
        differ == {k \in 0 .. call.count - 1 : left(k) # right(k)}
    IN /\ result = "equal" <=> differ = {}
       /\ \A k \in differ : (\A j \in differ : k <= j) =>
            (result = "less" <=> left(k) < right(k))

\* Both: what a call that has returned has written and what it answers are as promised,
\* whatever regions it was given (memcpy, memmove, memset, memcmp, _start).
CallsAsPromised == WritesAsPromised /\ OrdersByFirstDifference
=============================================================================
