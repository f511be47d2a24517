------------------------------- MODULE Memory -------------------------------
(***************************************************************************)
(* The owners of guest RAM and the host heap behind them (src/memory.c).   *)
(* A Memory structure is an owner: a pointer to a calloc'ed block and a    *)
(* size, or {0}.  Every call of the module is one action.  calloc may fail *)
(* at any call.  The variable ret holds what the last call returned and,   *)
(* for a read, the value it stored through its pointer argument.  Next     *)
(* also has the structure assignment that callers are allowed: ownership   *)
(* moves from a local that goes out of scope.                              *)
(***************************************************************************)
EXTENDS MemoryAccess

CONSTANTS Owners,     \* the Memory structures of the program
          Blocks,     \* heap blocks that can be live at the same time
          Null,       \* the null pointer, of an owner or of a block
          Sizes,      \* the sizes callers ask for, valid or not
          Addresses,  \* the addresses callers access, in range or not
          Values      \* the values callers store

ASSUME NullAssumption == Null \notin Owners /\ Null \notin Blocks
ASSUME ArgumentsAssumption ==
  Sizes \subseteq Nat /\ Addresses \subseteq Nat /\ Values \subseteq Word

VARIABLES heap,   \* the contents of each block, NotAllocated when it is free
          owner,  \* the structure of each owner
          ret     \* what the last call returned

vars == <<heap, owner, ret>>

NotAllocated == [i \in {} |-> 0]
NoMemory == [bytes |-> Null, size |-> 0]
Live(b) == heap[b] # NotAllocated
Unused == {b \in Blocks : ~Live(b)}
Arguments == Owners \cup {Null}

Answer(call, ok, value) == ret' = [call |-> call, ok |-> ok, value |-> value]
\* An early return of false: nothing has changed.
Refuse(call) == Answer(call, FALSE, 0) /\ UNCHANGED <<heap, owner>>

Ready(o) == o # Null /\ owner[o].bytes # Null /\ SizeValid(owner[o].size)
Contents(o) == heap[owner[o].bytes]
\* free(bytes); free(NULL) does nothing.
Released(b) == IF b = Null THEN heap ELSE [heap EXCEPT ![b] = NotAllocated]
Update(o, bytes) == heap' = [heap EXCEPT ![owner[o].bytes] = bytes]

Init ==
  /\ heap = [b \in Blocks |-> NotAllocated]
  /\ owner = [o \in Owners |-> NoMemory]
  /\ ret = [call |-> "destroy", ok |-> TRUE, value |-> 0]

\* The size need not be a multiple of a word.
InitAcceptsUnaligned(o, size) ==
  o # Null /\ owner[o] = NoMemory /\ size >= WordSize /\ size <= MaxSize

InitAccepts(o, size) == o # Null /\ owner[o] = NoMemory /\ SizeValid(size)

MemoryInit(o, size) ==
  \/ Refuse("init")  \* an argument is rejected or calloc fails
  \/ /\ InitAccepts(o, size)
     /\ \E b \in Unused :
          /\ heap' = [heap EXCEPT ![b] = Zeros(size)]
          /\ owner' = [owner EXCEPT ![o] = [bytes |-> b, size |-> size]]
     /\ Answer("init", TRUE, 0)

MemoryDestroy(o) ==
  /\ IF o = Null
       THEN UNCHANGED <<heap, owner>>
       ELSE /\ heap' = Released(owner[o].bytes)
            /\ owner' = [owner EXCEPT ![o] = NoMemory]
  /\ Answer("destroy", TRUE, 0)

MemoryReset(o) ==
  /\ IF Ready(o) THEN Update(o, Zeros(owner[o].size)) ELSE UNCHANGED heap
  /\ UNCHANGED owner
  /\ Answer("reset", TRUE, 0)

CopyAccepts(s, d) == Ready(s) /\ Ready(d) /\ owner[s].size = owner[d].size

MemoryCopy(s, d) ==
  \/ ~CopyAccepts(s, d) /\ Refuse("copy")
  \/ CopyAccepts(s, d) /\ Update(d, Contents(s)) /\ UNCHANGED owner /\ Answer("copy", TRUE, 0)

CloneAccepts(s, d) ==
  /\ Ready(s)
  /\ d # Null
  /\ IF owner[d].bytes = Null THEN owner[d].size = 0 ELSE Ready(d)

\* Structure assignment instead of a copy of the bytes.
CloneBySharing(s, d) ==
  \/ ~CloneAccepts(s, d) /\ Refuse("clone")
  \/ /\ CloneAccepts(s, d)
     /\ heap' = IF s = d THEN heap ELSE Released(owner[d].bytes)
     /\ owner' = [owner EXCEPT ![d] = owner[s]]
     /\ Answer("clone", TRUE, 0)

\* The destination is destroyed before its replacement has been allocated.
CloneDestroysFirst(s, d) ==
  \/ ~CloneAccepts(s, d) /\ Refuse("clone")
  \/ CloneAccepts(s, d) /\ s = d /\ Answer("clone", TRUE, 0) /\ UNCHANGED <<heap, owner>>
  \/ /\ CloneAccepts(s, d) /\ s # d
     /\ heap' = Released(owner[d].bytes)
     /\ owner' = [owner EXCEPT ![d] = NoMemory]
     /\ Answer("clone", FALSE, 0)

MemoryClone(s, d) ==
  \/ ~CloneAccepts(s, d) /\ Refuse("clone")
  \/ CloneAccepts(s, d) /\ s = d /\ Answer("clone", TRUE, 0) /\ UNCHANGED <<heap, owner>>
  \/ /\ CloneAccepts(s, d) /\ s # d
     /\ \/ Refuse("clone")  \* calloc fails
        \/ \E b \in Unused :
             /\ heap' = [Released(owner[d].bytes) EXCEPT ![b] = Contents(s)]
             /\ owner' = [owner EXCEPT ![d] = [bytes |-> b, size |-> owner[s].size]]
             /\ Answer("clone", TRUE, 0)

Accessible(o, address, width) == Ready(o) /\ AccessValid(owner[o].size, address, width)

\* Where a caller wants the value that is read.
Pointers == {"variable", Null}

MemoryRead(o, address, width, pointer) ==
  \/ (~Accessible(o, address, width) \/ pointer = Null) /\ Refuse("read")
  \/ /\ Accessible(o, address, width) /\ pointer # Null
     /\ Answer("read", TRUE, ReadBytes(Contents(o), address, width))
     /\ UNCHANGED <<heap, owner>>

MemoryWrite(o, address, width, value) ==
  \/ ~Accessible(o, address, width) /\ Refuse("write")
  \/ /\ Accessible(o, address, width)
     /\ Update(o, WriteBytes(Contents(o), address, width, value))
     /\ Answer("write", TRUE, 0)
     /\ UNCHANGED owner

\* *destination = source, where the source is a local that is not used again.
MemoryMove(s, d) ==
  /\ owner' = [owner EXCEPT ![d] = owner[s], ![s] = NoMemory]
  /\ UNCHANGED heap
  /\ Answer("move", TRUE, 0)

\* A destination is destroyed before something is moved to it.
MayMove(s, d) == s # d /\ owner[d] = NoMemory

\* The calls with arguments from one set of owners.
CallWith(args) ==
  \/ \E o \in args, size \in Sizes : MemoryInit(o, size)
  \/ \E o \in args : MemoryDestroy(o) \/ MemoryReset(o)
  \/ \E s, d \in args : MemoryCopy(s, d) \/ MemoryClone(s, d)
  \/ \E o \in args, a \in Addresses, w \in Widths :
       \/ \E pointer \in Pointers : MemoryRead(o, a, w, pointer)
       \/ \E v \in Values : MemoryWrite(o, a, w, v)
  \/ \E s, d \in args \ {Null} : MayMove(s, d) /\ MemoryMove(s, d)

Next == CallWith(Arguments)

Spec == Init /\ [][Next]_vars
-----------------------------------------------------------------------------
Calls == {"init", "destroy", "reset", "copy", "clone", "read", "write", "move"}
Cells == {NotAllocated} \cup UNION {Arrays(n) : n \in {k \in 0 .. MaxSize : SizeValid(k)}}
Memories == [bytes : Blocks \cup {Null}, size : Nat]

\* Types: a block is free or holds an array of bytes of a valid size; an owner
\* is a pointer and a size.  (The declarations of include/memory.h.)
TypeOK ==
  /\ heap \in [Blocks -> Cells]
  /\ owner \in [Owners -> Memories]
  /\ ret \in [call : Calls, ok : BOOLEAN, value : Word]

\* An owner is empty, or it points to a live block of exactly its size: no
\* call of memory.c can use freed bytes or index past the end of a block.
NoDangling ==
  \A o \in Owners :
    IF owner[o].bytes = Null
      THEN owner[o].size = 0
      ELSE /\ Live(owner[o].bytes)
           /\ SizeValid(owner[o].size)
           /\ DOMAIN Contents(o) = 0 .. owner[o].size - 1

\* Two owners never hold the same block (include/memory.h: "Do not duplicate
\* ownership with structure assignment"), so no free is a double free.
SoleOwnership ==
  \A o, p \in Owners :
    owner[o].bytes = owner[p].bytes => o = p \/ owner[o].bytes = Null

\* Every live block has an owner: no path of memory_init, memory_clone or
\* memory_destroy, failed allocations included, leaks a block.
NoLeak == \A b \in Blocks : Live(b) => \E o \in Owners : owner[o].bytes = b

\* The three together: blocks and owners correspond one to one, with their sizes, after
\* every sequence of calls of memory.c and whichever of its allocations fail.
HeapSound == NoDangling /\ SoleOwnership /\ NoLeak

\* The abstract memories: each owner holds nothing or its own array of bytes.
valueBar ==
  [o \in Owners |-> [size |-> owner[o].size,
                     bytes |-> IF owner[o].bytes = Null THEN NotAllocated
                                                        ELSE Contents(o)]]

Value == INSTANCE MemoryValue WITH value <- valueBar

\* memory.c implements independent values: whatever the pointers do, a call
\* changes the one RAM it names, a failed call changes none, and a word reads
\* back as it was written.
ImplementsValue == Value!Spec
=============================================================================
