----------------------------- MODULE MemoryValue -----------------------------
(***************************************************************************)
(* What memory.c promises its callers, without pointers or heap: each      *)
(* owner is empty or holds its own array of bytes.  A write is described   *)
(* by what a read finds afterwards, not by how bytes are computed.         *)
(***************************************************************************)
EXTENDS MemoryAccess

CONSTANTS Owners, Sizes, Addresses, Values

VARIABLES value,  \* the size and the bytes of each owner
          ret     \* what the last call returned

vars == <<value, ret>>

Nothing == [size |-> 0, bytes |-> [i \in {} |-> 0]]
Holds(o) == value[o].size # 0
Succeed(call) == ret' = [call |-> call, ok |-> TRUE, value |-> 0]

\* Any call that can be refused leaves every value alone when it is.
Fail ==
  /\ \E call \in {"init", "copy", "clone", "read", "write"} :
       ret' = [call |-> call, ok |-> FALSE, value |-> 0]
  /\ UNCHANGED value

Init ==
  /\ value = [o \in Owners |-> Nothing]
  /\ ret = [call |-> "destroy", ok |-> TRUE, value |-> 0]

Create(o, size) ==
  /\ value[o] = Nothing /\ SizeValid(size)
  /\ value' = [value EXCEPT ![o] = [size |-> size, bytes |-> Zeros(size)]]
  /\ Succeed("init")

Destroy(o) == value' = [value EXCEPT ![o] = Nothing] /\ Succeed("destroy")

Clear(o) == value' = [value EXCEPT ![o].bytes = Zeros(value[o].size)] /\ Succeed("reset")

\* memory_destroy(NULL) and memory_reset(NULL) do nothing.
Ignore == UNCHANGED value /\ (Succeed("destroy") \/ Succeed("reset"))

\* A copy needs a destination of the same size, a clone gives it one.
Assign(s, d) ==
  /\ Holds(s)
  /\ value' = [value EXCEPT ![d] = value[s]]
  /\ \/ Succeed("copy") /\ value[d].size = value[s].size
     \/ Succeed("clone")

\* The value goes from one owner to another that has none.
Move(s, d) ==
  /\ s # d /\ value[d] = Nothing
  /\ value' = [value EXCEPT ![d] = value[s], ![s] = Nothing]
  /\ Succeed("move")

\* The value v is what an access of this width at this address stands for.
StandsFor(v, bytes, address, width) ==
  /\ v \in 0 .. Place(width) - 1
  /\ \A k \in 0 .. width - 1 : bytes[address + k] = ByteOf(v, k)

Read(o, address, width) ==
  /\ Holds(o) /\ AccessValid(value[o].size, address, width)
  /\ ret'.call = "read" /\ ret'.ok
  /\ StandsFor(ret'.value, value[o].bytes, address, width)
  /\ UNCHANGED value

\* Afterwards a read finds the value cut to the width, and every byte outside
\* the access is what it was.
Write(o, address, width, v) ==
  /\ Holds(o) /\ AccessValid(value[o].size, address, width)
  /\ \A p \in Owners \ {o} : value'[p] = value[p]
  /\ value'[o].size = value[o].size
  /\ \A i \in DOMAIN value[o].bytes \ (address .. address + width - 1) :
       value'[o].bytes[i] = value[o].bytes[i]
  /\ ReadBytes(value'[o].bytes, address, width) = v % Place(width)
  /\ Succeed("write")

Next ==
  \/ Fail
  \/ Ignore
  \/ \E o \in Owners :
       \/ \E size \in Sizes : Create(o, size)
       \/ Destroy(o)
       \/ Clear(o)
       \/ \E s \in Owners : Assign(s, o) \/ Move(s, o)
       \/ \E a \in Addresses, w \in Widths :
            Read(o, a, w) \/ \E v \in Values : Write(o, a, w, v)

Spec == Init /\ [][Next]_vars
=============================================================================
