---------------------------- MODULE MachineImages ----------------------------
(***************************************************************************)
(* The images of a machine on the heap: machine_load, machine_destroy and  *)
(* machine_reset (src/machine.c) as calls of memory.c, one action each.    *)
(* A machine owns its RAM and a pristine copy of the image it was loaded   *)
(* with; machine_load builds both in a local structure, next, and either   *)
(* clone may fail.  A program is loaded from a caller's structure or from  *)
(* the pristine copy itself.  Machine models the same calls as one step    *)
(* each, together with the CPU; here the CPU is left out.                  *)
(***************************************************************************)
EXTENDS Memory

CONSTANTS Programs,                   \* memories of the callers' programs
          Ram, Pristine,              \* machine->memory, machine->initial.memory
          NextRam, NextPristine       \* next.memory, next.initial.memory

ASSUME ImagesAssumption ==
  /\ Programs \cup {Ram, Pristine, NextRam, NextPristine} \subseteq Owners
  /\ {Ram, Pristine, NextRam, NextPristine} \cap Programs = {}
  /\ Ram # Pristine /\ NextRam # NextPristine
  /\ {Ram, Pristine} \cap {NextRam, NextPristine} = {}

VARIABLES loaded,  \* machine->loaded
          load,    \* the call in progress: where it is, its program, its result
          before   \* history: the values of the images when machine_load was called

imageVars == <<heap, owner, ret, loaded, load, before>>

Sources == Programs \cup {Pristine}
AtRest(result) == [at |-> "rest", source |-> Null, result |-> result]

ImagesInit ==
  /\ Init /\ loaded = FALSE /\ load = AtRest("none")
  /\ before = [ram |-> Value!Nothing, pristine |-> Value!Nothing, source |-> Value!Nothing]

At(place) == load.at = place
GoTo(place) == load' = [load EXCEPT !.at = place]
Goes(place) == GoTo(place) /\ UNCHANGED <<loaded, before>>
-----------------------------------------------------------------------------
\* machine_load tests its arguments; next is empty.  The program may be refused for
\* its addresses, which are not modelled here.
LoadStart(s) ==
  /\ At("rest")
  /\ before' = [ram |-> valueBar[Ram], pristine |-> valueBar[Pristine], source |-> valueBar[s]]
  /\ \/ load' = [at |-> "rest", source |-> s, result |-> "failed"]
     \/ Ready(s) /\ load' = [at |-> "clone ram", source |-> s, result |-> "none"]
  /\ UNCHANGED <<heap, owner, ret, loaded>>

CloneRam ==
  /\ At("clone ram")
  /\ MemoryClone(load.source, NextRam)
  /\ Goes(IF ret'.ok THEN "clone pristine" ELSE "undo ram")

\* The result of the second clone is not tested.
ClonePristineUntested ==
  /\ At("clone pristine")
  /\ MemoryClone(load.source, NextPristine)
  /\ Goes("destroy ram")

ClonePristine ==
  /\ At("clone pristine")
  /\ MemoryClone(load.source, NextPristine)
  /\ Goes(IF ret'.ok THEN "destroy ram" ELSE "undo ram")

\* machine_destroy(&next)
UndoRam == At("undo ram") /\ MemoryDestroy(NextRam) /\ Goes("undo pristine")
UndoPristine == At("undo pristine") /\ MemoryDestroy(NextPristine) /\ Goes("give up")

\* The frame of machine_load goes, and whatever next still points to with it.
GiveUp ==
  /\ At("give up")
  /\ owner' = [owner EXCEPT ![NextRam] = NoMemory, ![NextPristine] = NoMemory]
  /\ load' = [load EXCEPT !.at = "rest", !.result = "failed"]
  /\ UNCHANGED <<heap, ret, loaded, before>>

\* machine_destroy(machine): by itself, or before a new machine is assigned.
DestroyStart ==
  /\ At("rest") /\ load' = [AtRest("none") EXCEPT !.at = "destroy ram"]
  /\ UNCHANGED <<heap, owner, ret, loaded, before>>

DestroyRam == At("destroy ram") /\ MemoryDestroy(Ram) /\ Goes("destroy pristine")

DestroyPristine ==
  /\ At("destroy pristine") /\ MemoryDestroy(Pristine)
  /\ loaded' = FALSE
  /\ load' = IF load.source = Null THEN AtRest("none") ELSE [load EXCEPT !.at = "move ram"]
  /\ UNCHANGED before

\* *machine = next, a member after the other; nothing comes between.
MoveRam == At("move ram") /\ MemoryMove(NextRam, Ram) /\ Goes("move pristine")
MovePristine ==
  /\ At("move pristine") /\ MemoryMove(NextPristine, Pristine)
  /\ loaded' = TRUE
  /\ load' = [load EXCEPT !.at = "rest", !.result = "loaded"]
  /\ UNCHANGED before
-----------------------------------------------------------------------------
\* Between the calls: a reader builds a program word by word, the caller destroys it,
\* the guest stores, machine_reset restores.
OtherCall == At("rest") /\ load' = AtRest("none") /\ UNCHANGED <<loaded, before>>

StoreWord(o) == \E a \in Addresses, v \in Values : MemoryWrite(o, a, WordSize, v)

BuildProgram(s) ==
  OtherCall /\ ((\E size \in Sizes : MemoryInit(s, size)) \/ StoreWord(s))
DestroyProgram(s) == OtherCall /\ MemoryDestroy(s)
GuestStore == OtherCall /\ loaded /\ StoreWord(Ram)
ResetRam == OtherCall /\ loaded /\ MemoryCopy(Pristine, Ram)

ImagesNext ==
  \/ \E s \in Sources : LoadStart(s)
  \/ CloneRam \/ ClonePristine \/ UndoRam \/ UndoPristine \/ GiveUp
  \/ DestroyStart \/ DestroyRam \/ DestroyPristine \/ MoveRam \/ MovePristine
  \/ \E s \in Programs : BuildProgram(s) \/ DestroyProgram(s)
  \/ GuestStore \/ ResetRam

ImagesSpec == ImagesInit /\ [][ImagesNext]_imageVars
-----------------------------------------------------------------------------
Empty(o) == valueBar[o] = Value!Nothing
Undecided == {"clone ram", "clone pristine", "undo ram", "undo pristine", "give up"}
Decided == {"destroy ram", "destroy pristine", "move ram"}

\* The old machine lives on until both copies are there: while it can still fail,
\* machine_load leaves both images as they were, and so does a load that failed.
OldMachineKept ==
  (At("rest") /\ load.result = "failed") \/ load.at \in Undecided =>
    valueBar[Ram] = before.ram /\ valueBar[Pristine] = before.pristine

\* What replaces the old machine is two complete copies of the program, in blocks of
\* their own, even when the program is the image that is being destroyed.
NewMachineComplete ==
  /\ load.at \in Decided /\ load.source # Null =>
       valueBar[NextRam] = before.source /\ valueBar[NextPristine] = before.source
  /\ At("rest") /\ load.result = "loaded" =>
       valueBar[Ram] = before.source /\ valueBar[Pristine] = before.source

\* Between the calls a machine has both images, of one size, so that machine_reset
\* succeeds, or none; nothing is left in a local structure.
ImagesPaired ==
  At("rest") \/ load.at \in Undecided =>
    /\ IF loaded THEN CopyAccepts(Pristine, Ram) ELSE Empty(Ram) /\ Empty(Pristine)
    /\ At("rest") => Empty(NextRam) /\ Empty(NextPristine)

\* A load replaces the machine or leaves it alone, at every point of it and whichever
\* of its two clones fails.
LoadIsAllOrNothing == OldMachineKept /\ NewMachineComplete /\ ImagesPaired
=============================================================================
