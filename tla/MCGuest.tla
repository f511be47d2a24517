------------------------------ MODULE MCGuest ------------------------------
(* A RAM of six bytes: distinct ones show every misplaced byte, and those of  *)
(* two values on either side of the sign bit every order of memcmp.  Or up to *)
(* MaxCommands builds of one output.                                          *)
EXTENDS GuestMemory, GuestBuild

VARIABLE active  \* the runtime of a guest, or the tool that builds one

guestVars == <<callVars, buildVars, active>>

\* No guest runs: as after a call of memset with a count of zero.
CallIdle ==
  /\ before = [a \in Addresses |-> 0] /\ ram = before
  /\ call = Call("memset", 0, 0, 0, 0) /\ i = 0 /\ result = "done"

Init ==
  \/ active = "runtime" /\ CallInit /\ BuildInit
  \/ active = "build" /\ CallIdle /\ BuildInit

RunGuest == active = "runtime" /\ CallNext /\ UNCHANGED <<buildVars, active>>
Build == active = "build" /\ BuildNext /\ UNCHANGED <<callVars, active>>

Next == RunGuest \/ Build
Spec == Init /\ [][Next]_guestVars
-----------------------------------------------------------------------------
MCContents == {[a \in Addresses |-> a + 1]} \cup [Addresses -> {1, 6}]
MCValues == {-1, 3, 8}
=============================================================================
