----------------------------- MODULE DebugLookup -----------------------------
(***************************************************************************)
(* debug_info_lookup (src/debug_info.c): a binary search for the last      *)
(* range that begins at or before an address, then a walk back to one that *)
(* covers it.  The table is any that debug_info_read may have left.        *)
(* Positions are those of TLA+, from one.                                  *)
(***************************************************************************)
EXTENDS Integers, Sequences

CONSTANTS Tables,    \* the sorted tables
          LookedUp  \* the addresses that are looked up

\* The line table: sorted by the begin of the ranges, each range with the largest
\* end up to it.
SortedTable(table) ==
  /\ \A i, j \in DOMAIN table : i <= j => table[i].begin <= table[j].begin
  /\ \A i \in DOMAIN table :
       /\ \A j \in 1 .. i : table[j].end <= table[i].maximum_end
       /\ \E j \in 1 .. i : table[j].end = table[i].maximum_end

Ranges == [begin : Nat, end : Nat, maximum_end : Nat, line : Nat]

ASSUME LookupAssumption ==
  /\ LookedUp \subseteq Nat
  /\ \A table \in Tables : table \in Seq(Ranges) /\ SortedTable(table)

VARIABLES info,    \* info->lines
          address,  \* the address looked up
          left, right, phase,
          found     \* the position of the line returned, 0 for NULL

lookupVars == <<info, address, left, right, phase, found>>

LookupInit ==
  /\ info \in Tables /\ address \in LookedUp
  /\ left = 0 /\ right = Len(info) /\ phase = "search" /\ found = 0

\* debug_info_lookup is called.
CallLookup(table) ==
  /\ info' = table /\ address' \in LookedUp
  /\ left' = 0 /\ right' = Len(table) /\ phase' = "search" /\ found' = 0

Middle == left + (right - left) \div 2

ToTheRight == info[Middle + 1].begin <= address

Halve ==
  /\ phase = "search" /\ left < right
  /\ IF ToTheRight THEN left' = Middle + 1 /\ UNCHANGED right
     ELSE right' = Middle /\ UNCHANGED left
  /\ UNCHANGED <<info, address, phase, found>>

EndSearch ==
  /\ phase = "search" /\ left >= right
  /\ phase' = "walk" /\ UNCHANGED <<info, address, left, right, found>>

\* The walk stops at the first range that ends before the address.
NoneCoversByEnd(line) == line.end <= address
NoneCovers(line) == line.maximum_end <= address
Covers(line) == line.begin <= address /\ address < line.end

ReturnLine(position) == phase' = "done" /\ found' = position

WalkBack ==
  LET line == info[left]
  IN /\ phase = "walk" /\ left > 0
     /\ left' = left - 1 /\ UNCHANGED <<info, address, right>>
     /\ \/ NoneCovers(line) /\ ReturnLine(0)
        \/ ~NoneCovers(line) /\ Covers(line) /\ ReturnLine(left)
        \/ ~NoneCovers(line) /\ ~Covers(line) /\ UNCHANGED <<phase, found>>

EndWalk ==
  /\ phase = "walk" /\ left = 0
  /\ ReturnLine(0) /\ UNCHANGED <<info, address, left, right>>

LookupDone == phase = "done" /\ UNCHANGED lookupVars

LookupNext == Halve \/ EndSearch \/ WalkBack \/ EndWalk \/ LookupDone
LookupSpec == LookupInit /\ [][LookupNext]_lookupVars
-----------------------------------------------------------------------------

\* The lookup finds a range that covers the address if there is one, an outer range
\* behind any number of ranges that have ended too, and of several the one that
\* begins last: the early exit at maximum_end misses nothing.
FindsLastCovering ==
  phase = "done" =>
    IF found = 0 THEN \A i \in DOMAIN info : ~Covers(info[i])
    ELSE Covers(info[found]) /\ \A i \in DOMAIN info : Covers(info[i]) => i <= found

=============================================================================
