------------------------------ MODULE MCDebug ------------------------------
(* Debug information is read, and an address is looked up in the table that   *)
(* this left; or in any sorted table, larger than the rows would give.  Up to *)
(* four rows of one or more units, at addresses up to one beyond the RAM,     *)
(* with two lines and the line zero.                                          *)
EXTENDS DebugInfo

CONSTANTS Top, MaxRanges

-----------------------------------------------------------------------------
MCAddresses == 0 .. 4
MCLineNumbers == 0 .. 2
MCLookedUp == 0 .. Top

\* Every table of up to MaxRanges ranges as DebugLines leaves it: sorted by begin and
\* end, no range empty.
Spans == {s \in [begin : 0 .. Top, end : 0 .. Top] : s.begin < s.end}
SortedSpans(n) ==
  {spans \in [1 .. n -> Spans] : \A i \in 1 .. n - 1 : Before(spans[i], spans[i + 1])}
WithMaxima(spans) ==
  [i \in DOMAIN spans |->
     [begin |-> spans[i].begin, end |-> spans[i].end, line |-> 1,
      maximum_end |-> CHOOSE e \in {spans[j].end : j \in 1 .. i} :
                        \A j \in 1 .. i : spans[j].end <= e]]
MCTables == UNION {{WithMaxima(spans) : spans \in SortedSpans(n)} : n \in 0 .. MaxRanges}
=============================================================================
