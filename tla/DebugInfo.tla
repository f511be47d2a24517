------------------------------ MODULE DebugInfo ------------------------------
(***************************************************************************)
(* struct DebugInfo between its two users: debug_info_read fills it when   *)
(* the monitor starts, debug_info_lookup searches what this left.  The     *)
(* lookup is also called on any other sorted table.                        *)
(***************************************************************************)
EXTENDS DebugLines, DebugLookup

VARIABLE active  \* the function that is called

debugVars == <<linesVars, lookupVars, active>>

\* The function that is not called is as after a call that found nothing.
LinesIdle ==
  /\ rows = << >> /\ unit = 1 /\ previous = NoRow /\ pending = FALSE
  /\ lines = [items |-> << >>, capacity |-> 0] /\ output = "old" /\ stage = "failed"
LookupIdle ==
  /\ info = << >> /\ address = 0 /\ left = 0 /\ right = 0 /\ phase = "done" /\ found = 0

Init ==
  \/ active = "lines" /\ LinesInit /\ LookupIdle
  \/ active = "lookup" /\ LinesIdle /\ LookupInit

ReadLines == active = "lines" /\ LinesNext /\ UNCHANGED <<lookupVars, active>>
LookUp == active = "lookup" /\ LookupNext /\ UNCHANGED <<linesVars, active>>
\* debug_info_lookup on what debug_info_read has returned.
LookUpRow ==
  /\ active = "lines" /\ stage = "ok" /\ active' = "lookup" /\ UNCHANGED linesVars
  /\ CallLookup(output)

Next == ReadLines \/ LookUp \/ LookUpRow
Spec == Init /\ [][Next]_debugVars

\* The two together: from an address the monitor is given a line whose row is in force
\* there, and none only if none is, in whichever order qsort leaves equal ranges: the
\* table that is read is sorted and has the running maxima that the lookup relies on.
LookupNamesRow ==
  active = "lookup" /\ stage = "ok" /\ phase = "done" =>
    /\ SortedTable(info)
    /\ IF found = 0 THEN \A i \in DOMAIN rows : ~InForce(i, address)
       ELSE \E i \in DOMAIN rows : rows[i].row.line = info[found].line /\ InForce(i, address)
=============================================================================
