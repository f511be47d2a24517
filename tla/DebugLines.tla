----------------------------- MODULE DebugLines -----------------------------
(***************************************************************************)
(* read_lines and debug_info_read (src/debug_info.c): the rows of the      *)
(* DWARF line programs, unit after unit, become ranges; these are sorted   *)
(* and replace the caller's DebugInfo.  libdw delivers the rows; it and    *)
(* any allocation may fail.  A line stands for its file, line and column.  *)
(***************************************************************************)
EXTENDS Integers, Sequences

CONSTANTS RamSize, Addresses, LineNumbers,
          MaxRows,     \* how many rows libdw delivers
          First,       \* the first capacity of an array, 64 in the code
          MaxRecords   \* MAX_DEBUG_RECORDS

ASSUME LinesAssumption ==
  /\ RamSize \in Nat /\ Addresses \subseteq Nat /\ LineNumbers \subseteq Nat
  /\ First \in Nat \ {0} /\ MaxRecords \in Nat \ {0}

VARIABLES rows,      \* history: the rows so far, with the number of their unit
          unit,      \* the unit being read
          previous,  \* the row whose range is still open
          pending,   \* whether there is one
          lines,     \* the ranges, and the capacity of their array
          output,    \* the caller's table, "old" before the call
          stage

linesVars == <<rows, unit, previous, pending, lines, output, stage>>

\* The line of an end_sequence row is not read.
Rows == {row \in [address : Addresses, end : BOOLEAN, line : LineNumbers] :
           row.end => row.line = 0}
NoRow == [address |-> 0, end |-> FALSE, line |-> 0]

LinesInit ==
  /\ rows = << >> /\ unit = 1 /\ previous = NoRow /\ pending = FALSE
  /\ lines = [items |-> << >>, capacity |-> 0]
  /\ output = "old" /\ stage = "rows"

\* debug_info_destroy(&next)
LinesFail == stage' = "failed" /\ lines' = [items |-> << >>, capacity |-> 0]

NextCapacity(capacity) ==
  LET doubled == IF capacity = 0 THEN First ELSE capacity * 2
  IN IF doubled > MaxRecords THEN MaxRecords ELSE doubled

Full == Len(lines.items) >= lines.capacity /\ Len(lines.items) >= MaxRecords
Reserved == IF Len(lines.items) < lines.capacity THEN lines.capacity
            ELSE NextCapacity(lines.capacity)

Closed(address) == [begin |-> previous.address, end |-> address, line |-> previous.line]

\* A row at the same address replaces the one before it.
KeepRange(row) == row.address > previous.address

\* A row of line zero is kept as the open one.
OpensAnyLine(row) == ~row.end
Opens(row) == ~row.end /\ row.line > 0

ReadRow(row) ==
  /\ stage = "rows" /\ Len(rows) < MaxRows
  /\ rows' = Append(rows, [row |-> row, unit |-> unit])
  /\ UNCHANGED <<unit, output>>
  /\ \/ /\ \/ row.address > RamSize
           \/ pending /\ row.address < previous.address
           \/ pending /\ KeepRange(row) /\ Full
        /\ LinesFail /\ UNCHANGED <<previous, pending>>
     \/ /\ row.address <= RamSize
        /\ pending => row.address >= previous.address
        /\ pending /\ KeepRange(row) => ~Full
        /\ lines' = IF pending /\ KeepRange(row)
                      THEN [items |-> Append(lines.items, Closed(row.address)), capacity |-> Reserved]
                      ELSE lines
        /\ pending' = Opens(row)
        /\ previous' = IF Opens(row) THEN row ELSE previous
        /\ UNCHANGED stage

LastUnit == IF rows = << >> THEN 0 ELSE rows[Len(rows)].unit

EndUnit ==
  /\ stage = "rows" /\ LastUnit = unit
  /\ UNCHANGED <<rows, previous, pending, output>>
  /\ \/ pending /\ LinesFail /\ UNCHANGED unit
     \/ ~pending /\ unit' = unit + 1 /\ UNCHANGED <<lines, stage>>

\* libdw reports an error, or an allocation fails.
ReadFails ==
  /\ stage = "rows" /\ LinesFail /\ UNCHANGED <<rows, unit, previous, pending, output>>

Before(a, b) == a.begin < b.begin \/ (a.begin = b.begin /\ a.end <= b.end)
\* qsort: any order in which equal ranges come out.
SortedOrders(items) ==
  {order \in [DOMAIN items -> DOMAIN items] :
     /\ \A i, j \in DOMAIN items : i # j => order[i] # order[j]
     /\ \A i \in DOMAIN items : i + 1 \in DOMAIN items =>
          Before(items[order[i]], items[order[i + 1]])}

\* The end of the range itself.
MaximumEndOwn(items, i) == items[i].end
MaximumEnd(items, i) == CHOOSE e \in {items[j].end : j \in 1 .. i} :
                          \A j \in 1 .. i : items[j].end <= e

Table(items) ==
  [i \in DOMAIN items |-> [begin |-> items[i].begin, end |-> items[i].end,
                           maximum_end |-> MaximumEnd(items, i), line |-> items[i].line]]

\* The file ends with its last unit.
Finish ==
  /\ stage = "rows" /\ LastUnit < unit
  /\ \E order \in SortedOrders(lines.items) :
       output' = Table([i \in DOMAIN lines.items |-> lines.items[order[i]]])
  /\ stage' = "ok" /\ UNCHANGED <<rows, unit, previous, pending, lines>>

LinesDone == stage \in {"ok", "failed"} /\ UNCHANGED linesVars

LinesNext == \/ EndUnit \/ ReadFails \/ Finish \/ LinesDone
             \/ \E row \in Rows : ReadRow(row)
LinesSpec == LinesInit /\ [][LinesNext]_linesVars

\* debug_info_line_address: the first range of the line, 0 without one.
LineAddress(line) ==
  LET matches == {i \in DOMAIN output : output[i].line = line}
  IN CHOOSE i \in matches : \A j \in matches : i <= j
-----------------------------------------------------------------------------
\* What the line program says: row i is in force up to the next row of its unit.
InForce(i, address) ==
  /\ i + 1 \in DOMAIN rows /\ rows[i + 1].unit = rows[i].unit
  /\ ~rows[i].row.end /\ rows[i].row.line > 0
  /\ rows[i].row.address <= address /\ address < rows[i + 1].row.address

\* The ranges are those of the line program, neither more nor fewer: an address is
\* covered by a range of some line exactly if a row of that line is in force there.
RangesAreRows ==
  stage = "ok" =>
    \A a \in 0 .. RamSize, line \in LineNumbers :
      (\E i \in DOMAIN output : output[i].line = line /\ output[i].begin <= a /\ a < output[i].end)
        <=> (\E i \in DOMAIN rows : rows[i].row.line = line /\ InForce(i, a))

\* A breakpoint or a source row names the lowest address of its line
\* ("Rows show the first mapped address", source_view_lines).
LineAddressIsFirst ==
  stage = "ok" => \A j \in DOMAIN output :
    output[LineAddress(output[j].line)].begin <= output[j].begin

\* However many ranges there are, none is stored beyond the capacity of the array,
\* nor does this pass the limit (reserve).
TableFits ==
  Len(lines.items) <= lines.capacity /\ lines.capacity <= MaxRecords

\* A unit that leaves a range open is refused as a whole, and a failure keeps the
\* caller's table ("A range only exists when bounded by a later row").
OpenRangeRefused ==
  /\ stage = "failed" => output = "old"
  /\ stage = "ok" => \A i \in DOMAIN rows :
       rows[i].row.end \/ rows[i].row.line = 0
       \/ (i + 1 \in DOMAIN rows /\ rows[i + 1].unit = rows[i].unit)

\* The table holds the line program and nothing else, its ranges fit their array, and
\* what is not complete is refused as a whole (read_lines, debug_info_read).
TableOfRows == RangesAreRows /\ LineAddressIsFirst /\ TableFits /\ OpenRangeRefused
=============================================================================
