----------------------------- MODULE DebugProofs -----------------------------
(***************************************************************************)
(* Proofs about the debug information: the table that debug_info_read      *)
(* builds covers what the line program says, debug_info_lookup searches    *)
(* any sorted table rightly, and the one on the other names a row that is  *)
(* in force.                                                               *)
(***************************************************************************)
EXTENDS DebugInfo, FiniteSetTheorems, WellFoundedInduction, SequenceTheorems, TLAPS

(* Induction over the natural numbers, as their well-ordering.               *)

LEMMA LeastNatural ==
  ASSUME NEW T, T \subseteq Nat, T # {}
  PROVE  \E x \in T : \A y \in T : x <= y
<1> DEFINE R == {ss \in Nat \X Nat : ss[1] < ss[2]}
<1>1. IsWellFoundedOn(R, Nat)
  <2>1. R = OpToRel(<, Nat)
    BY DEF OpToRel
  <2> QED
    BY <2>1, NatLessThanWellFounded
<1>2. PICK x \in T : \A y \in T : ~(<<y, x>> \in R)
  <2> HIDE DEF R
  <2> QED
    BY <1>1, WFMin
<1>3. \A y \in T : ~(y < x)
  BY <1>2
<1> QED
  BY <1>3

LEMMA GreatestNatural ==
  ASSUME NEW T, T \subseteq Nat, T # {}, NEW m \in Nat, \A x \in T : x <= m
  PROVE  \E x \in T : \A y \in T : y <= x
<1> DEFINE U == {m - x : x \in T}
<1>1. U \subseteq Nat /\ U # {}
  <2>1. PICK x \in T : TRUE
    OBVIOUS
  <2>2. m - x \in U
    BY <2>1
  <2>3. \A y \in T : m - y \in Nat
    OBVIOUS
  <2> QED
    BY <2>2, <2>3
<1>2. PICK u \in U : \A v \in U : u <= v
  <2> HIDE DEF U
  <2> QED
    BY <1>1, LeastNatural
<1>3. PICK x \in T : u = m - x
  OBVIOUS
<1>4. \A y \in T : m - y \in U /\ y \in Nat
  OBVIOUS
<1>5. \A y \in T : m - x <= m - y
  BY <1>2, <1>3, <1>4
<1> QED
  BY <1>5

\* What grows from each position to the next grows from any to any later one: of the
\* positions where it would not, the first has one before it where it does.
LEMMA Ladder ==
  ASSUME NEW n \in Nat, NEW f, \A k \in 1 .. n : f[k] \in Int,
         \A k \in 1 .. n - 1 : f[k] <= f[k + 1]
  PROVE  \A i, j \in 1 .. n : i <= j => f[i] <= f[j]
<1> SUFFICES ASSUME NEW i \in 1 .. n, NEW j \in 1 .. n, i <= j, ~(f[i] <= f[j])
             PROVE  FALSE
  OBVIOUS
<1> DEFINE T == {k \in i .. n : ~(f[i] <= f[k])}
<1>1. T \subseteq Nat /\ T # {}
  OBVIOUS
<1>2. PICK k \in T : \A y \in T : k <= y
  <2> HIDE DEF T
  <2> QED
    BY <1>1, LeastNatural
<1>3. k # i
  OBVIOUS
<1>4. k - 1 \in i .. n /\ k - 1 \in 1 .. n - 1
  BY <1>3
<1>5. f[i] <= f[k - 1]
  <2>1. k - 1 \notin T
    BY <1>2
  <2> QED
    BY <1>4, <2>1
<1>6. f[k - 1] <= f[k]
  BY <1>4
<1> QED
  BY <1>4, <1>5, <1>6

\* As many pigeons as holes, and no two in one: no hole is empty.
LEMMA EveryHole ==
  ASSUME NEW n \in Nat, NEW f \in [1 .. n -> 1 .. n],
         \A i, j \in 1 .. n : i # j => f[i] # f[j]
  PROVE  \A j \in 1 .. n : \E i \in 1 .. n : f[i] = j
<1>1. f \in Injection(1 .. n, 1 .. n)
  BY DEF Injection, IsInjective
<1>2. IsFiniteSet(1 .. n)
  BY FS_Interval
<1>3. f \in Surjection(1 .. n, 1 .. n)
  BY <1>1, <1>2, FS_Injection
<1> QED
  BY <1>3 DEF Surjection
-----------------------------------------------------------------------------
(* debug_info_read: what the rows, the ranges and the table have to do with  *)
(* one another.                                                              *)

Numbered == [row : Rows, unit : Nat]
Closeds == [begin : Nat, end : Nat, line : LineNumbers]

\* Row i of a line program opens a range, and the next row of its unit closes it.
Bounded(r, i) ==
  /\ i \in 1 .. Len(r) - 1 /\ Opens(r[i].row) /\ r[i + 1].unit = r[i].unit
  /\ r[i].row.address < r[i + 1].row.address
RangeOf(r, i) ==
  [begin |-> r[i].row.address, end |-> r[i + 1].row.address, line |-> r[i].row.line]

LineTypes ==
  /\ rows \in Seq(Numbered) /\ unit \in Nat /\ pending \in BOOLEAN
  /\ lines.items \in Seq(Closeds) /\ lines.capacity \in Nat
  /\ lines = [items |-> lines.items, capacity |-> lines.capacity]
  /\ stage \in {"rows", "ok", "failed"} /\ (stage # "ok" => output = "old")

\* A range is open exactly if the last row opened one; that is in the present unit.
OpenRange ==
  stage = "rows" =>
    /\ pending <=> rows # << >> /\ Opens(rows[Len(rows)].row)
    /\ pending => rows[Len(rows)].unit = unit /\ previous = rows[Len(rows)].row
RowsInside == stage # "failed" => \A i \in 1 .. Len(rows) : rows[i].row.address <= RamSize
RowsFollowed ==
  stage # "failed" =>
    \A i \in 1 .. Len(rows) - 1 : Opens(rows[i].row) => rows[i + 1].unit = rows[i].unit

\* The ranges are those that a row opens and the next one closes.
ItemsAreRows ==
  stage # "failed" =>
    /\ \A k \in 1 .. Len(lines.items) :
         \E i \in 1 .. Len(rows) : Bounded(rows, i) /\ lines.items[k] = RangeOf(rows, i)
    /\ \A i \in 1 .. Len(rows) : Bounded(rows, i) =>
         \E k \in 1 .. Len(lines.items) : lines.items[k] = RangeOf(rows, i)

\* The table is a sorted rearrangement of the ranges, with their running maxima.
SameRange(e, l) == e.begin = l.begin /\ e.end = l.end /\ e.line = l.line
TableOf(table, items) ==
  /\ table \in Seq(Ranges) /\ SortedTable(table)
  /\ \A k \in DOMAIN table : \E i \in 1 .. Len(items) : SameRange(table[k], items[i])
  /\ \A i \in 1 .. Len(items) : \E k \in DOMAIN table : SameRange(table[k], items[i])
TableBuilt ==
  stage = "ok" =>
    /\ TableOf(output, lines.items)
    /\ rows # << >> => ~Opens(rows[Len(rows)].row)

LinesInv == /\ LineTypes /\ OpenRange /\ RowsInside /\ RowsFollowed /\ ItemsAreRows
            /\ TableBuilt /\ TableFits

LEMMA RowFacts ==
  ASSUME NEW row \in Rows
  PROVE  row.address \in Nat /\ row.line \in Nat /\ row.line \in LineNumbers /\ row.end \in BOOLEAN
  BY LinesAssumption DEF Rows

LEMMA RowsAre ==
  ASSUME NEW r \in Seq(Numbered)
  PROVE  /\ Len(r) \in Nat /\ DOMAIN r = 1 .. Len(r)
         /\ \A i \in 1 .. Len(r) : r[i] \in Numbered /\ r[i].row \in Rows /\ r[i].unit \in Nat
                                  /\ r[i].row.address \in Nat /\ r[i].row.line \in LineNumbers
<1>1. Len(r) \in Nat /\ DOMAIN r = 1 .. Len(r) /\ \A i \in 1 .. Len(r) : r[i] \in Numbered
  OBVIOUS
<1>2. \A x \in Numbered : x.row \in Rows /\ x.unit \in Nat
  BY DEF Numbered
<1>3. \A i \in 1 .. Len(r) : r[i].row \in Rows
  BY <1>1, <1>2
<1> QED
  BY <1>1, <1>2, <1>3, RowFacts

\* A row more: what was bounded is, and the row before it may be now.
LEMMA OneMoreRow ==
  ASSUME NEW r \in Seq(Numbered), NEW x \in Numbered
  PROVE  LET q == Append(r, x)
             n == Len(r)
         IN /\ q \in Seq(Numbered) /\ n \in Nat /\ Len(q) = n + 1 /\ q[n + 1] = x
            /\ \A i \in 1 .. n : q[i] = r[i]
            /\ \A i \in 1 .. n : i # n => (Bounded(q, i) <=> Bounded(r, i))
            /\ \A i \in 1 .. n - 1 : RangeOf(q, i) = RangeOf(r, i)
            /\ ~Bounded(r, n) /\ ~Bounded(q, n + 1)
<1> DEFINE q == Append(r, x)
           n == Len(r)
<1>1. /\ q \in Seq(Numbered) /\ n \in Nat /\ Len(q) = n + 1 /\ q[n + 1] = x
      /\ \A i \in 1 .. n : q[i] = r[i]
  OBVIOUS
<1> HIDE DEF q, n
<1>2. \A i \in 1 .. n - 1 : q[i] = r[i] /\ q[i + 1] = r[i + 1]
  BY <1>1
<1>3. \A i \in 1 .. n : i # n => i \in 1 .. n - 1 /\ i \in 1 .. Len(q) - 1
  BY <1>1
<1>4. \A i \in 1 .. n : i # n => (Bounded(q, i) <=> Bounded(r, i))
  BY <1>2, <1>3 DEF Bounded, n
<1>5. \A i \in 1 .. n - 1 : RangeOf(q, i) = RangeOf(r, i)
  BY <1>2 DEF RangeOf
<1>6. ~Bounded(r, n) /\ ~Bounded(q, n + 1)
  BY <1>1 DEF Bounded, n
<1> QED
  BY <1>1, <1>4, <1>5, <1>6 DEF q, n

LEMMA LinesInitInv == LinesInit => LinesInv
<1> SUFFICES ASSUME LinesInit PROVE LinesInv
  OBVIOUS
<1>1. /\ rows = << >> /\ unit = 1 /\ pending = FALSE /\ stage = "rows" /\ output = "old"
      /\ lines = [items |-> << >>, capacity |-> 0] /\ Len(rows) = 0 /\ Len(lines.items) = 0
  BY DEF LinesInit
<1>2. /\ rows \in Seq(Numbered) /\ lines.items = << >> /\ lines.capacity = 0
      /\ << >> \in Seq(Closeds)
  BY <1>1
<1>3. LineTypes
  BY <1>1, <1>2 DEF LineTypes
<1>4. 0 <= MaxRecords
  BY LinesAssumption
<1> QED
  BY <1>1, <1>3, <1>4 DEF LinesInv, OpenRange, RowsInside, RowsFollowed, ItemsAreRows, TableBuilt,
                          TableFits

\* debug_info_destroy leaves nothing to be right or wrong.
LEMMA FailureLeavesNothing ==
  ASSUME LinesInv, LinesFail, output' = "old", rows' \in Seq(Numbered), unit' \in Nat,
         pending' \in BOOLEAN
  PROVE  LinesInv'
<1>1. stage' = "failed" /\ lines' = [items |-> << >>, capacity |-> 0]
  BY DEF LinesFail
<1>2. LineTypes'
  BY <1>1 DEF LineTypes
<1>3. 0 <= MaxRecords
  BY LinesAssumption
<1> QED
  BY <1>1, <1>2, <1>3 DEF LinesInv, OpenRange, RowsInside, RowsFollowed, ItemsAreRows, TableBuilt,
                          TableFits

\* reserve: there is room for one more, within the limit.
LEMMA RoomForOne ==
  ASSUME LineTypes, TableFits, ~Full
  PROVE  Reserved \in Nat /\ Len(lines.items) + 1 <= Reserved /\ Reserved <= MaxRecords
<1> DEFINE n == Len(lines.items)
           c == lines.capacity
<1>1. n \in Nat /\ c \in Nat /\ n <= c /\ c <= MaxRecords /\ ~(n >= c /\ n >= MaxRecords)
  BY DEF LineTypes, TableFits, Full
<1>2. Reserved = IF n < c THEN c ELSE NextCapacity(c)
  BY DEF Reserved
<1> HIDE DEF n, c
<1>3. NextCapacity(c) = LET doubled == IF c = 0 THEN First ELSE c * 2
                        IN IF doubled > MaxRecords THEN MaxRecords ELSE doubled
  BY DEF NextCapacity
<1>4. First \in Nat \ {0} /\ MaxRecords \in Nat \ {0}
  BY LinesAssumption
<1>5. CASE n < c
  <2>1. Reserved = c /\ n + 1 <= c
    BY <1>1, <1>2, <1>5
  <2> QED
    BY <1>1, <2>1 DEF n
<1>6. CASE ~(n < c) /\ c = 0
  <2>1. n = 0 /\ Reserved = IF First > MaxRecords THEN MaxRecords ELSE First
    BY <1>1, <1>2, <1>3, <1>6
  <2> QED
    BY <1>4, <2>1 DEF n
<1>7. CASE ~(n < c) /\ c # 0
  <2>1. n = c /\ n < MaxRecords /\ Reserved = IF c * 2 > MaxRecords THEN MaxRecords ELSE c * 2
    BY <1>1, <1>2, <1>3, <1>4, <1>7
  <2> QED
    BY <1>1, <1>4, <1>7, <2>1 DEF n
<1> QED
  BY <1>5, <1>6, <1>7

\* A row that does not close a range longer than nothing leaves the ranges alone.
LEMMA NothingClosed ==
  ASSUME LinesInv, stage = "rows", NEW row \in Rows,
         rows' = Append(rows, [row |-> row, unit |-> unit]),
         ~(pending /\ KeepRange(row)), lines' = lines, stage' = stage
  PROVE  ItemsAreRows'
<1> DEFINE x == [row |-> row, unit |-> unit]
           n == Len(rows)
<1>1. rows \in Seq(Numbered) /\ x \in Numbered
  BY DEF LinesInv, LineTypes, Numbered
<1>2. /\ n \in Nat /\ Len(rows') = n + 1 /\ rows'[n + 1] = x
      /\ \A i \in 1 .. n : rows'[i] = rows[i]
      /\ \A i \in 1 .. n : i # n => (Bounded(rows', i) <=> Bounded(rows, i))
      /\ \A i \in 1 .. n - 1 : RangeOf(rows', i) = RangeOf(rows, i)
      /\ ~Bounded(rows, n) /\ ~Bounded(rows', n + 1)
  BY <1>1, OneMoreRow
<1>3. ~Bounded(rows', n)
  <2> SUFFICES ASSUME Bounded(rows', n) PROVE FALSE
    OBVIOUS
  <2>1. n \in 1 .. n /\ Opens(rows[n].row) /\ rows[n].row.address < row.address
    BY <1>2 DEF Bounded
  <2>2. rows # << >>
    BY <1>1, <2>1
  <2>3. pending /\ previous = rows[n].row
    BY <2>1, <2>2 DEF LinesInv, OpenRange
  <2>4. row.address \in Nat /\ previous.address \in Nat
    BY <1>1, <2>1, <2>3, RowFacts, RowsAre
  <2> QED
    BY <2>1, <2>3, <2>4 DEF KeepRange
<1>4. \A i \in 1 .. n : Bounded(rows, i) => Bounded(rows', i) /\ RangeOf(rows', i) = RangeOf(rows, i)
  BY <1>2 DEF Bounded
<1>5. \A i \in 1 .. Len(rows') : Bounded(rows', i) =>
        i \in 1 .. n /\ Bounded(rows, i) /\ RangeOf(rows', i) = RangeOf(rows, i)
  <2> SUFFICES ASSUME NEW i \in 1 .. n + 1, Bounded(rows', i)
               PROVE  i \in 1 .. n /\ Bounded(rows, i) /\ RangeOf(rows', i) = RangeOf(rows, i)
    BY <1>2
  <2>1. i # n + 1 /\ i # n
    BY <1>2, <1>3
  <2>2. i \in 1 .. n /\ i \in 1 .. n - 1
    BY <1>2, <2>1
  <2> QED
    BY <1>2, <2>1, <2>2
<1>6. \A i \in 1 .. n : i \in 1 .. Len(rows')
  BY <1>2
<1> HIDE DEF x
<1>7. /\ \A k \in 1 .. Len(lines.items) :
           \E i \in 1 .. n : Bounded(rows, i) /\ lines.items[k] = RangeOf(rows, i)
      /\ \A i \in 1 .. n : Bounded(rows, i) =>
           \E k \in 1 .. Len(lines.items) : lines.items[k] = RangeOf(rows, i)
  BY DEF LinesInv, ItemsAreRows
<1> HIDE DEF n
<1>8. \A k \in 1 .. Len(lines.items) :
        \E i \in 1 .. Len(rows') : Bounded(rows', i) /\ lines.items[k] = RangeOf(rows', i)
  BY <1>4, <1>6, <1>7
<1>9. \A i \in 1 .. Len(rows') : Bounded(rows', i) =>
        \E k \in 1 .. Len(lines.items) : lines.items[k] = RangeOf(rows', i)
  BY <1>5, <1>7
<1> QED
  BY <1>8, <1>9 DEF ItemsAreRows

\* The range that a row closes is added behind the others.
LEMMA OneClosed ==
  ASSUME LinesInv, stage = "rows", NEW row \in Rows,
         rows' = Append(rows, [row |-> row, unit |-> unit]),
         pending, KeepRange(row), NEW c,
         lines' = [items |-> Append(lines.items, Closed(row.address)), capacity |-> c],
         stage' = stage
  PROVE  ItemsAreRows' /\ Closed(row.address) \in Closeds
<1> DEFINE x == [row |-> row, unit |-> unit]
           n == Len(rows)
           m == Len(lines.items)
           l == Closed(row.address)
           new == Append(lines.items, l)
<1>1. rows \in Seq(Numbered) /\ x \in Numbered /\ lines.items \in Seq(Closeds)
  BY DEF LinesInv, LineTypes, Numbered
<1>2. /\ n \in Nat /\ Len(rows') = n + 1 /\ rows'[n + 1] = x
      /\ \A i \in 1 .. n : rows'[i] = rows[i]
      /\ \A i \in 1 .. n : i # n => (Bounded(rows', i) <=> Bounded(rows, i))
      /\ \A i \in 1 .. n - 1 : RangeOf(rows', i) = RangeOf(rows, i)
      /\ ~Bounded(rows, n) /\ ~Bounded(rows', n + 1)
  BY <1>1, OneMoreRow
<1>3. /\ n \in 1 .. n /\ previous = rows[n].row /\ Opens(rows[n].row) /\ rows[n].unit = unit
  <2>1. rows # << >> /\ previous = rows[n].row /\ Opens(rows[n].row) /\ rows[n].unit = unit
    BY DEF LinesInv, OpenRange
  <2> QED
    BY <1>1, <1>2, <2>1
<1>4. /\ row.address \in Nat /\ previous.address \in Nat /\ previous.line \in LineNumbers
      /\ previous.address < row.address
  <2>1. row.address \in Nat /\ rows[n].row \in Rows
    BY <1>1, <1>3, RowFacts, RowsAre
  <2>2. previous.address \in Nat /\ previous.line \in LineNumbers
    BY <1>3, <2>1, RowFacts
  <2> QED
    BY <2>1, <2>2 DEF KeepRange
<1>5. l \in Closeds
  BY <1>4 DEF Closed, Closeds
<1>6. Bounded(rows', n) /\ RangeOf(rows', n) = l
  <2>1. rows'[n] = rows[n] /\ rows'[n + 1].row = row /\ rows'[n + 1].unit = unit
    BY <1>2, <1>3
  <2>2. Bounded(rows', n)
    BY <1>2, <1>3, <1>4, <2>1 DEF Bounded
  <2>3. RangeOf(rows', n) = l
    BY <1>3, <2>1 DEF RangeOf, Closed
  <2> QED
    BY <2>2, <2>3
<1>7. /\ m \in Nat /\ Len(new) = m + 1 /\ new[m + 1] = l /\ lines'.items = new
      /\ \A k \in 1 .. m : new[k] = lines.items[k]
  <2>1. lines'.items = new
    OBVIOUS
  <2> HIDE DEF l
  <2> QED
    BY <1>1, <1>5, <2>1
<1>8. /\ \A k \in 1 .. m :
           \E i \in 1 .. n : Bounded(rows, i) /\ lines.items[k] = RangeOf(rows, i)
      /\ \A i \in 1 .. n : Bounded(rows, i) =>
           \E k \in 1 .. m : lines.items[k] = RangeOf(rows, i)
  BY DEF LinesInv, ItemsAreRows
<1>9. \A i \in 1 .. n : Bounded(rows, i) =>
        i \in 1 .. Len(rows') /\ Bounded(rows', i) /\ RangeOf(rows', i) = RangeOf(rows, i)
  BY <1>2 DEF Bounded
<1>10. \A i \in 1 .. Len(rows') : Bounded(rows', i) =>
         \/ i = n
         \/ i \in 1 .. n /\ Bounded(rows, i) /\ RangeOf(rows', i) = RangeOf(rows, i)
  <2> SUFFICES ASSUME NEW i \in 1 .. n + 1, Bounded(rows', i), i # n
               PROVE  i \in 1 .. n /\ Bounded(rows, i) /\ RangeOf(rows', i) = RangeOf(rows, i)
    BY <1>2
  <2>1. i # n + 1
    BY <1>2
  <2>2. i \in 1 .. n /\ i \in 1 .. n - 1
    BY <1>2, <2>1
  <2> QED
    BY <1>2, <2>2
<1> HIDE DEF x, n, m, l, new
<1>11. \A k \in 1 .. m + 1 :
         \E i \in 1 .. Len(rows') : Bounded(rows', i) /\ new[k] = RangeOf(rows', i)
  <2> SUFFICES ASSUME NEW k \in 1 .. m + 1
               PROVE  \E i \in 1 .. Len(rows') : Bounded(rows', i) /\ new[k] = RangeOf(rows', i)
    OBVIOUS
  <2>1. CASE k = m + 1
    <3>1. n \in 1 .. Len(rows')
      BY <1>2, <1>3
    <3> QED
      BY <1>6, <1>7, <2>1, <3>1
  <2>2. CASE k # m + 1
    <3>1. k \in 1 .. m
      BY <1>7, <2>2
    <3>2. PICK i \in 1 .. n : Bounded(rows, i) /\ lines.items[k] = RangeOf(rows, i)
      BY <1>8, <3>1
    <3>3. new[k] = RangeOf(rows', i)
      BY <1>7, <1>9, <3>1, <3>2
    <3> QED
      BY <1>9, <3>2, <3>3
  <2> QED
    BY <2>1, <2>2
<1>12. \A i \in 1 .. Len(rows') : Bounded(rows', i) =>
         \E k \in 1 .. m + 1 : new[k] = RangeOf(rows', i)
  <2>1. m + 1 \in 1 .. m + 1 /\ \A k \in 1 .. m : k \in 1 .. m + 1
    BY <1>7
  <2> SUFFICES ASSUME NEW i \in 1 .. Len(rows'), Bounded(rows', i)
               PROVE  \E k \in 1 .. m + 1 : new[k] = RangeOf(rows', i)
    OBVIOUS
  <2>2. CASE i = n
    BY <1>6, <1>7, <2>1, <2>2
  <2>3. CASE i \in 1 .. n /\ Bounded(rows, i) /\ RangeOf(rows', i) = RangeOf(rows, i)
    BY <1>7, <1>8, <2>1, <2>3
  <2> QED
    BY <1>10, <2>2, <2>3
<1> QED
  BY <1>5, <1>7, <1>11, <1>12 DEF ItemsAreRows, l

LEMMA ReadRowKeepsInv == ASSUME LinesInv, NEW row \in Rows, ReadRow(row) PROVE LinesInv'
<1> DEFINE x == [row |-> row, unit |-> unit]
           n == Len(rows)
<1>1. /\ stage = "rows" /\ rows' = Append(rows, x) /\ unit' = unit /\ output' = output
      /\ rows \in Seq(Numbered) /\ unit \in Nat /\ output = "old" /\ pending \in BOOLEAN
  BY DEF ReadRow, LinesInv, LineTypes
<1>2. x \in Numbered
  BY <1>1 DEF Numbered
<1>3. /\ rows' \in Seq(Numbered) /\ n \in Nat /\ Len(rows') = n + 1 /\ rows'[n + 1] = x
      /\ \A i \in 1 .. n : rows'[i] = rows[i]
  BY <1>1, <1>2, OneMoreRow
<1>4. CASE LinesFail /\ UNCHANGED <<previous, pending>>
  BY <1>1, <1>3, <1>4, FailureLeavesNothing
<1>5. CASE /\ row.address <= RamSize
           /\ pending => row.address >= previous.address
           /\ pending /\ KeepRange(row) => ~Full
           /\ lines' = IF pending /\ KeepRange(row)
                         THEN [items |-> Append(lines.items, Closed(row.address)),
                               capacity |-> Reserved]
                         ELSE lines
           /\ pending' = Opens(row)
           /\ previous' = IF Opens(row) THEN row ELSE previous
           /\ UNCHANGED stage
  <2>1. OpenRange'
    <3>1. rows' # << >> /\ rows'[Len(rows')].row = row /\ rows'[Len(rows')].unit = unit
      BY <1>3
    <3> QED
      BY <1>1, <1>5, <3>1 DEF OpenRange
  <2>2. RowsInside'
    <3>1. \A i \in 1 .. n : rows[i].row.address <= RamSize
      BY <1>1 DEF LinesInv, RowsInside
    <3>2. \A i \in 1 .. n + 1 : i \in 1 .. n \/ i = n + 1
      BY <1>3
    <3>3. rows'[n + 1].row.address <= RamSize
      BY <1>3, <1>5
    <3> QED
      BY <1>3, <3>1, <3>2, <3>3 DEF RowsInside
  <2>3. RowsFollowed'
    <3> SUFFICES ASSUME NEW i \in 1 .. n, Opens(rows'[i].row)
                 PROVE  rows'[i + 1].unit = rows'[i].unit
      BY <1>3 DEF RowsFollowed
    <3>1. CASE i = n
      <4>1. Opens(rows[n].row) /\ rows # << >>
        BY <1>1, <1>3, <3>1
      <4>2. rows[n].unit = unit
        BY <1>1, <4>1 DEF LinesInv, OpenRange
      <4> QED
        BY <1>3, <3>1, <4>2
    <3>2. CASE i # n
      <4>1. i \in 1 .. n - 1 /\ i + 1 \in 1 .. n
        BY <1>3, <3>2
      <4> QED
        BY <1>1, <1>3, <4>1 DEF LinesInv, RowsFollowed
    <3> QED
      BY <3>1, <3>2
  <2>4. TableBuilt'
    BY <1>1, <1>5 DEF TableBuilt
  <2>5. CASE pending /\ KeepRange(row)
    <3>1. /\ lines' = [items |-> Append(lines.items, Closed(row.address)), capacity |-> Reserved]
          /\ ~Full
      BY <1>5, <2>5
    <3>2. ItemsAreRows' /\ Closed(row.address) \in Closeds
      BY <1>1, <1>5, <2>5, <3>1, OneClosed
    <3>3. Reserved \in Nat /\ Len(lines.items) + 1 <= Reserved /\ Reserved <= MaxRecords
      BY <3>1, RoomForOne DEF LinesInv
    <3>4. /\ lines'.items \in Seq(Closeds) /\ Len(lines'.items) = Len(lines.items) + 1
          /\ lines'.capacity = Reserved
          /\ lines' = [items |-> lines'.items, capacity |-> lines'.capacity]
      <4>1. lines.items \in Seq(Closeds)
        BY DEF LinesInv, LineTypes
      <4> QED
        BY <3>1, <3>2, <4>1
    <3>5. TableFits'
      BY <3>3, <3>4 DEF TableFits
    <3>6. pending' \in BOOLEAN
      BY <1>5 DEF Opens
    <3>7. LineTypes'
      BY <1>1, <1>3, <1>5, <3>3, <3>4, <3>6 DEF LineTypes
    <3> QED
      BY <2>1, <2>2, <2>3, <2>4, <3>2, <3>5, <3>7 DEF LinesInv
  <2>6. CASE ~(pending /\ KeepRange(row))
    <3>1. lines' = lines
      BY <1>5, <2>6
    <3>2. ItemsAreRows'
      BY <1>1, <1>5, <2>6, <3>1, NothingClosed
    <3>3. pending' \in BOOLEAN
      BY <1>5 DEF Opens
    <3>4. LineTypes' /\ TableFits'
      BY <1>1, <1>3, <1>5, <3>1, <3>3 DEF LinesInv, LineTypes, TableFits
    <3> QED
      BY <2>1, <2>2, <2>3, <2>4, <3>2, <3>4 DEF LinesInv
  <2> QED
    BY <2>5, <2>6
<1> QED
  BY <1>4, <1>5 DEF ReadRow

LEMMA EndUnitKeepsInv == ASSUME LinesInv, EndUnit PROVE LinesInv'
<1>1. /\ stage = "rows" /\ rows \in Seq(Numbered) /\ unit \in Nat /\ pending \in BOOLEAN
      /\ output = "old" /\ UNCHANGED <<rows, previous, pending, output>>
  BY DEF EndUnit, LinesInv, LineTypes
<1>2. CASE LinesFail /\ UNCHANGED unit
  BY <1>1, <1>2, FailureLeavesNothing
<1>3. CASE ~pending /\ unit' = unit + 1 /\ UNCHANGED <<lines, stage>>
  <2>1. unit' \in Nat
    BY <1>1, <1>3
  <2> QED
    BY <1>1, <1>3, <2>1 DEF LinesInv, LineTypes, OpenRange, RowsInside, RowsFollowed, ItemsAreRows,
                            TableBuilt, TableFits
<1> QED
  BY <1>2, <1>3 DEF EndUnit

LEMMA ReadFailsKeepsInv == ASSUME LinesInv, ReadFails PROVE LinesInv'
<1>1. /\ LinesFail /\ UNCHANGED <<rows, unit, previous, pending, output>>
      /\ rows \in Seq(Numbered) /\ unit \in Nat /\ pending \in BOOLEAN /\ output = "old"
  BY DEF ReadFails, LinesInv, LineTypes
<1> QED
  BY <1>1, FailureLeavesNothing
-----------------------------------------------------------------------------
\* The largest end of the first ranges.
LEMMA MaximumEndIs ==
  ASSUME NEW s, NEW n \in Nat, NEW m \in Nat,
         \A k \in 1 .. n : s[k].end \in Nat /\ s[k].end <= m, NEW i \in 1 .. n
  PROVE  /\ MaximumEnd(s, i) \in Nat
         /\ \A j \in 1 .. i : s[j].end <= MaximumEnd(s, i)
         /\ \E j \in 1 .. i : s[j].end = MaximumEnd(s, i)
<1> DEFINE T == {s[j].end : j \in 1 .. i}
<1>1. T \subseteq Nat /\ \A e \in T : e <= m
  OBVIOUS
<1>2. s[1].end \in T
  OBVIOUS
<1>3. \E e \in T : \A f \in T : f <= e
  <2> HIDE DEF T
  <2> QED
    BY <1>1, <1>2, GreatestNatural
<1>4. \E e \in T : \A j \in 1 .. i : s[j].end <= e
  BY <1>3
<1>5. MaximumEnd(s, i) \in T /\ \A j \in 1 .. i : s[j].end <= MaximumEnd(s, i)
  BY <1>4 DEF MaximumEnd
<1> QED
  BY <1>1, <1>5

\* qsort and the maxima make a table that can be searched, of the same ranges.
LEMMA TableIsBuilt ==
  ASSUME NEW items \in Seq(Closeds), NEW m \in Nat,
         \A k \in 1 .. Len(items) : items[k].end <= m,
         NEW order \in SortedOrders(items)
  PROVE  TableOf(Table([i \in DOMAIN items |-> items[order[i]]]), items)
<1> DEFINE n == Len(items)
           s == [i \in DOMAIN items |-> items[order[i]]]
           t == Table(s)
<1>1. /\ n \in Nat /\ DOMAIN items = 1 .. n /\ \A k \in 1 .. n : items[k] \in Closeds
  OBVIOUS
<1>2. /\ order \in [1 .. n -> 1 .. n]
      /\ \A i, j \in 1 .. n : i # j => order[i] # order[j]
      /\ \A i \in 1 .. n : i + 1 \in 1 .. n => Before(items[order[i]], items[order[i + 1]])
  BY <1>1 DEF SortedOrders
<1> HIDE DEF n
<1>3. DOMAIN s = 1 .. n /\ \A i \in 1 .. n : order[i] \in 1 .. n /\ s[i] = items[order[i]]
  BY <1>1, <1>2
<1>4. \A x \in Closeds : x.begin \in Nat /\ x.end \in Nat /\ x.line \in Nat
  BY LinesAssumption DEF Closeds
<1>5. \A i \in 1 .. n : s[i] \in Closeds /\ s[i].end <= m
  BY <1>1, <1>3 DEF n
<1> HIDE DEF s
<1>6. \A i \in 1 .. n : s[i].begin \in Nat /\ s[i].end \in Nat /\ s[i].line \in Nat
  BY <1>4, <1>5
<1>7. \A i \in 1 .. n : /\ MaximumEnd(s, i) \in Nat
                        /\ \A j \in 1 .. i : s[j].end <= MaximumEnd(s, i)
                        /\ \E j \in 1 .. i : s[j].end = MaximumEnd(s, i)
  BY <1>1, <1>5, <1>6, MaximumEndIs
<1>8. \A i, j \in 1 .. n : i <= j => s[i].begin <= s[j].begin
  <2> DEFINE f == [i \in 1 .. n |-> s[i].begin]
  <2>1. \A i \in 1 .. n : f[i] = s[i].begin /\ f[i] \in Int
    BY <1>6
  <2>2. \A i \in 1 .. n - 1 : f[i] <= f[i + 1]
    <3> SUFFICES ASSUME NEW i \in 1 .. n - 1 PROVE s[i].begin <= s[i + 1].begin
      BY <1>1
    <3>1. i \in 1 .. n /\ i + 1 \in 1 .. n
      BY <1>1
    <3>2. Before(s[i], s[i + 1])
      BY <1>2, <1>3, <3>1
    <3> QED
      BY <1>6, <3>1, <3>2 DEF Before
  <2> HIDE DEF f
  <2>3. \A i, j \in 1 .. n : i <= j => f[i] <= f[j]
    BY <1>1, <2>1, <2>2, Ladder
  <2> QED
    BY <2>1, <2>3
<1>9. /\ DOMAIN t = 1 .. n
      /\ \A i \in 1 .. n : t[i] = [begin |-> s[i].begin, end |-> s[i].end,
                                   maximum_end |-> MaximumEnd(s, i), line |-> s[i].line]
  BY <1>3 DEF Table
<1>10. t \in Seq(Ranges)
  <2>1. \A i \in 1 .. n : t[i] \in Ranges
    BY <1>6, <1>7, <1>9 DEF Ranges
  <2>2. t = [i \in 1 .. n |-> t[i]]
    BY <1>3 DEF Table
  <2> HIDE DEF t
  <2> QED
    BY <1>1, <2>1, <2>2
<1>11. \A i \in 1 .. n : /\ t[i].begin = s[i].begin /\ t[i].end = s[i].end
                         /\ t[i].line = s[i].line /\ t[i].maximum_end = MaximumEnd(s, i)
  BY <1>9
<1> HIDE DEF t
<1>12. SortedTable(t)
  <2>1. \A i \in 1 .. n : \A j \in 1 .. i : j \in 1 .. n
    BY <1>1
  <2>2. \A i, j \in 1 .. n : i <= j => t[i].begin <= t[j].begin
    BY <1>8, <1>11
  <2>3. ASSUME NEW i \in 1 .. n
        PROVE  /\ \A j \in 1 .. i : t[j].end <= t[i].maximum_end
               /\ \E j \in 1 .. i : t[j].end = t[i].maximum_end
    <3>1. \A j \in 1 .. i : t[j].end = s[j].end
      BY <1>11, <2>1
    <3>2. t[i].maximum_end = MaximumEnd(s, i)
      BY <1>11
    <3> QED
      BY <1>7, <3>1, <3>2
  <2> QED
    BY <1>9, <2>2, <2>3 DEF SortedTable
<1>13. \A k \in 1 .. n : \E i \in 1 .. n : SameRange(t[k], items[i])
  BY <1>3, <1>11 DEF SameRange
<1>14. \A i \in 1 .. n : \E k \in 1 .. n : SameRange(t[k], items[i])
  <2> SUFFICES ASSUME NEW i \in 1 .. n PROVE \E k \in 1 .. n : SameRange(t[k], items[i])
    OBVIOUS
  <2>1. PICK k \in 1 .. n : order[k] = i
    BY <1>1, <1>2, EveryHole
  <2> QED
    BY <1>3, <1>11, <2>1 DEF SameRange
<1> QED
  BY <1>9, <1>10, <1>12, <1>13, <1>14 DEF TableOf, t, s, n

LEMMA FinishKeepsInv == ASSUME LinesInv, Finish PROVE LinesInv'
<1>1. /\ stage = "rows" /\ LastUnit < unit /\ stage' = "ok"
      /\ UNCHANGED <<rows, unit, previous, pending, lines>>
      /\ rows \in Seq(Numbered) /\ unit \in Nat /\ lines.items \in Seq(Closeds)
  BY DEF Finish, LinesInv, LineTypes
<1>2. PICK order \in SortedOrders(lines.items) :
        output' = Table([i \in DOMAIN lines.items |-> lines.items[order[i]]])
  BY DEF Finish
<1>3. ASSUME NEW k \in 1 .. Len(lines.items) PROVE lines.items[k].end <= RamSize
  <2>1. PICK i \in 1 .. Len(rows) : Bounded(rows, i) /\ lines.items[k] = RangeOf(rows, i)
    BY <1>1 DEF LinesInv, ItemsAreRows
  <2>2. i + 1 \in 1 .. Len(rows)
    BY <1>1, <2>1 DEF Bounded
  <2>3. rows[i + 1].row.address <= RamSize
    BY <1>1, <2>2 DEF LinesInv, RowsInside
  <2> QED
    BY <2>1, <2>3 DEF RangeOf
<1>4. TableOf(output', lines.items)
  <2>1. RamSize \in Nat
    BY LinesAssumption
  <2> QED
    BY <1>1, <1>2, <1>3, <2>1, TableIsBuilt
<1>5. rows # << >> => ~Opens(rows[Len(rows)].row)
  <2> SUFFICES ASSUME rows # << >>, Opens(rows[Len(rows)].row) PROVE FALSE
    OBVIOUS
  <2>1. rows[Len(rows)].unit = unit /\ LastUnit = rows[Len(rows)].unit
    BY <1>1 DEF LinesInv, OpenRange, LastUnit
  <2> QED
    BY <1>1, <2>1
<1>6. TableBuilt'
  BY <1>1, <1>4, <1>5 DEF TableBuilt
<1>7. LineTypes' /\ OpenRange' /\ TableFits'
  BY <1>1 DEF LinesInv, LineTypes, OpenRange, TableFits
<1>8. RowsInside' /\ RowsFollowed'
  BY <1>1 DEF LinesInv, RowsInside, RowsFollowed
<1>9. ItemsAreRows'
  BY <1>1 DEF LinesInv, ItemsAreRows
<1> QED
  BY <1>6, <1>7, <1>8, <1>9 DEF LinesInv

LEMMA LinesStep == LinesInv /\ [LinesNext]_linesVars => LinesInv'
<1> SUFFICES ASSUME LinesInv, [LinesNext]_linesVars PROVE LinesInv'
  OBVIOUS
<1>1. CASE UNCHANGED linesVars
  <2>1. UNCHANGED <<rows, unit, previous, pending, lines, output, stage>>
    BY <1>1 DEF linesVars
  <2>2. LineTypes' /\ OpenRange' /\ RowsInside' /\ RowsFollowed'
    BY <2>1 DEF LinesInv, LineTypes, OpenRange, RowsInside, RowsFollowed
  <2>3. ItemsAreRows' /\ TableBuilt' /\ TableFits'
    BY <2>1 DEF LinesInv, ItemsAreRows, TableBuilt, TableFits
  <2> QED
    BY <2>2, <2>3 DEF LinesInv
<1> QED
  BY <1>1, ReadRowKeepsInv, EndUnitKeepsInv, ReadFailsKeepsInv, FinishKeepsInv
     DEF LinesNext, LinesDone
-----------------------------------------------------------------------------
\* A row is in force from its address to that of the next row, which bounds it.
LEMMA InForceIs ==
  ASSUME LinesInv, NEW i \in DOMAIN rows, NEW a \in Nat
  PROVE  InForce(i, a) <=> /\ Bounded(rows, i)
                           /\ rows[i].row.address <= a /\ a < rows[i + 1].row.address
<1>1. /\ rows \in Seq(Numbered) /\ Len(rows) \in Nat /\ DOMAIN rows = 1 .. Len(rows)
      /\ \A k \in 1 .. Len(rows) : rows[k].row.address \in Nat
  BY RowsAre DEF LinesInv, LineTypes
<1>2. ASSUME InForce(i, a)
      PROVE  /\ Bounded(rows, i)
             /\ rows[i].row.address <= a /\ a < rows[i + 1].row.address
  <2>1. /\ i + 1 \in 1 .. Len(rows) /\ rows[i + 1].unit = rows[i].unit /\ Opens(rows[i].row)
        /\ rows[i].row.address <= a /\ a < rows[i + 1].row.address
    BY <1>1, <1>2 DEF InForce, Opens
  <2>2. i \in 1 .. Len(rows) - 1 /\ i \in 1 .. Len(rows)
    BY <1>1, <2>1
  <2>3. rows[i].row.address \in Nat /\ rows[i + 1].row.address \in Nat
    BY <1>1, <2>1, <2>2
  <2>4. rows[i].row.address < rows[i + 1].row.address
    BY <2>1, <2>3
  <2> QED
    BY <2>1, <2>2, <2>4 DEF Bounded
<1>3. ASSUME Bounded(rows, i), rows[i].row.address <= a, a < rows[i + 1].row.address
      PROVE  InForce(i, a)
  <2>1. i + 1 \in DOMAIN rows
    BY <1>1, <1>3 DEF Bounded
  <2> QED
    BY <1>3, <2>1 DEF InForce, Bounded, Opens
<1> QED
  BY <1>2, <1>3

\* What a range of the table covers is where its row is in force.
LEMMA CoveredIsInForce ==
  ASSUME LinesInv, stage = "ok", NEW k \in DOMAIN output, NEW a \in Nat,
         output[k].begin <= a, a < output[k].end
  PROVE  \E i \in DOMAIN rows : rows[i].row.line = output[k].line /\ InForce(i, a)
<1>1. rows \in Seq(Numbered) /\ DOMAIN rows = 1 .. Len(rows)
  BY RowsAre DEF LinesInv, LineTypes
<1>2. PICK j \in 1 .. Len(lines.items) : SameRange(output[k], lines.items[j])
  BY DEF LinesInv, TableBuilt, TableOf
<1>3. PICK i \in 1 .. Len(rows) : Bounded(rows, i) /\ lines.items[j] = RangeOf(rows, i)
  BY DEF LinesInv, ItemsAreRows
<1>4. /\ output[k].begin = rows[i].row.address /\ output[k].end = rows[i + 1].row.address
      /\ output[k].line = rows[i].row.line
  BY <1>2, <1>3 DEF SameRange, RangeOf
<1>5. InForce(i, a)
  BY <1>1, <1>3, <1>4, InForceIs
<1> QED
  BY <1>1, <1>4, <1>5

\* Where a row is in force, a range of its line covers the address.
LEMMA InForceIsCovered ==
  ASSUME LinesInv, stage = "ok", NEW i \in DOMAIN rows, NEW a \in Nat, InForce(i, a)
  PROVE  \E k \in DOMAIN output :
           output[k].line = rows[i].row.line /\ output[k].begin <= a /\ a < output[k].end
<1>1. rows \in Seq(Numbered) /\ DOMAIN rows = 1 .. Len(rows)
  BY RowsAre DEF LinesInv, LineTypes
<1>2. Bounded(rows, i) /\ rows[i].row.address <= a /\ a < rows[i + 1].row.address
  BY InForceIs
<1>3. PICK j \in 1 .. Len(lines.items) : lines.items[j] = RangeOf(rows, i)
  BY <1>1, <1>2 DEF LinesInv, ItemsAreRows
<1>4. PICK k \in DOMAIN output : SameRange(output[k], lines.items[j])
  BY DEF LinesInv, TableBuilt, TableOf
<1> QED
  BY <1>2, <1>3, <1>4 DEF SameRange, RangeOf

LEMMA TableIsOfRows == LinesInv => TableOfRows
<1> SUFFICES ASSUME LinesInv PROVE TableOfRows
  OBVIOUS
<1>1. /\ rows \in Seq(Numbered) /\ Len(rows) \in Nat /\ DOMAIN rows = 1 .. Len(rows)
      /\ \A k \in 1 .. Len(rows) : rows[k].row \in Rows
  BY RowsAre DEF LinesInv, LineTypes
<1>2. RangesAreRows
  <2> SUFFICES ASSUME stage = "ok", NEW a \in 0 .. RamSize, NEW l \in LineNumbers
               PROVE  (\E i \in DOMAIN output :
                         output[i].line = l /\ output[i].begin <= a /\ a < output[i].end)
                        <=> (\E i \in DOMAIN rows : rows[i].row.line = l /\ InForce(i, a))
    BY DEF RangesAreRows
  <2>1. a \in Nat
    BY LinesAssumption
  <2> QED
    BY <2>1, CoveredIsInForce, InForceIsCovered
<1>3. LineAddressIsFirst
  <2> SUFFICES ASSUME stage = "ok", NEW j \in DOMAIN output
               PROVE  output[LineAddress(output[j].line)].begin <= output[j].begin
    BY DEF LineAddressIsFirst
  <2> DEFINE matches == {i \in DOMAIN output : output[i].line = output[j].line}
             first == LineAddress(output[j].line)
  <2>1. output \in Seq(Ranges) /\ SortedTable(output)
    BY DEF LinesInv, TableBuilt, TableOf
  <2>2. matches \subseteq Nat /\ j \in matches
    BY <2>1
  <2>3. \E i \in matches : \A k \in matches : i <= k
    <3> HIDE DEF matches
    <3> QED
      BY <2>2, LeastNatural
  <2>4. first \in matches /\ \A k \in matches : first <= k
    BY <2>3 DEF LineAddress
  <2>5. first \in DOMAIN output /\ first <= j
    BY <2>2, <2>4
  <2> QED
    BY <2>1, <2>5 DEF SortedTable
<1>4. OpenRangeRefused
  <2>1. stage = "failed" => output = "old"
    BY DEF LinesInv, LineTypes
  <2>2. ASSUME stage = "ok", NEW i \in DOMAIN rows
        PROVE  \/ rows[i].row.end \/ rows[i].row.line = 0
               \/ (i + 1 \in DOMAIN rows /\ rows[i + 1].unit = rows[i].unit)
    <3>1. CASE Opens(rows[i].row)
      <4>1. i # Len(rows)
        BY <1>1, <2>2, <3>1 DEF LinesInv, TableBuilt
      <4>2. i \in 1 .. Len(rows) - 1 /\ i + 1 \in DOMAIN rows
        BY <1>1, <4>1
      <4> QED
        BY <2>2, <3>1, <4>2 DEF LinesInv, RowsFollowed
    <3>2. CASE ~Opens(rows[i].row)
      <4>1. rows[i].row.line \in Nat
        BY <1>1, RowFacts
      <4> QED
        BY <3>2, <4>1 DEF Opens
    <3> QED
      BY <3>1, <3>2
  <2> QED
    BY <2>1, <2>2 DEF OpenRangeRefused
<1> QED
  BY <1>2, <1>3, <1>4 DEF TableOfRows, LinesInv

\* Whatever rows libdw delivers, and in whichever order qsort leaves equal ranges, the
\* table that debug_info_read hands over covers exactly what the line program covers; a
\* line is found at its lowest address; the arrays hold what is stored in them; and a
\* unit that leaves a range open, like any other failure, keeps the caller's table.
THEOREM LinesTableOfRows == LinesSpec => []TableOfRows
<1>1. LinesInit => LinesInv
  BY LinesInitInv
<1>2. LinesInv /\ [LinesNext]_linesVars => LinesInv'
  BY LinesStep
<1>3. LinesInv => TableOfRows
  BY TableIsOfRows
<1> QED
  BY <1>1, <1>2, <1>3, PTL DEF LinesSpec
-----------------------------------------------------------------------------
(* debug_info_lookup, for every sorted table, however its ranges nest or     *)
(* overlap, and every address.                                              *)

LookupTypes ==
  /\ info \in Seq(Ranges) /\ SortedTable(info)
  /\ address \in Nat
  /\ left \in 0 .. Len(info) /\ right \in 0 .. Len(info) /\ found \in 0 .. Len(info)
  /\ phase \in {"search", "walk", "done"}

\* The search: what is left of the interval begins at or before the address, what is
\* right of it begins after it.
Searching ==
  phase = "search" =>
    /\ left <= right
    /\ \A k \in 1 .. left : info[k].begin <= address
    /\ \A k \in right + 1 .. Len(info) : info[k].begin > address

\* The walk: nothing from the present position on covers the address.
Walking == phase = "walk" => \A k \in left + 1 .. Len(info) : ~Covers(info[k])

LookupInv == LookupTypes /\ Searching /\ Walking /\ FindsLastCovering
-----------------------------------------------------------------------------
LEMMA TableFacts ==
  ASSUME LookupTypes
  PROVE  /\ Len(info) \in Nat /\ DOMAIN info = 1 .. Len(info)
         /\ \A k \in DOMAIN info :
              info[k].begin \in Nat /\ info[k].end \in Nat /\ info[k].maximum_end \in Nat
<1>1. info \in Seq(Ranges)
  BY DEF LookupTypes
<1>2. Len(info) \in Nat /\ DOMAIN info = 1 .. Len(info)
  BY <1>1
<1>3. \A k \in DOMAIN info : info[k] \in Ranges
  BY <1>1
<1>4. \A r \in Ranges : r.begin \in Nat /\ r.end \in Nat /\ r.maximum_end \in Nat
  BY DEF Ranges
<1> QED
  BY <1>2, <1>3, <1>4

LEMMA LookupInitInv == LookupInit => LookupInv
<1> SUFFICES ASSUME LookupInit PROVE LookupInv
  OBVIOUS
<1>1. info \in Seq(Ranges) /\ SortedTable(info) /\ address \in Nat
  BY LookupAssumption DEF LookupInit
<1>2. Len(info) \in Nat
  BY <1>1
<1> QED
  BY <1>1, <1>2 DEF LookupInit, LookupInv, LookupTypes, Searching, Walking, FindsLastCovering

\* A line to the left of one that begins at or before the address does so too, and
\* one to the right of one that begins after it does too: the table is sorted.
LEMMA HalveInv == LookupInv /\ Halve => LookupInv'
<1> SUFFICES ASSUME LookupInv, Halve PROVE LookupInv'
  OBVIOUS
<1> DEFINE m == Middle
<1>1. /\ LookupTypes /\ phase = "search" /\ left < right
      /\ info' = info /\ address' = address /\ phase' = phase /\ found' = found
  BY DEF Halve, LookupInv
<1>2. left \in Nat /\ right \in Nat /\ Len(info) \in Nat /\ right <= Len(info)
  BY <1>1 DEF LookupTypes
<1>3. m \in Nat /\ left <= m /\ m < right
  BY <1>1, <1>2 DEF Middle
<1>4. m + 1 \in DOMAIN info
  BY <1>1, <1>2, <1>3, TableFacts
<1> HIDE DEF m
<1>5. Searching'
  <2>1. CASE ToTheRight
    <3>1. left' = m + 1 /\ right' = right
      BY <2>1 DEF Halve, m
    <3>2. \A k \in 1 .. m + 1 : info[k].begin <= address
      <4> SUFFICES ASSUME NEW k \in 1 .. m + 1 PROVE info[k].begin <= address
        OBVIOUS
      <4>1. k \in DOMAIN info /\ k <= m + 1
        BY <1>1, <1>2, <1>3, TableFacts
      <4>2. info[k].begin <= info[m + 1].begin
        BY <1>1, <1>4, <4>1 DEF LookupTypes, SortedTable
      <4>3. info[m + 1].begin <= address
        BY <2>1 DEF ToTheRight, m
      <4> QED
        BY <1>1, <1>4, <4>1, <4>2, <4>3, TableFacts DEF LookupTypes
    <3> QED
      BY <1>1, <1>2, <1>3, <3>1, <3>2 DEF Searching, LookupInv
  <2>2. CASE ~ToTheRight
    <3>1. left' = left /\ right' = m
      BY <2>2 DEF Halve, m
    <3>2. \A k \in m + 1 .. Len(info) : info[k].begin > address
      <4> SUFFICES ASSUME NEW k \in m + 1 .. Len(info) PROVE info[k].begin > address
        OBVIOUS
      <4>1. k \in DOMAIN info /\ m + 1 <= k
        BY <1>1, <1>2, <1>3, TableFacts
      <4>2. info[m + 1].begin <= info[k].begin
        BY <1>1, <1>4, <4>1 DEF LookupTypes, SortedTable
      <4>3. ~(info[m + 1].begin <= address)
        BY <2>2 DEF ToTheRight, m
      <4> QED
        BY <1>1, <1>4, <4>1, <4>2, <4>3, TableFacts DEF LookupTypes
    <3> QED
      BY <1>1, <1>2, <1>3, <3>1, <3>2 DEF Searching, LookupInv
  <2> QED
    BY <2>1, <2>2
<1>6. LookupTypes'
  <2>1. left' \in 0 .. Len(info) /\ right' \in 0 .. Len(info)
    BY <1>1, <1>2, <1>3 DEF Halve, m
  <2> QED
    BY <1>1, <2>1 DEF LookupTypes
<1> QED
  BY <1>1, <1>5, <1>6 DEF LookupInv, Walking, FindsLastCovering

LEMMA EndSearchInv == LookupInv /\ EndSearch => LookupInv'
<1> SUFFICES ASSUME LookupInv, EndSearch PROVE LookupInv'
  OBVIOUS
<1>1. /\ LookupTypes /\ left \in Nat /\ right \in Nat /\ left = right /\ Len(info) \in Nat
      /\ phase' = "walk" /\ UNCHANGED <<info, address, left, right, found>>
  BY DEF EndSearch, LookupInv, Searching, LookupTypes
<1>2. \A k \in left + 1 .. Len(info) : ~Covers(info[k])
  <2> SUFFICES ASSUME NEW k \in left + 1 .. Len(info) PROVE ~Covers(info[k])
    OBVIOUS
  <2>1. info[k].begin > address
    BY <1>1 DEF EndSearch, LookupInv, Searching
  <2>2. k \in DOMAIN info
    BY <1>1, TableFacts
  <2> QED
    BY <1>1, <2>1, <2>2, TableFacts DEF Covers, LookupTypes
<1> QED
  BY <1>1, <1>2 DEF LookupInv, LookupTypes, Searching, Walking, FindsLastCovering, Covers
-----------------------------------------------------------------------------
\* The largest end of the ranges so far is at or before the address: none of them
\* covers it, and the walk may stop.
LEMMA NoneFurther ==
  ASSUME LookupTypes, NEW n \in DOMAIN info, NoneCovers(info[n]), NEW k \in 1 .. n
  PROVE  ~Covers(info[k])
<1>1. info[k].end <= info[n].maximum_end
  BY DEF LookupTypes, SortedTable
<1>2. info[n].maximum_end <= address
  BY DEF NoneCovers
<1>3. k \in DOMAIN info
  BY TableFacts
<1> QED
  BY <1>1, <1>2, <1>3, TableFacts DEF Covers, LookupTypes

LEMMA WalkBackInv == LookupInv /\ WalkBack => LookupInv'
<1> SUFFICES ASSUME LookupInv, WalkBack PROVE LookupInv'
  OBVIOUS
<1> DEFINE line == info[left]
<1>1. /\ LookupTypes /\ phase = "walk" /\ left \in Nat /\ left > 0 /\ Len(info) \in Nat
      /\ left <= Len(info) /\ left' = left - 1 /\ UNCHANGED <<info, address, right>>
  BY DEF WalkBack, LookupInv, LookupTypes
<1>2. left \in DOMAIN info /\ DOMAIN info = 1 .. Len(info)
  BY <1>1, TableFacts
<1>3. \A k \in left + 1 .. Len(info) : ~Covers(info[k])
  BY <1>1 DEF LookupInv, Walking
<1>4. found = found /\ found \in 0 .. Len(info)
  BY <1>1 DEF LookupTypes
<1>5. CASE NoneCovers(line) /\ ReturnLine(0)
  <2>1. \A k \in DOMAIN info : ~Covers(info[k])
    <3> SUFFICES ASSUME NEW k \in DOMAIN info PROVE ~Covers(info[k])
      OBVIOUS
    <3>1. k \in 1 .. left \/ k \in left + 1 .. Len(info)
      BY <1>1, <1>2
    <3> QED
      BY <1>1, <1>2, <1>3, <1>5, <3>1, NoneFurther
  <2>2. phase' = "done" /\ found' = 0
    BY <1>5 DEF ReturnLine
  <2> QED
    BY <1>1, <2>1, <2>2 DEF LookupInv, LookupTypes, Searching, Walking, FindsLastCovering, Covers
<1>6. CASE ~NoneCovers(line) /\ Covers(line) /\ ReturnLine(left)
  <2>1. \A k \in DOMAIN info : Covers(info[k]) => k <= left
    <3> SUFFICES ASSUME NEW k \in DOMAIN info, k > left PROVE ~Covers(info[k])
      BY <1>1, <1>2
    <3>1. k \in left + 1 .. Len(info)
      BY <1>1, <1>2
    <3> QED
      BY <1>3, <3>1
  <2>2. phase' = "done" /\ found' = left
    BY <1>6 DEF ReturnLine
  <2> QED
    BY <1>1, <1>6, <2>1, <2>2 DEF LookupInv, LookupTypes, Searching, Walking, FindsLastCovering, Covers
<1>7. CASE ~Covers(line) /\ UNCHANGED <<phase, found>>
  <2>1. \A k \in (left - 1) + 1 .. Len(info) : ~Covers(info[k])
    <3> SUFFICES ASSUME NEW k \in (left - 1) + 1 .. Len(info) PROVE ~Covers(info[k])
      OBVIOUS
    <3>1. k = left \/ k \in left + 1 .. Len(info)
      BY <1>1
    <3> QED
      BY <1>3, <1>7, <3>1
  <2> QED
    BY <1>1, <1>4, <1>7, <2>1 DEF LookupInv, LookupTypes, Searching, Walking, FindsLastCovering, Covers
<1> QED
  BY <1>5, <1>6, <1>7 DEF WalkBack

LEMMA EndWalkInv == LookupInv /\ EndWalk => LookupInv'
<1> SUFFICES ASSUME LookupInv, EndWalk PROVE LookupInv'
  OBVIOUS
<1>1. /\ LookupTypes /\ phase = "walk" /\ left = 0 /\ phase' = "done" /\ found' = 0
      /\ UNCHANGED <<info, address, left, right>>
  BY DEF EndWalk, ReturnLine, LookupInv
<1>2. \A k \in DOMAIN info : ~Covers(info[k])
  BY <1>1, TableFacts DEF LookupInv, Walking
<1> QED
  BY <1>1, <1>2 DEF LookupInv, LookupTypes, Searching, Walking, FindsLastCovering, Covers

LEMMA LookupUnchanged == LookupInv /\ UNCHANGED lookupVars => LookupInv'
  BY DEF lookupVars, LookupInv, LookupTypes, Searching, Walking, FindsLastCovering, Covers

LEMMA LookupStep == LookupInv /\ [LookupNext]_lookupVars => LookupInv'
  BY LookupUnchanged, HalveInv, EndSearchInv, WalkBackInv, EndWalkInv DEF LookupNext, LookupDone

\* debug_info_lookup returns the last range of the table that covers the address, and
\* NULL exactly if none does, for every sorted table with running maxima.
THEOREM LookupFindsLastCovering == LookupSpec => []FindsLastCovering
<1>1. LookupInv /\ [LookupNext]_lookupVars => LookupInv'
  BY LookupStep
<1>2. LookupInv => FindsLastCovering
  BY DEF LookupInv
<1> QED
  BY <1>1, <1>2, LookupInitInv, PTL DEF LookupSpec
-----------------------------------------------------------------------------
(* debug_info_lookup on what debug_info_read has returned.                   *)

LEMMA CallLookupInv ==
  ASSUME NEW table \in Seq(Ranges), SortedTable(table), CallLookup(table)
  PROVE  LookupInv'
<1>1. Len(table) \in Nat /\ LookedUp \subseteq Nat
  BY LookupAssumption
<1>2. /\ info' = table /\ address' \in LookedUp
      /\ left' = 0 /\ right' = Len(table) /\ phase' = "search" /\ found' = 0
  BY DEF CallLookup
<1>3. LookupTypes'
  BY <1>1, <1>2 DEF LookupTypes
<1>4. Searching'
  BY <1>1, <1>2 DEF Searching
<1> QED
  BY <1>2, <1>3, <1>4 DEF LookupInv, Walking, FindsLastCovering

\* The table that is searched is the one that was read.
SearchesWhatWasRead == active = "lookup" /\ stage = "ok" => info = output

DebugInv == LinesInv /\ LookupInv /\ SearchesWhatWasRead

LEMMA LinesIdleInv == LinesIdle => LinesInv
<1> SUFFICES ASSUME LinesIdle PROVE LinesInv
  OBVIOUS
<1>1. /\ rows = << >> /\ unit = 1 /\ pending = FALSE /\ stage = "failed" /\ output = "old"
      /\ lines = [items |-> << >>, capacity |-> 0]
      /\ Len(lines.items) = 0 /\ lines.items = << >> /\ lines.capacity = 0
  BY DEF LinesIdle
<1>2. LineTypes
  <2>1. << >> \in Seq(Numbered) /\ << >> \in Seq(Closeds)
    OBVIOUS
  <2> QED
    BY <1>1, <2>1 DEF LineTypes
<1>3. 0 <= MaxRecords
  BY LinesAssumption
<1> QED
  BY <1>1, <1>2, <1>3 DEF LinesInv, OpenRange, RowsInside, RowsFollowed, ItemsAreRows, TableBuilt,
                          TableFits

LEMMA LookupIdleInv == LookupIdle => LookupInv
<1> SUFFICES ASSUME LookupIdle PROVE LookupInv
  OBVIOUS
<1>1. /\ info = << >> /\ address = 0 /\ left = 0 /\ right = 0 /\ phase = "done" /\ found = 0
      /\ Len(info) = 0 /\ DOMAIN info = {} /\ info \in Seq(Ranges)
  BY DEF LookupIdle
<1>2. SortedTable(info)
  BY <1>1 DEF SortedTable
<1> QED
  BY <1>1, <1>2 DEF LookupInv, LookupTypes, Searching, Walking, FindsLastCovering

LEMMA DebugInitInv == Init => DebugInv
<1>1. CASE active = "lines" /\ LinesInit /\ LookupIdle
  BY <1>1, LinesInitInv, LookupIdleInv DEF DebugInv, SearchesWhatWasRead
<1>2. CASE active = "lookup" /\ LinesIdle /\ LookupInit
  <2>1. stage # "ok"
    BY <1>2 DEF LinesIdle
  <2> QED
    BY <1>2, <2>1, LinesIdleInv, LookupInitInv DEF DebugInv, SearchesWhatWasRead
<1> QED
  BY <1>1, <1>2 DEF Init

LEMMA DebugStep == DebugInv /\ [Next]_debugVars => DebugInv'
<1> SUFFICES ASSUME DebugInv, [Next]_debugVars PROVE DebugInv'
  OBVIOUS
<1>1. CASE UNCHANGED debugVars
  <2>1. UNCHANGED linesVars /\ UNCHANGED lookupVars /\ UNCHANGED active
    BY <1>1 DEF debugVars
  <2>2. stage' = stage /\ output' = output /\ info' = info
    BY <2>1 DEF linesVars, lookupVars
  <2> QED
    BY <2>1, <2>2, LinesStep, LookupUnchanged DEF DebugInv, SearchesWhatWasRead
<1>2. CASE ReadLines
  <2>1. active = "lines" /\ active' = active /\ LinesNext /\ UNCHANGED lookupVars
    BY <1>2 DEF ReadLines
  <2> QED
    BY <2>1, LinesStep, LookupUnchanged DEF DebugInv, SearchesWhatWasRead
<1>3. CASE LookUp
  <2>1. active' = active /\ LookupNext /\ UNCHANGED linesVars
    BY <1>3 DEF LookUp
  <2>2. stage' = stage /\ output' = output
    BY <2>1 DEF linesVars
  <2>3. info' = info
    BY <2>1 DEF LookupNext, Halve, EndSearch, WalkBack, EndWalk, LookupDone, lookupVars
  <2> QED
    BY <2>1, <2>2, <2>3, LinesStep, LookupStep DEF DebugInv, SearchesWhatWasRead
<1>4. CASE LookUpRow
  <2>1. stage = "ok" /\ UNCHANGED linesVars /\ CallLookup(output)
    BY <1>4 DEF LookUpRow
  <2>2. stage' = stage /\ output' = output /\ info' = output
    BY <2>1 DEF linesVars, CallLookup
  <2>3. output \in Seq(Ranges) /\ SortedTable(output)
    BY <2>1 DEF DebugInv, LinesInv, TableBuilt, TableOf
  <2> QED
    BY <2>1, <2>2, <2>3, LinesStep, CallLookupInv DEF DebugInv, SearchesWhatWasRead
<1> QED
  BY <1>1, <1>2, <1>3, <1>4 DEF Next

LEMMA RowIsNamed == DebugInv => LookupNamesRow
<1> SUFFICES ASSUME DebugInv, active = "lookup", stage = "ok", phase = "done"
             PROVE  /\ SortedTable(info)
                    /\ IF found = 0 THEN \A i \in DOMAIN rows : ~InForce(i, address)
                       ELSE \E i \in DOMAIN rows :
                              rows[i].row.line = info[found].line /\ InForce(i, address)
  BY DEF LookupNamesRow
<1>1. /\ info = output /\ LinesInv /\ SortedTable(info) /\ address \in Nat
      /\ info \in Seq(Ranges) /\ found \in 0 .. Len(info) /\ FindsLastCovering
  BY DEF DebugInv, SearchesWhatWasRead, LookupInv, LookupTypes
<1>2. CASE found = 0
  <2>1. \A k \in DOMAIN output : ~(output[k].begin <= address /\ address < output[k].end)
    BY <1>1, <1>2 DEF FindsLastCovering, Covers
  <2> QED
    BY <1>1, <1>2, <2>1, InForceIsCovered
<1>3. CASE found # 0
  <2>1. found \in DOMAIN output /\ output[found].begin <= address /\ address < output[found].end
    BY <1>1, <1>3 DEF FindsLastCovering, Covers
  <2> QED
    BY <1>1, <1>3, <2>1, CoveredIsInForce
<1> QED
  BY <1>2, <1>3

LEMMA DebugInvariant == Spec => []DebugInv
<1>1. Init => DebugInv
  BY DebugInitInv
<1>2. DebugInv /\ [Next]_debugVars => DebugInv'
  BY DebugStep
<1> QED
  BY <1>1, <1>2, PTL DEF Spec

\* From an address the monitor is given a line whose row is in force there, and none only
\* if none is: the table that was read is what the lookup needs, and the lookup finds in
\* it what the line program says (debug_info_read, debug_info_lookup).
THEOREM AddressToLine == Spec => []LookupNamesRow
<1>1. DebugInv => LookupNamesRow
  BY RowIsNamed
<1> QED
  BY <1>1, DebugInvariant, PTL
=============================================================================
