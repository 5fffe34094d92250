------------------------- MODULE DirtyTrackerProofs -------------------------
(***************************************************************************)
(* The damage tracker never misses a mark, whatever its capacity: the      *)
(* list stays sorted, and the spans it holds cover the history of marks.   *)
(* Nor does it report more than it must: a span is a hull of marks, and    *)
(* everything is reported only after more rows than the list holds.        *)
(***************************************************************************)
EXTENDS DirtyTracker, FunctionTheorems, FiniteSetTheorems, TLAPS

(* Insertion keeps every span and adds one: what was at i is now at i or at  *)
(* i + 1.                                                                    *)
LEMMA InsertedElements ==
  ASSUME NEW k \in 0..Len(rows), NEW span \in DirtySpan, rows \in Seq(DirtySpan)
  PROVE  /\ Inserted(k, span) \in Seq(DirtySpan)
         /\ Len(Inserted(k, span)) = Len(rows) + 1
         /\ Inserted(k, span)[k+1] = span
         /\ \A i \in 1..k : Inserted(k, span)[i] = rows[i]
         /\ \A i \in k+1..Len(rows) : Inserted(k, span)[i+1] = rows[i]
         /\ \A i \in k+2..Len(rows)+1 : Inserted(k, span)[i] = rows[i-1]
  BY DEF Inserted

(* The fields of a span are numbers.                                         *)
LEMMA SpanFields ==
  ASSUME NEW span \in DirtySpan
  PROVE  span.row \in Nat /\ span.start_col \in Nat /\ span.end_col \in Nat
  BY TrackerAssumption DEF DirtySpan

(* merge yields a span of the same row that covers both.                     *)
LEMMA MergeCovers ==
  ASSUME NEW span \in DirtySpan, NEW start \in Nat, NEW end \in Nat
  PROVE  /\ merge(span, start, end) \in DirtySpan
         /\ merge(span, start, end).row = span.row
         /\ merge(span, start, end).start_col <= span.start_col
         /\ merge(span, start, end).start_col <= start
         /\ merge(span, start, end).end_col >= span.end_col
         /\ merge(span, start, end).end_col >= end
  BY DEF merge, DirtySpan

(* The inductive invariant: covering relies on nothing but the types, the    *)
(* order of the list on nothing but the position of an insertion.            *)
Inv == TypeOK /\ SpansAscending /\ DamageCovers

(* An empty list satisfies the invariant when nothing is marked or all is    *)
(* dirty: the states that Init, mark_all and take produce.                   *)
LEMMA EmptyKeeps ==
  ASSUME rows = <<>>, all_dirty \in BOOLEAN, marked \subseteq Cells, all_dirty \/ marked = {}
  PROVE  Inv
<1>1. rows \in Seq(DirtySpan) /\ Len(rows) = 0
  OBVIOUS
<1>2. TypeOK
  BY <1>1, TrackerAssumption DEF TypeOK
<1>3. SpansAscending
  BY <1>1 DEF SpansAscending
<1>4. DamageCovers
  BY DEF DamageCovers, Reported
<1> QED
  BY <1>2, <1>3, <1>4 DEF Inv

(* A list emptied together with the flag: the step an empty list takes over. *)
LEMMA EmptyKeepsPrimed ==
  ASSUME rows' = <<>>, all_dirty' \in BOOLEAN, marked' \subseteq Cells, all_dirty' \/ marked' = {}
  PROVE  Inv'
<1>1. rows' \in Seq(DirtySpan) /\ Len(rows') = 0
  OBVIOUS
<1>2. TypeOK'
  BY <1>1, TrackerAssumption DEF TypeOK
<1>3. SpansAscending'
  BY <1>1 DEF SpansAscending
<1>4. DamageCovers'
  BY DEF DamageCovers, Reported
<1> QED
  BY <1>2, <1>3, <1>4 DEF Inv

(* push_or_merge keeps the list typed and sorted, and afterwards reports     *)
(* what it reported before and the new range.                                *)
LEMMA PushKeeps ==
  ASSUME Inv, ~all_dirty, NEW row \in Rows,
         NEW start \in 0..ColMax, NEW end \in 0..ColMax, start < end,
         push_or_merge(row, start, end)
  PROVE  /\ rows' \in Seq(DirtySpan) /\ Len(rows') <= MaxTracked /\ all_dirty' \in BOOLEAN
         /\ SpansAscending'
         /\ \A cell \in Cells : Reported(cell) => Reported(cell)'
         /\ \A c \in start..end-1 : Reported(<<row, c>>)'
<1> USE TrackerAssumption
<1> start \in Nat /\ end \in Nat /\ rows \in Seq(DirtySpan) /\ Len(rows) <= MaxTracked
  BY DEF Inv, TypeOK
<1>1. CASE \E i \in 1..Len(rows) :
              /\ rows[i].row = row
              /\ rows' = [rows EXCEPT ![i] = merge(rows[i], start, end)]
              /\ UNCHANGED all_dirty
  <2>1. PICK i \in 1..Len(rows) :
              /\ rows[i].row = row
              /\ rows' = [rows EXCEPT ![i] = merge(rows[i], start, end)]
              /\ UNCHANGED all_dirty
    BY <1>1
  <2> DEFINE new == merge(rows[i], start, end)
  <2>2. rows[i] \in DirtySpan
    OBVIOUS
  <2>3. /\ new \in DirtySpan /\ new.row = row
        /\ new.start_col <= rows[i].start_col /\ new.start_col <= start
        /\ new.end_col >= rows[i].end_col /\ new.end_col >= end
    BY <2>1, <2>2, MergeCovers
  <2> HIDE DEF new
  <2>4. /\ rows' \in Seq(DirtySpan) /\ Len(rows') = Len(rows) /\ rows'[i] = new
        /\ \A j \in 1..Len(rows) : j # i => rows'[j] = rows[j]
    BY <2>1, <2>3 DEF new
  <2>5. \A j \in 1..Len(rows) : rows'[j].row = rows[j].row
    BY <2>1, <2>3, <2>4
  <2>6. SpansAscending'
    BY <2>4, <2>5 DEF SpansAscending, Inv
  <2>7. ASSUME NEW cell \in Cells, Reported(cell) PROVE Reported(cell)'
    <3>1. PICK j \in 1..Len(rows) : /\ rows[j].row = cell[1]
                                    /\ rows[j].start_col <= cell[2] /\ cell[2] < rows[j].end_col
      BY <2>7 DEF Reported
    <3>2. cell[2] \in Int /\ rows[j] \in DirtySpan
      BY DEF Cells, Cols
    <3>3. /\ rows'[j].row = cell[1]
          /\ rows'[j].start_col <= cell[2] /\ cell[2] < rows'[j].end_col
      <4>1. CASE j = i
        <5>1. /\ new.start_col \in Nat /\ new.end_col \in Nat
              /\ rows[i].start_col \in Nat /\ rows[i].end_col \in Nat
          BY <2>2, <2>3, SpanFields
        <5>2. /\ rows[i].start_col <= cell[2] /\ cell[2] < rows[i].end_col
              /\ rows[i].row = cell[1] /\ rows'[j] = new
          BY <2>4, <3>1, <4>1
        <5>3. new.start_col <= cell[2] /\ cell[2] < new.end_col
          <6>1. new.start_col <= rows[i].start_col /\ new.end_col >= rows[i].end_col
            BY <2>3
          <6> QED
            BY <3>2, <5>1, <5>2, <6>1
        <5> QED
          BY <2>1, <2>3, <5>2, <5>3
      <4>2. CASE j # i
        BY <2>4, <3>1, <4>2
      <4> QED
        BY <4>1, <4>2
    <3> QED
      BY <2>4, <3>3 DEF Reported
  <2>8. ASSUME NEW c \in start..end-1 PROVE Reported(<<row, c>>)'
    <3>1. new.start_col \in Nat /\ new.end_col \in Nat /\ c \in Int /\ start <= c /\ c < end
      BY <2>3, SpanFields
    <3>2. new.start_col <= c /\ c < new.end_col
      BY <2>3, <3>1
    <3>3. i \in 1..Len(rows') /\ rows'[i] = new /\ new.row = row
      BY <2>3, <2>4
    <3> QED
      BY <3>2, <3>3 DEF Reported
  <2> QED
    BY <2>1, <2>4, <2>6, <2>7, <2>8 DEF Inv, TypeOK
<1>2. CASE Everything
  BY <1>2 DEF Everything, SpansAscending, Reported
<1>3. CASE /\ ~contains(row) /\ ~Full
           /\ \E k \in 0..Len(rows) :
                /\ insert_at(row, k)
                /\ rows' = Inserted(k, [row |-> row, start_col |-> start, end_col |-> end])
           /\ UNCHANGED all_dirty
  <2> DEFINE span == [row |-> row, start_col |-> start, end_col |-> end]
  <2>1. PICK k \in 0..Len(rows) : insert_at(row, k) /\ rows' = Inserted(k, span)
    BY <1>3
  <2>2. span \in DirtySpan /\ span.row = row /\ span.start_col = start /\ span.end_col = end
    BY DEF DirtySpan
  <2> HIDE DEF span
  <2>3. /\ rows' \in Seq(DirtySpan) /\ Len(rows') = Len(rows) + 1 /\ rows'[k+1] = span
        /\ \A i \in 1..k : rows'[i] = rows[i]
        /\ \A i \in k+1..Len(rows) : rows'[i+1] = rows[i]
        /\ \A i \in k+2..Len(rows)+1 : rows'[i] = rows[i-1]
    BY <2>1, <2>2, InsertedElements
  <2>4. Len(rows) + 1 <= MaxTracked
    BY <1>3 DEF Full
  <2>5. SpansAscending'
    <3>1. ASSUME NEW i \in 1..Len(rows)+1, NEW j \in 1..Len(rows)+1, i < j
          PROVE  rows'[i].row < rows'[j].row
      <4>0. Len(rows) \in Nat /\ \A n \in 1..Len(rows) : rows[n].row \in Nat
        BY SpanFields
      <4>1. CASE j <= k
        <5>1. rows'[i] = rows[i] /\ rows'[j] = rows[j] /\ i \in 1..Len(rows) /\ j \in 1..Len(rows)
          <6>1. i \in 1..k /\ j \in 1..k /\ i \in 1..Len(rows) /\ j \in 1..Len(rows)
            BY <3>1, <4>0, <4>1
          <6> QED
            BY <2>3, <6>1
        <5> QED
          BY <3>1, <5>1 DEF Inv, SpansAscending
      <4>2. CASE j = k + 1
        <5>1. rows'[i] = rows[i] /\ rows'[j].row = row /\ rows[i].row < row
          BY <2>1, <2>2, <2>3, <3>1, <4>2 DEF insert_at
        <5> QED
          BY <5>1
      <4>3. CASE j > k + 1 /\ i = k + 1
        <5>1. j - 1 \in k+1..Len(rows) /\ rows'[j] = rows[j-1] /\ rows'[i].row = row
          BY <2>2, <2>3, <3>1, <4>3
        <5>2. rows[j-1].row > row /\ row \in Nat /\ rows[j-1].row \in Nat
          BY <2>1, <4>0, <5>1, TrackerAssumption DEF insert_at
        <5> QED
          BY <5>1, <5>2
      <4>4. CASE j > k + 1 /\ i <= k
        <5>1. rows'[i] = rows[i] /\ rows'[j] = rows[j-1] /\ i < j - 1 /\ j - 1 \in 1..Len(rows)
              /\ i \in 1..Len(rows)
          BY <2>3, <3>1, <4>4
        <5> QED
          BY <5>1 DEF Inv, SpansAscending
      <4>5. CASE i > k + 1
        <5>1. rows'[i] = rows[i-1] /\ rows'[j] = rows[j-1] /\ i - 1 < j - 1
              /\ i - 1 \in 1..Len(rows) /\ j - 1 \in 1..Len(rows)
          BY <2>3, <3>1, <4>5
        <5> QED
          BY <5>1 DEF Inv, SpansAscending
      <4> QED
        BY <3>1, <4>1, <4>2, <4>3, <4>4, <4>5
    <3> QED
      BY <2>3, <3>1 DEF SpansAscending
  <2>6. ASSUME NEW cell \in Cells, Reported(cell) PROVE Reported(cell)'
    <3>1. PICK j \in 1..Len(rows) : /\ rows[j].row = cell[1]
                                    /\ rows[j].start_col <= cell[2] /\ cell[2] < rows[j].end_col
      BY <2>6 DEF Reported
    <3>2. \E n \in 1..Len(rows') : rows'[n] = rows[j]
      <4>1. CASE j <= k
        BY <2>3, <4>1
      <4>2. CASE j > k
        <5>1. j + 1 \in 1..Len(rows') /\ rows'[j+1] = rows[j]
          BY <2>3, <4>2
        <5> QED
          BY <5>1
      <4> QED
        BY <4>1, <4>2
    <3> QED
      BY <3>1, <3>2 DEF Reported
  <2>7. ASSUME NEW c \in start..end-1 PROVE Reported(<<row, c>>)'
    <3>1. k + 1 \in 1..Len(rows') /\ rows'[k+1] = span /\ start <= c /\ c < end
      BY <2>3
    <3> QED
      BY <2>2, <3>1 DEF Reported
  <2>8. Len(rows') <= MaxTracked /\ all_dirty' \in BOOLEAN
    BY <1>3, <2>3, <2>4 DEF Inv, TypeOK
  <2> QED
    BY <2>3, <2>5, <2>6, <2>7, <2>8
<1> QED
  BY <1>1, <1>2, <1>3 DEF push_or_merge

(* One mark keeps the invariant.                                             *)
LEMMA MarkKeeps ==
  ASSUME Inv, NEW row \in Rows, NEW start \in 0..ColMax, NEW end \in 0..ColMax,
         mark_range(row, start, end)
  PROVE  Inv'
<1> USE TrackerAssumption
<1> DEFINE range == {row} \X (start..end-1)
<1>1. marked' = marked \cup range /\ range \subseteq Cells
  BY DEF mark_range, Cells, Cols
<1>2. CASE all_dirty \/ start >= end
  <2>1. UNCHANGED <<rows, all_dirty>> /\ (all_dirty \/ range = {})
    BY <1>2 DEF mark_range
  <2> QED
    BY <1>1, <2>1 DEF Inv, TypeOK, SpansAscending, DamageCovers, Reported
<1>3. CASE ~all_dirty /\ start < end
  <2>1. push_or_merge(row, start, end)
    BY <1>3 DEF mark_range
  <2>2. /\ rows' \in Seq(DirtySpan) /\ Len(rows') <= MaxTracked /\ all_dirty' \in BOOLEAN
        /\ SpansAscending'
        /\ \A cell \in Cells : Reported(cell) => Reported(cell)'
        /\ \A c \in start..end-1 : Reported(<<row, c>>)'
    BY <1>3, <2>1, PushKeeps
  <2>3. \A cell \in range : \E c \in start..end-1 : cell = <<row, c>>
    OBVIOUS
  <2>4. TypeOK'
    BY <1>1, <2>2 DEF TypeOK, Inv
  <2>5. DamageCovers'
    <3> SUFFICES ASSUME NEW cell \in marked' PROVE Reported(cell)'
      BY DEF DamageCovers
    <3>1. CASE cell \in marked
      <4>1. cell \in Cells /\ Reported(cell)
        BY <3>1 DEF Inv, TypeOK, DamageCovers
      <4> QED
        BY <2>2, <4>1
    <3>2. CASE cell \in range
      BY <2>2, <2>3, <3>2
    <3> QED
      BY <1>1, <3>1, <3>2
  <2> QED
    BY <2>2, <2>4, <2>5 DEF Inv
<1> QED
  BY <1>2, <1>3

(* The invariant holds in every reachable state.                             *)
THEOREM TrackerInvariant == Spec => []Inv
<1> USE TrackerAssumption
<1>1. Init => Inv
  BY EmptyKeeps DEF Init
<1>2. Inv /\ [Next]_vars => Inv'
  <2> SUFFICES ASSUME Inv, [Next]_vars PROVE Inv'
    OBVIOUS
  <2>1. ASSUME NEW row \in Rows, NEW start \in 0..ColMax, NEW end \in 0..ColMax,
               mark_range(row, start, end)
        PROVE  Inv'
    BY <2>1, MarkKeeps
  <2>2. ASSUME NEW row \in Rows, NEW col \in 0..ColMax, mark_cell(row, col) PROVE Inv'
    <3> DEFINE end == IF col = ColMax THEN ColMax ELSE col + 1
    <3>1. end \in 0..ColMax /\ mark_range(row, col, end)
      BY <2>2 DEF mark_cell
    <3> QED
      BY <3>1, MarkKeeps
  <2>3. ASSUME NEW row \in Rows, mark_row(row) PROVE Inv'
    <3>1. 0 \in 0..ColMax /\ ColMax \in 0..ColMax /\ mark_range(row, 0, ColMax)
      BY <2>3 DEF mark_row
    <3> QED
      BY <3>1, MarkKeeps
  <2>4. CASE mark_all \/ resize
    BY <2>4, EmptyKeepsPrimed DEF mark_all, resize, Everything
  <2>5. CASE take
    <3>1. CASE all_dirty
      <4>1. UNCHANGED rows /\ all_dirty' = FALSE /\ marked' = {}
        BY <2>5, <3>1 DEF take
      <4> QED
        BY <4>1 DEF Inv, TypeOK, SpansAscending, DamageCovers
    <3>2. CASE ~all_dirty
      <4>1. rows' = <<>> /\ all_dirty' = FALSE /\ marked' = {}
        BY <2>5, <3>2 DEF take, Inv, TypeOK
      <4> QED
        BY <4>1, EmptyKeepsPrimed
    <3> QED
      BY <3>1, <3>2
  <2>6. CASE UNCHANGED vars
    BY <2>6 DEF vars, Inv, TypeOK, SpansAscending, DamageCovers, Reported
  <2> QED
    BY <2>1, <2>2, <2>3, <2>4, <2>5, <2>6 DEF Next
<1> QED
  BY <1>1, <1>2, PTL DEF Spec

(* DamageCovers for every capacity: no marked cell is missed by the next     *)
(* take.                                                                     *)
THEOREM MarksAreReported == Spec => []DamageCovers
<1>1. Inv => DamageCovers
  BY DEF Inv
<1> QED
  BY TrackerInvariant, <1>1, PTL

(* SpansAscending: push_or_merge's binary searches always run on a list that *)
(* is sorted, with one span per row.                                         *)
THEOREM RowsAscend == Spec => []SpansAscending
<1>1. Inv => SpansAscending
  BY DEF Inv
<1> QED
  BY TrackerInvariant, <1>1, PTL

-----------------------------------------------------------------------------
(* What ReportedWithCause needs beside itself: the marked rows can be        *)
(* counted as long as not everything was marked.                             *)
TightInv == ReportedWithCause /\ (marked = Cells \/ IsFiniteSet(MarkedRows))

(* The rows of a longer history.                                             *)
LEMMA RowsMarked ==
  ASSUME NEW row \in Rows, NEW start \in Nat, NEW end \in Nat,
         marked' = marked \cup ({row} \X (start..end-1))
  PROVE  /\ MarkedRows \subseteq MarkedRows' /\ MarkedRows' \subseteq MarkedRows \cup {row}
         /\ start < end => row \in MarkedRows'
         /\ IsFiniteSet(MarkedRows) =>
              IsFiniteSet(MarkedRows') /\ Cardinality(MarkedRows) <= Cardinality(MarkedRows')
<1>1. MarkedRows \subseteq MarkedRows' /\ MarkedRows' \subseteq MarkedRows \cup {row}
  BY DEF MarkedRows
<1>2. start < end => row \in MarkedRows'
  <2> SUFFICES ASSUME start < end PROVE row \in MarkedRows'
    OBVIOUS
  <2>1. <<row, start>> \in marked' /\ <<row, start>>[1] = row
    OBVIOUS
  <2> QED
    BY <2>1 DEF MarkedRows
<1>3. ASSUME IsFiniteSet(MarkedRows) PROVE IsFiniteSet(MarkedRows')
  BY <1>1, <1>3, FS_AddElement, FS_Subset
<1>4. ASSUME IsFiniteSet(MarkedRows) PROVE Cardinality(MarkedRows) <= Cardinality(MarkedRows')
  BY <1>1, <1>3, <1>4, FS_Subset
<1> QED
  BY <1>1, <1>2, <1>3, <1>4

(* A full list and a row it does not hold are more rows than it holds.       *)
LEMMA OverflowCounts ==
  ASSUME Inv, NEW row \in Rows, ~contains(row), Full, NEW S, IsFiniteSet(S), row \in S,
         \A i \in 1..Len(rows) : rows[i].row \in S
  PROVE  Cardinality(S) > MaxTracked
<1> USE TrackerAssumption
<1> DEFINE D == 0..MaxTracked
           f == [i \in D |-> IF i = 0 THEN row ELSE rows[i].row]
<1>1. MaxTracked \in Nat /\ Len(rows) = MaxTracked
  BY DEF Full
<1>2. f \in [D -> S]
  BY <1>1
<1>3. \A i, j \in 1..MaxTracked : i # j => rows[i].row # rows[j].row
  <2>1. \A i \in 1..MaxTracked : rows[i].row \in Nat
    BY <1>1, SpanFields DEF Inv, TypeOK
  <2>2. \A i, j \in 1..MaxTracked : i < j => rows[i].row < rows[j].row
    BY <1>1 DEF Inv, SpansAscending
  <2> QED
    BY <1>1, <2>1, <2>2
<1>4. \A i \in 1..MaxTracked : rows[i].row # row
  BY <1>1 DEF contains
<1>5. \A i, j \in D : i # j => f[i] # f[j]
  <2> SUFFICES ASSUME NEW i \in D, NEW j \in D, i # j PROVE f[i] # f[j]
    OBVIOUS
  <2>1. CASE i = 0
    BY <1>1, <1>4, <2>1
  <2>2. CASE j = 0
    BY <1>1, <1>4, <2>2
  <2>3. CASE i # 0 /\ j # 0
    <3>1. i \in 1..MaxTracked /\ j \in 1..MaxTracked
      BY <1>1, <2>3
    <3> QED
      BY <1>3, <2>3, <3>1
  <2> QED
    BY <2>1, <2>2, <2>3
<1>6. f \in Injection(D, S)
  BY <1>2, <1>5 DEF Injection, IsInjective
<1>7. Cardinality(D) = MaxTracked + 1
  BY <1>1, FS_Interval
<1>8. Cardinality(D) <= Cardinality(S)
  BY <1>6, FS_Injection
<1>9. Cardinality(S) \in Nat
  BY FS_CardinalityType
<1> QED
  BY <1>1, <1>7, <1>8, <1>9

(* A mark that is tracked: the spans stay hulls of marks, and a list that    *)
(* overflows has seen more rows than it holds.                               *)
LEMMA PushTight ==
  ASSUME Inv, TightInv, ~all_dirty, NEW row \in Rows,
         NEW start \in 0..ColMax, NEW end \in 0..ColMax, start < end,
         marked' = marked \cup ({row} \X (start..end-1)), marked' \subseteq Cells,
         push_or_merge(row, start, end)
  PROVE  ReportedWithCause'
<1> USE TrackerAssumption
<1>0. /\ start \in Nat /\ end \in Nat /\ rows \in Seq(DirtySpan)
      /\ <<row, start>> \in marked' /\ <<row, end - 1>> \in marked' /\ marked \subseteq marked'
      /\ \A i \in 1..Len(rows) : <<rows[i].row, rows[i].start_col>> \in marked'
                                 /\ <<rows[i].row, rows[i].end_col - 1>> \in marked'
  BY DEF Inv, TypeOK, TightInv, ReportedWithCause
<1>1. ASSUME NEW i \in 1..Len(rows), rows[i].row = row,
             rows' = [rows EXCEPT ![i] = merge(rows[i], start, end)], UNCHANGED all_dirty
      PROVE  ReportedWithCause'
  <2> DEFINE new == merge(rows[i], start, end)
  <2>1. /\ new.row = row
        /\ new.start_col = start \/ new.start_col = rows[i].start_col
        /\ new.end_col = end \/ new.end_col = rows[i].end_col
    BY <1>1 DEF merge
  <2>2. <<new.row, new.start_col>> \in marked' /\ <<new.row, new.end_col - 1>> \in marked'
    BY <1>0, <1>1, <2>1
  <2> HIDE DEF new
  <2>3. /\ Len(rows') = Len(rows) /\ rows'[i] = new
        /\ \A j \in 1..Len(rows) : j # i => rows'[j] = rows[j]
    BY <1>0, <1>1 DEF new
  <2> QED
    BY <1>0, <1>1, <2>2, <2>3 DEF ReportedWithCause
<1>2. CASE ~contains(row) /\ Full /\ Everything
  <2>1. rows' = <<>> /\ Len(rows') = 0
    BY <1>2 DEF Everything
  <2>2. CASE marked = Cells
    BY <1>0, <2>1, <2>2 DEF ReportedWithCause
  <2>3. CASE IsFiniteSet(MarkedRows)
    <3>1. IsFiniteSet(MarkedRows') /\ row \in MarkedRows'
      BY <1>0, <2>3, RowsMarked
    <3>2. \A i \in 1..Len(rows) : rows[i].row \in MarkedRows'
      <4> SUFFICES ASSUME NEW i \in 1..Len(rows) PROVE rows[i].row \in MarkedRows'
        OBVIOUS
      <4>1. <<rows[i].row, rows[i].start_col>> \in marked'
        BY <1>0
      <4>2. <<rows[i].row, rows[i].start_col>>[1] = rows[i].row
        OBVIOUS
      <4> QED
        BY <4>1, <4>2 DEF MarkedRows
    <3>3. Cardinality(MarkedRows') > MaxTracked
      BY <1>2, <3>1, <3>2, OverflowCounts
    <3> QED
      BY <2>1, <3>3 DEF ReportedWithCause
  <2> QED
    BY <2>2, <2>3 DEF TightInv
<1>3. ASSUME NEW k \in 0..Len(rows), UNCHANGED all_dirty,
             rows' = Inserted(k, [row |-> row, start_col |-> start, end_col |-> end])
      PROVE  ReportedWithCause'
  <2> DEFINE span == [row |-> row, start_col |-> start, end_col |-> end]
  <2>1. span \in DirtySpan /\ span.row = row /\ span.start_col = start /\ span.end_col = end
    BY <1>0 DEF DirtySpan
  <2>2. rows' = Inserted(k, span)
    BY <1>3
  <2> HIDE DEF span
  <2>3. /\ Len(rows') = Len(rows) + 1 /\ rows'[k+1] = span
        /\ \A i \in 1..k : rows'[i] = rows[i]
        /\ \A i \in k+2..Len(rows)+1 : rows'[i] = rows[i-1]
    <3>1. rows \in Seq(DirtySpan)
      BY <1>0
    <3> QED
      BY <2>1, <2>2, <3>1, InsertedElements
  <2>4. ASSUME NEW i \in 1..Len(rows')
        PROVE  rows'[i] = span \/ \E j \in 1..Len(rows) : rows'[i] = rows[j]
    <3>0. Len(rows) \in Nat
      BY <1>0
    <3>1. CASE i <= k
      <4>1. i \in 1..k /\ i \in 1..Len(rows)
        BY <2>3, <3>0, <3>1
      <4> QED
        BY <2>3, <4>1
    <3>2. CASE i = k + 1
      BY <2>3, <3>2
    <3>3. CASE i > k + 1
      <4>1. i \in k+2..Len(rows)+1 /\ i - 1 \in 1..Len(rows)
        BY <2>3, <3>0, <3>3
      <4> QED
        BY <2>3, <4>1
    <3> QED
      BY <3>0, <3>1, <3>2, <3>3
  <2>5. \A i \in 1..Len(rows') : <<rows'[i].row, rows'[i].start_col>> \in marked'
                                /\ <<rows'[i].row, rows'[i].end_col - 1>> \in marked'
    BY <1>0, <2>1, <2>4
  <2> QED
    BY <1>3, <2>5 DEF ReportedWithCause
<1> QED
  BY <1>1, <1>2, <1>3 DEF push_or_merge

(* One mark keeps the tracker tight.                                         *)
LEMMA MarkTight ==
  ASSUME Inv, TightInv, NEW row \in Rows, NEW start \in 0..ColMax, NEW end \in 0..ColMax,
         mark_range(row, start, end)
  PROVE  TightInv'
<1> USE TrackerAssumption
<1>0. /\ start \in Nat /\ end \in Nat /\ marked' = marked \cup ({row} \X (start..end-1))
      /\ marked' \subseteq Cells /\ marked \subseteq marked'
  BY DEF mark_range, Cells, Cols, Inv, TypeOK
<1>1. marked = Cells => marked' = Cells
  BY <1>0
<1>2. marked' = Cells \/ IsFiniteSet(MarkedRows')
  BY <1>0, <1>1, RowsMarked DEF TightInv
<1>3. CASE all_dirty \/ start >= end
  <2>1. UNCHANGED <<rows, all_dirty>>
    BY <1>3 DEF mark_range
  <2>2. all_dirty => marked' = Cells \/ Cardinality(MarkedRows') > MaxTracked
    <3> SUFFICES ASSUME all_dirty, marked # Cells PROVE Cardinality(MarkedRows') > MaxTracked
      BY <1>1
    <3>1. IsFiniteSet(MarkedRows) /\ Cardinality(MarkedRows) > MaxTracked
      BY DEF TightInv, ReportedWithCause
    <3>2. IsFiniteSet(MarkedRows') /\ Cardinality(MarkedRows) <= Cardinality(MarkedRows')
      BY <1>0, <3>1, RowsMarked
    <3>3. Cardinality(MarkedRows) \in Nat /\ Cardinality(MarkedRows') \in Nat
      BY <3>1, <3>2, FS_CardinalityType
    <3> QED
      BY <3>1, <3>2, <3>3
  <2>3. ReportedWithCause'
    BY <1>0, <2>1, <2>2 DEF TightInv, ReportedWithCause
  <2> QED
    BY <1>2, <2>3 DEF TightInv
<1>4. CASE ~all_dirty /\ start < end
  BY <1>0, <1>2, <1>4, PushTight DEF TightInv, mark_range
<1> QED
  BY <1>0, <1>3, <1>4

(* Every step keeps the tracker tight.                                       *)
LEMMA TightStep == Inv /\ TightInv /\ [Next]_vars => TightInv'
<1> SUFFICES ASSUME Inv, TightInv, [Next]_vars PROVE TightInv'
  OBVIOUS
<1> USE TrackerAssumption
<1>1. ASSUME NEW row \in Rows, NEW start \in 0..ColMax, NEW end \in 0..ColMax,
             mark_range(row, start, end)
      PROVE  TightInv'
  BY <1>1, MarkTight
<1>2. ASSUME NEW row \in Rows, NEW col \in 0..ColMax, mark_cell(row, col) PROVE TightInv'
  <2> DEFINE end == IF col = ColMax THEN ColMax ELSE col + 1
  <2>1. end \in 0..ColMax /\ mark_range(row, col, end)
    BY <1>2 DEF mark_cell
  <2> QED
    BY <2>1, MarkTight
<1>3. ASSUME NEW row \in Rows, mark_row(row) PROVE TightInv'
  <2>1. 0 \in 0..ColMax /\ ColMax \in 0..ColMax /\ mark_range(row, 0, ColMax)
    BY <1>3 DEF mark_row
  <2> QED
    BY <2>1, MarkTight
<1>4. CASE mark_all \/ resize
  <2>1. rows' = <<>> /\ Len(rows') = 0 /\ marked' = Cells
    BY <1>4 DEF mark_all, resize, Everything
  <2> QED
    BY <2>1 DEF TightInv, ReportedWithCause
<1>5. CASE take
  <2>1. marked' = {} /\ ~all_dirty'
    BY <1>5 DEF take, Inv, TypeOK
  <2>2. Len(rows') = 0
    <3>1. CASE all_dirty
      <4>1. 1..Len(rows) = {} /\ UNCHANGED rows
        BY <1>5, <3>1 DEF take, TightInv, ReportedWithCause
      <4>2. Len(rows) \in Nat
        BY DEF Inv, TypeOK
      <4> QED
        BY <4>1, <4>2
    <3>2. CASE ~all_dirty
      BY <1>5, <3>2 DEF take
    <3> QED
      BY <3>1, <3>2
  <2>3. MarkedRows' = {}
    BY <2>1 DEF MarkedRows
  <2> QED
    BY <2>1, <2>2, <2>3, FS_EmptySet DEF TightInv, ReportedWithCause
<1>6. CASE UNCHANGED vars
  BY <1>6 DEF vars, TightInv, ReportedWithCause, MarkedRows
<1> QED
  BY <1>1, <1>2, <1>3, <1>4, <1>5, <1>6 DEF Next

(* DamageTight for every capacity, any rows and any width: rows ascend, no   *)
(* span reaches past a mark, and All is reported only when the list          *)
(* overflowed or everything was marked (push_or_merge, mark_all, take).      *)
THEOREM NothingWasted == Spec => []DamageTight
<1>1. Init => TightInv
  <2> SUFFICES ASSUME Init PROVE TightInv
    OBVIOUS
  <2>1. Len(rows) = 0 /\ ~all_dirty /\ MarkedRows = {}
    BY DEF Init, MarkedRows
  <2> QED
    BY <2>1, FS_EmptySet DEF TightInv, ReportedWithCause
<1>2. Inv /\ TightInv => DamageTight
  BY DEF Inv, TightInv, DamageTight
<1> QED
  BY <1>1, <1>2, TightStep, TrackerInvariant, PTL DEF Spec
=============================================================================
